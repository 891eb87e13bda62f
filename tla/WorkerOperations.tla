--------------------------- MODULE WorkerOperations ---------------------------
(***************************************************************************)
(* The worker's operation registry (internal/ccvmd/ccvmd.go:               *)
(* workerOperationRegistry and the dispatch loop serveWorkerControl).  One *)
(* goroutine per request frame; the requests that change a VM are chained  *)
(* by channels: each waits for the done channel of the request that was    *)
(* the tail of its VM's chain when it arrived.                             *)
(*                                                                         *)
(* A frame id is used for one request (the coordinator counts them up).    *)
(* The select of a queued request picks at random when both of its cases   *)
(* are ready, so a cancelled request may still run.                        *)
(***************************************************************************)
EXTENDS Naturals, Sequences, SequencesExt

CONSTANTS
    Frames,     \* request frames of one connection
    VMs,        \* VM keys (workerVMKey); None is the empty key of status, wait and console
    None

ASSUME ConstantsAssumption == None \notin Frames \cup VMs

VARIABLES
    connected,  \* serveWorkerControl's receive loop has not ended
    op,         \* [Frames -> where the request's goroutine is]
    vm,         \* [Frames -> VMs or None]
    previous,   \* [Frames -> the frame whose done channel it waits for, or None]
    cancelled,  \* the frames whose context is cancelled
    active,     \* r.active: the frames that cancel can reach
    closed,     \* the frames whose done channel is closed
    vmTails,    \* r.vmTails
    arrived     \* observation: the frames in order of arrival

vars == <<connected, op, vm, previous, cancelled, active, closed, vmTails, arrived>>

Ops == {"idle", "queued", "running", "returned", "finished"}

Init ==
    /\ connected = TRUE
    /\ op = [f \in Frames |-> "idle"]
    /\ vm = [f \in Frames |-> None] /\ previous = [f \in Frames |-> None]
    /\ cancelled = {} /\ active = {} /\ closed = {}
    /\ vmTails = [v \in VMs |-> None]
    /\ arrived = <<>>

-----------------------------------------------------------------------------
\* Mutant: a request does not join its VM's chain.
startUnchained(f, v) ==
    /\ connected /\ op[f] = "idle"
    /\ op' = [op EXCEPT ![f] = "queued"]
    /\ vm' = [vm EXCEPT ![f] = v]
    /\ active' = active \cup {f}
    /\ arrived' = Append(arrived, f)
    /\ UNCHANGED <<connected, previous, cancelled, closed, vmTails>>

\* startWithCleanup up to the go statement, for a frame serveWorkerControl has
\* decoded and validated.
startWithCleanup(f, v) ==
    /\ connected /\ op[f] = "idle"
    /\ op' = [op EXCEPT ![f] = "queued"]
    /\ vm' = [vm EXCEPT ![f] = v]
    /\ active' = active \cup {f}
    /\ IF v = None
       THEN UNCHANGED <<previous, vmTails>>
       ELSE /\ previous' = [previous EXCEPT ![f] = vmTails[v]]
            /\ vmTails' = [vmTails EXCEPT ![v] = f]
    /\ arrived' = Append(arrived, f)
    /\ UNCHANGED <<connected, cancelled, closed>>

\* The goroutine passes its select (or has nothing to wait for) and runs.
Run(f) ==
    /\ op[f] = "queued"
    /\ previous[f] \in closed \cup {None}
    /\ op' = [op EXCEPT ![f] = "running"]
    /\ UNCHANGED <<connected, vm, previous, cancelled, active, closed, vmTails, arrived>>

\* <-ctx.Done() of the select: the request returns without running.
GiveUp(f) ==
    /\ op[f] = "queued" /\ previous[f] # None
    /\ f \in cancelled
    /\ op' = [op EXCEPT ![f] = "returned"]
    /\ UNCHANGED <<connected, vm, previous, cancelled, active, closed, vmTails, arrived>>

\* run(ctx) returns, having answered the frame.
RunReturns(f) ==
    /\ op[f] = "running"
    /\ op' = [op EXCEPT ![f] = "returned"]
    /\ UNCHANGED <<connected, vm, previous, cancelled, active, closed, vmTails, arrived>>

\* The deferred functions: the frame leaves the registry, its done channel is
\* closed, and the tail is deleted if it is still this request's; then cleanup
\* and cancel.
Finish(f) ==
    /\ op[f] = "returned"
    /\ op' = [op EXCEPT ![f] = "finished"]
    /\ active' = active \ {f}
    /\ closed' = IF vm[f] = None THEN closed ELSE closed \cup {f}
    /\ vmTails' = [v \in VMs |-> IF vmTails[v] = f THEN None ELSE vmTails[v]]
    /\ cancelled' = cancelled \cup {f}
    /\ UNCHANGED <<connected, vm, previous, arrived>>

\* WorkerFrameCancel; a frame that is not active is ignored.
cancel(f) ==
    /\ connected /\ f \in active /\ f \notin cancelled
    /\ cancelled' = cancelled \cup {f}
    /\ UNCHANGED <<connected, op, vm, previous, active, closed, vmTails, arrived>>

\* Mutant: the connection ends and its requests go on.
closeOnly ==
    /\ connected
    /\ connected' = FALSE
    /\ UNCHANGED <<op, vm, previous, cancelled, active, closed, vmTails, arrived>>

\* The receive loop ends; the deferred close cancels all that is active.
close ==
    /\ connected
    /\ connected' = FALSE
    /\ cancelled' = cancelled \cup active
    /\ UNCHANGED <<op, vm, previous, active, closed, vmTails, arrived>>

Next ==
    \/ \E f \in Frames :
        \/ \E v \in VMs \cup {None} : startWithCleanup(f, v)
        \/ Run(f) \/ GiveUp(f) \/ RunReturns(f) \/ Finish(f)
        \/ cancel(f)
    \/ close

Spec == Init /\ [][Next]_vars

\* Goroutines that are not blocked run.  A request is only known to return once
\* its context is cancelled.
Fairness ==
    \A f \in Frames :
        /\ WF_vars(Run(f)) /\ WF_vars(GiveUp(f)) /\ WF_vars(Finish(f))
        /\ WF_vars(f \in cancelled /\ RunReturns(f))

FairSpec == Spec /\ Fairness

-----------------------------------------------------------------------------
(* Properties.                                                             *)

\* f arrived before g, for the same VM.
Before(f, g) ==
    /\ f # g /\ vm[f] = vm[g] /\ vm[f] # None
    /\ \E i, j \in DOMAIN arrived : i < j /\ arrived[i] = f /\ arrived[j] = g

\* A request that runs has every earlier request of its VM behind it, unless one
\* that arrived in between was cancelled while it was queued.
SerializedUnlessCancelled ==
    \A f, g \in Frames :
        Before(f, g) /\ op[g] = "running" =>
            \/ op[f] = "finished"
            \/ \E h \in cancelled : Before(f, h) /\ Before(h, g)

\* Once the connection is gone, every request's goroutine ends.
ConnectionEndsRequests ==
    ~connected ~> \A f \in Frames : op[f] \in {"idle", "finished"}
===============================================================================
