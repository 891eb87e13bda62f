------------------------------ MODULE MachineOps ------------------------------
(***************************************************************************)
(* The operations on one published machine (internal/vm/vm.go): adding a   *)
(* share or a port forward, flushing, reading the console, snapshotting    *)
(* the root file system, setting the balloon and running a command,        *)
(* against the stop of the machine.  VMManager models the registry these   *)
(* operations consult; here the machine's own locks are taken one at a     *)
(* time, in the order of the code: lifecycleMu and balloonMu are held      *)
(* across calls into the backend, m.mu and snapshotMu only around the few  *)
(* lines each action stands for.  A second machine under the same id is    *)
(* the same to these operations as none.                                   *)
(***************************************************************************)
EXTENDS Naturals, FiniteSets

CONSTANTS
    Ops,        \* requests in flight
    None,
    Stopper     \* runMachineStop's goroutine, as a holder of lifecycleMu

ASSUME ConstantsAssumption == None \notin Ops /\ Stopper \notin Ops /\ None # Stopper

\* AddShareTo and its like; SnapshotRootFS; SetInstanceBalloon; RunStreamIn, which
\* adds its shares under the lock and then runs; StreamIn, which only runs.
Kinds == {"operation", "snapshot", "balloon", "run", "exec"}

VARIABLES
    registered,     \* m.running[id] is this machine
    stopping,       \* machine.stopping
    stopper,        \* where runMachineStop is
    lifecycleMu,    \* its holder, or None
    balloonMu,      \* its holder, or None
    snapshotCancel, \* the snapshot that machine.snapshotCancel cancels, or None
    kind, pc,       \* [Ops -> ...]
    cancelled,      \* the snapshots a stop has cancelled
    inst,           \* the backend instance: up, closing, closed, down
    result,         \* [Ops -> what a command's caller is told]
    \* Observation only.
    cut,            \* the commands that failed while a stop closed the instance
    closeFailed     \* a stop has failed

vars == <<registered, stopping, stopper, lifecycleMu, balloonMu, snapshotCancel, kind, pc,
          cancelled, inst, result, cut, closeFailed>>

execVars == <<result, cut, closeFailed>>

Init ==
    /\ registered = TRUE /\ stopping = FALSE /\ stopper = "none"
    /\ lifecycleMu = None /\ balloonMu = None /\ snapshotCancel = None
    /\ kind \in [Ops -> Kinds]
    /\ pc = [o \in Ops |-> "idle"]
    /\ cancelled = {}
    /\ inst = "up"
    /\ result = [o \in Ops |-> "none"] /\ cut = {} /\ closeFailed = FALSE

Valid == registered /\ ~stopping

Goto(o, from, to) == pc[o] = from /\ pc' = [pc EXCEPT ![o] = to]

-----------------------------------------------------------------------------
(* lockMachineOperation and the operations under it.                       *)

\* The first look at the registry, which every operation takes.
Look(o) ==
    /\ Goto(o, "idle", IF ~Valid THEN "done" ELSE IF kind[o] = "exec" THEN "executing" ELSE "locking")
    /\ UNCHANGED <<registered, stopping, stopper, lifecycleMu, balloonMu, snapshotCancel, kind,
                   cancelled, inst, execVars>>

LockLifecycle(o) ==
    /\ kind[o] # "balloon" /\ lifecycleMu = None
    /\ Goto(o, "locking", "locked")
    /\ lifecycleMu' = o
    /\ UNCHANGED <<registered, stopping, stopper, balloonMu, snapshotCancel, kind, cancelled, inst, execVars>>

\* Mutant: the registry is not consulted again under the lock.
LookAgainNever(o) ==
    /\ kind[o] # "balloon"
    /\ Goto(o, "locked", IF kind[o] = "snapshot" THEN "arming" ELSE "working")
    /\ UNCHANGED <<registered, stopping, stopper, lifecycleMu, balloonMu, snapshotCancel, kind,
                   cancelled, inst, execVars>>

\* The second look: the machine may have been stopped while the lock was awaited.
LookAgain(o) ==
    /\ kind[o] # "balloon"
    /\ \/ /\ Valid
          /\ Goto(o, "locked", IF kind[o] = "snapshot" THEN "arming" ELSE "working")
          /\ UNCHANGED lifecycleMu
       \/ /\ ~Valid
          /\ Goto(o, "locked", "done")
          /\ lifecycleMu' = None
    /\ UNCHANGED <<registered, stopping, stopper, balloonMu, snapshotCancel, kind, cancelled, inst, execVars>>

\* SnapshotRootFS publishes how to cancel it, unless a stop has begun.
ArmSnapshot(o) ==
    /\ \/ /\ Valid
          /\ Goto(o, "arming", "working")
          /\ snapshotCancel' = o
          /\ UNCHANGED lifecycleMu
       \/ /\ ~Valid
          /\ Goto(o, "arming", "done")
          /\ lifecycleMu' = None
          /\ UNCHANGED snapshotCancel
    /\ UNCHANGED <<registered, stopping, stopper, balloonMu, kind, cancelled, inst, execVars>>

\* The backend call returns, and the snapshot's deferred function runs.
WorkReturns(o) ==
    /\ kind[o] # "balloon"
    /\ Goto(o, "working", "unlocking")
    /\ snapshotCancel' = IF kind[o] = "snapshot" THEN None ELSE snapshotCancel
    /\ UNCHANGED <<registered, stopping, stopper, lifecycleMu, balloonMu, kind, cancelled, inst, execVars>>

\* lifecycleMu is given back; RunStreamIn goes on without it, or fails because
\* its shares were refused.
Unlock(o) ==
    /\ \/ kind[o] # "run" /\ Goto(o, "unlocking", "done")
       \/ kind[o] = "run" /\ \E next \in {"executing", "failed"} : Goto(o, "unlocking", next)
    /\ lifecycleMu' = None
    /\ UNCHANGED <<registered, stopping, stopper, balloonMu, snapshotCancel, kind, cancelled, inst, execVars>>

-----------------------------------------------------------------------------
(* Commands: ExecStream holds no lock of the machine.                      *)

\* ExecStream returns: with an error when the instance is no longer up.
ExecReturns(o) ==
    /\ \/ /\ inst = "up"
          /\ Goto(o, "executing", "done")
          /\ result' = [result EXCEPT ![o] = "ok"]
          /\ UNCHANGED cut
       \/ /\ Goto(o, "executing", "failed")
          /\ cut' = IF inst \in {"closing", "closed"} THEN cut \cup {o} ELSE cut
          /\ UNCHANGED result
    /\ UNCHANGED <<registered, stopping, stopper, lifecycleMu, balloonMu, snapshotCancel, kind, cancelled,
                   inst, closeFailed>>

\* Mutant: only the registry is asked whether the machine is gone.
instanceIsGone(o) ==
    /\ Goto(o, "failed", "done")
    /\ result' = [result EXCEPT ![o] = IF ~registered THEN "stopped" ELSE "error"]
    /\ UNCHANGED <<registered, stopping, stopper, lifecycleMu, balloonMu, snapshotCancel, kind, cancelled,
                   inst, cut, closeFailed>>

\* A command that failed asks whether the machine was stopping.
instanceIsStopping(o) ==
    /\ Goto(o, "failed", "done")
    /\ result' = [result EXCEPT ![o] = IF ~Valid THEN "stopped" ELSE "error"]
    /\ UNCHANGED <<registered, stopping, stopper, lifecycleMu, balloonMu, snapshotCancel, kind, cancelled,
                   inst, cut, closeFailed>>

-----------------------------------------------------------------------------
(* SetInstanceBalloon.                                                     *)

LockBalloon(o) ==
    /\ kind[o] = "balloon" /\ balloonMu = None
    /\ Goto(o, "locking", "locked")
    /\ balloonMu' = o
    /\ UNCHANGED <<registered, stopping, stopper, lifecycleMu, snapshotCancel, kind, cancelled, inst, execVars>>

LookAgainBalloon(o) ==
    /\ kind[o] = "balloon"
    /\ \/ /\ Valid
          /\ Goto(o, "locked", "working")
          /\ UNCHANGED balloonMu
       \/ /\ ~Valid
          /\ Goto(o, "locked", "done")
          /\ balloonMu' = None
    /\ UNCHANGED <<registered, stopping, stopper, lifecycleMu, snapshotCancel, kind, cancelled, inst, execVars>>

\* SetBalloonMB returns.
BalloonReturns(o) ==
    /\ kind[o] = "balloon"
    /\ Goto(o, "working", "done")
    /\ balloonMu' = None
    /\ UNCHANGED <<registered, stopping, stopper, lifecycleMu, snapshotCancel, kind, cancelled, inst, execVars>>

-----------------------------------------------------------------------------
(* The stop of the machine.                                                *)

beginMachineStopLocked ==
    /\ registered /\ stopper \in {"none", "failed"}
    /\ stopping' = TRUE /\ stopper' = "locking"
    /\ cancelled' = IF snapshotCancel = None THEN cancelled ELSE cancelled \cup {snapshotCancel}
    /\ UNCHANGED <<registered, lifecycleMu, balloonMu, snapshotCancel, kind, pc, inst, execVars>>

\* Mutant: the stop also waits for the balloon request in flight.
StopLockBoth ==
    /\ stopper = "locking" /\ lifecycleMu = None /\ balloonMu = None
    /\ stopper' = "closing" /\ lifecycleMu' = Stopper
    /\ inst' = IF inst = "up" THEN "closing" ELSE inst
    /\ UNCHANGED <<registered, stopping, balloonMu, snapshotCancel, kind, pc, cancelled, execVars>>

\* lifecycleMu is taken, and instance.Close() entered.
StopLock ==
    /\ stopper = "locking" /\ lifecycleMu = None
    /\ stopper' = "closing" /\ lifecycleMu' = Stopper
    /\ inst' = IF inst = "up" THEN "closing" ELSE inst
    /\ UNCHANGED <<registered, stopping, balloonMu, snapshotCancel, kind, pc, cancelled, execVars>>

\* The VNC server and the instance are closed, or one of them is not.
StopClosed ==
    /\ stopper = "closing"
    /\ \/ stopper' = "closed" /\ inst' = "closed"
       \/ stopper' = "closeFailed" /\ inst' \in {IF inst = "closing" THEN "up" ELSE inst, "closed"}
    /\ lifecycleMu' = None
    /\ UNCHANGED <<registered, stopping, balloonMu, snapshotCancel, kind, pc, cancelled, execVars>>

\* The second critical section of runMachineStop.
StopPublishes ==
    /\ \/ /\ stopper = "closed"
          /\ stopper' = "stopped"
          /\ registered' = FALSE
          /\ UNCHANGED <<stopping, closeFailed>>
       \/ /\ stopper = "closeFailed"
          /\ stopper' = "failed"
          /\ stopping' = FALSE /\ closeFailed' = TRUE
          /\ UNCHANGED registered
    /\ UNCHANGED <<lifecycleMu, balloonMu, snapshotCancel, kind, pc, cancelled, inst, result, cut>>

\* The guest goes down by itself (external: the backend).
GuestExit ==
    /\ inst = "up"
    /\ inst' = "down"
    /\ UNCHANGED <<registered, stopping, stopper, lifecycleMu, balloonMu, snapshotCancel, kind, pc,
                   cancelled, execVars>>

\* watch unregisters a machine that went down, unless a stop is about.
Watch ==
    /\ inst = "down" /\ registered
    /\ ~stopping /\ stopper # "failed"
    /\ registered' = FALSE
    /\ UNCHANGED <<stopping, stopper, lifecycleMu, balloonMu, snapshotCancel, kind, pc, cancelled, inst, execVars>>

Operation(o) ==
    \/ Look(o) \/ LockLifecycle(o) \/ LookAgain(o) \/ ArmSnapshot(o) \/ Unlock(o)
    \/ LockBalloon(o) \/ LookAgainBalloon(o)
    \/ instanceIsStopping(o)

Next ==
    \/ \E o \in Ops : Operation(o) \/ WorkReturns(o) \/ BalloonReturns(o) \/ ExecReturns(o)
    \/ beginMachineStopLocked \/ StopLock \/ StopClosed \/ StopPublishes
    \/ GuestExit \/ Watch

Spec == Init /\ [][Next]_vars

\* Mutexes are handed on and Close returns.  A backend call of an operation
\* returns; a snapshot is only known to return once it is cancelled, a balloon
\* request or a command only once the instance is torn down.
Fairness ==
    /\ \A o \in Ops :
        /\ WF_vars(Operation(o))
        /\ SF_vars(LockLifecycle(o)) /\ SF_vars(LockBalloon(o))
        /\ WF_vars(kind[o] \in {"operation", "run"} /\ WorkReturns(o))
        /\ WF_vars(o \in cancelled /\ WorkReturns(o))
        /\ WF_vars(inst \in {"closing", "closed", "down"} /\ (BalloonReturns(o) \/ ExecReturns(o)))
    /\ SF_vars(StopLock) /\ WF_vars(StopClosed) /\ WF_vars(StopPublishes)

FairSpec == Spec /\ Fairness

-----------------------------------------------------------------------------
(* Properties.                                                             *)

\* The locks' holders and the goroutines' states have their types, and who is
\* inside a lock's region holds it.
TypeOK ==
    /\ registered \in BOOLEAN /\ stopping \in BOOLEAN
    /\ stopper \in {"none", "locking", "closing", "closed", "closeFailed", "stopped", "failed"}
    /\ lifecycleMu \in Ops \cup {None, Stopper} /\ balloonMu \in Ops \cup {None}
    /\ snapshotCancel \in Ops \cup {None}
    /\ kind \in [Ops -> Kinds]
    /\ pc \in [Ops -> {"idle", "locking", "locked", "arming", "working", "unlocking",
                    "executing", "failed", "done"}]
    /\ cancelled \subseteq Ops
    /\ inst \in {"up", "closing", "closed", "down"}
    /\ result \in [Ops -> {"none", "ok", "error", "stopped"}]
    /\ cut \subseteq Ops /\ closeFailed \in BOOLEAN
    \* The locks are held by those who are between taking and releasing them.
    /\ \A o \in Ops : pc[o] \in {"locked", "arming", "working", "unlocking"} =>
                        o = IF kind[o] = "balloon" THEN balloonMu ELSE lifecycleMu
    /\ \A o \in Ops : /\ pc[o] = "arming" => kind[o] = "snapshot"
                      /\ pc[o] = "unlocking" => kind[o] # "balloon"
                      /\ pc[o] # "done" => result[o] = "none"

\* No share, forward, flush or snapshot is at work in an instance that a stop is
\* closing or has closed, whenever it passed its first look at the registry.
NoWorkDuringClose ==
    \A o \in Ops : kind[o] # "balloon" /\ pc[o] = "working" => stopper \notin {"closing", "closed", "stopped"}

\* A stop that waits for a snapshot has cancelled it: none slips in between the
\* look at stopping and the publication of its cancel function.
StopCancelsSnapshot ==
    \A o \in Ops : stopping /\ kind[o] = "snapshot" /\ pc[o] = "working" => o \in cancelled

\* A caller whose command a stop cut off is told that the VM stopped, not the
\* backend's error, unless a stop has failed and left the machine registered.
CutCommandsSayStopped ==
    \A o \in cut : result[o] = "error" => closeFailed

\* A stop ends even if a balloon request hangs in the backend ("Do not wait
\* behind balloonMu") and a snapshot runs until it is cancelled.
StopEnds == stopping ~> ~stopping \/ ~registered

-----------------------------------------------------------------------------
(* The inductive invariant behind the safety properties.                   *)

\* A stop that has begun, and not failed, shows in machine.stopping.
StopShows == stopper \notin {"none", "failed"} => stopping

\* The stop holds lifecycleMu exactly while it closes.
StopHoldsLock == lifecycleMu = Stopper <=> stopper = "closing"

\* Past the second look, the stop is not past its lock.
PastLook ==
    \A o \in Ops :
        kind[o] # "balloon" /\ pc[o] \in {"arming", "working", "unlocking"} =>
            stopper \notin {"closing", "closed", "closeFailed", "stopped"}

\* A snapshot at work is the one that snapshotCancel cancels.
SnapshotArmed ==
    \A o \in Ops : kind[o] = "snapshot" /\ pc[o] = "working" => snapshotCancel = o

\* As long as no stop has failed, a closed instance means a stop.
ClosedMeansStop ==
    ~closeFailed =>
        /\ inst \in {"closing", "closed"} \/ cut # {} => stopping
        /\ \A o \in cut : result[o] # "error"

IndInv ==
    /\ TypeOK /\ StopShows /\ StopHoldsLock /\ PastLook /\ SnapshotArmed
    /\ StopCancelsSnapshot /\ ClosedMeansStop
===============================================================================
