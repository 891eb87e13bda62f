----------------------------- MODULE SidecarClient -----------------------------
(***************************************************************************)
(* The coordinator's end of a worker connection                            *)
(* (internal/vm/sidecar/client.go and WorkerCodec of protocol.go): calls   *)
(* multiplexed on one stream, one receive loop, a bounded frame buffer per *)
(* call, and the ways a call is given up: its context, its callback, its   *)
(* buffer, or the connection.                                              *)
(*                                                                         *)
(* The worker is what the client can rely on: it takes requests in the     *)
(* order of the stream, sends events and at most one terminal frame, and   *)
(* may end a cancelled request without a word (WorkerOperations models     *)
(* why).  A frame is <<call, type>>.                                       *)
(***************************************************************************)
EXTENDS Naturals, Sequences

CONSTANTS
    Calls,          \* request ids; each is used once (nextID)
    FrameBuffer,    \* capacity of call.frames
    MaxEvents       \* bound: events of one request

ASSUME ConstantsAssumption == FrameBuffer \in Nat \ {0} /\ MaxEvents \in Nat

VARIABLES
    \* The stream.
    conn,           \* "open" or "closed"
    toWorker, toClient,
    \* The client.
    receiving,      \* receiveLoop runs
    closed,         \* c.closed
    pending,        \* the keys of c.pending
    pc,             \* [Calls -> where call or ExecStream is]
    cause,          \* [Calls -> why it is giving up, or what it returned]
    frames,         \* [Calls -> Seq(frame types)]: call.frames
    terminalReady,  \* the calls whose terminalReady is closed
    aborting,       \* the calls whose aborting is closed
    aborter,        \* [Calls -> where finishAbortLiveCall is]
    done,           \* the calls whose done is closed
    ctxDone,        \* the calls whose context is done
    \* The worker.
    work,           \* [Calls -> none, running, ok, failed, silent]
    told,           \* the requests the worker has been told to cancel
    events          \* [Calls -> events sent]

client == <<receiving, closed, pending, pc, cause, frames, terminalReady, aborting, aborter, done, ctxDone>>
worker == <<work, told, events>>
vars == <<conn, toWorker, toClient, client, worker>>

Init ==
    /\ conn = "open" /\ toWorker = <<>> /\ toClient = <<>>
    /\ receiving = TRUE /\ closed = FALSE /\ pending = {}
    /\ pc = [c \in Calls |-> "idle"] /\ cause = [c \in Calls |-> "none"]
    /\ frames = [c \in Calls |-> <<>>]
    /\ terminalReady = {} /\ aborting = {} /\ done = {} /\ ctxDone = {}
    /\ aborter = [c \in Calls |-> "none"]
    /\ work = [c \in Calls |-> "none"] /\ told = {} /\ events = [c \in Calls |-> 0]

Terminal == {"done", "error"}

\* A call returns, and its deferred unregisterCall runs.
Return(c, why) ==
    /\ pc' = [pc EXCEPT ![c] = "returned"]
    /\ cause' = [cause EXCEPT ![c] = why]
    /\ pending' = pending \ {c}

-----------------------------------------------------------------------------
(* call and ExecStream up to the request on the stream.                    *)

registerCall(c) ==
    /\ pc[c] = "idle"
    /\ IF closed
       THEN pc' = [pc EXCEPT ![c] = "returned"] /\ cause' = [cause EXCEPT ![c] = "conn"]
            /\ UNCHANGED pending
       ELSE pc' = [pc EXCEPT ![c] = "sending"] /\ pending' = pending \cup {c}
            /\ UNCHANGED cause
    /\ UNCHANGED <<conn, toWorker, toClient, receiving, closed, frames, terminalReady, aborting, aborter,
                   done, ctxDone, worker>>

\* The stream is closed; what is on its way to the worker is out of sight.
CloseStream == conn' = "closed" /\ toWorker' = <<>>

\* WorkerCodec.SendContext: the frame is written; or the context ends while the
\* send slot is awaited; or the write fails and the stream is poisoned.
SendRequest(c) ==
    /\ pc[c] = "sending"
    /\ \/ /\ conn = "open"
          /\ toWorker' = Append(toWorker, <<c, "request">>)
          /\ pc' = [pc EXCEPT ![c] = "checking"]
          /\ UNCHANGED <<conn, cause, pending>>
       \/ c \in ctxDone /\ Return(c, "ctx") /\ UNCHANGED <<conn, toWorker>>
       \/ CloseStream /\ Return(c, "conn")
    /\ UNCHANGED <<toClient, receiving, closed, frames, terminalReady, aborting, aborter, done, ctxDone,
                   worker>>

-----------------------------------------------------------------------------
(* nextFrame and what its callers do with it.                              *)

\* Mutant: any terminal frame is a success.
TakeFrameAnyTerminal(c) ==
    /\ frames[c] # <<>>
    /\ frames' = [frames EXCEPT ![c] = Tail(@)]
    /\ \/ Head(frames[c]) = "event" /\ pc' = [pc EXCEPT ![c] = "callback"] /\ UNCHANGED <<cause, pending>>
       \/ Head(frames[c]) \in Terminal /\ Return(c, "nil")

\* A frame is taken from call.frames; an event is handed to the callback.
TakeFrame(c) ==
    /\ frames[c] # <<>>
    /\ frames' = [frames EXCEPT ![c] = Tail(@)]
    /\ \/ Head(frames[c]) = "event" /\ pc' = [pc EXCEPT ![c] = "callback"] /\ UNCHANGED <<cause, pending>>
       \/ Head(frames[c]) = "done" /\ Return(c, "nil")
       \/ Head(frames[c]) = "error" /\ Return(c, "error")

\* nextFrame returns call.result(): the callers abort if their context is done.
Failed(c, why) ==
    /\ UNCHANGED frames
    /\ IF c \in ctxDone
       THEN /\ pc' = [pc EXCEPT ![c] = "aborting"] /\ cause' = [cause EXCEPT ![c] = why]
            /\ UNCHANGED pending
       ELSE Return(c, why)

\* The callback returns, with an error that aborts the call or without.
CallbackReturns(c) ==
    /\ pc[c] = "callback"
    /\ \/ pc' = [pc EXCEPT ![c] = "checking"] /\ UNCHANGED cause
       \/ pc' = [pc EXCEPT ![c] = "aborting"] /\ cause' = [cause EXCEPT ![c] = "callback"]
    /\ UNCHANGED <<conn, toWorker, toClient, receiving, closed, pending, frames, terminalReady, aborting,
                   aborter, done, ctxDone, worker>>

\* <-call.aborting: from here only the end of the abort counts.
AwaitAbort(c) ==
    /\ pc' = [pc EXCEPT ![c] = "awaiting"]
    /\ UNCHANGED <<cause, pending, frames>>

AbortAwaited(c) ==
    /\ pc[c] = "awaiting" /\ c \in done
    /\ Failed(c, "aborted")
    /\ UNCHANGED <<conn, toWorker, toClient, receiving, closed, terminalReady, aborting, aborter, done,
                   ctxDone, worker>>

\* The three selects with a default, in their order.
NextFrameCheck(c) ==
    /\ pc[c] = "checking"
    /\ \/ c \in aborting /\ AwaitAbort(c)
       \/ c \notin aborting /\ c \in terminalReady /\ TakeFrame(c)
       \/ c \notin aborting \cup terminalReady /\ c \in done /\ Failed(c, "conn")
       \/ /\ c \notin aborting \cup terminalReady \cup done
          /\ pc' = [pc EXCEPT ![c] = "selecting"]
          /\ UNCHANGED <<cause, pending, frames>>
    /\ UNCHANGED <<conn, toWorker, toClient, receiving, closed, terminalReady, aborting, aborter, done,
                   ctxDone, worker>>

\* Mutant: the terminal frame is not looked for again.
ContextEndsBlindly(c) ==
    /\ c \in ctxDone
    /\ pc' = [pc EXCEPT ![c] = "aborting"] /\ cause' = [cause EXCEPT ![c] = "ctx"]
    /\ UNCHANGED <<pending, frames>>

\* The context ends the wait unless the terminal frame is there.
ContextEnds(c) ==
    /\ c \in ctxDone
    /\ \/ c \in terminalReady /\ TakeFrame(c)
       \/ /\ c \notin terminalReady
          /\ pc' = [pc EXCEPT ![c] = "aborting"] /\ cause' = [cause EXCEPT ![c] = "ctx"]
          /\ UNCHANGED <<pending, frames>>

\* The last select takes any of its cases that is ready.
NextFrameSelect(c) ==
    /\ pc[c] = "selecting"
    /\ \/ c \in aborting /\ AwaitAbort(c)
       \/ c \in done /\ Failed(c, "conn")
       \/ ContextEnds(c)
       \/ TakeFrame(c)
    /\ UNCHANGED <<conn, toWorker, toClient, receiving, closed, terminalReady, aborting, aborter, done,
                   ctxDone, worker>>

-----------------------------------------------------------------------------
(* Giving up.                                                              *)

\* Mutant: the calls are removed and not finished.
closePendingQuietly ==
    /\ closed' = TRUE
    /\ UNCHANGED done

\* closePending: every registered call is finished.
closePending ==
    /\ closed' = TRUE
    /\ done' = IF closed THEN done ELSE done \cup pending

\* abortRequest with sendCancel: the cancel is on the stream, or the connection
\* is quarantined.  The send slot may be taken for the whole second.
SendCancel(c) ==
    /\ conn = "open"
    /\ toWorker' = Append(toWorker, <<c, "cancel">>)
    /\ UNCHANGED <<conn, closed, done>>

quarantineCancellation ==
    /\ CloseStream
    /\ closePending

\* Mutant: a cancel that could not be delivered is forgotten.
abortRequestHoping(c) ==
    /\ pc[c] = "aborting"
    /\ SendCancel(c) \/ UNCHANGED <<conn, toWorker, closed, done>>
    /\ Return(c, cause[c])
    /\ UNCHANGED <<toClient, receiving, frames, terminalReady, aborting, aborter, ctxDone, worker>>

abortRequest(c) ==
    /\ pc[c] = "aborting"
    /\ \/ SendCancel(c) /\ Return(c, cause[c])
       \/ /\ quarantineCancellation
          /\ pc' = [pc EXCEPT ![c] = "returned"]
          /\ pending' = IF closed THEN pending \ {c} ELSE {}
          /\ UNCHANGED cause
    /\ UNCHANGED <<toClient, receiving, frames, terminalReady, aborting, aborter, ctxDone, worker>>

\* forwardExecInputs cannot write an input: the stream is poisoned and the call
\* aborted (abortLiveCall), once.
InputFails(c) ==
    /\ pc[c] \in {"checking", "selecting", "awaiting", "callback", "aborting"} /\ c \notin ctxDone
    /\ CloseStream
    /\ aborting' = aborting \cup {c}
    /\ aborter' = IF c \in aborting THEN aborter ELSE [aborter EXCEPT ![c] = "sending"]
    /\ UNCHANGED <<toClient, receiving, closed, pending, pc, cause, frames, terminalReady, done,
                   ctxDone, worker>>

\* finishAbortLiveCall, which an overflow starts too: the same, ...
AborterSends(c) ==
    /\ aborter[c] = "sending"
    /\ aborter' = [aborter EXCEPT ![c] = "failing"]
    /\ \/ SendCancel(c) /\ UNCHANGED pending
       \/ quarantineCancellation /\ pending' = IF closed THEN pending ELSE {}
    /\ UNCHANGED <<toClient, receiving, pc, cause, frames, terminalReady, aborting, ctxDone, worker>>

\* ... and then failCall.
failCall(c) ==
    /\ aborter[c] = "failing"
    /\ aborter' = [aborter EXCEPT ![c] = "none"]
    /\ pending' = pending \ {c}
    /\ done' = IF c \in pending THEN done \cup {c} ELSE done
    /\ UNCHANGED <<conn, toWorker, toClient, receiving, closed, pc, cause, frames, terminalReady, aborting,
                   ctxDone, worker>>

-----------------------------------------------------------------------------
(* receiveLoop.                                                            *)

\* Mutant: the loop waits for room in the call's buffer.
DeliverBlocking ==
    LET c == Head(toClient)[1]
        t == Head(toClient)[2]
    IN  /\ receiving /\ toClient # <<>>
        /\ c \in pending => Len(frames[c]) < FrameBuffer
        /\ toClient' = Tail(toClient)
        /\ frames' = IF c \in pending THEN [frames EXCEPT ![c] = Append(@, t)] ELSE frames
        /\ terminalReady' = IF c \in pending /\ t \in Terminal THEN terminalReady \cup {c} ELSE terminalReady
        /\ UNCHANGED <<conn, toWorker, receiving, closed, pending, pc, cause, done, ctxDone, worker, aborting,
                       aborter>>

\* A frame goes to its call's buffer; one that finds it full aborts the call,
\* once; one for no call is dropped.
Deliver ==
    LET c == Head(toClient)[1]
        t == Head(toClient)[2]
    IN  /\ receiving /\ toClient # <<>>
        /\ toClient' = Tail(toClient)
        /\ \/ /\ c \in pending /\ Len(frames[c]) < FrameBuffer
              /\ frames' = [frames EXCEPT ![c] = Append(@, t)]
              /\ terminalReady' = IF t \in Terminal THEN terminalReady \cup {c} ELSE terminalReady
              /\ UNCHANGED <<aborting, aborter>>
           \/ /\ c \in pending /\ Len(frames[c]) = FrameBuffer
              /\ aborting' = aborting \cup {c}
              /\ aborter' = IF c \in aborting THEN aborter ELSE [aborter EXCEPT ![c] = "sending"]
              /\ UNCHANGED <<frames, terminalReady>>
           \/ c \notin pending /\ UNCHANGED <<frames, terminalReady, aborting, aborter>>
        /\ UNCHANGED <<conn, toWorker, receiving, closed, pending, pc, cause, done, ctxDone, worker>>

\* Receive fails: frames that were on the stream may be lost with it.
ReceiveFails ==
    /\ receiving /\ conn = "closed"
    /\ receiving' = FALSE
    /\ closePending
    /\ pending' = IF closed THEN pending ELSE {}
    /\ toClient' = <<>>
    /\ UNCHANGED <<conn, toWorker, pc, cause, frames, terminalReady, aborting, aborter, ctxDone, worker>>

\* A caller's context ends (external: the caller).
CancelContext(c) ==
    /\ pc[c] \notin {"idle", "returned"} /\ c \notin ctxDone
    /\ ctxDone' = ctxDone \cup {c}
    /\ UNCHANGED <<conn, toWorker, toClient, receiving, closed, pending, pc, cause, frames, terminalReady,
                   aborting, aborter, done, worker>>

\* The worker dies, or Client.Close (external).
ConnectionEnds ==
    /\ conn = "open"
    /\ CloseStream
    /\ UNCHANGED <<toClient, client, worker>>

-----------------------------------------------------------------------------
(* The worker (external; see WorkerOperations).  Behind a closed connection *)
(* it is out of sight: nothing it does there reaches the client.           *)

WorkerReceives ==
    LET c == Head(toWorker)[1]
    IN  /\ conn = "open" /\ toWorker # <<>>
        /\ toWorker' = Tail(toWorker)
        /\ \/ Head(toWorker)[2] = "request" /\ work' = [work EXCEPT ![c] = "running"] /\ UNCHANGED told
           \/ Head(toWorker)[2] = "cancel" /\ told' = told \cup {c} /\ UNCHANGED work
        /\ UNCHANGED <<conn, toClient, client, events>>

ToClient(c, t) == toClient' = Append(toClient, <<c, t>>)

WorkerSends(c) ==
    /\ conn = "open" /\ work[c] = "running" /\ events[c] < MaxEvents
    /\ events' = [events EXCEPT ![c] = @ + 1]
    /\ ToClient(c, "event")
    /\ UNCHANGED <<conn, toWorker, client, work, told>>

WorkerEnds(c) ==
    /\ conn = "open" /\ work[c] = "running"
    /\ \/ work' = [work EXCEPT ![c] = "ok"] /\ ToClient(c, "done")
       \/ work' = [work EXCEPT ![c] = "failed"] /\ ToClient(c, "error")
       \/ /\ c \in told
          /\ work' = [work EXCEPT ![c] = "silent"] /\ UNCHANGED toClient
    /\ UNCHANGED <<conn, toWorker, client, told, events>>

Next ==
    \/ \E c \in Calls :
        \/ registerCall(c) \/ SendRequest(c) \/ NextFrameCheck(c) \/ NextFrameSelect(c)
        \/ AbortAwaited(c) \/ CallbackReturns(c)
        \/ abortRequest(c) \/ InputFails(c) \/ AborterSends(c) \/ failCall(c)
        \/ CancelContext(c)
        \/ WorkerSends(c) \/ WorkerEnds(c)
    \/ Deliver \/ ReceiveFails
    \/ ConnectionEnds \/ WorkerReceives

Spec == Init /\ [][Next]_vars

\* The client's goroutines run.  Nothing is assumed of the worker, nor of the
\* callbacks.
Fairness ==
    /\ \A c \in Calls :
        /\ WF_vars(SendRequest(c)) /\ WF_vars(NextFrameCheck(c)) /\ WF_vars(NextFrameSelect(c))
        /\ WF_vars(AbortAwaited(c))
        /\ WF_vars(abortRequest(c)) /\ WF_vars(AborterSends(c)) /\ WF_vars(failCall(c))
    /\ WF_vars(Deliver) /\ WF_vars(ReceiveFails)

FairSpec == Spec /\ Fairness

-----------------------------------------------------------------------------
(* Properties.                                                             *)

\* A frame is on a stream, or in a buffer.
Holds(s, f) == \E i \in DOMAIN s : s[i] = f

\* A call that returns nil was completed by the worker, and one that returns the
\* worker's error was refused by it, whatever else was going on.
AnswersAreTheWorkers ==
    \A c \in Calls : pc[c] = "returned" =>
        /\ cause[c] = "nil" => work[c] = "ok"
        /\ cause[c] = "error" => work[c] = "failed"

\* A request its caller has given up is never left running behind an open
\* connection: its cancel has arrived or is on the stream ("Once cancel delivery
\* is uncertain, the worker may still be mutating a VM and the multiplexed
\* stream is no longer safe to reuse").
AbandonedIsCancelled ==
    \A c \in Calls :
        /\ pc[c] = "returned" /\ conn = "open"
        /\ work[c] = "running" \/ Holds(toWorker, <<c, "request">>)
        => c \in told \/ Holds(toWorker, <<c, "cancel">>)

Decided(c, why) == pc[c] \in {"checking", "selecting"} /\ cause[c] = "none" /\ cause'[c] = why

\* A terminal frame that is queued wins over the caller's cancellation
\* (TestQueuedTerminalFrameWinsCallerCancellation).
TerminalBeatsCancellation ==
    [][\A c \in Calls : Decided(c, "ctx") => c \notin terminalReady]_vars

\* A call returns once its context ends (failCall) or the connection is gone
\* (closePending), whatever the worker does, unless its own callback never does.
CallsReturn ==
    \A c \in Calls :
        c \in ctxDone \/ (conn = "closed" /\ pc[c] # "idle") ~> pc[c] \in {"returned", "callback"}

\* A call that has stopped consuming its frames does not hold up the frames of
\* the others (TestWorkerCallOverflowDoesNotBlockUnrelatedCall): what the worker
\* puts on the stream is taken off it.
StreamDrains == toClient # <<>> ~> toClient = <<>> \/ ~receiving

-----------------------------------------------------------------------------
(* The inductive invariant behind the safety properties.                   *)

FrameTypes == Terminal \cup {"event"}

\* What is on the stream and in the buffers are frames, and every call is at one
\* of its waiting points.
TypeOK ==
    /\ conn \in {"open", "closed"}
    /\ toWorker \in Seq(Calls \X {"request", "cancel"})
    /\ toClient \in Seq(Calls \X FrameTypes)
    /\ pc \in [Calls -> {"idle", "sending", "checking", "selecting", "callback", "awaiting", "aborting",
                         "returned"}]
    /\ cause \in [Calls -> {"none", "nil", "error", "ctx", "conn", "callback", "aborted"}]
    /\ frames \in [Calls -> Seq(FrameTypes)]
    /\ aborter \in [Calls -> {"none", "sending", "failing"}]
    /\ work \in [Calls -> {"none", "running", "ok", "failed", "silent"}]

\* The frame is on the stream at most once.
Once(s, f) == \A i, j \in DOMAIN s : s[i] = f /\ s[j] = f => i = j

\* A call's request goes out once, and the worker takes it before it works.
RequestInv ==
    \A c \in Calls :
        /\ pc[c] \in {"idle", "sending"} =>
                work[c] = "none" /\ ~Holds(toWorker, <<c, "request">>)
        /\ Holds(toWorker, <<c, "request">>) => work[c] = "none"
        /\ Once(toWorker, <<c, "request">>)

\* A terminal frame, on the stream, in the buffer or taken, is the worker's answer.
AnswerInv ==
    \A c \in Calls :
        /\ \/ Holds(toClient, <<c, "done">>) \/ Holds(frames[c], "done") \/ cause[c] = "nil"
           => work[c] = "ok"
        /\ \/ Holds(toClient, <<c, "error">>) \/ Holds(frames[c], "error") \/ cause[c] = "error"
           => work[c] = "failed"

Cancelled(c) == c \in told \/ Holds(toWorker, <<c, "cancel">>)

\* Behind an open connection a call is failed only once its cancel is sent.
CancelInv ==
    conn = "open" => \A c \in Calls : aborter[c] = "failing" \/ c \in done => Cancelled(c)

IndInv == TypeOK /\ RequestInv /\ AnswerInv /\ CancelInv /\ AbandonedIsCancelled
===============================================================================
