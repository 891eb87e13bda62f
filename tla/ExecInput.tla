------------------------------- MODULE ExecInput -------------------------------
(***************************************************************************)
(* The input of one command that runs in a sidecar worker: the coordinator *)
(* (internal/vm/sidecar/client.go: forwardExecInputs, waitExecInputAck)    *)
(* sends one input and waits for its acknowledgement; the worker           *)
(* (internal/ccvmd/ccvmd.go: workerActiveExec) queues it, a goroutine      *)
(* forwards the queue to the session, and a goroutine per input answers    *)
(* once it was taken, or gives the command up.                             *)
(*                                                                         *)
(* An input is [n, kind], n counting the inputs of the command.  The end   *)
(* of the caller's channel is sent as a stdin_close, which is how the      *)
(* worker reads it.                                                        *)
(***************************************************************************)
EXTENDS Naturals, Sequences

CONSTANTS
    MaxInputs,          \* bound: inputs of the command
    StdinLimit,         \* workerExecStdinQueueLimit
    ControlLimit,       \* workerExecControlQueueLimit
    Capacity,           \* workerExecInputQueueCapacity
    ChannelCapacity     \* capacity of workerActiveExec.inputs

ASSUME ConstantsAssumption ==
    /\ MaxInputs \in Nat /\ ChannelCapacity \in Nat \ {0}
    /\ StdinLimit \in Nat \ {0} /\ ControlLimit \in Nat /\ Capacity \in Nat
    /\ StdinLimit <= ControlLimit /\ ControlLimit < Capacity

Kinds == {"stdin", "signal", "stdin_close"}
NoInput == [n |-> 0, kind |-> "none"]

VARIABLES
    \* The coordinator.
    call,           \* open, done, failed, cancelled
    sender,         \* forwardExecInputs: ready, awaiting, last, ended
    sent,           \* inputs sent
    inputAck,       \* call.inputAck holds an acknowledgement
    toWorker, toClient,
    \* The worker.
    exec,           \* running, answered, removed: StreamIn and its deferred functions
    cancelled,      \* the command's context is cancelled
    closed, done,   \* e.closed, and e.done is closed
    queue,          \* e.queue
    forwarder,      \* forwardInputs: taking, holding, ended
    held,           \* the input it holds
    channel,        \* e.inputs
    waiting,        \* inputs whose acknowledgeWorkerExecInput waits
    delivered,      \* inputs whose delivered channel is closed
    \* Observation only.
    accepted,       \* inputs the worker has queued, in order
    taken,          \* inputs the session has read, in order
    refused         \* inputs refused, with the reason

coordinator == <<call, sender, sent, inputAck>>
queueing == <<closed, done, queue, forwarder, held, channel, waiting, delivered>>
observed == <<accepted, taken, refused>>
vars == <<coordinator, toWorker, toClient, exec, cancelled, queueing, observed>>

Init ==
    /\ call = "open" /\ sender = "ready" /\ sent = 0 /\ inputAck = FALSE
    /\ toWorker = <<>> /\ toClient = <<>>
    /\ exec = "running" /\ cancelled = FALSE
    /\ closed = FALSE /\ done = FALSE /\ queue = <<>> /\ forwarder = "taking" /\ held = NoInput
    /\ channel = <<>> /\ waiting = {} /\ delivered = {}
    /\ accepted = <<>> /\ taken = <<>> /\ refused = {}

-----------------------------------------------------------------------------
(* The coordinator.                                                        *)

\* An input of the caller, or the end of its channel, goes on the stream.
ForwardInput(kind) ==
    /\ call = "open" /\ sender = "ready" /\ sent < MaxInputs
    /\ sent' = sent + 1
    /\ toWorker' = Append(toWorker, [n |-> sent + 1, kind |-> kind])
    /\ \/ sender' = "awaiting"
       \/ kind = "stdin_close" /\ sender' = "last"
    /\ UNCHANGED <<call, inputAck, toClient, exec, cancelled, queueing, observed>>

\* Mutant: only the acknowledgement ends the wait.
waitAckOnly ==
    /\ sender \in {"awaiting", "last"} /\ inputAck
    /\ inputAck' = FALSE
    /\ sender' = IF sender = "last" THEN "ended" ELSE "ready"
    /\ UNCHANGED <<call, sent, toWorker, toClient, exec, cancelled, queueing, observed>>

\* waitExecInputAck, and the end of the call's context.
waitExecInputAck ==
    /\ sender # "ended"
    /\ \/ /\ sender \in {"awaiting", "last"} /\ inputAck
          /\ inputAck' = FALSE
          /\ sender' = IF sender = "last" THEN "ended" ELSE "ready"
       \/ /\ call # "open"
          /\ sender' = "ended"
          /\ UNCHANGED inputAck
    /\ UNCHANGED <<call, sent, toWorker, toClient, exec, cancelled, queueing, observed>>

\* receiveLoop and ExecStream: acknowledgements and the terminal frame.
Receive ==
    /\ toClient # <<>>
    /\ toClient' = Tail(toClient)
    /\ inputAck' = (inputAck \/ (Head(toClient) = "ack" /\ call = "open"))
    /\ call' = IF Head(toClient) = "ack" \/ call # "open" THEN call ELSE Head(toClient)
    /\ UNCHANGED <<sender, sent, toWorker, exec, cancelled, queueing, observed>>

\* The caller's context ends: abortRequest.
CancelCall ==
    /\ call = "open"
    /\ call' = "cancelled"
    /\ toWorker' = Append(toWorker, [n |-> 0, kind |-> "cancel"])
    /\ UNCHANGED <<sender, sent, inputAck, toClient, exec, cancelled, queueing, observed>>

-----------------------------------------------------------------------------
(* The worker's frames.                                                    *)

Limit(kind) ==
    CASE kind = "stdin" -> StdinLimit
      [] kind = "stdin_close" -> Capacity
      [] OTHER -> ControlLimit

\* sendInputWithDelivery: the input is queued, or refused with an error frame
\* for the command.
Enqueue(input) ==
    /\ ~closed /\ Len(queue) < Limit(input.kind)
    /\ queue' = Append(queue, input)
    /\ closed' = (input.kind = "stdin_close")
    /\ waiting' = waiting \cup {input}
    /\ accepted' = Append(accepted, input)
    /\ UNCHANGED <<toClient, refused>>

Refuse(input) ==
    /\ closed \/ Len(queue) >= Limit(input.kind)
    /\ toClient' = Append(toClient, "failed")
    /\ refused' = refused \cup {[input |-> input, full |-> ~closed]}
    /\ UNCHANGED <<queue, closed, waiting, accepted>>

\* WorkerFrameExecInput; a command that is not active any more is not answered.
sendInputWithDelivery ==
    /\ toWorker # <<>> /\ Head(toWorker).kind # "cancel"
    /\ toWorker' = Tail(toWorker)
    /\ \/ exec # "removed" /\ (Enqueue(Head(toWorker)) \/ Refuse(Head(toWorker)))
       \/ exec = "removed" /\ UNCHANGED <<toClient, queue, closed, waiting, accepted, refused>>
    /\ UNCHANGED <<coordinator, exec, cancelled, done, forwarder, held, channel, delivered, taken>>

\* closeInputs.
closeInputs == done' = TRUE /\ closed' = TRUE

\* WorkerFrameCancel.
CancelExec ==
    /\ toWorker # <<>> /\ Head(toWorker).kind = "cancel"
    /\ toWorker' = Tail(toWorker)
    /\ \/ exec # "removed" /\ cancelled' = TRUE /\ closeInputs
       \/ exec = "removed" /\ UNCHANGED <<cancelled, closed, done>>
    /\ UNCHANGED <<coordinator, toClient, exec, queue, forwarder, held, channel, waiting, delivered, observed>>

-----------------------------------------------------------------------------
(* forwardInputs.                                                          *)

\* Mutant: the head of the queue is read and left there.
TakeInputLeaving ==
    /\ forwarder = "taking" /\ queue # <<>>
    /\ \/ /\ Head(queue).kind = "stdin_close"
          /\ delivered' = delivered \cup {Head(queue)}
          /\ forwarder' = "ended"
          /\ UNCHANGED held
       \/ /\ Head(queue).kind # "stdin_close"
          /\ forwarder' = "holding" /\ held' = Head(queue)
          /\ UNCHANGED delivered
    /\ UNCHANGED <<coordinator, toWorker, toClient, exec, cancelled, closed, done, queue, channel, waiting,
                   observed>>

\* The head of the queue is taken; a stdin_close ends the loop, and e.inputs is
\* closed behind it.
TakeInput ==
    /\ forwarder = "taking" /\ queue # <<>>
    /\ queue' = Tail(queue)
    /\ \/ /\ Head(queue).kind = "stdin_close"
          /\ delivered' = delivered \cup {Head(queue)}
          /\ forwarder' = "ended"
          /\ UNCHANGED held
       \/ /\ Head(queue).kind # "stdin_close"
          /\ forwarder' = "holding" /\ held' = Head(queue)
          /\ UNCHANGED delivered
    /\ UNCHANGED <<coordinator, toWorker, toClient, exec, cancelled, closed, done, channel, waiting, observed>>

\* The select: the session's channel takes the input, or the command is over and
\* the input is dropped; both count as delivered.
Forward ==
    /\ forwarder = "holding"
    /\ delivered' = delivered \cup {held}
    /\ \/ /\ Len(channel) < ChannelCapacity
          /\ channel' = Append(channel, held)
          /\ forwarder' = "taking"
       \/ done /\ forwarder' = "ended" /\ UNCHANGED channel
    /\ UNCHANGED <<coordinator, toWorker, toClient, exec, cancelled, closed, done, queue, held, waiting,
                   observed>>

ForwarderEnds ==
    /\ forwarder = "taking" /\ queue = <<>> /\ closed
    /\ forwarder' = "ended"
    /\ UNCHANGED <<coordinator, toWorker, toClient, exec, cancelled, closed, done, queue, held, channel, waiting,
                   delivered, observed>>

-----------------------------------------------------------------------------
(* acknowledgeWorkerExecInput, and the command.                            *)

\* Mutant: the input is acknowledged when it was queued.
AcknowledgeQueued(input) ==
    /\ input \in waiting
    /\ waiting' = waiting \ {input}
    /\ toClient' = Append(toClient, "ack")
    /\ UNCHANGED <<coordinator, toWorker, exec, cancelled, closed, done, queue, forwarder, held, channel, delivered,
                   observed>>

Acknowledge(input) ==
    /\ input \in waiting /\ input \in delivered
    /\ waiting' = waiting \ {input}
    /\ toClient' = Append(toClient, "ack")
    /\ UNCHANGED <<coordinator, toWorker, exec, cancelled, closed, done, queue, forwarder, held, channel, delivered,
                   observed>>

\* Five seconds have passed: the command is given up.
AcknowledgeTimeout(input) ==
    /\ input \in waiting
    /\ waiting' = waiting \ {input}
    /\ cancelled' = TRUE /\ closeInputs
    /\ toClient' = Append(toClient, "failed")
    /\ UNCHANGED <<coordinator, toWorker, exec, queue, forwarder, held, channel, delivered, observed>>

\* The session reads an input (external: the guest session).
SessionReads ==
    /\ exec = "running" /\ channel # <<>>
    /\ taken' = Append(taken, Head(channel))
    /\ channel' = Tail(channel)
    /\ UNCHANGED <<coordinator, toWorker, toClient, exec, cancelled, closed, done, queue, forwarder, held, waiting,
                   delivered, accepted, refused>>

\* serveWorkerExec: StreamIn returns and the terminal frame is sent; ...
ExecReturns ==
    /\ exec = "running"
    /\ exec' = "answered"
    /\ \E answer \in {"done", "failed"} : toClient' = Append(toClient, answer)
    /\ UNCHANGED <<coordinator, toWorker, cancelled, queueing, observed>>

\* ... then the deferred functions remove the command, close its inputs and
\* cancel its context.
ExecRemoved ==
    /\ exec = "answered"
    /\ exec' = "removed"
    /\ closeInputs /\ cancelled' = TRUE
    /\ UNCHANGED <<coordinator, toWorker, toClient, queue, forwarder, held, channel, waiting, delivered, observed>>

Next ==
    \/ \E kind \in Kinds : ForwardInput(kind)
    \/ waitExecInputAck \/ Receive \/ CancelCall
    \/ sendInputWithDelivery \/ CancelExec
    \/ TakeInput \/ Forward \/ ForwarderEnds
    \/ \E input \in waiting : Acknowledge(input) \/ AcknowledgeTimeout(input)
    \/ SessionReads \/ ExecReturns \/ ExecRemoved

Spec == Init /\ [][Next]_vars

\* Goroutines run and timers fire; a session is only known to return once its
\* context is cancelled, and need not read its inputs.
Fairness ==
    /\ WF_vars(waitExecInputAck) /\ WF_vars(Receive)
    /\ WF_vars(sendInputWithDelivery) /\ WF_vars(CancelExec)
    /\ WF_vars(TakeInput) /\ WF_vars(Forward) /\ WF_vars(ForwarderEnds)
    /\ WF_vars(\E input \in waiting : Acknowledge(input) \/ AcknowledgeTimeout(input))
    /\ WF_vars(cancelled /\ ExecReturns) /\ WF_vars(ExecRemoved)

FairSpec == Spec /\ Fairness

-----------------------------------------------------------------------------
(* Properties.                                                             *)

Prefix(s, t) == Len(s) <= Len(t) /\ s = SubSeq(t, 1, Len(s))

\* The session reads what the worker accepted, in order and without a gap, even
\* while the command is being given up; and unless the command is over it is told
\* of the end of its input (e.inputs is closed) only after all of it.
InputsInOrder ==
    /\ Prefix(taken \o channel, accepted)
    /\ forwarder = "ended" /\ ~done =>
        /\ Len(accepted) = Len(taken \o channel) + 1
        /\ accepted[Len(accepted)].kind = "stdin_close"

\* The coordinator's one-at-a-time keeps the worker's queue from overflowing, so
\* a command is never failed for the limits of the queue.
NeverFull == \A r \in refused : ~r.full

\* An input that was sent is acknowledged, or the call ends: the caller of an
\* input is never left waiting, even by a session that reads nothing.
InputsAnswered == sender \in {"awaiting", "last"} ~> sender \in {"ready", "ended"}

-----------------------------------------------------------------------------
(* The inductive invariant behind the safety properties.                   *)

Inputs == [n : Nat, kind : Kinds]
Frames == Inputs \cup {[n |-> 0, kind |-> "cancel"]}

\* Streams and queues hold what their names say, and the forwarder has an input
\* in its hand while it waits for the session's channel.
TypeOK ==
    /\ call \in {"open", "done", "failed", "cancelled"}
    /\ sender \in {"ready", "awaiting", "last", "ended"} /\ sent \in Nat /\ inputAck \in BOOLEAN
    /\ toWorker \in Seq(Frames) /\ toClient \in Seq({"ack", "done", "failed"})
    /\ closed \in BOOLEAN /\ done \in BOOLEAN
    /\ forwarder \in {"taking", "holding", "ended"}
    /\ forwarder = "holding" => held \in Inputs
    /\ queue \in Seq(Inputs) /\ channel \in Seq(Inputs)
    /\ accepted \in Seq(Inputs) /\ taken \in Seq(Inputs)
    /\ waiting \subseteq Inputs /\ delivered \subseteq Inputs

\* What was accepted is read, in the channel, in the forwarder's hand, or queued,
\* in this order; a stdin_close is the last of it and closes the queue.
OrderInv ==
    /\ forwarder = "taking" => accepted = (taken \o channel) \o queue
    /\ forwarder = "holding" => accepted = Append(taken \o channel, held) \o queue
    /\ \A i \in DOMAIN queue : queue[i].kind = "stdin_close" => closed /\ i = Len(queue)
    /\ closed /\ ~done /\ forwarder # "ended" =>
           queue # <<>> /\ queue[Len(queue)].kind = "stdin_close"
    /\ done \/ forwarder = "ended" => closed

\* Some, or at most one, of the frames on a stream is among those of S.
Some(s, S) == \E i \in DOMAIN s : s[i] \in S
AtMostOne(s, S) == \A i, j \in DOMAIN s : s[i] \in S /\ s[j] \in S => i = j

\* The coordinator has one input under way: on the stream, waiting for its
\* delivery, or answered.
OneAtATime ==
    /\ AtMostOne(toWorker, Inputs) /\ AtMostOne(toClient, {"ack"})
    /\ \A x, y \in waiting : x = y
    /\ Some(toWorker, Inputs) => waiting = {} /\ ~Some(toClient, {"ack"}) /\ ~inputAck
    /\ waiting # {} => ~Some(toClient, {"ack"}) /\ ~inputAck
    /\ Some(toClient, {"ack"}) => ~inputAck
    /\ sender = "ready" => ~Some(toWorker, Inputs) /\ waiting = {} /\ ~Some(toClient, {"ack"}) /\ ~inputAck

\* The input on the stream is newer than any that was queued.
Older(x) == x.n <= sent /\ (Some(toWorker, Inputs) => x.n < sent)

FreshInv ==
    /\ \A i \in DOMAIN toWorker : toWorker[i] \in Inputs => toWorker[i].n = sent
    /\ \A x \in delivered : Older(x)
    /\ \A i \in DOMAIN queue : Older(queue[i])
    /\ forwarder = "holding" => Older(held)

\* Until the queue is closed, what it holds has not been delivered and is waited
\* for, so that it is the one input under way.
QueueInv ==
    ~closed => /\ queue # <<>> => /\ Len(queue) = 1 /\ forwarder = "taking"
                                  /\ queue[1] \in waiting \ delivered
               /\ forwarder = "holding" => held \in waiting \ delivered

IndInv ==
    TypeOK /\ OrderInv /\ InputsInOrder /\ OneAtATime /\ FreshInv /\ QueueInv /\ NeverFull
===============================================================================
