---------------------------- MODULE ExecInputProofs ----------------------------
(***************************************************************************)
(* Proofs about the inputs of a command in a sidecar worker, for any       *)
(* number of inputs and any limits of the queues: the session reads what   *)
(* was accepted, in order, and the queue never overflows.                  *)
(***************************************************************************)
EXTENDS ExecInput, TLAPS

-----------------------------------------------------------------------------
(* Queues.                                                                 *)

\* An input appended to the last of two queues is the last of both.
LEMMA ConcatAppend ==
    ASSUME NEW S, NEW s \in Seq(S), NEW q \in Seq(S), NEW e \in S
    PROVE  s \o Append(q, e) = Append(s \o q, e)
OBVIOUS

\* Moving the head of a queue to the end of the one before it changes nothing.
LEMMA ConcatTail ==
    ASSUME NEW S, NEW s \in Seq(S), NEW q \in Seq(S), q # <<>>
    PROVE  Append(s, Head(q)) \o Tail(q) = s \o q
OBVIOUS

\* What comes first is a prefix.
LEMMA ConcatPrefix ==
    ASSUME NEW S, NEW s \in Seq(S), NEW q \in Seq(S), NEW e \in S
    PROVE  /\ s \o q \in Seq(S) /\ Append(s, e) \in Seq(S)
           /\ Prefix(s, s \o q)
           /\ Prefix(s, Append(s, e) \o q)
BY DEF Prefix

\* What a queue holds after an Append.
LEMMA AppendElement ==
    ASSUME NEW T, NEW s \in Seq(T), NEW e \in T
    PROVE  \A i \in DOMAIN Append(s, e) : \/ i \in DOMAIN s /\ Append(s, e)[i] = s[i]
                                         \/ Append(s, e)[i] = e
OBVIOUS

\* A frame written to a stream joins those on it.
LEMMA SomeAppend ==
    ASSUME NEW T, NEW s \in Seq(T), NEW e \in T, NEW S
    PROVE  /\ Some(Append(s, e), S) <=> Some(s, S) \/ e \in S
           /\ AtMostOne(s, S) /\ (e \in S => ~Some(s, S)) => AtMostOne(Append(s, e), S)
<1>1. /\ DOMAIN s = 1..Len(s) /\ DOMAIN Append(s, e) = 1..(Len(s) + 1) /\ Len(s) \in Nat
      /\ Append(s, e)[Len(s) + 1] = e
    OBVIOUS
<1>2. \A i \in 1..Len(s) : Append(s, e)[i] = s[i]
    OBVIOUS
<1>3. \A i \in DOMAIN Append(s, e) : i \in DOMAIN s \/ i = Len(s) + 1
    BY <1>1
<1>4. Some(Append(s, e), S) => Some(s, S) \/ e \in S
    BY <1>1, <1>2, <1>3 DEF Some
<1>5. Some(s, S) \/ e \in S => Some(Append(s, e), S)
    BY <1>1, <1>2 DEF Some
<1>6. ASSUME AtMostOne(s, S), e \in S => ~Some(s, S) PROVE AtMostOne(Append(s, e), S)
    BY <1>1, <1>2, <1>3, <1>6 DEF Some, AtMostOne
<1> QED BY <1>4, <1>5, <1>6

\* A frame read from a stream leaves those behind it.
LEMMA SomeTail ==
    ASSUME NEW T, NEW s \in Seq(T), s # <<>>, NEW S
    PROVE  /\ Some(s, S) <=> Head(s) \in S \/ Some(Tail(s), S)
           /\ AtMostOne(s, S) => AtMostOne(Tail(s), S) /\ (Head(s) \in S => ~Some(Tail(s), S))
<1>1. /\ Len(s) \in Nat \ {0} /\ Head(s) = s[1]
      /\ DOMAIN s = 1..Len(s) /\ DOMAIN Tail(s) = 1..(Len(s) - 1)
    OBVIOUS
<1>2. \A i \in DOMAIN Tail(s) : i + 1 \in DOMAIN s /\ Tail(s)[i] = s[i + 1]
    BY <1>1
<1>3. \A i \in DOMAIN s : i # 1 => i - 1 \in DOMAIN Tail(s) /\ Tail(s)[i - 1] = s[i]
    BY <1>1
<1>4. Some(s, S) => Head(s) \in S \/ Some(Tail(s), S)
    BY <1>1, <1>3 DEF Some
<1>5. Head(s) \in S \/ Some(Tail(s), S) => Some(s, S)
    BY <1>1, <1>2 DEF Some
<1>6. ASSUME AtMostOne(s, S) PROVE AtMostOne(Tail(s), S) /\ (Head(s) \in S => ~Some(Tail(s), S))
    <2>1. ASSUME NEW i \in DOMAIN Tail(s), NEW j \in DOMAIN Tail(s), Tail(s)[i] \in S, Tail(s)[j] \in S
          PROVE  i = j
        <3>1. i + 1 = j + 1
            BY <1>2, <1>6, <2>1 DEF AtMostOne
        <3> QED BY <1>1, <3>1
    <2>2. ASSUME Head(s) \in S, NEW i \in DOMAIN Tail(s), Tail(s)[i] \in S PROVE FALSE
        <3>1. i + 1 = 1
            BY <1>1, <1>2, <1>6, <2>2 DEF AtMostOne
        <3> QED BY <1>1, <3>1
    <2> QED BY <2>1, <2>2 DEF AtMostOne, Some
<1> QED BY <1>4, <1>5, <1>6

-----------------------------------------------------------------------------
(* Types.                                                                  *)

\* A cancel is no input.
LEMMA CancelIsNoInput ==
    /\ [n |-> 0, kind |-> "cancel"] \in Frames /\ [n |-> 0, kind |-> "cancel"] \notin Inputs
    /\ \A f \in Frames : f.kind # "cancel" <=> f \in Inputs
BY DEF Frames, Inputs, Kinds

\* Frames, queues and flags keep their types.
LEMMA NextType == TypeOK /\ [Next]_vars => TypeOK'
<1> SUFFICES ASSUME TypeOK, [Next]_vars PROVE TypeOK'
    OBVIOUS
<1> USE DEF coordinator, queueing, observed
<1>1. ASSUME NEW kind \in Kinds, ForwardInput(kind) PROVE TypeOK'
    <2>1. sent + 1 \in Nat /\ [n |-> sent + 1, kind |-> kind] \in Frames
        BY DEF TypeOK, Frames, Inputs
    <2> QED BY <1>1, <2>1 DEF ForwardInput, TypeOK
<1>2. CASE waitExecInputAck
    BY <1>2 DEF waitExecInputAck, TypeOK
<1>3. CASE Receive
    <2>1. Head(toClient) \in {"ack", "done", "failed"} /\ toClient' \in Seq({"ack", "done", "failed"})
        BY <1>3 DEF Receive, TypeOK
    <2>2. inputAck' \in BOOLEAN /\ call' \in {"open", "done", "failed", "cancelled"}
        BY <1>3, <2>1 DEF Receive, TypeOK
    <2> QED BY <1>3, <2>1, <2>2 DEF Receive, TypeOK
<1>4. CASE CancelCall
    BY <1>4, CancelIsNoInput DEF CancelCall, TypeOK
<1>5. CASE sendInputWithDelivery
    <2> DEFINE x == Head(toWorker)
    <2>1. x \in Inputs /\ toWorker' \in Seq(Frames)
        BY <1>5, CancelIsNoInput DEF sendInputWithDelivery, TypeOK
    <2>2. UNCHANGED <<call, sender, sent, inputAck, done, forwarder, held, channel, delivered, taken>>
        BY <1>5 DEF sendInputWithDelivery
    <2>3. \/ Enqueue(x) \/ Refuse(x) \/ UNCHANGED <<toClient, queue, closed, waiting, accepted, refused>>
        BY <1>5 DEF sendInputWithDelivery
    <2> HIDE DEF x
    <2>4. CASE Enqueue(x)
        BY <2>1, <2>2, <2>4 DEF Enqueue, TypeOK
    <2>5. CASE Refuse(x)
        BY <2>1, <2>2, <2>5 DEF Refuse, TypeOK
    <2>6. CASE UNCHANGED <<toClient, queue, closed, waiting, accepted, refused>>
        BY <2>1, <2>2, <2>6 DEF TypeOK
    <2> QED BY <2>3, <2>4, <2>5, <2>6
<1>6. CASE CancelExec
    <2>1. toWorker' \in Seq(Frames)
        BY <1>6 DEF CancelExec, TypeOK
    <2>2. closed' \in BOOLEAN /\ done' \in BOOLEAN
        BY <1>6, Zenon DEF CancelExec, closeInputs, TypeOK
    <2> QED BY <1>6, <2>1, <2>2 DEF CancelExec, TypeOK
<1>7. CASE TakeInput
    BY <1>7 DEF TakeInput, TypeOK
<1>8. CASE Forward
    <2>1. held \in Inputs /\ delivered' = delivered \cup {held}
          /\ channel' \in {channel, Append(channel, held)} /\ forwarder' \in {"taking", "ended"}
        BY <1>8 DEF Forward, TypeOK
    <2>2. channel' \in Seq(Inputs) /\ delivered' \subseteq Inputs
        <3>1. channel \in Seq(Inputs) /\ Append(channel, held) \in Seq(Inputs) /\ delivered \subseteq Inputs
            BY <2>1 DEF TypeOK
        <3> QED BY <2>1, <3>1
    <2>3. UNCHANGED <<call, sender, sent, inputAck, toWorker, toClient, closed, done, queue, waiting,
                      accepted, taken>>
        BY <1>8 DEF Forward
    <2> QED BY <2>1, <2>2, <2>3 DEF TypeOK
<1>9. CASE ForwarderEnds
    BY <1>9 DEF ForwarderEnds, TypeOK
<1>10. ASSUME NEW x \in waiting, Acknowledge(x) \/ AcknowledgeTimeout(x) PROVE TypeOK'
    <2>1. toClient' \in Seq({"ack", "done", "failed"}) /\ waiting' \subseteq Inputs
        <3>1. toClient' \in {Append(toClient, "ack"), Append(toClient, "failed")}
              /\ waiting' = waiting \ {x}
            BY <1>10 DEF Acknowledge, AcknowledgeTimeout
        <3>2. /\ Append(toClient, "ack") \in Seq({"ack", "done", "failed"})
              /\ Append(toClient, "failed") \in Seq({"ack", "done", "failed"})
              /\ waiting \subseteq Inputs
            BY DEF TypeOK
        <3> QED BY <3>1, <3>2
    <2>2. closed' \in BOOLEAN /\ done' \in BOOLEAN
        BY <1>10, Zenon DEF Acknowledge, AcknowledgeTimeout, closeInputs, TypeOK
    <2> QED BY <1>10, <2>1, <2>2 DEF Acknowledge, AcknowledgeTimeout, TypeOK
<1>11. CASE SessionReads
    BY <1>11 DEF SessionReads, TypeOK
<1>12. CASE ExecReturns
    BY <1>12 DEF ExecReturns, TypeOK
<1>13. CASE ExecRemoved
    BY <1>13 DEF ExecRemoved, closeInputs, TypeOK
<1>14. CASE UNCHANGED vars
    BY <1>14 DEF vars, TypeOK
<1> QED BY <1>1, <1>2, <1>3, <1>4, <1>5, <1>6, <1>7, <1>8, <1>9, <1>10, <1>11, <1>12, <1>13, <1>14
        DEF Next

-----------------------------------------------------------------------------
(* Order.                                                                  *)

\* What the session has read and what its channel holds.
Read == taken \o channel

\* The types the proofs about the order use.
LEMMA OrderTypes ==
    ASSUME TypeOK
    PROVE  /\ taken \in Seq(Inputs) /\ channel \in Seq(Inputs) /\ queue \in Seq(Inputs)
           /\ accepted \in Seq(Inputs) /\ Read \in Seq(Inputs)
           /\ forwarder \in {"taking", "holding", "ended"}
           /\ forwarder = "holding" => held \in Inputs
<1>1. taken \in Seq(Inputs) /\ channel \in Seq(Inputs)
    BY DEF TypeOK
<1>2. Read \in Seq(Inputs)
    BY <1>1 DEF Read
<1> QED BY <1>2, Zenon DEF TypeOK

\* A new input goes to the end of the queue, and of what was accepted.
LEMMA EnqueueOrder ==
    ASSUME TypeOK, OrderInv, NEW x \in Inputs, Enqueue(x),
           UNCHANGED <<done, forwarder, held, channel, taken>>
    PROVE  OrderInv'
<1>1. Read' = Read /\ queue' = Append(queue, x) /\ accepted' = Append(accepted, x)
    BY DEF Enqueue, Read
<1>2. forwarder # "ended" /\ ~done /\ ~closed
    BY Zenon DEF Enqueue, OrderInv
<1>3. closed' <=> x.kind = "stdin_close"
    BY DEF Enqueue
<1>4. forwarder = "taking" => accepted' = Read' \o queue'
    <2> SUFFICES ASSUME forwarder = "taking" PROVE accepted' = Read' \o queue'
        OBVIOUS
    <2>1. accepted = Read \o queue
        BY DEF OrderInv, Read
    <2>2. Read \o Append(queue, x) = Append(Read \o queue, x)
        BY OrderTypes
    <2> QED BY <1>1, <2>1, <2>2
<1>5. forwarder = "holding" => accepted' = Append(Read', held) \o queue'
    <2> SUFFICES ASSUME forwarder = "holding" PROVE accepted' = Append(Read', held) \o queue'
        OBVIOUS
    <2> DEFINE a == Append(Read, held)
    <2>1. accepted = a \o queue
        BY DEF OrderInv, Read
    <2>2. a \in Seq(Inputs) /\ queue \in Seq(Inputs)
        BY OrderTypes
    <2>3. Append(Read', held) = a
        BY <1>1
    <2> HIDE DEF a
    <2>4. a \o Append(queue, x) = Append(a \o queue, x)
        BY <2>2, ConcatAppend
    <2> QED BY <1>1, <2>1, <2>3, <2>4
<1>6. /\ DOMAIN queue' = 1..(Len(queue) + 1) /\ Len(queue') = Len(queue) + 1
      /\ queue'[Len(queue) + 1] = x /\ DOMAIN queue = 1..Len(queue) /\ Len(queue) \in Nat
      /\ \A i \in 1..Len(queue) : queue'[i] = queue[i]
    BY <1>1, OrderTypes
<1>7. \A i \in DOMAIN queue : queue[i].kind # "stdin_close"
    BY <1>2 DEF OrderInv
<1>8. \A i \in DOMAIN queue' : queue'[i].kind = "stdin_close" => closed' /\ i = Len(queue')
    BY <1>3, <1>6, <1>7
<1>9. closed' => queue' # <<>> /\ queue'[Len(queue')].kind = "stdin_close"
    BY <1>3, <1>6
<1> QED BY <1>2, <1>4, <1>5, <1>8, <1>9 DEF OrderInv, Read

\* The forwarder takes the head of the queue into its hand, or ends at the
\* stdin_close, behind which there is nothing.
LEMMA TakeOrder ==
    ASSUME TypeOK, OrderInv, TakeInput
    PROVE  OrderInv' /\ (forwarder' = "ended" => InputsInOrder')
<1>1. /\ Read' = Read /\ forwarder = "taking" /\ queue # <<>> /\ queue' = Tail(queue)
      /\ accepted = Read \o queue /\ UNCHANGED <<accepted, closed, done>>
    BY DEF TakeInput, OrderInv, Read, observed
<1>2. /\ DOMAIN queue' = 1..(Len(queue) - 1) /\ Len(queue') = Len(queue) - 1
      /\ Len(queue) \in Nat \ {0} /\ DOMAIN queue = 1..Len(queue) /\ Head(queue) = queue[1]
      /\ \A i \in 1..(Len(queue) - 1) : queue'[i] = queue[i + 1]
      /\ Head(queue) \in Inputs
    BY <1>1, OrderTypes
<1>3. ASSUME NEW i \in DOMAIN queue', queue'[i].kind = "stdin_close"
      PROVE  closed' /\ i = Len(queue')
    <2>1. i + 1 \in DOMAIN queue /\ queue[i + 1].kind = "stdin_close" /\ i \in Nat
        BY <1>2, <1>3
    <2>2. closed /\ i + 1 = Len(queue)
        BY <2>1 DEF OrderInv
    <2> QED BY <1>1, <1>2, <2>1, <2>2
<1>4. CASE Head(queue).kind = "stdin_close"
    <2>0. forwarder' = "ended"
        BY <1>4 DEF TakeInput
    <2>1. forwarder' = "ended" /\ closed /\ Len(queue) = 1
        BY <1>2, <1>4, <2>0 DEF OrderInv
    <2>2. OrderInv'
        BY <1>1, <1>3, <2>1 DEF OrderInv
    <2>3. /\ Prefix(Read, Read \o queue) /\ Len(accepted) = Len(Read) + 1
          /\ accepted[Len(accepted)] = queue[1]
        BY <1>1, <1>2, <2>1, OrderTypes, ConcatPrefix
    <2> QED BY <1>1, <1>2, <1>4, <2>2, <2>3 DEF InputsInOrder, Read
<1>5. CASE Head(queue).kind # "stdin_close"
    <2>1. forwarder' = "holding" /\ held' = Head(queue)
        BY <1>5 DEF TakeInput
    <2>2. accepted' = Append(Read', held') \o queue'
        BY <1>1, <2>1, OrderTypes, ConcatTail
    <2>3. closed' /\ ~done' => queue' # <<>> /\ queue'[Len(queue')].kind = "stdin_close"
        <3> SUFFICES ASSUME closed, ~done PROVE queue' # <<>> /\ queue'[Len(queue')].kind = "stdin_close"
            BY <1>1
        <3>1. queue[Len(queue)].kind = "stdin_close"
            BY <1>1 DEF OrderInv
        <3>2. Len(queue) # 1
            BY <1>2, <1>5, <3>1
        <3>3. Len(queue') \in Nat \ {0} /\ queue'[Len(queue')] = queue[Len(queue)]
            BY <1>2, <3>2
        <3> QED BY <1>2, <3>1, <3>3
    <2>4. done' => closed'
        BY <1>1 DEF OrderInv
    <2> QED BY <1>3, <2>1, <2>2, <2>3, <2>4 DEF OrderInv, Read
<1> QED BY <1>4, <1>5

\* The input in the forwarder's hand goes to the end of the channel, or is
\* dropped because the command is over.
LEMMA ForwardOrder ==
    ASSUME TypeOK, OrderInv, InputsInOrder, Forward
    PROVE  OrderInv' /\ (forwarder' = "ended" => InputsInOrder')
<1>1. /\ forwarder = "holding" /\ held \in Inputs /\ accepted = Append(Read, held) \o queue
    BY OrderTypes DEF Forward, OrderInv, Read
<1>0. UNCHANGED <<accepted, taken, closed, done, queue>>
    BY DEF Forward, observed
<1>2. CASE channel' = Append(channel, held) /\ forwarder' = "taking"
    <2>1. Read' = Append(Read, held)
        <3>1. taken \o Append(channel, held) = Append(taken \o channel, held)
            BY <1>1, OrderTypes, ConcatAppend
        <3> QED BY <1>0, <1>2, <3>1 DEF Read
    <2>2. accepted' = (taken \o channel)' \o queue'
        BY <1>0, <1>1, <2>1 DEF Read
    <2> QED BY <1>0, <1>1, <1>2, <2>2 DEF OrderInv
<1>3. CASE done /\ forwarder' = "ended" /\ UNCHANGED channel
    <2>1. OrderInv'
        BY <1>0, <1>1, <1>3 DEF OrderInv
    <2>2. InputsInOrder'
        BY <1>0, <1>1, <1>3 DEF InputsInOrder
    <2> QED BY <2>1, <2>2
<1> QED BY <1>2, <1>3 DEF Forward

\* Reading moves an input from the channel's head to the end of what was read.
LEMMA SessionReadsOrder ==
    ASSUME TypeOK, SessionReads
    PROVE  Read' = Read
<1>1. channel # <<>> /\ taken' = Append(taken, Head(channel)) /\ channel' = Tail(channel)
    BY DEF SessionReads
<1> QED BY <1>1, OrderTypes, ConcatTail DEF Read

\* Until the forwarder has ended, the order gives what the session may read.
LEMMA OrderGivesPrefix == TypeOK /\ OrderInv /\ forwarder # "ended" => InputsInOrder
<1> SUFFICES ASSUME TypeOK, OrderInv, forwarder # "ended" PROVE InputsInOrder
    OBVIOUS
<1>1. CASE forwarder = "taking"
    <2>1. Prefix(Read, Read \o queue)
        <3>1. Read \in Seq(Inputs) /\ queue \in Seq(Inputs)
            BY OrderTypes
        <3> QED BY <3>1 DEF Prefix
    <2> QED BY <1>1, <2>1 DEF OrderInv, InputsInOrder, Read
<1>2. CASE forwarder = "holding"
    <2>1. Prefix(Read, Append(Read, held) \o queue)
        <3>1. Read \in Seq(Inputs) /\ queue \in Seq(Inputs) /\ held \in Inputs
            BY <1>2, OrderTypes
        <3> QED BY <3>1, ConcatPrefix
    <2> QED BY <1>2, <2>1 DEF OrderInv, InputsInOrder, Read
<1> QED BY <1>1, <1>2, OrderTypes

\* Every step keeps the order, and what the session reads stays a prefix of it.
LEMMA NextOrder ==
    TypeOK /\ OrderInv /\ InputsInOrder /\ [Next]_vars => OrderInv' /\ InputsInOrder'
<1> SUFFICES ASSUME TypeOK, OrderInv, InputsInOrder, [Next]_vars PROVE OrderInv' /\ InputsInOrder'
    OBVIOUS
<1> USE DEF coordinator, queueing, observed
<1>0. TypeOK'
    BY NextType
<1>a. (TypeOK /\ OrderInv /\ forwarder # "ended" => InputsInOrder)'
    BY OrderGivesPrefix, PTL
<1>b. ASSUME UNCHANGED <<forwarder, accepted, queue, held>>, Read' = Read,
             UNCHANGED <<closed, done>> \/ closeInputs
      PROVE  OrderInv' /\ InputsInOrder'
    <2>1. (taken \o channel)' = taken \o channel
        BY <1>b DEF Read
    <2>2. OrderInv'
        BY <1>b, <2>1 DEF OrderInv, closeInputs
    <2>3. InputsInOrder'
        BY <1>b, <2>1 DEF InputsInOrder, closeInputs
    <2> QED BY <2>2, <2>3
<1>1. CASE sendInputWithDelivery
    <2> DEFINE x == Head(toWorker)
    <2>1. x \in Inputs
        BY <1>1, CancelIsNoInput DEF sendInputWithDelivery, TypeOK
    <2>2. UNCHANGED <<done, forwarder, held, channel, taken>>
        BY <1>1 DEF sendInputWithDelivery
    <2>3. Enqueue(x) \/ UNCHANGED <<queue, closed, accepted>>
        BY <1>1 DEF sendInputWithDelivery, Refuse
    <2> HIDE DEF x
    <2>4. CASE Enqueue(x)
        <3>1. OrderInv'
            BY <2>1, <2>2, <2>4, EnqueueOrder
        <3>2. forwarder' # "ended"
            BY <2>2, <2>4 DEF Enqueue, OrderInv
        <3> QED BY <1>0, <1>a, <3>1, <3>2
    <2>5. CASE UNCHANGED <<queue, closed, accepted>>
        BY <1>b, <2>2, <2>5 DEF Read
    <2> QED BY <2>3, <2>4, <2>5
<1>2. CASE TakeInput
    BY <1>0, <1>a, <1>2, TakeOrder
<1>3. CASE Forward
    BY <1>0, <1>a, <1>3, ForwardOrder
<1>4. CASE ForwarderEnds
    <2>1. /\ forwarder = "taking" /\ queue = <<>> /\ closed /\ forwarder' = "ended"
          /\ UNCHANGED <<accepted, taken, channel, closed, done, queue>>
        BY <1>4 DEF ForwarderEnds
    <2>2. done
        BY <2>1 DEF OrderInv
    <2> QED BY <2>1, <2>2 DEF OrderInv, InputsInOrder
<1>5. CASE SessionReads
    <2>1. UNCHANGED <<forwarder, accepted, queue, held, closed, done>>
        BY <1>5 DEF SessionReads
    <2> QED BY <1>5, <1>b, <2>1, SessionReadsOrder
<1>6. CASE /\ UNCHANGED <<forwarder, accepted, queue, held, taken, channel>>
           /\ UNCHANGED <<closed, done>> \/ closeInputs
    BY <1>6, <1>b DEF Read
<1> QED BY <1>1, <1>2, <1>3, <1>4, <1>5, <1>6
        DEF Next, vars, ForwardInput, waitExecInputAck, Receive, CancelCall, CancelExec, Acknowledge,
            AcknowledgeTimeout, ExecReturns, ExecRemoved

-----------------------------------------------------------------------------
(* One input at a time.                                                    *)

\* What writing a frame to the stream to the worker does.
LEMMA WritesFrame ==
    ASSUME TypeOK, NEW f \in Frames, toWorker' = Append(toWorker, f)
    PROVE  /\ Some(toWorker', Inputs) <=> Some(toWorker, Inputs) \/ f \in Inputs
           /\ AtMostOne(toWorker, Inputs) /\ (f \in Inputs => ~Some(toWorker, Inputs))
                => AtMostOne(toWorker', Inputs)
<1>1. toWorker \in Seq(Frames)
    BY DEF TypeOK
<1> QED BY <1>1, SomeAppend

\* What reading a frame from it does.
LEMMA ReadsFrame ==
    ASSUME TypeOK, toWorker # <<>>, toWorker' = Tail(toWorker)
    PROVE  /\ Some(toWorker, Inputs) <=> Head(toWorker) \in Inputs \/ Some(toWorker', Inputs)
           /\ AtMostOne(toWorker, Inputs) => AtMostOne(toWorker', Inputs)
           /\ AtMostOne(toWorker, Inputs) /\ Head(toWorker) \in Inputs => ~Some(toWorker', Inputs)
           /\ Head(toWorker) \in Frames
<1>1. toWorker \in Seq(Frames)
    BY DEF TypeOK
<1> QED BY <1>1, SomeTail

\* What an answer of the worker does to the stream to the client.
LEMMA WritesAnswer ==
    ASSUME TypeOK, NEW a \in {"ack", "done", "failed"}, toClient' = Append(toClient, a)
    PROVE  /\ Some(toClient', {"ack"}) <=> Some(toClient, {"ack"}) \/ a = "ack"
           /\ AtMostOne(toClient, {"ack"}) /\ (a = "ack" => ~Some(toClient, {"ack"}))
                => AtMostOne(toClient', {"ack"})
<1>1. toClient \in Seq({"ack", "done", "failed"})
    BY DEF TypeOK
<1>2. a \in {"ack"} <=> a = "ack"
    OBVIOUS
<1> QED BY <1>1, <1>2, SomeAppend

\* What receiveLoop does to it.
LEMMA ReadsAnswer ==
    ASSUME TypeOK, toClient # <<>>, toClient' = Tail(toClient)
    PROVE  /\ Some(toClient, {"ack"}) <=> Head(toClient) = "ack" \/ Some(toClient', {"ack"})
           /\ AtMostOne(toClient, {"ack"}) => AtMostOne(toClient', {"ack"})
           /\ AtMostOne(toClient, {"ack"}) /\ Head(toClient) = "ack" => ~Some(toClient', {"ack"})
<1>1. toClient \in Seq({"ack", "done", "failed"})
    BY DEF TypeOK
<1>2. Head(toClient) \in {"ack"} <=> Head(toClient) = "ack"
    OBVIOUS
<1> QED BY <1>1, <1>2, SomeTail

\* An input moves from the stream to the queue to the acknowledgement, and the
\* coordinator sends the next one only when that has come back.
LEMMA NextOne == TypeOK /\ OneAtATime /\ [Next]_vars => OneAtATime'
<1> SUFFICES ASSUME TypeOK, OneAtATime, [Next]_vars PROVE OneAtATime'
    OBVIOUS
<1> USE DEF coordinator, queueing, observed
<1>1. ASSUME NEW kind \in Kinds, ForwardInput(kind) PROVE OneAtATime'
    <2> DEFINE x == [n |-> sent + 1, kind |-> kind]
    <2>1. x \in Inputs /\ x \in Frames /\ toWorker' = Append(toWorker, x)
        BY <1>1 DEF TypeOK, Inputs, Frames, ForwardInput
    <2>2. sender = "ready" /\ sender' # "ready" /\ UNCHANGED <<toClient, waiting, inputAck>>
        BY <1>1 DEF ForwardInput
    <2> HIDE DEF x
    <2> QED BY <2>1, <2>2, WritesFrame DEF OneAtATime
<1>2. CASE waitExecInputAck
    <2>1. UNCHANGED <<toWorker, toClient, waiting>>
        BY <1>2 DEF waitExecInputAck
    <2>2. CASE ~inputAck
        <3>1. sender' = "ended" /\ UNCHANGED inputAck
            BY <1>2, <2>2 DEF waitExecInputAck
        <3> QED BY <2>1, <3>1 DEF OneAtATime
    <2>3. CASE inputAck
        <3>1. inputAck' = FALSE \/ sender' = "ended"
            BY <1>2 DEF waitExecInputAck
        <3> QED BY <2>1, <2>3, <3>1 DEF OneAtATime
    <2> QED BY <2>2, <2>3
<1>3. CASE Receive
    <2>1. toClient # <<>> /\ toClient' = Tail(toClient) /\ UNCHANGED <<toWorker, waiting, sender>>
          /\ (inputAck' => inputAck \/ Head(toClient) = "ack")
        BY <1>3 DEF Receive
    <2> QED BY <2>1, ReadsAnswer DEF OneAtATime
<1>4. CASE CancelCall
    <2> DEFINE f == [n |-> 0, kind |-> "cancel"]
    <2>1. f \in Frames /\ f \notin Inputs /\ toWorker' = Append(toWorker, f)
          /\ UNCHANGED <<toClient, waiting, inputAck, sender>>
        BY <1>4, CancelIsNoInput DEF CancelCall
    <2> HIDE DEF f
    <2> QED BY <2>1, WritesFrame DEF OneAtATime
<1>5. CASE sendInputWithDelivery
    <2>1. toWorker # <<>> /\ toWorker' = Tail(toWorker) /\ Head(toWorker).kind # "cancel"
          /\ UNCHANGED <<inputAck, sender>>
          /\ \/ waiting' = waiting \cup {Head(toWorker)} /\ UNCHANGED toClient
             \/ UNCHANGED waiting /\ toClient' \in {toClient, Append(toClient, "failed")}
        BY <1>5 DEF sendInputWithDelivery, Enqueue, Refuse
    <2>2. Head(toWorker) \in Inputs
        BY <2>1, ReadsFrame, CancelIsNoInput
    <2>3. Some(toClient', {"ack"}) => Some(toClient, {"ack"})
        BY <2>1, WritesAnswer
    <2>4. AtMostOne(toClient, {"ack"}) => AtMostOne(toClient', {"ack"})
        BY <2>1, WritesAnswer
    <2> QED BY <2>1, <2>2, <2>3, <2>4, ReadsFrame DEF OneAtATime
<1>6. CASE CancelExec
    <2>1. toWorker # <<>> /\ toWorker' = Tail(toWorker) /\ UNCHANGED <<toClient, inputAck, sender, waiting>>
        BY <1>6 DEF CancelExec
    <2> QED BY <2>1, ReadsFrame DEF OneAtATime
<1>7. ASSUME NEW x \in waiting, Acknowledge(x) PROVE OneAtATime'
    <2>1. waiting' = waiting \ {x} /\ toClient' = Append(toClient, "ack")
          /\ UNCHANGED <<toWorker, inputAck, sender>>
        BY <1>7 DEF Acknowledge
    <2>2. waiting' = {} /\ ~Some(toClient, {"ack"}) /\ ~inputAck /\ ~Some(toWorker, Inputs)
          /\ sender # "ready"
        BY <1>7, <2>1 DEF OneAtATime
    <2> QED BY <2>1, <2>2, WritesAnswer DEF OneAtATime
<1>8. ASSUME NEW x \in waiting, AcknowledgeTimeout(x) PROVE OneAtATime'
    <2>1. waiting' = waiting \ {x} /\ toClient' = Append(toClient, "failed")
          /\ UNCHANGED <<toWorker, inputAck, sender>>
        BY <1>8 DEF AcknowledgeTimeout
    <2>2. Some(toClient', {"ack"}) <=> Some(toClient, {"ack"})
        BY <2>1, WritesAnswer
    <2>3. AtMostOne(toClient, {"ack"}) => AtMostOne(toClient', {"ack"})
        BY <2>1, WritesAnswer
    <2> QED BY <2>1, <2>2, <2>3 DEF OneAtATime
<1>9. CASE ExecReturns
    <2>1. PICK a \in {"done", "failed"} : toClient' = Append(toClient, a)
        BY <1>9 DEF ExecReturns
    <2>2. Some(toClient', {"ack"}) <=> Some(toClient, {"ack"})
        BY <2>1, WritesAnswer
    <2>3. AtMostOne(toClient, {"ack"}) => AtMostOne(toClient', {"ack"})
        BY <2>1, WritesAnswer
    <2>4. UNCHANGED <<toWorker, waiting, inputAck, sender>>
        BY <1>9 DEF ExecReturns
    <2> QED BY <2>2, <2>3, <2>4 DEF OneAtATime
<1>10. CASE UNCHANGED <<toWorker, toClient, waiting, inputAck, sender>>
    BY <1>10 DEF OneAtATime
<1> QED BY <1>1, <1>2, <1>3, <1>4, <1>5, <1>6, <1>7, <1>8, <1>9, <1>10
        DEF Next, vars, TakeInput, Forward, ForwarderEnds, SessionReads, ExecRemoved

-----------------------------------------------------------------------------
(* The input on the stream is new.                                         *)

\* What a step that leaves the stream and the queue alone keeps.
LEMMA FreshKept ==
    ASSUME FreshInv, UNCHANGED <<toWorker, sent, delivered, queue, forwarder, held>>
    PROVE  FreshInv'
BY DEF FreshInv, Older

\* Inputs are numbered as they are sent, and only one is on the stream.
LEMMA NextFresh == TypeOK /\ OneAtATime /\ FreshInv /\ [Next]_vars => FreshInv'
<1> SUFFICES ASSUME TypeOK, OneAtATime, FreshInv, [Next]_vars PROVE FreshInv'
    OBVIOUS
<1> USE DEF coordinator, queueing, observed
<1>t. toWorker \in Seq(Frames) /\ sent \in Nat /\ queue \in Seq(Inputs) /\ delivered \subseteq Inputs
    BY DEF TypeOK
<1>n. \A x \in Inputs : x.n \in Nat
    BY DEF Inputs
<1>1. ASSUME NEW kind \in Kinds, ForwardInput(kind) PROVE FreshInv'
    <2> DEFINE x == [n |-> sent + 1, kind |-> kind]
    <2>1. x \in Inputs /\ x \in Frames /\ x.n = sent + 1 /\ toWorker' = Append(toWorker, x)
        BY <1>1, <1>t DEF Inputs, Frames, ForwardInput
    <2>2. sent' = sent + 1 /\ UNCHANGED <<delivered, queue, forwarder, held>> /\ ~Some(toWorker, Inputs)
        BY <1>1 DEF ForwardInput, OneAtATime
    <2> HIDE DEF x
    <2>3. ASSUME NEW i \in DOMAIN toWorker', toWorker'[i] \in Inputs PROVE toWorker'[i].n = sent'
        <3>1. (i \in DOMAIN toWorker /\ toWorker'[i] = toWorker[i]) \/ toWorker'[i] = x
            BY <1>t, <2>1, AppendElement
        <3> QED BY <2>1, <2>2, <2>3, <3>1 DEF Some
    <2>4. ASSUME NEW y \in Inputs, Older(y) PROVE Older(y)'
        BY <1>t, <1>n, <2>2, <2>4 DEF Older
    <2>5. \A y \in delivered' : Older(y)'
        BY <1>t, <2>2, <2>4 DEF FreshInv
    <2>6. \A i \in DOMAIN queue' : Older(queue[i])'
        <3> SUFFICES ASSUME NEW i \in DOMAIN queue PROVE Older(queue[i])'
            BY <2>2
        <3>1. queue[i] \in Inputs /\ Older(queue[i]) /\ queue'[i] = queue[i]
            BY <1>t, <2>2 DEF FreshInv
        <3> QED BY <1>n, <1>t, <2>2, <3>1 DEF Older
    <2>7. forwarder' = "holding" => Older(held)'
        <3> SUFFICES ASSUME forwarder = "holding" PROVE Older(held)'
            BY <2>2
        <3>1. held \in Inputs /\ Older(held) /\ held' = held
            BY <2>2 DEF FreshInv, TypeOK
        <3> QED BY <1>n, <1>t, <2>2, <3>1 DEF Older
    <2> QED BY <2>3, <2>5, <2>6, <2>7 DEF FreshInv
<1>2. CASE CancelCall
    <2> DEFINE f == [n |-> 0, kind |-> "cancel"]
    <2>1. f \in Frames /\ f \notin Inputs /\ toWorker' = Append(toWorker, f)
          /\ UNCHANGED <<sent, delivered, queue, forwarder, held>>
        BY <1>2, CancelIsNoInput DEF CancelCall
    <2> HIDE DEF f
    <2>2. Some(toWorker', Inputs) <=> Some(toWorker, Inputs)
        BY <2>1, WritesFrame
    <2>3. ASSUME NEW i \in DOMAIN toWorker', toWorker'[i] \in Inputs PROVE toWorker'[i].n = sent'
        <3>1. (i \in DOMAIN toWorker /\ toWorker'[i] = toWorker[i]) \/ toWorker'[i] = f
            BY <1>t, <2>1, AppendElement
        <3> QED BY <2>1, <2>3, <3>1 DEF FreshInv
    <2> QED BY <2>1, <2>2, <2>3 DEF FreshInv, Older
<1>3. CASE CancelExec
    <2>1. toWorker # <<>> /\ toWorker' = Tail(toWorker) /\ Head(toWorker).kind = "cancel"
          /\ UNCHANGED <<sent, delivered, queue, forwarder, held>>
        BY <1>3 DEF CancelExec
    <2>2. Some(toWorker', Inputs) <=> Some(toWorker, Inputs)
        BY <2>1, ReadsFrame, CancelIsNoInput
    <2>3. \A i \in DOMAIN toWorker' : i + 1 \in DOMAIN toWorker /\ toWorker'[i] = toWorker[i + 1]
        BY <1>t, <2>1
    <2> QED BY <2>1, <2>2, <2>3 DEF FreshInv, Older
<1>4. CASE sendInputWithDelivery
    <2> DEFINE x == Head(toWorker)
    <2>1. toWorker # <<>> /\ toWorker' = Tail(toWorker) /\ x.kind # "cancel"
          /\ UNCHANGED <<sent, delivered, forwarder, held>> /\ queue' \in {queue, Append(queue, x)}
        BY <1>4 DEF sendInputWithDelivery, Enqueue, Refuse
    <2>2. x \in Inputs /\ ~Some(toWorker', Inputs)
        BY <2>1, ReadsFrame, CancelIsNoInput DEF OneAtATime
    <2>3. x.n = sent
        BY <1>t, <2>1, <2>2 DEF FreshInv
    <2> HIDE DEF x
    <2>4. ASSUME NEW i \in DOMAIN queue' PROVE Older(queue[i])'
        <3>1. (i \in DOMAIN queue /\ queue'[i] = queue[i]) \/ queue'[i] = x
            <4>1. CASE queue' = queue
                BY <4>1
            <4>2. CASE queue' = Append(queue, x)
                BY <1>t, <2>2, <4>2, AppendElement
            <4> QED BY <2>1, <4>1, <4>2
        <3>2. queue'[i].n <= sent
            BY <1>t, <2>3, <3>1 DEF FreshInv, Older
        <3> QED BY <2>1, <2>2, <3>2 DEF Older
    <2>5. \A i \in DOMAIN toWorker' : toWorker'[i] \notin Inputs
        BY <2>2 DEF Some
    <2> QED BY <2>1, <2>2, <2>4, <2>5 DEF FreshInv, Older
<1>5. CASE TakeInput
    <2>1. queue # <<>> /\ queue' = Tail(queue) /\ UNCHANGED <<toWorker, sent>>
          /\ delivered' \subseteq delivered \cup {Head(queue)}
          /\ (forwarder' = "holding" => held' = Head(queue))
        BY <1>5 DEF TakeInput
    <2>2. Older(Head(queue)) /\ \A i \in DOMAIN queue' : i + 1 \in DOMAIN queue /\ queue'[i] = queue[i + 1]
        BY <1>t, <2>1 DEF FreshInv
    <2> QED BY <2>1, <2>2 DEF FreshInv, Older
<1>6. CASE Forward
    <2>1. UNCHANGED <<toWorker, sent, queue, held>> /\ forwarder = "holding" /\ forwarder' # "holding"
          /\ delivered' = delivered \cup {held}
        BY <1>6 DEF Forward
    <2> QED BY <2>1 DEF FreshInv, Older
<1>7. CASE ForwarderEnds
    <2>1. UNCHANGED <<toWorker, sent, queue, held, delivered>> /\ forwarder' # "holding"
        BY <1>7 DEF ForwarderEnds
    <2> QED BY <2>1 DEF FreshInv, Older
<1>8. CASE UNCHANGED <<toWorker, sent, delivered, queue, forwarder, held>>
    BY <1>8, FreshKept
<1> QED BY <1>1, <1>2, <1>3, <1>4, <1>5, <1>6, <1>7, <1>8
        DEF Next, vars, waitExecInputAck, Receive, Acknowledge, AcknowledgeTimeout, SessionReads,
            ExecReturns, ExecRemoved

-----------------------------------------------------------------------------
(* The queue.                                                              *)

\* When an input arrives the queue is closed or empty, and the input is new.
LEMMA ArrivesAlone ==
    ASSUME TypeOK, OneAtATime, FreshInv, QueueInv, sendInputWithDelivery, ~closed
    PROVE  /\ Head(toWorker) \in Inputs /\ Head(toWorker) \notin delivered
           /\ queue = <<>> /\ forwarder # "holding"
<1>1. toWorker \in Seq(Frames) /\ toWorker # <<>> /\ sent \in Nat /\ delivered \subseteq Inputs
    BY DEF TypeOK, sendInputWithDelivery
<1>2. Head(toWorker) \in Inputs
    BY <1>1, CancelIsNoInput DEF sendInputWithDelivery
<1>3. Some(toWorker, Inputs) /\ Head(toWorker).n = sent
    BY <1>1, <1>2 DEF Some, FreshInv
<1>4. Head(toWorker) \notin delivered
    BY <1>1, <1>3 DEF FreshInv, Older
<1>5. waiting = {}
    BY <1>3 DEF OneAtATime
<1> QED BY <1>2, <1>4, <1>5 DEF QueueInv

\* An open queue holds at most the one input that is waited for.
LEMMA NextQueue ==
    TypeOK /\ OrderInv /\ OneAtATime /\ FreshInv /\ QueueInv /\ [Next]_vars => QueueInv'
<1> SUFFICES ASSUME TypeOK, OrderInv, OneAtATime, FreshInv, QueueInv, [Next]_vars, ~closed'
             PROVE  QueueInv'
    BY DEF QueueInv
<1> USE DEF coordinator, queueing, observed
<1>t. queue \in Seq(Inputs)
    BY DEF TypeOK
<1>1. CASE sendInputWithDelivery
    <2> DEFINE x == Head(toWorker)
    <2>1. UNCHANGED <<forwarder, held, delivered>>
        BY <1>1 DEF sendInputWithDelivery
    <2>2. Enqueue(x) \/ UNCHANGED <<queue, closed, waiting>>
        BY <1>1 DEF sendInputWithDelivery, Refuse
    <2>3. CASE Enqueue(x)
        <3>1. ~closed /\ queue' = Append(queue, x) /\ waiting' = waiting \cup {x}
            BY <2>3 DEF Enqueue
        <3>2. x \in Inputs /\ x \notin delivered /\ queue = <<>> /\ forwarder # "holding"
            BY <1>1, <3>1, ArrivesAlone
        <3>3. forwarder = "taking"
            BY <3>1, <3>2 DEF TypeOK, OrderInv
        <3> HIDE DEF x
        <3>4. Len(queue') = 1 /\ queue'[1] = x
            BY <3>1, <3>2
        <3> QED BY <2>1, <3>1, <3>2, <3>3, <3>4 DEF QueueInv
    <2>4. CASE UNCHANGED <<queue, closed, waiting>>
        BY <2>1, <2>4 DEF QueueInv
    <2> QED BY <2>2, <2>3, <2>4
<1>2. CASE TakeInput
    <2>1. ~closed /\ queue # <<>> /\ queue' = Tail(queue) /\ UNCHANGED waiting
        BY <1>2 DEF TakeInput
    <2>2. Len(queue) = 1 /\ queue[1] \in waiting \ delivered
        BY <2>1 DEF QueueInv
    <2>3. Head(queue) = queue[1] /\ queue' = <<>> /\ 1 \in DOMAIN queue
        BY <1>t, <2>1, <2>2
    <2>4. Head(queue).kind # "stdin_close"
        BY <2>1, <2>3 DEF OrderInv
    <2>5. held' = Head(queue) /\ UNCHANGED delivered
        BY <1>2, <2>4 DEF TakeInput
    <2> QED BY <2>1, <2>2, <2>3, <2>5 DEF QueueInv
<1>3. CASE Forward
    <2>1. UNCHANGED <<closed, queue>> /\ forwarder = "holding" /\ forwarder' # "holding"
        BY <1>3 DEF Forward
    <2>2. queue = <<>>
        BY <2>1 DEF QueueInv
    <2> QED BY <2>1, <2>2 DEF QueueInv
<1>4. CASE ForwarderEnds
    BY <1>4 DEF ForwarderEnds
<1>5. ASSUME NEW x \in waiting, Acknowledge(x) PROVE QueueInv'
    <2>1. UNCHANGED <<closed, queue, forwarder, held, delivered>> /\ x \in delivered /\ waiting' = waiting \ {x}
        BY <1>5 DEF Acknowledge
    <2> QED BY <2>1 DEF QueueInv
<1>6. ASSUME NEW x \in waiting, AcknowledgeTimeout(x) PROVE QueueInv'
    BY <1>6 DEF AcknowledgeTimeout, closeInputs
<1>7. CASE CancelExec
    <2>1. UNCHANGED <<closed, queue, forwarder, held, delivered, waiting>>
        BY <1>7 DEF CancelExec, closeInputs
    <2> QED BY <2>1 DEF QueueInv
<1>8. CASE ExecRemoved
    BY <1>8 DEF ExecRemoved, closeInputs
<1>9. CASE UNCHANGED <<closed, queue, forwarder, held, delivered, waiting>>
    BY <1>9 DEF QueueInv
<1> QED BY <1>1, <1>2, <1>3, <1>4, <1>5, <1>6, <1>7, <1>8, <1>9
        DEF Next, vars, ForwardInput, waitExecInputAck, Receive, CancelCall, SessionReads, ExecReturns

\* Every limit leaves room for one input.
LEMMA RoomForOne == \A kind : Limit(kind) \in Nat /\ Limit(kind) > 0
<1>1. StdinLimit \in Nat /\ StdinLimit > 0 /\ ControlLimit \in Nat /\ ControlLimit > 0
      /\ Capacity \in Nat /\ Capacity > 0
    BY ConstantsAssumption
<1> QED BY <1>1 DEF Limit

\* An input is refused only by a queue that is closed.
LEMMA NextNeverFull ==
    TypeOK /\ OneAtATime /\ FreshInv /\ QueueInv /\ NeverFull /\ [Next]_vars => NeverFull'
<1> SUFFICES ASSUME TypeOK, OneAtATime, FreshInv, QueueInv, NeverFull, [Next]_vars
             PROVE  NeverFull'
    OBVIOUS
<1> USE DEF coordinator, queueing, observed
<1>1. CASE sendInputWithDelivery /\ Refuse(Head(toWorker))
    <2>1. closed
        <3> SUFFICES ASSUME ~closed PROVE FALSE
            OBVIOUS
        <3>1. queue = <<>>
            BY <1>1, ArrivesAlone
        <3>2. Len(queue) >= Limit(Head(toWorker).kind)
            BY <1>1 DEF Refuse
        <3> QED BY <3>1, <3>2, RoomForOne
    <2>2. refused' = refused \cup {[input |-> Head(toWorker), full |-> ~closed]}
        BY <1>1 DEF Refuse
    <2>3. ~[input |-> Head(toWorker), full |-> ~closed].full
        BY <2>1
    <2> QED BY <2>2, <2>3, Zenon DEF NeverFull
<1>2. CASE UNCHANGED refused
    BY <1>2 DEF NeverFull
<1> QED BY <1>1, <1>2
        DEF Next, vars, ForwardInput, waitExecInputAck, Receive, CancelCall, sendInputWithDelivery,
            Enqueue, CancelExec, TakeInput, Forward, ForwarderEnds, Acknowledge, AcknowledgeTimeout,
            SessionReads, ExecReturns, ExecRemoved

-----------------------------------------------------------------------------
(* The theorems.                                                           *)

\* Before the command's first input nothing is under way.
LEMMA InitIndInv == Init => IndInv
<1> SUFFICES ASSUME Init PROVE IndInv
    OBVIOUS
<1>1. toWorker = <<>> /\ toClient = <<>> /\ queue = <<>> /\ channel = <<>> /\ accepted = <<>>
      /\ taken = <<>> /\ forwarder = "taking" /\ waiting = {} /\ delivered = {} /\ refused = {}
    BY DEF Init
<1>2. ~inputAck /\ ~closed /\ ~done
    BY Zenon DEF Init
<1>3. TypeOK
    <2>1. inputAck \in BOOLEAN /\ closed \in BOOLEAN /\ done \in BOOLEAN
        BY Zenon DEF Init
    <2> QED BY <1>1, <2>1 DEF Init, TypeOK
<1>4. OrderInv
    BY <1>1, <1>2 DEF OrderInv
<1>5. InputsInOrder
    BY <1>1 DEF InputsInOrder, Prefix
<1>6. OneAtATime /\ FreshInv
    BY <1>1, <1>2 DEF OneAtATime, FreshInv, Some, AtMostOne
<1>7. QueueInv /\ NeverFull
    BY <1>1 DEF QueueInv, NeverFull
<1> QED BY <1>3, <1>4, <1>5, <1>6, <1>7 DEF IndInv

\* The inductive invariant of a command's input holds at every reachable state.
THEOREM Invariance == Spec => []IndInv
<1>1. IndInv /\ [Next]_vars => IndInv'
    <2> SUFFICES ASSUME IndInv, [Next]_vars PROVE IndInv'
        OBVIOUS
    <2> QED BY NextType, NextOrder, NextOne, NextFresh, NextQueue, NextNeverFull DEF IndInv
<1> QED BY InitIndInv, <1>1, PTL DEF Spec

\* The session of a command reads exactly what the worker accepted, in the order
\* it was sent and without a gap, and is told of the end only after all of it
\* (workerActiveExec: sendInputWithDelivery, forwardInputs), however the limits
\* and the command's end interleave with it.
THEOREM SessionReadsInOrder == Spec => []InputsInOrder
<1>1. IndInv => InputsInOrder
    BY DEF IndInv
<1> QED BY Invariance, <1>1, PTL

\* No input is ever refused because the worker's queue is full: waiting for each
\* acknowledgement (forwardExecInputs) keeps it within any limits that leave room
\* for one input.
THEOREM QueueNeverOverflows == Spec => []NeverFull
<1>1. IndInv => NeverFull
    BY DEF IndInv
<1> QED BY Invariance, <1>1, PTL
=============================================================================
