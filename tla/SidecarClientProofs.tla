-------------------------- MODULE SidecarClientProofs --------------------------
(***************************************************************************)
(* Proofs about the coordinator's end of a worker connection, for any      *)
(* number of calls, any frame buffer and any number of events: answers are *)
(* the worker's, and what is given up is cancelled.                        *)
(***************************************************************************)
EXTENDS SidecarClient, TLAPS

-----------------------------------------------------------------------------
(* Frames on a stream.                                                     *)

\* A frame written to a stream is on it, and changes nothing for the others.
LEMMA HoldsAppend ==
    ASSUME NEW S, NEW s \in Seq(S), NEW e \in S, NEW f
    PROVE  Holds(Append(s, e), f) <=> Holds(s, f) \/ f = e
<1>1. Len(Append(s, e)) = Len(s) + 1 /\ Append(s, e)[Len(s) + 1] = e
    OBVIOUS
<1>2. \A i \in 1..Len(s) : Append(s, e)[i] = s[i]
    OBVIOUS
<1>3. Holds(Append(s, e), f) => Holds(s, f) \/ f = e
    BY <1>1, <1>2 DEF Holds
<1>4. Holds(s, f) => Holds(Append(s, e), f)
    BY <1>1, <1>2 DEF Holds
<1>5. f = e => Holds(Append(s, e), f)
    BY <1>1 DEF Holds
<1> QED BY <1>3, <1>4, <1>5

\* A frame on a stream is the next to be read, or one of those behind it.
LEMMA HoldsTail ==
    ASSUME NEW S, NEW s \in Seq(S), s # <<>>, NEW f
    PROVE  Holds(s, f) <=> f = Head(s) \/ Holds(Tail(s), f)
<1>1. Len(s) \in Nat \ {0} /\ Len(Tail(s)) = Len(s) - 1 /\ Head(s) = s[1]
    OBVIOUS
<1>2. \A i \in 1..(Len(s) - 1) : Tail(s)[i] = s[i + 1]
    OBVIOUS
<1>3. ASSUME NEW i \in 1..Len(s), s[i] = f PROVE f = Head(s) \/ Holds(Tail(s), f)
    <2>1. CASE i = 1
        BY <1>1, <1>3, <2>1
    <2>2. CASE i # 1
        <3>1. i - 1 \in 1..(Len(s) - 1) /\ (i - 1) + 1 = i
            BY <1>1, <2>2
        <3>2. i - 1 \in DOMAIN Tail(s) /\ Tail(s)[i - 1] = f
            BY <1>1, <1>2, <1>3, <3>1
        <3> QED BY <3>2 DEF Holds
    <2> QED BY <2>1, <2>2
<1>4. ASSUME NEW i \in 1..(Len(s) - 1), Tail(s)[i] = f PROVE Holds(s, f)
    <2>1. i + 1 \in 1..Len(s) /\ s[i + 1] = f
        BY <1>1, <1>2, <1>4
    <2> QED BY <2>1 DEF Holds
<1>5. f = Head(s) => Holds(s, f)
    BY <1>1 DEF Holds
<1> QED BY <1>1, <1>3, <1>4, <1>5 DEF Holds

\* Nothing is on an empty stream.
LEMMA HoldsNothing == \A f : ~Holds(<<>>, f)
BY DEF Holds

\* A frame that is not on a stream is on it once when it is written.
LEMMA OnceAppend ==
    ASSUME NEW S, NEW s \in Seq(S), NEW e \in S, NEW f, Once(s, f), f = e => ~Holds(s, f)
    PROVE  Once(Append(s, e), f)
<1>1. DOMAIN s = 1..Len(s) /\ DOMAIN Append(s, e) = 1..(Len(s) + 1) /\ Len(s) \in Nat
    OBVIOUS
<1>2. \A i \in 1..Len(s) : Append(s, e)[i] = s[i]
    OBVIOUS
<1>3. Append(s, e)[Len(s) + 1] = e
    OBVIOUS
<1>4. f = e => \A i \in 1..Len(s) : s[i] # f
    BY DEF Holds
<1>5. \A i \in DOMAIN Append(s, e) : i \in 1..Len(s) \/ i = Len(s) + 1
    BY <1>1
<1> QED BY <1>1, <1>2, <1>3, <1>4, <1>5 DEF Once

\* A frame that is on a stream once is not behind itself.
LEMMA OnceTail ==
    ASSUME NEW S, NEW s \in Seq(S), s # <<>>, NEW f, Once(s, f)
    PROVE  Once(Tail(s), f) /\ (f = Head(s) => ~Holds(Tail(s), f))
<1>1. Len(s) \in Nat \ {0} /\ Len(Tail(s)) = Len(s) - 1 /\ Head(s) = s[1]
    OBVIOUS
<1>2. \A i \in 1..(Len(s) - 1) : Tail(s)[i] = s[i + 1]
    OBVIOUS
<1>3. DOMAIN s = 1..Len(s) /\ DOMAIN Tail(s) = 1..(Len(s) - 1)
    BY <1>1
<1>4. ASSUME NEW i \in 1..(Len(s) - 1), NEW j \in 1..(Len(s) - 1), Tail(s)[i] = f, Tail(s)[j] = f
      PROVE  i = j
    <2>1. i + 1 \in DOMAIN s /\ j + 1 \in DOMAIN s /\ s[i + 1] = f /\ s[j + 1] = f
        BY <1>1, <1>2, <1>3, <1>4
    <2>2. i + 1 = j + 1
        BY <2>1 DEF Once
    <2> QED BY <2>2
<1>5. ASSUME f = Head(s), NEW i \in 1..(Len(s) - 1), Tail(s)[i] = f PROVE FALSE
    <2>1. i + 1 \in DOMAIN s /\ 1 \in DOMAIN s /\ s[i + 1] = f /\ s[1] = f
        BY <1>1, <1>2, <1>3, <1>5
    <2>2. i + 1 = 1
        BY <2>1 DEF Once
    <2> QED BY <2>2
<1> QED BY <1>1, <1>3, <1>4, <1>5 DEF Once, Holds

-----------------------------------------------------------------------------
(* Types.                                                                  *)

\* The head of a stream to the worker is a request or a cancel of some call.
LEMMA HeadToWorker ==
    ASSUME TypeOK, toWorker # <<>>
    PROVE  /\ Head(toWorker)[1] \in Calls /\ Head(toWorker)[2] \in {"request", "cancel"}
           /\ Head(toWorker) = <<Head(toWorker)[1], Head(toWorker)[2]>>
           /\ Tail(toWorker) \in Seq(Calls \X {"request", "cancel"})
<1>1. toWorker \in Seq(Calls \X {"request", "cancel"})
    BY DEF TypeOK
<1>2. Head(toWorker) \in Calls \X {"request", "cancel"}
    BY <1>1
<1> QED BY <1>1, <1>2

\* The head of a stream to the client is a frame of some call.
LEMMA HeadToClient ==
    ASSUME TypeOK, toClient # <<>>
    PROVE  /\ Head(toClient)[1] \in Calls /\ Head(toClient)[2] \in FrameTypes
           /\ Head(toClient) = <<Head(toClient)[1], Head(toClient)[2]>>
           /\ Tail(toClient) \in Seq(Calls \X FrameTypes)
<1>1. toClient \in Seq(Calls \X FrameTypes)
    BY DEF TypeOK
<1>2. Head(toClient) \in Calls \X FrameTypes
    BY <1>1
<1> QED BY <1>1, <1>2

\* Streams, buffers and goroutines keep their types.
LEMMA NextType == TypeOK /\ [Next]_vars => TypeOK'
<1> SUFFICES ASSUME TypeOK, [Next]_vars PROVE TypeOK'
    OBVIOUS
<1> USE DEF client, worker
<1>a. ASSUME NEW c \in Calls, TakeFrame(c), UNCHANGED <<conn, toWorker, toClient, aborter, worker>>
      PROVE  TypeOK'
    <2>1. frames' \in [Calls -> Seq(FrameTypes)]
        BY <1>a DEF TakeFrame, TypeOK
    <2> QED BY <1>a, <2>1 DEF TakeFrame, TypeOK, Return
<1>b. ASSUME NEW c \in Calls, NEW why \in {"conn", "aborted"}, Failed(c, why),
             UNCHANGED <<conn, toWorker, toClient, aborter, worker>>
      PROVE  TypeOK'
    BY <1>b DEF Failed, TypeOK, Return
<1>c. ASSUME NEW c \in Calls, AwaitAbort(c), UNCHANGED <<conn, toWorker, toClient, aborter, worker>>
      PROVE  TypeOK'
    BY <1>c DEF AwaitAbort, TypeOK
<1>d. <<>> \in Seq(Calls \X {"request", "cancel"}) /\ <<>> \in Seq(Calls \X FrameTypes)
    OBVIOUS
<1>e. ASSUME NEW c \in Calls, NEW t \in {"request", "cancel"}
      PROVE  Append(toWorker, <<c, t>>) \in Seq(Calls \X {"request", "cancel"})
    BY DEF TypeOK
<1>f. ASSUME NEW c \in Calls, NEW t \in FrameTypes
      PROVE  Append(toClient, <<c, t>>) \in Seq(Calls \X FrameTypes)
    BY DEF TypeOK
<1>g. "event" \in FrameTypes /\ "done" \in FrameTypes /\ "error" \in FrameTypes
    BY DEF FrameTypes, Terminal
<1>1. ASSUME NEW c \in Calls, registerCall(c) PROVE TypeOK'
    BY <1>1 DEF registerCall, TypeOK
<1>2. ASSUME NEW c \in Calls, SendRequest(c) PROVE TypeOK'
    BY <1>2, <1>d, <1>e DEF SendRequest, CloseStream, Return, TypeOK
<1>3. ASSUME NEW c \in Calls, NextFrameCheck(c) PROVE TypeOK'
    <2>1. CASE pc' = [pc EXCEPT ![c] = "selecting"] /\ UNCHANGED <<cause, pending, frames>>
        BY <1>3, <2>1 DEF NextFrameCheck, TypeOK
    <2> QED BY <1>3, <2>1, <1>a, <1>b, <1>c DEF NextFrameCheck
<1>4. ASSUME NEW c \in Calls, NextFrameSelect(c) PROVE TypeOK'
    <2>1. CASE /\ pc' = [pc EXCEPT ![c] = "aborting"] /\ cause' = [cause EXCEPT ![c] = "ctx"]
               /\ UNCHANGED <<pending, frames>>
        BY <1>4, <2>1 DEF NextFrameSelect, TypeOK
    <2> QED BY <1>4, <2>1, <1>a, <1>b, <1>c DEF NextFrameSelect, ContextEnds
<1>5. ASSUME NEW c \in Calls, AbortAwaited(c) PROVE TypeOK'
    BY <1>5, <1>b DEF AbortAwaited
<1>6. ASSUME NEW c \in Calls, CallbackReturns(c) PROVE TypeOK'
    BY <1>6 DEF CallbackReturns, TypeOK
<1>7. ASSUME NEW c \in Calls, abortRequest(c) PROVE TypeOK'
    BY <1>7, <1>d, <1>e DEF abortRequest, SendCancel, quarantineCancellation, CloseStream, Return, TypeOK
<1>8. ASSUME NEW c \in Calls, InputFails(c) PROVE TypeOK'
    BY <1>8, <1>d DEF InputFails, CloseStream, TypeOK
<1>9. ASSUME NEW c \in Calls, AborterSends(c) PROVE TypeOK'
    BY <1>9, <1>d, <1>e DEF AborterSends, SendCancel, quarantineCancellation, CloseStream, TypeOK
<1>10. ASSUME NEW c \in Calls, failCall(c) PROVE TypeOK'
    BY <1>10 DEF failCall, TypeOK
<1>11. ASSUME NEW c \in Calls, CancelContext(c) PROVE TypeOK'
    BY <1>11 DEF CancelContext, TypeOK
<1>12. ASSUME NEW c \in Calls, WorkerSends(c) PROVE TypeOK'
    BY <1>12, <1>f, <1>g DEF WorkerSends, ToClient, TypeOK
<1>13. ASSUME NEW c \in Calls, WorkerEnds(c) PROVE TypeOK'
    <2>1. toClient' \in Seq(Calls \X FrameTypes)
        <3>1. toClient' \in {toClient, Append(toClient, <<c, "done">>), Append(toClient, <<c, "error">>)}
            BY <1>13 DEF WorkerEnds, ToClient
        <3> QED BY <1>f, <1>g, <3>1 DEF TypeOK
    <2>2. work' \in [Calls -> {"none", "running", "ok", "failed", "silent"}]
        BY <1>13 DEF WorkerEnds, TypeOK
    <2>3. UNCHANGED <<conn, toWorker, pc, cause, frames, aborter>>
        BY <1>13 DEF WorkerEnds
    <2> QED BY <2>1, <2>2, <2>3 DEF TypeOK
<1>14. CASE Deliver
    <2> DEFINE c == Head(toClient)[1]
               t == Head(toClient)[2]
    <2>1. c \in Calls /\ t \in FrameTypes /\ toClient' = Tail(toClient)
          /\ Tail(toClient) \in Seq(Calls \X FrameTypes)
        BY <1>14, HeadToClient DEF Deliver
    <2>2. UNCHANGED <<conn, toWorker, pc, cause, work>>
        BY <1>14 DEF Deliver
    <2>3. frames' \in {frames, [frames EXCEPT ![c] = Append(@, t)]}
          /\ aborter' \in {aborter, [aborter EXCEPT ![c] = "sending"]}
        BY <1>14 DEF Deliver
    <2> HIDE DEF c, t
    <2>4. frames' \in [Calls -> Seq(FrameTypes)]
        <3>1. frames \in [Calls -> Seq(FrameTypes)]
            BY DEF TypeOK
        <3>2. Append(frames[c], t) \in Seq(FrameTypes)
            BY <2>1, <3>1
        <3> QED BY <2>1, <2>3, <3>1, <3>2
    <2> QED BY <2>1, <2>2, <2>3, <2>4 DEF TypeOK
<1>15. CASE ReceiveFails
    BY <1>15, <1>d DEF ReceiveFails, TypeOK
<1>16. CASE ConnectionEnds
    BY <1>16, <1>d DEF ConnectionEnds, CloseStream, TypeOK
<1>17. CASE WorkerReceives
    BY <1>17, HeadToWorker DEF WorkerReceives, TypeOK
<1>18. CASE UNCHANGED vars
    BY <1>18 DEF vars, TypeOK
<1> QED BY <1>1, <1>2, <1>3, <1>4, <1>5, <1>6, <1>7, <1>8, <1>9, <1>10, <1>11, <1>12, <1>13, <1>14,
           <1>15, <1>16, <1>17, <1>18 DEF Next

-----------------------------------------------------------------------------
(* What a step does to the stream to the worker.                           *)

\* The client writes one frame of a call, or leaves the stream, or closes it
\* with what is on it: SendContext, sendCancel and the quarantine.
Writes(c, t) == conn = "open" /\ conn' = conn /\ toWorker' = Append(toWorker, <<c, t>>)

Leaves == UNCHANGED <<conn, toWorker>> \/ (conn' = "closed" /\ toWorker' = <<>>)

\* Writing a frame adds just that frame.
LEMMA WritesOne ==
    ASSUME TypeOK, NEW c \in Calls, NEW t \in {"request", "cancel"}, Writes(c, t)
    PROVE  \A f : Holds(toWorker', f) <=> Holds(toWorker, f) \/ f = <<c, t>>
<1>1. toWorker \in Seq(Calls \X {"request", "cancel"}) /\ <<c, t>> \in Calls \X {"request", "cancel"}
    BY DEF TypeOK
<1> DEFINE e == <<c, t>>
<1>2. e \in Calls \X {"request", "cancel"} /\ toWorker' = Append(toWorker, e)
    BY <1>1 DEF Writes
<1> HIDE DEF e
<1>3. \A f : Holds(Append(toWorker, e), f) <=> Holds(toWorker, f) \/ f = e
    BY <1>1, <1>2, HoldsAppend
<1> QED BY <1>2, <1>3 DEF e

\* Closing the stream adds no frame.
LEMMA LeavesFewer ==
    ASSUME Leaves
    PROVE  \A f : /\ Holds(toWorker', f) => Holds(toWorker, f)
                  /\ Once(toWorker, f) => Once(toWorker', f)
                  /\ conn' = "open" => conn = "open" /\ (Holds(toWorker', f) <=> Holds(toWorker, f))
<1>1. CASE UNCHANGED <<conn, toWorker>>
    BY <1>1, Zenon
<1>2. CASE conn' = "closed" /\ toWorker' = <<>>
    <2>1. \A f : ~Holds(toWorker', f) /\ Once(toWorker', f)
        BY <1>2, HoldsNothing DEF Once
    <2> QED BY <1>2, <2>1
<1> QED BY <1>1, <1>2 DEF Leaves

\* The worker reads one frame.
LEMMA ReadsOne ==
    ASSUME TypeOK, WorkerReceives
    PROVE  /\ \A f : Holds(toWorker, f) <=> f = Head(toWorker) \/ Holds(toWorker', f)
           /\ \A f : Once(toWorker, f) => /\ Once(toWorker', f)
                                          /\ f = Head(toWorker) => ~Holds(toWorker', f)
<1>1. toWorker \in Seq(Calls \X {"request", "cancel"}) /\ toWorker # <<>> /\ toWorker' = Tail(toWorker)
    BY DEF TypeOK, WorkerReceives
<1> QED BY <1>1, HoldsTail, OnceTail, Zenon

\* Every step of a call that is past its request writes a cancel or leaves the
\* stream, and never goes back to before the request.
LEMMA ClientSteps ==
    ASSUME TypeOK, NEW c \in Calls,
           \/ NextFrameCheck(c) \/ NextFrameSelect(c) \/ AbortAwaited(c) \/ CallbackReturns(c)
           \/ abortRequest(c) \/ InputFails(c) \/ AborterSends(c) \/ failCall(c) \/ CancelContext(c)
           \/ Deliver \/ ReceiveFails \/ ConnectionEnds
    PROVE  /\ Writes(c, "cancel") \/ Leaves
           /\ \A d \in Calls : pc'[d] \in {"idle", "sending"} => pc[d] \in {"idle", "sending"}
           /\ UNCHANGED <<work, told>>
<1> USE DEF client, worker
<1>0. pc \in [Calls -> {"idle", "sending", "checking", "selecting", "callback", "awaiting", "aborting",
                       "returned"}]
    BY DEF TypeOK
<1>1. CASE NextFrameCheck(c)
    BY <1>0, <1>1 DEF NextFrameCheck, AwaitAbort, TakeFrame, Failed, Return, Leaves
<1>2. CASE NextFrameSelect(c)
    BY <1>0, <1>2 DEF NextFrameSelect, ContextEnds, AwaitAbort, TakeFrame, Failed, Return, Leaves
<1>3. CASE AbortAwaited(c) \/ CallbackReturns(c)
    BY <1>0, <1>3 DEF AbortAwaited, CallbackReturns, Failed, Return, Leaves
<1>4. CASE abortRequest(c)
    BY <1>0, <1>4 DEF abortRequest, SendCancel, quarantineCancellation, CloseStream, Return, Leaves, Writes
<1>5. CASE InputFails(c)
    BY <1>0, <1>5 DEF InputFails, CloseStream, Leaves
<1>6. CASE AborterSends(c)
    BY <1>0, <1>6 DEF AborterSends, SendCancel, quarantineCancellation, CloseStream, Leaves, Writes
<1>7. CASE failCall(c) \/ CancelContext(c)
    BY <1>0, <1>7 DEF failCall, CancelContext, Leaves
<1>8. CASE Deliver
    <2>1. UNCHANGED <<conn, toWorker, pc, work, told>>
        BY <1>8 DEF Deliver
    <2> QED BY <1>0, <2>1 DEF Leaves
<1>9. CASE ReceiveFails \/ ConnectionEnds
    BY <1>0, <1>9 DEF ReceiveFails, ConnectionEnds, CloseStream, Leaves
<1> QED BY <1>1, <1>2, <1>3, <1>4, <1>5, <1>6, <1>7, <1>8, <1>9

-----------------------------------------------------------------------------
(* Requests.                                                               *)

\* A request is written once, from "sending", and the worker that takes it finds
\* no other of the same call behind it.
LEMMA NextRequest == TypeOK /\ RequestInv /\ [Next]_vars => RequestInv'
<1> SUFFICES ASSUME TypeOK, RequestInv, [Next]_vars, NEW d \in Calls
             PROVE  /\ pc'[d] \in {"idle", "sending"} =>
                            work'[d] = "none" /\ ~Holds(toWorker', <<d, "request">>)
                    /\ Holds(toWorker', <<d, "request">>) => work'[d] = "none"
                    /\ Once(toWorker', <<d, "request">>)
    BY DEF RequestInv
<1> DEFINE Goal == /\ pc'[d] \in {"idle", "sending"} =>
                            work'[d] = "none" /\ ~Holds(toWorker', <<d, "request">>)
                   /\ Holds(toWorker', <<d, "request">>) => work'[d] = "none"
                   /\ Once(toWorker', <<d, "request">>)
<1> USE DEF client, worker
<1>0. /\ pc[d] \in {"idle", "sending"} => work[d] = "none" /\ ~Holds(toWorker, <<d, "request">>)
      /\ Holds(toWorker, <<d, "request">>) => work[d] = "none"
      /\ Once(toWorker, <<d, "request">>)
    BY DEF RequestInv
<1>t. /\ toWorker \in Seq(Calls \X {"request", "cancel"})
      /\ pc \in [Calls -> {"idle", "sending", "checking", "selecting", "callback", "awaiting", "aborting",
                           "returned"}]
      /\ work \in [Calls -> {"none", "running", "ok", "failed", "silent"}]
    BY DEF TypeOK
<1>a. ASSUME pc'[d] \in {"idle", "sending"} => pc[d] \in {"idle", "sending"},
             work' = work, Leaves
      PROVE  Goal
    BY <1>0, <1>a, LeavesFewer
<1>b. ASSUME pc'[d] \in {"idle", "sending"} => pc[d] \in {"idle", "sending"},
             work' = work, NEW c \in Calls, Writes(c, "cancel")
      PROVE  Goal
    <2>1. <<c, "cancel">> # <<d, "request">> /\ <<c, "cancel">> \in Calls \X {"request", "cancel"}
        OBVIOUS
    <2>2. Holds(toWorker', <<d, "request">>) <=> Holds(toWorker, <<d, "request">>)
        BY <1>b, <2>1, WritesOne
    <2>3. Once(toWorker', <<d, "request">>)
        BY <1>0, <1>b, <1>t, <2>1, OnceAppend DEF Writes
    <2> QED BY <1>0, <1>b, <2>2, <2>3
<1>1. ASSUME NEW c \in Calls, registerCall(c) PROVE Goal
    <2>1. Leaves /\ work' = work /\ (pc'[d] \in {"idle", "sending"} => pc[d] \in {"idle", "sending"})
        BY <1>1, <1>t DEF registerCall, Leaves
    <2> QED BY <1>a, <2>1
<1>2. ASSUME NEW c \in Calls, SendRequest(c) PROVE Goal
    <2>1. /\ work' = work
          /\ pc'[d] \in {"idle", "sending"} => pc[d] \in {"idle", "sending"}
          /\ c = d => pc'[d] \notin {"idle", "sending"}
          /\ pc[c] = "sending"
          /\ Leaves \/ Writes(c, "request")
        BY <1>2, <1>t DEF SendRequest, CloseStream, Return, Leaves, Writes
    <2>2. CASE Writes(c, "request")
        <3>1. <<c, "request">> \in Calls \X {"request", "cancel"}
              /\ (<<c, "request">> = <<d, "request">> => c = d)
            OBVIOUS
        <3>2. Holds(toWorker', <<d, "request">>) <=>
                  Holds(toWorker, <<d, "request">>) \/ <<d, "request">> = <<c, "request">>
            BY <2>2, WritesOne
        <3>3. <<d, "request">> = <<c, "request">> => ~Holds(toWorker, <<d, "request">>)
            BY <1>0, <2>1, <3>1
        <3>4. Once(toWorker', <<d, "request">>)
            BY <1>0, <1>t, <2>2, <3>1, <3>3, OnceAppend DEF Writes
        <3> QED BY <1>0, <2>1, <3>1, <3>2, <3>4
    <2> QED BY <1>a, <2>1, <2>2
<1>3. ASSUME NEW c \in Calls,
             \/ NextFrameCheck(c) \/ NextFrameSelect(c) \/ AbortAwaited(c) \/ CallbackReturns(c)
             \/ abortRequest(c) \/ InputFails(c) \/ AborterSends(c) \/ failCall(c) \/ CancelContext(c)
             \/ Deliver \/ ReceiveFails \/ ConnectionEnds
      PROVE  Goal
    BY <1>3, <1>a, <1>b, ClientSteps
<1>4. ASSUME NEW c \in Calls, WorkerSends(c) \/ WorkerEnds(c) PROVE Goal
    <2>1. /\ UNCHANGED <<toWorker, pc>> /\ work[c] = "running"
          /\ c # d => work'[d] = work[d]
        BY <1>4, <1>t DEF WorkerSends, WorkerEnds
    <2> QED BY <1>0, <2>1
<1>5. CASE WorkerReceives
    <2> DEFINE c == Head(toWorker)[1]
               t == Head(toWorker)[2]
    <2>1. /\ c \in Calls /\ Head(toWorker) = <<c, t>> /\ UNCHANGED pc
          /\ work' = IF t = "request" THEN [work EXCEPT ![c] = "running"] ELSE work
        BY <1>5, HeadToWorker DEF WorkerReceives
    <2>2. /\ Holds(toWorker, <<d, "request">>) <=>
                 <<d, "request">> = Head(toWorker) \/ Holds(toWorker', <<d, "request">>)
          /\ Once(toWorker', <<d, "request">>)
          /\ <<d, "request">> = Head(toWorker) => ~Holds(toWorker', <<d, "request">>)
        BY <1>0, <1>5, ReadsOne
    <2> HIDE DEF c, t
    <2>3. CASE Head(toWorker) = <<d, "request">>
        BY <1>0, <2>1, <2>2, <2>3
    <2>4. CASE Head(toWorker) # <<d, "request">>
        <3>1. work'[d] = work[d]
            BY <1>t, <2>1, <2>4
        <3> QED BY <1>0, <2>1, <2>2, <2>4, <3>1
    <2> QED BY <2>3, <2>4
<1>6. CASE UNCHANGED vars
    BY <1>0, <1>6 DEF vars
<1> QED BY <1>1, <1>2, <1>3, <1>4, <1>5, <1>6 DEF Next

-----------------------------------------------------------------------------
(* Answers.                                                                *)

\* The terminal frame and what the call that takes it returns.
Answer == {<<"done", "nil", "ok">>, <<"error", "error", "failed">>}

\* AnswerInv, one terminal frame type at a time.
Honest(c, a) ==
    Holds(toClient, <<c, a[1]>>) \/ Holds(frames[c], a[1]) \/ cause[c] = a[2] => work[c] = a[3]

\* AnswerInv says the same of both terminal frames.
LEMMA AnswerInvHonest == AnswerInv <=> \A c \in Calls, a \in Answer : Honest(c, a)
BY DEF AnswerInv, Answer, Honest

\* What a call takes from its buffer is what it returns.
LEMMA TakesAnswer ==
    ASSUME TypeOK, NEW c \in Calls, TakeFrame(c), NEW d \in Calls, NEW a \in Answer
    PROVE  /\ Holds(frames'[d], a[1]) => Holds(frames[d], a[1])
           /\ cause'[d] = a[2] => cause[d] = a[2] \/ Holds(frames[d], a[1])
<1>1. /\ frames \in [Calls -> Seq(FrameTypes)]
      /\ cause \in [Calls -> {"none", "nil", "error", "ctx", "conn", "callback", "aborted"}]
      /\ frames[c] # <<>>
      /\ frames' = [frames EXCEPT ![c] = Tail(frames[c])]
    BY DEF TypeOK, TakeFrame
<1>2. \A f : Holds(frames[c], f) <=> f = Head(frames[c]) \/ Holds(Tail(frames[c]), f)
    BY <1>1, HoldsTail
<1>3. frames'[d] = IF d = c THEN Tail(frames[c]) ELSE frames[d]
    BY <1>1
<1>4. \/ cause' = cause
      \/ Head(frames[c]) = "done" /\ cause' = [cause EXCEPT ![c] = "nil"]
      \/ Head(frames[c]) = "error" /\ cause' = [cause EXCEPT ![c] = "error"]
    BY DEF TakeFrame, Return
<1> QED BY <1>1, <1>2, <1>3, <1>4 DEF Answer

\* A step that delivers nothing to a call and has it return no answer.
NoAnswer ==
    /\ toClient' \in {toClient, <<>>} /\ frames' = frames
    /\ \A d \in Calls, a \in Answer : cause'[d] = a[2] => cause[d] = a[2]

\* The ways a call is given up return none of the worker's answers.
LEMMA NoAnswerSteps ==
    ASSUME TypeOK, NEW c \in Calls,
           \/ registerCall(c) \/ SendRequest(c) \/ AbortAwaited(c) \/ CallbackReturns(c)
           \/ abortRequest(c) \/ InputFails(c) \/ AborterSends(c) \/ failCall(c) \/ CancelContext(c)
           \/ ReceiveFails \/ ConnectionEnds
    PROVE  NoAnswer /\ UNCHANGED work
<1> USE DEF client, worker, NoAnswer, Answer
<1>0. cause \in [Calls -> {"none", "nil", "error", "ctx", "conn", "callback", "aborted"}]
    BY DEF TypeOK
<1>1. CASE registerCall(c) \/ SendRequest(c)
    BY <1>0, <1>1 DEF registerCall, SendRequest, Return
<1>2. CASE AbortAwaited(c) \/ CallbackReturns(c)
    BY <1>0, <1>2 DEF AbortAwaited, CallbackReturns, Failed, Return
<1>3. CASE abortRequest(c) \/ InputFails(c)
    BY <1>0, <1>3 DEF abortRequest, InputFails, Return
<1>4. CASE AborterSends(c) \/ failCall(c) \/ CancelContext(c)
    BY <1>0, <1>4 DEF AborterSends, failCall, CancelContext
<1>5. CASE ReceiveFails \/ ConnectionEnds
    BY <1>0, <1>5 DEF ReceiveFails, ConnectionEnds
<1> QED BY <1>1, <1>2, <1>3, <1>4, <1>5

\* A wait for the next frame takes one, or returns no answer.
LEMMA WaitSteps ==
    ASSUME TypeOK, NEW c \in Calls, NextFrameCheck(c) \/ NextFrameSelect(c)
    PROVE  UNCHANGED <<toClient, work>> /\ (TakeFrame(c) \/ NoAnswer)
<1> USE DEF client, worker
<1>0. cause \in [Calls -> {"none", "nil", "error", "ctx", "conn", "callback", "aborted"}]
    BY DEF TypeOK
<1>1. ASSUME AwaitAbort(c) \/ Failed(c, "conn"), UNCHANGED toClient PROVE NoAnswer
    BY <1>0, <1>1 DEF AwaitAbort, Failed, Return, NoAnswer, Answer
<1>2. ASSUME cause' = cause \/ cause' = [cause EXCEPT ![c] = "ctx"], UNCHANGED <<frames, toClient>>
      PROVE  NoAnswer
    BY <1>0, <1>2 DEF NoAnswer, Answer
<1>3. UNCHANGED <<toClient, work>>
    BY DEF NextFrameCheck, NextFrameSelect
<1> QED BY <1>1, <1>2, <1>3 DEF NextFrameCheck, NextFrameSelect, ContextEnds

\* A terminal frame starts at the worker that answered and the answer stays the
\* worker's on every way to the caller.
LEMMA NextAnswer == TypeOK /\ RequestInv /\ AnswerInv /\ [Next]_vars => AnswerInv'
<1> SUFFICES ASSUME TypeOK, RequestInv, AnswerInv, [Next]_vars, NEW d \in Calls, NEW a \in Answer
             PROVE  Holds(toClient', <<d, a[1]>>) \/ Holds(frames'[d], a[1]) \/ cause'[d] = a[2]
                    => work'[d] = a[3]
    BY DEF AnswerInv, Answer
<1> DEFINE Goal == Holds(toClient', <<d, a[1]>>) \/ Holds(frames'[d], a[1]) \/ cause'[d] = a[2]
                    => work'[d] = a[3]
<1> USE DEF client, worker
<1>0. Holds(toClient, <<d, a[1]>>) \/ Holds(frames[d], a[1]) \/ cause[d] = a[2] => work[d] = a[3]
    BY AnswerInvHonest DEF Honest
<1>t. /\ toClient \in Seq(Calls \X FrameTypes)
      /\ frames \in [Calls -> Seq(FrameTypes)]
      /\ work \in [Calls -> {"none", "running", "ok", "failed", "silent"}]
      /\ a[1] \in Terminal /\ a[3] \in {"ok", "failed"}
    BY DEF TypeOK, Answer, Terminal
<1>a. ASSUME NoAnswer, UNCHANGED work PROVE Goal
    BY <1>0, <1>a, HoldsNothing DEF NoAnswer
<1>b. ASSUME NEW c \in Calls, TakeFrame(c), UNCHANGED <<toClient, work>> PROVE Goal
    BY <1>0, <1>b, TakesAnswer
<1>1. ASSUME NEW c \in Calls,
             \/ registerCall(c) \/ SendRequest(c) \/ AbortAwaited(c) \/ CallbackReturns(c)
             \/ abortRequest(c) \/ InputFails(c) \/ AborterSends(c) \/ failCall(c) \/ CancelContext(c)
             \/ ReceiveFails \/ ConnectionEnds
      PROVE  Goal
    BY <1>1, <1>a, NoAnswerSteps
<1>2. ASSUME NEW c \in Calls, NextFrameCheck(c) \/ NextFrameSelect(c) PROVE Goal
    BY <1>2, <1>a, <1>b, WaitSteps
<1>3. CASE Deliver
    <2> DEFINE c == Head(toClient)[1]
               t == Head(toClient)[2]
    <2>1. /\ toClient # <<>> /\ toClient' = Tail(toClient) /\ UNCHANGED <<cause, work>>
          /\ frames' \in {frames, [frames EXCEPT ![c] = Append(frames[c], t)]}
          /\ c \in Calls /\ t \in FrameTypes /\ Head(toClient) = <<c, t>>
        BY <1>3, HeadToClient DEF Deliver
    <2> HIDE DEF c, t
    <2>2. \A f : Holds(toClient, f) <=> f = <<c, t>> \/ Holds(toClient', f)
        BY <1>t, <2>1, HoldsTail
    <2>3. Holds(frames'[d], a[1]) => Holds(frames[d], a[1]) \/ (c = d /\ t = a[1])
        <3>1. Holds(Append(frames[c], t), a[1]) <=> Holds(frames[c], a[1]) \/ a[1] = t
            BY <1>t, <2>1, HoldsAppend
        <3>2. frames'[d] = frames[d] \/ (c = d /\ frames'[d] = Append(frames[c], t))
            BY <1>t, <2>1
        <3> QED BY <3>1, <3>2
    <2> QED BY <1>0, <2>1, <2>2, <2>3
<1>4. ASSUME NEW c \in Calls, NEW t \in FrameTypes, ToClient(c, t), UNCHANGED <<frames, cause>>,
             IF c = d /\ a[1] = t THEN work'[d] = a[3] ELSE work[d] = a[3] => work'[d] = a[3]
      PROVE  Goal
    <2>1. <<c, t>> \in Calls \X FrameTypes /\ (<<c, t>> = <<d, a[1]>> => c = d /\ a[1] = t)
        OBVIOUS
    <2>2. Holds(toClient', <<d, a[1]>>) => Holds(toClient, <<d, a[1]>>) \/ (c = d /\ a[1] = t)
        <3> DEFINE e == <<c, t>>
                   f == <<d, a[1]>>
        <3>1. toClient' = Append(toClient, e) /\ e \in Calls \X FrameTypes
              /\ (f = e => c = d /\ a[1] = t)
            BY <1>4, <2>1 DEF ToClient
        <3> HIDE DEF e, f
        <3>2. toClient \in Seq(Calls \X FrameTypes)
            BY <1>t
        <3>3. Holds(Append(toClient, e), f) <=> Holds(toClient, f) \/ f = e
            BY <3>1, <3>2, HoldsAppend, Zenon
        <3> QED BY <3>1, <3>3 DEF f
    <2> QED BY <1>0, <1>4, <2>2
<1>5. ASSUME NEW c \in Calls, WorkerSends(c) PROVE Goal
    <2>1. "event" \in FrameTypes /\ a[1] # "event"
        BY DEF FrameTypes, Answer
    <2> QED BY <1>4, <1>5, <2>1 DEF WorkerSends
<1>6. ASSUME NEW c \in Calls, WorkerEnds(c) PROVE Goal
    <2>1. work[c] = "running" /\ UNCHANGED <<frames, cause>>
        BY <1>6 DEF WorkerEnds
    <2>2. ASSUME NEW b \in Answer, work' = [work EXCEPT ![c] = b[3]], ToClient(c, b[1]) PROVE Goal
        <3>1. b[1] \in FrameTypes /\ (a[1] = b[1] => a[3] = b[3])
            BY DEF FrameTypes, Terminal, Answer
        <3>2. c = d => work[d] # a[3]
            BY <1>t, <2>1
        <3>3. IF c = d /\ a[1] = b[1] THEN work'[d] = a[3] ELSE work[d] = a[3] => work'[d] = a[3]
            BY <1>t, <2>2, <3>1, <3>2
        <3> QED BY <1>4, <2>1, <2>2, <3>1, <3>3
    <2>3. CASE work' = [work EXCEPT ![c] = "silent"] /\ UNCHANGED toClient
        BY <1>0, <1>t, <2>1, <2>3
    <2>4. <<"done", "nil", "ok">> \in Answer /\ <<"error", "error", "failed">> \in Answer
        BY DEF Answer
    <2>5. CASE work' = [work EXCEPT ![c] = "ok"] /\ ToClient(c, "done")
        BY <2>2, <2>4, <2>5
    <2>6. CASE work' = [work EXCEPT ![c] = "failed"] /\ ToClient(c, "error")
        BY <2>2, <2>4, <2>6
    <2> QED BY <1>6, <2>3, <2>5, <2>6 DEF WorkerEnds
<1>7. CASE WorkerReceives
    <2> DEFINE c == Head(toWorker)[1]
    <2>1. /\ c \in Calls /\ UNCHANGED <<toClient, frames, cause>> /\ toWorker # <<>>
          /\ Head(toWorker) = <<c, "request">> \/ work' = work
          /\ work' \in {work, [work EXCEPT ![c] = "running"]}
        BY <1>7, HeadToWorker DEF WorkerReceives
    <2> HIDE DEF c
    <2>2. Head(toWorker) = <<c, "request">> => work[c] = "none"
        BY <1>7, <2>1, ReadsOne DEF RequestInv
    <2>3. work[d] = a[3] => work'[d] = a[3]
        BY <1>t, <2>1, <2>2
    <2> QED BY <1>0, <2>1, <2>3
<1>8. CASE UNCHANGED vars
    BY <1>0, <1>8 DEF vars
<1> QED BY <1>1, <1>2, <1>3, <1>5, <1>6, <1>7, <1>8 DEF Next

-----------------------------------------------------------------------------
(* Cancellation.                                                           *)

\* Behind a connection that stays open, a cancel that was sent stays sent: it is
\* on the stream until the worker has been told.
LEMMA StaysCancelled ==
    ASSUME TypeOK, [Next]_vars, conn' = "open", NEW d \in Calls
    PROVE  conn = "open" /\ (Cancelled(d) => Cancelled(d)')
<1> DEFINE Goal == conn = "open" /\ (Cancelled(d) => Cancelled(d)')
<1> USE DEF client, worker, Cancelled
<1>a. ASSUME Leaves, UNCHANGED told
      PROVE  Goal
    BY <1>a, LeavesFewer
<1>b. ASSUME NEW c \in Calls, NEW t \in {"request", "cancel"}, Writes(c, t), UNCHANGED told
      PROVE  Goal
    <2>1. conn = "open"
        BY <1>b DEF Writes
    <2> QED BY <1>b, <2>1, WritesOne
<1>1. ASSUME NEW c \in Calls, registerCall(c)
      PROVE  Goal
    <2>1. Leaves /\ UNCHANGED told
        BY <1>1 DEF registerCall, Leaves
    <2> QED BY <1>a, <2>1
<1>2. ASSUME NEW c \in Calls, SendRequest(c)
      PROVE  Goal
    <2>1. (Leaves \/ Writes(c, "request")) /\ UNCHANGED told
        BY <1>2 DEF SendRequest, CloseStream, Leaves, Writes
    <2> QED BY <1>a, <1>b, <2>1
<1>3. ASSUME NEW c \in Calls,
             \/ NextFrameCheck(c) \/ NextFrameSelect(c) \/ AbortAwaited(c) \/ CallbackReturns(c)
             \/ abortRequest(c) \/ InputFails(c) \/ AborterSends(c) \/ failCall(c) \/ CancelContext(c)
             \/ Deliver \/ ReceiveFails \/ ConnectionEnds
      PROVE  Goal
    BY <1>3, <1>a, <1>b, ClientSteps
<1>4. ASSUME NEW c \in Calls, WorkerSends(c) \/ WorkerEnds(c)
      PROVE  Goal
    <2>1. Leaves /\ UNCHANGED told
        BY <1>4 DEF WorkerSends, WorkerEnds, Leaves
    <2> QED BY <1>a, <2>1
<1>5. CASE WorkerReceives
    <2> DEFINE c == Head(toWorker)[1]
               t == Head(toWorker)[2]
    <2>1. /\ conn = "open" /\ Head(toWorker) = <<c, t>> /\ t \in {"request", "cancel"}
          /\ told' = IF t = "cancel" THEN told \cup {c} ELSE told
        BY <1>5, HeadToWorker DEF WorkerReceives
    <2>2. \A f : Holds(toWorker, f) <=> f = <<c, t>> \/ Holds(toWorker', f)
        BY <1>5, <2>1, ReadsOne
    <2> HIDE DEF c, t
    <2> QED BY <2>1, <2>2
<1>6. CASE UNCHANGED vars
    <2>1. Leaves /\ UNCHANGED told
        BY <1>6 DEF vars, Leaves
    <2> QED BY <1>a, <2>1
<1> QED BY <1>1, <1>2, <1>3, <1>4, <1>5, <1>6 DEF Next

\* A call is failed by its aborter, whose cancel is on the stream, or with the
\* whole connection.
LEMMA NextCancel == TypeOK /\ CancelInv /\ [Next]_vars => CancelInv'
<1> SUFFICES ASSUME TypeOK, CancelInv, [Next]_vars, conn' = "open",
                    NEW d \in Calls, aborter'[d] = "failing" \/ d \in done'
             PROVE  Cancelled(d)'
    BY DEF CancelInv
<1> USE DEF client, worker
<1>0. /\ conn = "open"
      /\ Cancelled(d) => Cancelled(d)'
      /\ aborter[d] = "failing" \/ d \in done => Cancelled(d)
    BY StaysCancelled DEF CancelInv
<1>t. aborter \in [Calls -> {"none", "sending", "failing"}]
    BY DEF TypeOK
<1>a. CASE (aborter'[d] = "failing" => aborter[d] = "failing") /\ (d \in done' => d \in done)
    BY <1>0, <1>a
<1>1. ASSUME NEW c \in Calls, abortRequest(c) PROVE Cancelled(d)'
    BY <1>0, <1>1, <1>a DEF abortRequest, SendCancel, quarantineCancellation, CloseStream
<1>2. ASSUME NEW c \in Calls, InputFails(c) PROVE Cancelled(d)'
    BY <1>0, <1>2 DEF InputFails, CloseStream
<1>3. ASSUME NEW c \in Calls, AborterSends(c) PROVE Cancelled(d)'
    <2>1. SendCancel(c) /\ aborter' = [aborter EXCEPT ![c] = "failing"]
        BY <1>0, <1>3 DEF AborterSends, quarantineCancellation, CloseStream
    <2>2. Writes(c, "cancel") /\ done' = done
        BY <2>1 DEF SendCancel, Writes
    <2>3. CASE c = d
        BY <2>2, <2>3, WritesOne DEF Cancelled
    <2>4. CASE c # d
        BY <1>a, <1>t, <2>1, <2>2, <2>4
    <2> QED BY <2>3, <2>4
<1>4. ASSUME NEW c \in Calls, failCall(c) PROVE Cancelled(d)'
    BY <1>0, <1>4, <1>t DEF failCall
<1>5. CASE Deliver
    <2>1. done' = done /\ \/ aborter' = aborter
                          \/ aborter' = [aborter EXCEPT ![Head(toClient)[1]] = "sending"]
        BY <1>5 DEF Deliver
    <2> QED BY <1>a, <1>t, <2>1
<1>6. CASE ReceiveFails
    BY <1>0, <1>6 DEF ReceiveFails
<1>7. CASE UNCHANGED <<aborter, done>>
    BY <1>a, <1>7
<1> QED BY <1>1, <1>2, <1>3, <1>4, <1>5, <1>6, <1>7
        DEF Next, vars, registerCall, SendRequest, NextFrameCheck, NextFrameSelect, AbortAwaited,
            CallbackReturns, CancelContext, WorkerSends, WorkerEnds, ConnectionEnds, WorkerReceives

\* A call that returns has had its answer, or was never sent, or was failed, or
\* has sent its cancel.
LEMMA NextAbandoned == IndInv /\ [Next]_vars => AbandonedIsCancelled'
<1> SUFFICES ASSUME TypeOK, RequestInv, AnswerInv, CancelInv, AbandonedIsCancelled, [Next]_vars,
                    NEW d \in Calls, pc'[d] = "returned", conn' = "open",
                    work'[d] = "running" \/ Holds(toWorker', <<d, "request">>),
                    ~Cancelled(d)'
             PROVE  FALSE
    BY DEF IndInv, AbandonedIsCancelled, Cancelled
<1> USE DEF client, worker
<1>t. /\ pc \in [Calls -> {"idle", "sending", "checking", "selecting", "callback", "awaiting", "aborting",
                           "returned"}]
      /\ work \in [Calls -> {"none", "running", "ok", "failed", "silent"}]
      /\ frames \in [Calls -> Seq(FrameTypes)]
    BY DEF TypeOK
<1>0. conn = "open" /\ ~Cancelled(d) /\ d \notin done
    BY StaysCancelled DEF CancelInv
<1>1. pc[d] = "returned" => work[d] # "running" /\ ~Holds(toWorker, <<d, "request">>)
    BY <1>0 DEF AbandonedIsCancelled, Cancelled
<1>2. pc[d] \in {"idle", "sending"} => work[d] # "running" /\ ~Holds(toWorker, <<d, "request">>)
    BY DEF RequestInv
<1>3. CASE ~(work[d] = "running" \/ Holds(toWorker, <<d, "request">>))
    <2>a. ASSUME work'[d] = "running" => work[d] = "running", Leaves PROVE FALSE
        BY <1>3, <2>a, LeavesFewer
    <2>1. ASSUME NEW c \in Calls, SendRequest(c) PROVE FALSE
        <3>1. /\ work' = work
              /\ Leaves \/ (Writes(c, "request") /\ pc' = [pc EXCEPT ![c] = "checking"])
            BY <2>1 DEF SendRequest, Writes, Leaves, CloseStream
        <3>2. CASE Writes(c, "request") /\ pc' = [pc EXCEPT ![c] = "checking"]
            <4>1. c # d
                BY <1>t, <3>2
            <4>2. <<c, "request">> # <<d, "request">>
                BY <4>1
            <4> QED BY <1>3, <3>1, <3>2, <4>2, WritesOne
        <3> QED BY <2>a, <3>1, <3>2
    <2>2. ASSUME NEW c \in Calls,
                 \/ NextFrameCheck(c) \/ NextFrameSelect(c) \/ AbortAwaited(c) \/ CallbackReturns(c)
                 \/ abortRequest(c) \/ InputFails(c) \/ AborterSends(c) \/ failCall(c)
                 \/ CancelContext(c) \/ Deliver \/ ReceiveFails \/ ConnectionEnds
          PROVE  FALSE
        <3>1. UNCHANGED work /\ (Writes(c, "cancel") \/ Leaves)
            BY <2>2, ClientSteps
        <3>2. <<c, "cancel">> # <<d, "request">>
            OBVIOUS
        <3> QED BY <1>3, <2>a, <3>1, <3>2, WritesOne
    <2>3. ASSUME NEW c \in Calls, registerCall(c) \/ WorkerSends(c) \/ WorkerEnds(c) PROVE FALSE
        <3>1. Leaves /\ (work'[d] = "running" => work[d] = "running")
            BY <2>3, <1>t DEF registerCall, WorkerSends, WorkerEnds, Leaves
        <3> QED BY <2>a, <3>1
    <2>4. CASE WorkerReceives
        <3> DEFINE c == Head(toWorker)[1]
        <3>1. /\ c \in Calls
              /\ Head(toWorker) = <<c, "request">> \/ work' = work
              /\ work' \in {work, [work EXCEPT ![c] = "running"]}
            BY <2>4, HeadToWorker DEF WorkerReceives
        <3>2. \A f : Holds(toWorker, f) <=> f = Head(toWorker) \/ Holds(toWorker', f)
            BY <2>4, ReadsOne
        <3> HIDE DEF c
        <3> QED BY <1>3, <1>t, <3>1, <3>2
    <2>5. CASE UNCHANGED vars
        BY <1>3, <2>5 DEF vars
    <2> QED BY <2>1, <2>2, <2>3, <2>4, <2>5 DEF Next
<1>4. CASE work[d] = "running" \/ Holds(toWorker, <<d, "request">>)
    <2>1. pc[d] \notin {"idle", "sending", "returned"}
        BY <1>1, <1>2, <1>4
    <2>2. work[d] \in {"none", "running"}
        BY <1>4 DEF RequestInv
    <2>3. ~Holds(frames[d], "done") /\ ~Holds(frames[d], "error")
        BY <2>2 DEF AnswerInv
    <2>4. ASSUME TakeFrame(d) PROVE pc'[d] # "returned"
        <3>1. frames[d] \in Seq(FrameTypes) /\ frames[d] # <<>>
            BY <1>t, <2>4 DEF TakeFrame
        <3>2. Holds(frames[d], Head(frames[d]))
            BY <3>1, HoldsTail
        <3> QED BY <1>t, <2>3, <2>4, <3>2 DEF TakeFrame
    <2>5. ASSUME NEW c \in Calls, NextFrameCheck(c) \/ NextFrameSelect(c) PROVE FALSE
        <3>1. CASE c # d
            BY <1>t, <2>1, <2>5, <3>1
               DEF NextFrameCheck, NextFrameSelect, AwaitAbort, TakeFrame, Failed, ContextEnds, Return
        <3>2. CASE c = d
            BY <1>0, <1>t, <2>1, <2>4, <2>5, <3>2
               DEF NextFrameCheck, NextFrameSelect, AwaitAbort, ContextEnds
        <3> QED BY <3>1, <3>2
    <2>6. ASSUME NEW c \in Calls, abortRequest(c) PROVE FALSE
        <3>1. Writes(c, "cancel") /\ pc' = [pc EXCEPT ![c] = "returned"]
            BY <2>6 DEF abortRequest, SendCancel, quarantineCancellation, CloseStream, Return, Writes
        <3>2. c = d
            BY <1>t, <2>1, <3>1
        <3> QED BY <3>1, <3>2, WritesOne DEF Cancelled
    <2>7. ASSUME NEW c \in Calls, AbortAwaited(c) PROVE FALSE
        BY <1>0, <1>t, <2>1, <2>7 DEF AbortAwaited, Failed, Return
    <2>8. ASSUME NEW c \in Calls, registerCall(c) \/ SendRequest(c) \/ CallbackReturns(c) PROVE FALSE
        BY <1>t, <2>1, <2>8 DEF registerCall, SendRequest, CallbackReturns, Return
    <2>9. CASE pc' = pc
        BY <2>1, <2>9
    <2> QED BY <2>5, <2>6, <2>7, <2>8, <2>9
            DEF Next, vars, InputFails, AborterSends, failCall, CancelContext, WorkerSends, WorkerEnds,
                Deliver, ReceiveFails, ConnectionEnds, WorkerReceives
<1> QED BY <1>3, <1>4

-----------------------------------------------------------------------------
(* The theorems.                                                           *)

\* The inductive invariant: requests go out once, terminal frames are the
\* worker's answers, and a call is failed behind an open connection only after
\* its cancel was sent.
THEOREM Invariance == Spec => []IndInv
<1>1. Init => IndInv
    <2> SUFFICES ASSUME Init PROVE IndInv
        OBVIOUS
    <2>1. TypeOK
        <3>1. toWorker = <<>> /\ toClient = <<>> /\ frames = [c \in Calls |-> <<>>]
            BY DEF Init
        <3>2. /\ toWorker \in Seq(Calls \X {"request", "cancel"})
              /\ toClient \in Seq(Calls \X FrameTypes)
              /\ frames \in [Calls -> Seq(FrameTypes)]
            BY <3>1
        <3> QED BY <3>2 DEF Init, TypeOK
    <2>2. RequestInv /\ AnswerInv /\ AbandonedIsCancelled
        BY HoldsNothing DEF Init, RequestInv, AnswerInv, AbandonedIsCancelled, Once
    <2>3. CancelInv
        BY DEF Init, CancelInv
    <2> QED BY <2>1, <2>2, <2>3 DEF IndInv
<1>2. IndInv /\ [Next]_vars => IndInv'
    BY NextType, NextRequest, NextAnswer, NextCancel, NextAbandoned DEF IndInv
<1> QED BY <1>1, <1>2, PTL DEF Spec

\* A call returns nil only for a request the worker completed, and the worker's
\* error only for one it refused.
THEOREM AnswersAreGenuine == Spec => []AnswersAreTheWorkers
<1>1. IndInv => AnswersAreTheWorkers
    BY DEF IndInv, AnswerInv, AnswersAreTheWorkers
<1> QED BY <1>1, Invariance, PTL

\* No request its caller gave up runs on behind an open connection without its
\* cancel: abortRequest, finishAbortLiveCall and the quarantine cover every way.
THEOREM NoneLeftRunning == Spec => []AbandonedIsCancelled
<1>1. IndInv => AbandonedIsCancelled
    BY DEF IndInv
<1> QED BY <1>1, Invariance, PTL

\* nextFrame never reports the caller's cancellation once the terminal frame is
\* queued.
THEOREM TerminalFrameWins == Spec => TerminalBeatsCancellation
<1>1. TypeOK /\ [Next]_vars =>
          [\A c \in Calls : Decided(c, "ctx") => c \notin terminalReady]_vars
    <2> SUFFICES ASSUME TypeOK, [Next]_vars, NEW d \in Calls, Decided(d, "ctx"), d \in terminalReady
                 PROVE  FALSE
        OBVIOUS
    <2> USE DEF client, worker
    <2>t. cause \in [Calls -> {"none", "nil", "error", "ctx", "conn", "callback", "aborted"}]
          /\ pc[d] \in {"checking", "selecting"} /\ cause[d] = "none" /\ cause'[d] = "ctx"
        BY DEF TypeOK, Decided
    <2>1. ASSUME NEW c \in Calls, TakeFrame(c) PROVE FALSE
        BY <2>1, <2>t DEF TakeFrame, Return
    <2>2. ASSUME NEW c \in Calls, NextFrameCheck(c) \/ NextFrameSelect(c) PROVE FALSE
        <3>1. CASE TakeFrame(c)
            BY <2>1, <3>1
        <3>2. CASE AwaitAbort(c) \/ Failed(c, "conn") \/ cause' = cause
            BY <2>t, <3>2 DEF AwaitAbort, Failed, Return
        <3>3. CASE c \notin terminalReady /\ cause' = [cause EXCEPT ![c] = "ctx"]
            BY <2>t, <3>3
        <3> QED BY <2>2, <3>1, <3>2, <3>3 DEF NextFrameCheck, NextFrameSelect, ContextEnds
    <2>3. ASSUME NEW c \in Calls, registerCall(c) \/ SendRequest(c) \/ CallbackReturns(c) PROVE FALSE
        BY <2>3, <2>t DEF registerCall, SendRequest, CallbackReturns, Return
    <2>4. ASSUME NEW c \in Calls, AbortAwaited(c) \/ abortRequest(c) PROVE FALSE
        BY <2>4, <2>t DEF AbortAwaited, abortRequest, Failed, Return
    <2>5. CASE cause' = cause
        BY <2>5, <2>t
    <2> QED BY <2>2, <2>3, <2>4, <2>5
            DEF Next, vars, InputFails, AborterSends, failCall, CancelContext, WorkerSends, WorkerEnds,
                Deliver, ReceiveFails, ConnectionEnds, WorkerReceives
<1>2. IndInv => TypeOK
    BY DEF IndInv
<1> QED BY <1>1, <1>2, Invariance, PTL DEF Spec, TerminalBeatsCancellation
===============================================================================
