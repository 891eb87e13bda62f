-------------------------------- MODULE Vsock --------------------------------
(* The virtio socket device through which host and guest talk               *)
(* (internal/virtio/vsock.go): the handlers of the guest's packets, the      *)
(* goroutine per connection that passes the host service's bytes on under    *)
(* the guest's credit, the RX ring, and Close.  One port pair is modelled;    *)
(* a connection is named by its number, so that the pair can be used again.  *)
(* Every handler runs under v.mu and is one step, unless it blocks with the   *)
(* lock held.  The counters wrap around as the code's uint32 do.  rxCnt, which *)
(* is only reported to the guest, and handleResponseLocked, which answers a   *)
(* request the host never sends, are left out.                              *)
EXTENDS Integers, Sequences, SequencesExt, FiniteSets

CONSTANTS
    MaxConnects,    \* bound: connections the guest opens
    MaxBytes,       \* bound: bytes that the service writes
    MaxUp,          \* bound: packets of data the guest sends
    Chunks,         \* how many bytes the service writes at once
    Alloc,          \* the guest's receive buffer (BufAlloc)
    Wrap,           \* the counters' modulus, 2^32 in the code
    ChannelCapacity,\* of readCh, 64 in the code
    Ring            \* descriptors of the RX ring

ASSUME ConstantsAssumption ==
    /\ {MaxConnects, MaxBytes, MaxUp, Alloc, Wrap, ChannelCapacity, Ring} \subseteq Nat \ {0}
    /\ Chunks \subseteq Nat \ {0}
    /\ Alloc < Wrap

Gens == 1..MaxConnects
None == 0

VARIABLES
    conn,       \* v.connections of the port pair
    pendingRx,  \* v.pendingRx
    avail,      \* RX descriptors the guest has made available
    inbox,      \* filled RX descriptors the guest has not looked at
    blocked,    \* a handler waits in backend.Write with v.mu held
    reader,     \* where readFromBackend of each connection is
    held,       \* the bytes it has read and not sent
    readCh,     \* the chunks on their way from the service
    closedHere, \* connections whose device side is closed
    closer,     \* where Close is
    devClosed,  \* v.closed
    sock,       \* the guest's socket on the port pair
    sockState,
    owes,       \* what the guest's driver has to answer
    got,        \* the bytes that the socket has received
    fwdCnt,     \* how many of them the guest's program has read
    written,    \* how many bytes the service has written
    ups,        \* packets of data the guest has sent
    opened,     \* connections opened so far
    clean       \* the last one was opened on a quiet port pair

device == <<conn, pendingRx, avail, inbox, blocked>>
backend == <<readCh, closedHere, written>>
readers == <<reader, held>>
closing == <<closer, devClosed>>
guest == <<sock, sockState, owes, got, fwdCnt, ups>>
ghosts == <<opened, clean>>
vars == <<device, backend, readers, closing, guest, ghosts>>

NoConn == [gen |-> None, state |-> "none", peerCnt |-> 0, txCnt |-> 0, pending |-> FALSE]
Packet(op) == [op |-> op, bytes |-> <<>>]
Data(bytes) == [op |-> "rw", bytes |-> bytes]
Min2(a, b) == IF a < b THEN a ELSE b

Init ==
    /\ conn = NoConn /\ pendingRx = <<>> /\ avail = Ring /\ inbox = <<>> /\ blocked = FALSE
    /\ reader = [g \in Gens |-> "none"] /\ held = [g \in Gens |-> <<>>]
    /\ readCh = [g \in Gens |-> <<>>]
    /\ closedHere = {} /\ written = [g \in Gens |-> 0]
    /\ closer = "idle" /\ devClosed = FALSE
    /\ sock = None /\ sockState = "none" /\ owes = {} /\ ups = 0
    /\ got = <<>> /\ fwdCnt = 0
    /\ opened = 0 /\ clean = TRUE

-----------------------------------------------------------------------------
(* What the handlers share.                                                *)

\* v.mu is free, and the machine runs: its session stops it once Close is done.
Free == ~blocked /\ closer # "done"

Alive == {g \in Gens : reader[g] \notin {"none", "ended"}}

\* Nothing is left of an older connection of the port pair.
Quiet == Alive = {} /\ pendingRx = <<>> /\ inbox = <<>>

\* processRXLocked, for the queue of packets that is pending by then: as many as
\* there are descriptors go into the ring.
processRXLocked(pending) ==
    LET n == Min2(avail, Len(pending)) IN
    /\ inbox' = inbox \o SubSeq(pending, 1, n)
    /\ pendingRx' = SubSeq(pending, n + 1, Len(pending))
    /\ avail' = avail - n

\* queueRxPacketLocked and the processRXLocked that follows in every caller.
Send(op) == processRXLocked(Append(pendingRx, Packet(op)))

\* creditCond.Broadcast
Broadcast == reader' = [g \in Gens |-> IF reader[g] = "waiting" THEN "sending" ELSE reader[g]]

\* Mutant: the difference of the counters does not wrap around.
PeerCreditSigned ==
    LET used == conn.txCnt - conn.peerCnt IN
    IF used >= Alloc THEN 0 ELSE Alloc - used

\* vsockPeerCredit
vsockPeerCredit ==
    LET used == (conn.txCnt - conn.peerCnt) % Wrap IN
    IF used >= Alloc THEN 0 ELSE Alloc - used

\* The credit that a header of the guest's carries.
PeerCnt == fwdCnt % Wrap

-----------------------------------------------------------------------------
(* The guest's packets.  The notification of the TX queue is a trap: the      *)
(* guest's CPU runs the handler.                                           *)

\* handleConnectLocked; Connect fails when nothing listens any more.
handleConnectLocked ==
    /\ Free /\ sock = None /\ owes = {} /\ opened < MaxConnects
    /\ opened' = opened + 1
    /\ sock' = opened' /\ sockState' = "connecting"
    /\ got' = <<>> /\ fwdCnt' = 0
    /\ clean' = Quiet
    /\ \/ /\ conn' = [NoConn EXCEPT !.gen = opened', !.state = "connected"]
          /\ reader' = [reader EXCEPT ![opened'] = "top"]
          /\ Send("response")
       \/ /\ Send("rst")
          /\ UNCHANGED <<conn, reader>>
    /\ UNCHANGED <<blocked, backend, held, closing, owes, ups>>

\* handleResetLocked
handleResetLocked ==
    /\ Free
    /\ \/ sock # None /\ sockState \in {"open", "connecting"}
       \/ "rst" \in owes
    /\ sock' = None /\ sockState' = "none" /\ owes' = {}
    /\ conn' = NoConn
    /\ closedHere' = closedHere \cup ({conn.gen} \ {None})
    /\ processRXLocked(pendingRx)
    /\ UNCHANGED <<blocked, readCh, written, readers, closing, got, fwdCnt, ups, ghosts>>

\* handleShutdownLocked: the guest's program closes its socket.
handleShutdownLocked ==
    /\ Free /\ sockState = "open"
    /\ sockState' = "closing"
    /\ conn' = NoConn
    /\ closedHere' = closedHere \cup ({conn.gen} \ {None})
    /\ IF conn.gen = None THEN processRXLocked(pendingRx) ELSE Send("rst")
    /\ UNCHANGED <<blocked, readCh, written, readers, closing, sock, owes, got, fwdCnt, ups, ghosts>>

\* handleDataLocked up to backend.Write, which waits for room with v.mu held.
handleDataLocked ==
    /\ Free /\ sockState = "open" /\ ups < MaxUp
    /\ ups' = ups + 1
    /\ IF conn.state = "connected"
       THEN /\ conn' = [conn EXCEPT !.peerCnt = PeerCnt]
            /\ blocked' = TRUE
            /\ UNCHANGED <<pendingRx, avail, inbox>>
       ELSE /\ Send("rst")
            /\ UNCHANGED <<conn, blocked>>
    /\ UNCHANGED <<backend, readers, closing, sock, sockState, owes, got, fwdCnt, ghosts>>

\* backend.Write returns when the service has made room or has closed its end;
\* then the rest of handleDataLocked.
WriteReturns ==
    /\ blocked
    /\ blocked' = FALSE
    /\ \/ /\ Send("credit_update")
          /\ UNCHANGED <<conn, closedHere>>
       \/ /\ Send("rst")
          /\ closedHere' = closedHere \cup {conn.gen}
          /\ conn' = NoConn
    /\ UNCHANGED <<readCh, written, readers, closing, guest, ghosts>>

\* Mutant: the waiting reader is not woken.
handleCreditUpdateSilently ==
    /\ Free /\ sockState = "open"
    /\ "update" \in owes \/ conn.peerCnt # PeerCnt
    /\ owes' = owes \ {"update"}
    /\ conn' = IF conn.gen = None THEN conn ELSE [conn EXCEPT !.peerCnt = PeerCnt, !.pending = FALSE]
    /\ processRXLocked(pendingRx)
    /\ UNCHANGED <<blocked, backend, readers, closing, sock, sockState, got, fwdCnt, ups, ghosts>>

\* handleCreditUpdateLocked: the answer to a request or, when its program has
\* read, of the guest's own accord.
handleCreditUpdateLocked ==
    /\ Free /\ sockState = "open"
    /\ "update" \in owes \/ conn.peerCnt # PeerCnt
    /\ owes' = owes \ {"update"}
    /\ IF conn.gen = None
       THEN UNCHANGED <<conn, reader>>
       ELSE /\ conn' = [conn EXCEPT !.peerCnt = PeerCnt, !.pending = FALSE]
            /\ Broadcast
    /\ processRXLocked(pendingRx)
    /\ UNCHANGED <<blocked, backend, held, closing, sock, sockState, got, fwdCnt, ups, ghosts>>

\* handleCreditRequestLocked
handleCreditRequestLocked ==
    /\ Free /\ sockState = "open" /\ ups < MaxUp
    /\ ups' = ups + 1
    /\ IF conn.gen = None THEN processRXLocked(pendingRx) ELSE Send("credit_update")
    /\ UNCHANGED <<conn, blocked, backend, readers, closing, sock, sockState, owes, got, fwdCnt, ghosts>>

\* resetLocked: the driver writes 0 to the status register.  The connections
\* are dropped, their backends are not closed.  The driver then sets up the
\* rings again, before which nothing is pending.
resetLocked ==
    /\ Free /\ opened > 0
    /\ conn' = NoConn /\ pendingRx' = <<>> /\ inbox' = <<>> /\ avail' = Ring
    /\ Broadcast
    /\ sock' = None /\ sockState' = "none" /\ owes' = {}
    /\ UNCHANGED <<blocked, backend, held, closing, got, fwdCnt, ups, ghosts>>

-----------------------------------------------------------------------------
(* The guest's driver and its program.                                     *)

\* What the driver does with a packet for its socket.
Handle(p) ==
    CASE p.op = "response" ->
            /\ sockState' = IF sockState = "connecting" THEN "open" ELSE sockState
            /\ UNCHANGED <<sock, owes, got>>
      [] p.op = "rst" ->
            /\ sock' = None /\ sockState' = "none" /\ owes' = {}
            /\ UNCHANGED got
      [] p.op = "shutdown" ->
            /\ owes' = IF sock = None THEN owes ELSE owes \cup {"rst"}
            /\ UNCHANGED <<sock, sockState, got>>
      [] p.op = "rw" ->
            IF sockState = "open"
            THEN /\ got' = got \o p.bytes
                 /\ UNCHANGED <<sock, sockState, owes>>
            ELSE /\ owes' = IF sockState = "closing" THEN owes ELSE owes \cup {"rst"}
                 /\ UNCHANGED <<sock, sockState, got>>
      [] p.op = "credit_request" ->
            /\ owes' = IF sockState = "open" THEN owes \cup {"update"} ELSE owes
            /\ UNCHANGED <<sock, sockState, got>>
      [] p.op = "credit_update" -> UNCHANGED <<sock, sockState, owes, got>>

\* The driver takes a packet and makes its descriptor available again; the
\* notification of the RX queue may be missed (see the comment in Poke).
GuestReceives ==
    /\ Free /\ inbox # <<>>
    /\ Handle(Head(inbox))
    /\ \/ LET n == Min2(avail + 1, Len(pendingRx)) IN
          /\ inbox' = Tail(inbox) \o SubSeq(pendingRx, 1, n)
          /\ pendingRx' = SubSeq(pendingRx, n + 1, Len(pendingRx))
          /\ avail' = avail + 1 - n
       \/ /\ inbox' = Tail(inbox)
          /\ avail' = avail + 1
          /\ UNCHANGED pendingRx
    /\ UNCHANGED <<conn, blocked, backend, readers, closing, fwdCnt, ups, ghosts>>

\* The guest's program reads what its socket holds.
GuestReads ==
    /\ closer # "done" /\ sockState = "open" /\ fwdCnt < Len(got)
    /\ fwdCnt' = Len(got)
    /\ UNCHANGED <<device, backend, readers, closing, sock, sockState, owes, got, ups, ghosts>>

\* Poke: the session's keepalive.
Poke ==
    /\ Free /\ avail > 0 /\ pendingRx # <<>>
    /\ processRXLocked(pendingRx)
    /\ UNCHANGED <<conn, blocked, backend, readers, closing, guest, ghosts>>

-----------------------------------------------------------------------------
(* The host's service at the other end of the backend's connection writes as  *)
(* it pleases.  What it writes once the reader has ended is left out: nothing *)
(* sees it.                                                                *)

ServiceWrites(g, n) ==
    /\ g \in Alive
    /\ SumFunction(written) + n <= MaxBytes /\ Len(readCh[g]) < ChannelCapacity
    /\ written' = [written EXCEPT ![g] = @ + n]
    /\ readCh' = [readCh EXCEPT ![g] = Append(@, [i \in 1..n |-> <<g, written[g] + i>>])]
    /\ UNCHANGED <<device, readers, closing, guest, closedHere, ghosts>>

-----------------------------------------------------------------------------
(* readFromBackend.                                                        *)

\* The goroutine returns; what it has not sent is lost.
End(g) ==
    /\ reader' = [reader EXCEPT ![g] = "ended"]
    /\ held' = [held EXCEPT ![g] = <<>>]
    /\ readCh' = [readCh EXCEPT ![g] = <<>>]

\* The look at v.closed at the top of the loop.
LookClosed(g) ==
    /\ reader[g] = "top"
    /\ IF devClosed
       THEN End(g)
       ELSE reader' = [reader EXCEPT ![g] = "reading"] /\ UNCHANGED <<held, readCh>>
    /\ UNCHANGED <<device, closedHere, written, closing, guest, ghosts>>

\* conn.Read: a chunk or, when this side is closed, EOF; either of the two when
\* both are there.
ReadReturns(g) ==
    /\ reader[g] = "reading"
    /\ \/ /\ readCh[g] # <<>>
          /\ held' = [held EXCEPT ![g] = Head(readCh[g])]
          /\ readCh' = [readCh EXCEPT ![g] = Tail(@)]
          /\ reader' = [reader EXCEPT ![g] = "sending"]
       \/ /\ g \in closedHere
          /\ IF devClosed
             THEN End(g)
             ELSE reader' = [reader EXCEPT ![g] = "eof"] /\ UNCHANGED <<held, readCh>>
    /\ UNCHANGED <<device, closing, guest, closedHere, written, ghosts>>

\* The end of the stream is passed to whatever connection has the port pair now.
Eof(g) ==
    /\ Free /\ reader[g] = "eof"
    /\ End(g)
    /\ IF conn.state = "connected"
       THEN /\ conn' = [conn EXCEPT !.state = "closing"]
            /\ Send("shutdown")
       ELSE UNCHANGED <<conn, pendingRx, avail, inbox>>
    /\ UNCHANGED <<blocked, closedHere, written, closing, guest, ghosts>>

\* The inner loop, once v.mu is taken and the connection looked up again: it is
\* gone,
SendGivesUp(g) ==
    /\ Free /\ reader[g] = "sending" /\ conn.state # "connected"
    /\ End(g)
    /\ UNCHANGED <<device, closedHere, written, closing, guest, ghosts>>

\* the guest has no room: sendCreditRequestLocked and creditCond.Wait,
SendWaits(g) ==
    /\ Free /\ reader[g] = "sending" /\ conn.state = "connected" /\ vsockPeerCredit = 0
    /\ reader' = [reader EXCEPT ![g] = "waiting"]
    /\ conn' = [conn EXCEPT !.pending = TRUE]
    /\ processRXLocked(IF conn.pending THEN pendingRx ELSE Append(pendingRx, Packet("credit_request")))
    /\ UNCHANGED <<blocked, backend, held, closing, guest, ghosts>>

\* Mutant: every packet is cut from the start of the buffer, not from the offset.
SendDataFromStart(g) ==
    /\ Free /\ reader[g] = "sending" /\ conn.state = "connected"
    /\ LET n == Min2(Len(held[g]), vsockPeerCredit) IN
       /\ n > 0
       /\ conn' = [conn EXCEPT !.txCnt = (@ + n) % Wrap]
       /\ processRXLocked(Append(pendingRx, Data(SubSeq(held[g], 1, n))))
       /\ held' = [held EXCEPT ![g] = SubSeq(@, 1, Len(@) - n)]
       /\ reader' = [reader EXCEPT ![g] = IF n = Len(held[g]) THEN "top" ELSE "sending"]
    /\ UNCHANGED <<blocked, backend, closing, guest, ghosts>>

\* or as much as it has room for goes out (sendDataLocked).
SendData(g) ==
    /\ Free /\ reader[g] = "sending" /\ conn.state = "connected"
    /\ LET n == Min2(Len(held[g]), vsockPeerCredit) IN
       /\ n > 0
       /\ conn' = [conn EXCEPT !.txCnt = (@ + n) % Wrap]
       /\ processRXLocked(Append(pendingRx, Data(SubSeq(held[g], 1, n))))
       /\ held' = [held EXCEPT ![g] = SubSeq(@, n + 1, Len(@))]
       /\ reader' = [reader EXCEPT ![g] = IF n = Len(held[g]) THEN "top" ELSE "sending"]
    /\ UNCHANGED <<blocked, backend, closing, guest, ghosts>>

-----------------------------------------------------------------------------
(* Close.                                                                  *)

CloseBegins ==
    /\ closer = "idle"
    /\ closer' = "closing" /\ devClosed' = TRUE
    /\ UNCHANGED <<device, backend, readers, guest, ghosts>>

\* Mutant: the readers that wait for credit are not woken.
CloseConnsSilently ==
    /\ Free /\ closer = "closing"
    /\ closer' = "waiting"
    /\ conn' = NoConn
    /\ closedHere' = closedHere \cup ({conn.gen} \ {None})
    /\ UNCHANGED <<pendingRx, avail, inbox, blocked, readCh, written, readers, devClosed, guest, ghosts>>

CloseConns ==
    /\ Free /\ closer = "closing"
    /\ closer' = "waiting"
    /\ conn' = NoConn
    /\ closedHere' = closedHere \cup ({conn.gen} \ {None})
    /\ Broadcast
    /\ UNCHANGED <<pendingRx, avail, inbox, blocked, readCh, written, held, devClosed, guest, ghosts>>

\* v.wg.Wait
CloseReturns ==
    /\ closer = "waiting" /\ Alive = {}
    /\ closer' = "done"
    /\ UNCHANGED <<device, backend, readers, devClosed, guest, ghosts>>

-----------------------------------------------------------------------------
Reader(g) ==
    \/ LookClosed(g) \/ ReadReturns(g) \/ Eof(g)
    \/ SendGivesUp(g) \/ SendWaits(g) \/ SendData(g)

GuestSends ==
    \/ handleConnectLocked \/ handleResetLocked \/ handleShutdownLocked
    \/ handleDataLocked \/ handleCreditUpdateLocked \/ handleCreditRequestLocked \/ resetLocked

Close == CloseBegins \/ CloseConns \/ CloseReturns

Next ==
    \/ \E g \in Gens : Reader(g) \/ \E n \in Chunks : ServiceWrites(g, n)
    \/ GuestSends \/ WriteReturns \/ GuestReceives \/ GuestReads \/ Poke
    \/ Close

Spec == Init /\ [][Next]_vars

\* The goroutines run; the guest's driver works its ring off and answers, its
\* program reads; the keepalive is periodic (it runs while a command does); a service reads what it is sent or
\* closes, so that backend.Write returns.  Nothing obliges anyone to write, to close or to reset.
FairSpec ==
    /\ Spec
    /\ \A g \in Gens : WF_vars(Reader(g))
    /\ WF_vars(WriteReturns) /\ WF_vars(CloseConns) /\ WF_vars(CloseReturns)
    /\ WF_vars(Poke) /\ WF_vars(GuestReceives) /\ WF_vars(GuestReads)
    /\ WF_vars("update" \in owes /\ handleCreditUpdateLocked)
    /\ WF_vars("rst" \in owes /\ handleResetLocked)

-----------------------------------------------------------------------------
Stream(g, n) == [i \in 1..n |-> <<g, i>>]
InFlight(g) == {b \in UNION {ToSet(p.bytes) : p \in ToSet(pendingRx \o inbox)} : b[1] = g}

\* The bytes on their way to the guest's socket and the bytes it has not read
\* fit its buffer: readFromBackend sends no more than vsockPeerCredit, whose
\* counters wrap around.  (The port pair was quiet.)
CreditRespected ==
    clean /\ sock # None /\ conn.gen = sock =>
        Cardinality(InFlight(sock)) + Len(got) - fwdCnt <= Alloc

\* What a socket of the guest receives is a prefix of what the service wrote to
\* that connection, in order and without a byte of another connection, unless
\* something was left of an older connection of the port pair when it was opened:
\* a packet, or a readFromBackend, which looks the connection up by its ports.
StreamInOrder == clean /\ sock # None => IsPrefix(got, Stream(sock, written[sock]))

\* While a connection lasts, the guest again and again has all that the service
\* has written, and for good once the service stops writing: no wakeup of a reader
\* that waits for credit is lost (handleCreditUpdateLocked), and Poke makes up for
\* a missed notification of the RX queue.
Delivered ==
    []<>(clean /\ conn.gen # None =>
            (sock = conn.gen /\ Len(got) = written[conn.gen]) \/ devClosed)

\* A reader that nothing will wake: its connection was dropped by a device reset
\* and its backend left open.
Orphaned == \E g \in Gens : reader[g] = "reading" /\ g \notin closedHere /\ conn.gen # g

\* Close returns, whatever its readers were doing: those in Read see EOF, those
\* that wait for credit are woken.  Two things keep it waiting: a reader that a
\* device reset has left behind, and one that found another connection on its
\* port pair after the Broadcast and waits for that one's credit.
CloseEnds == closer = "closing" ~> closer = "done" \/ Orphaned \/ ~clean
===============================================================================
