------------------------------ MODULE TcpConn ------------------------------
(***************************************************************************)
(* One TCP connection of the host's network stack with the guest           *)
(* (internal/netstack/netstack.go, tcp.go) under the proxy that copies      *)
(* between it and a socket of the host.                                     *)
(*                                                                          *)
(* An action is one section under c.mu, one section under the lock of a     *)
(* buffer or of the timer, or one frame handed to the device.  Five         *)
(* goroutines meet here: the writer (Write, then CloseWrite), the reader    *)
(* (WriteTo), the proxy that waits for both, the thread that delivers the   *)
(* guest's frames (handleSegment), and the retransmission timer's callback. *)
(* The guest's TCP and the wire are the environment.                        *)
(*                                                                          *)
(* A byte is its position in the stream, so that a payload says which bytes *)
(* it holds whatever sequence number it is sent under.                      *)
(***************************************************************************)
EXTENDS Integers, Sequences, SequencesExt, FiniteSetsExt, TLC

CONSTANTS
    Wrap,         \* sequence numbers are taken modulo Wrap (2^32)
    InitialSeq,   \* the host's initial sequence number (below 2^31)
    Plans,        \* what the environment may do: see plan
    MaxPayload,   \* bytes per segment (1460)
    RecvCap,      \* payloads in recvBuf (512)
    MaxGaps,      \* segments buffered out of order (16)
    GuestPayload, \* bytes per segment of the guest
    MaxRetries,   \* retransmissions of a segment before Close (10)
    DupThreshold  \* duplicate acknowledgements before a fast retransmit (3)

ASSUME TcpBounds ==
    /\ Wrap \in Nat /\ InitialSeq \in Nat /\ 2 * InitialSeq < Wrap
    /\ MaxPayload > 0 /\ GuestPayload > 0 /\ RecvCap > 0
    /\ \A p \in Plans : p.sendCap >= MaxPayload /\ p.window > 0

VARIABLES
    conn,      \* the fields of tcpConn under c.mu
    sendBuf,   \* tcpSendBuffer.segments
    oooRecvBuf,\* tcpRecvBuffer.segments
    recvBuf,   \* the channel of payloads, <<>> stands for nil, the end
    retxTimer, \* "nil", "armed", or "stale": its timer has fired
    orphans,   \* armed timers retxTimer does not point to
    cb,        \* onRetxTimeout: where it is and the segment it holds
    wr,        \* the writer: where it is, its chunk, what it has written
    rd,        \* the reader: where it is and the bytes it has read
    proxy,     \* "none", "dialing" the outside, "refused", "copying", "done"
    dial,      \* "none", "waiting", "done", "failed"
    handler,   \* handleSegment: the frame and the calls it still makes
    cleanup,   \* Close: "no", "fin", "nofin" (fields set), "done"
    toGuest, toHost,  \* frames on the wire
    guest,     \* the guest's end
    plan,      \* the bytes the retransmission queue holds (256 KB); of the
               \* environment: the guest's receive buffer, the bytes the host's
               \* socket and the guest send, whether they end then, who opens
               \* the connection, and how often a frame to the guest may still be
               \* lost, one of the guest's overtake another, or a SYN or a segment
               \* of it be sent again
    overflow   \* recvBuf has been full when a payload came

vars == <<conn, sendBuf, oooRecvBuf, recvBuf, retxTimer, orphans, cb, wr, rd,
          proxy, dial, handler, cleanup, toGuest, toHost, guest, plan, overflow>>
timerVars == <<retxTimer, orphans, cb>>
recvVars == <<oooRecvBuf, recvBuf>>
appVars == <<rd, proxy, dial>>
envVars == <<toHost, guest, plan, overflow>>

-----------------------------------------------------------------------------
(* Sequence numbers and segments.                                          *)

Plus(a, n) == (a + n) % Wrap

\* int32(a-b) < 0, <= 0, > 0
seqLT(a, b) == (a - b) % Wrap >= Wrap \div 2
seqLTE(a, b) == a = b \/ seqLT(a, b)
seqGT(a, b) == a # b /\ ~seqLT(a, b)

seqOverlap(aStart, aEnd, bStart, bEnd) == seqLT(aStart, bEnd) /\ seqLT(bStart, aEnd)

\* The bytes from position i to position j of a stream.
Bytes(i, j) == [k \in 1 .. (j - i + 1) |-> i + k - 1]

Segment(start, data) ==
    [start |-> start, end |-> Plus(start, Len(data)), data |-> data]

\* tcpSendBuffer.append has room for n bytes more.
Used(buf) == FoldLeft(LAMBDA n, s : n + Len(s.data), 0, buf)
HasRoom(buf, n) == Used(buf) + n <= plan.sendCap

\* Mutant: a segment goes as soon as it is begun to be acknowledged.
AckedFromStart(buf, ackNum) == SelectSeq(buf, LAMBDA s : ~seqLTE(s.start, ackNum))

\* tcpSendBuffer.ack: what stays is not wholly acknowledged.
Acked(buf, ackNum) == SelectSeq(buf, LAMBDA s : ~seqLTE(s.end, ackNum))

\* A segment that left the queue has returned its payload to the pool, where the
\* next retainPayload of any connection may overwrite it: 0 is a foreign byte.
Queued(seg) == \E i \in 1 .. Len(sendBuf) : sendBuf[i].start = seg.start
Payloads(seg) ==
    {seg.data} \cup (IF Queued(seg) THEN {} ELSE {[i \in DOMAIN seg.data |-> 0]})

\* markRetransmittedN(1)
MarkOldest(buf) == IF buf = <<>> THEN buf ELSE [buf EXCEPT ![1].retxCount = @ + 1]

\* tcpRecvBuffer.insert: an overlapping segment is refused, as is one too many.
Insert(segs, seg) ==
    LET overlaps == \E i \in 1 .. Len(segs) :
                        seqOverlap(seg.start, seg.end, segs[i].start, segs[i].end)
        after == {i \in 1 .. Len(segs) : seqLT(seg.start, segs[i].start)}
        idx == IF after = {} THEN Len(segs) + 1 ELSE CHOOSE i \in after : \A j \in after : i <= j
    IN  IF overlaps \/ Len(segs) >= MaxGaps THEN segs ELSE InsertAt(segs, idx, seg)

\* Mutant: a segment the position has passed counts as contiguous.
CollectPassed(segs, nextSeq) ==
    FoldLeft(LAMBDA r, s :
                 IF seqLTE(s.start, r.next)
                 THEN [r EXCEPT !.next = s.end, !.got = Append(@, s.data)]
                 ELSE [r EXCEPT !.left = Append(@, s)],
             [next |-> nextSeq, got |-> <<>>, left |-> <<>>], segs)

\* Mutant: only the last contiguous segment is returned.
CollectLast(segs, nextSeq) ==
    FoldLeft(LAMBDA r, s :
                 IF s.start = r.next
                 THEN [r EXCEPT !.next = s.end, !.got = <<s.data>>]
                 ELSE [r EXCEPT !.left = Append(@, s)],
             [next |-> nextSeq, got |-> <<>>, left |-> <<>>], segs)

\* collectContiguous: the buffer is in order, so one pass finds every segment
\* that continues nextSeq; a segment the position has passed stays behind.
CollectContiguous(segs, nextSeq) ==
    FoldLeft(LAMBDA r, s :
                 IF s.start = r.next
                 THEN [r EXCEPT !.next = s.end, !.got = Append(@, s.data)]
                 ELSE [r EXCEPT !.left = Append(@, s)],
             [next |-> nextSeq, got |-> <<>>, left |-> <<>>], segs)

-----------------------------------------------------------------------------
(* Initial states: a SYN of the guest has opened the connection and         *)
(* sendSynAck has run (handleTCP), or DialInternalContext is at its wait.   *)

Frame(seq, ack, flags, data) == [seq |-> seq, ack |-> ack, flags |-> flags, data |-> data]

newTCPConn(state, guestSeq) ==
    [state |-> state, guestSeq |-> guestSeq, hostSeq |-> Plus(InitialSeq, 1),
     sendAcked |-> InitialSeq, peerWnd |-> plan.window, closed |-> FALSE,
     writeClosed |-> FALSE, dupAcks |-> 0]

\* The guest's end: its own next and oldest unacknowledged positions, what it
\* has received in order, what of that its program has not read, and how far
\* it is with opening and closing.
Guest(open) ==
    [open |-> open, next |-> 1, una |-> 1, got |-> <<>>, unread |-> 0,
     finSent |-> FALSE, finSeen |-> FALSE]

Init ==
    /\ plan \in Plans
    /\ \/ /\ ~plan.dial
          /\ conn = newTCPConn("SynRcvd", 1)
          /\ toGuest = <<Frame(InitialSeq, 1, {"S", "A"}, <<>>)>>
          /\ dial = "none"
       \/ /\ plan.dial
          /\ conn = newTCPConn("SynSent", 0)
          /\ toGuest = <<Frame(InitialSeq, 0, {"S"}, <<>>)>>
          /\ dial = "waiting"
    /\ sendBuf = <<>> /\ oooRecvBuf = <<>> /\ recvBuf = <<>>
    /\ retxTimer = "nil" /\ orphans = 0
    /\ cb = [pc |-> "idle", seg |-> <<>>]
    /\ wr = [pc |-> "idle", chunk |-> <<>>, start |-> 0, acked |-> 0, taken |-> 0]
    /\ rd = [pc |-> "idle", got |-> <<>>]
    /\ proxy = "none"
    /\ handler = [frame |-> <<>>, todo |-> <<>>]
    /\ cleanup = "no"
    /\ toHost = <<>>
    /\ guest = Guest(FALSE)
    /\ overflow = FALSE

-----------------------------------------------------------------------------
(* The retransmission timer.                                               *)

\* startRetxTimer: only when none is known to run.
StartTimer == retxTimer' = IF retxTimer = "nil" THEN "armed" ELSE retxTimer

\* sendCond.Broadcast: whoever waits goes on.
Broadcast(w) ==
    CASE w.pc = "window" -> [w EXCEPT !.pc = "write"]
      [] w.pc = "wait" -> [w EXCEPT !.pc = "append"]
      [] OTHER -> w

-----------------------------------------------------------------------------
(* Write.  The loop for one chunk: reserve sequence numbers, send, append   *)
(* to the retransmission queue, reconcile it, start the timer.              *)

\* The socket of the host delivers data, io.Copy calls Write; how much of it one
\* call passes on is open, so a chunk has any size the window leaves.
WriteCall ==
    /\ proxy = "copying" /\ wr.pc = "idle" /\ wr.taken < plan.host
    /\ wr' = [wr EXCEPT !.pc = "write"]
    /\ UNCHANGED <<conn, sendBuf, handler, cleanup, toGuest, timerVars, recvVars, appVars, envVars>>

InFlight == (conn.hostSeq - conn.sendAcked) % Wrap

WriteReserve ==
    /\ wr.pc = "write"
    /\ \/ /\ conn.closed \/ conn.writeClosed
          /\ wr' = [wr EXCEPT !.pc = "failed"]
          /\ UNCHANGED conn
       \/ /\ ~conn.closed /\ ~conn.writeClosed
          /\ conn.peerWnd > 0 /\ InFlight < conn.peerWnd
          /\ \E n \in 1 .. Min({MaxPayload, conn.peerWnd - InFlight, plan.host - wr.taken}) :
                 /\ wr' = [wr EXCEPT !.pc = "send", !.start = conn.hostSeq,
                                     !.acked = conn.guestSeq,
                                     !.chunk = Bytes(wr.taken + 1, wr.taken + n)]
                 /\ conn' = [conn EXCEPT !.hostSeq = Plus(@, n)]
       \/ /\ ~conn.closed /\ ~conn.writeClosed
          /\ conn.peerWnd = 0 \/ InFlight >= conn.peerWnd
          /\ wr' = [wr EXCEPT !.pc = "window"]
          /\ UNCHANGED conn
    /\ UNCHANGED <<sendBuf, handler, cleanup, toGuest, timerVars, recvVars, appVars, envVars>>

WriteSend ==
    /\ wr.pc = "send"
    /\ toGuest' = Append(toGuest, Frame(wr.start, wr.acked, {"A"}, wr.chunk))
    /\ wr' = [wr EXCEPT !.pc = "append", !.acked = 0]
    /\ UNCHANGED <<conn, sendBuf, handler, cleanup, timerVars, recvVars, appVars, envVars>>

Unsent == [retxCount |-> 0] @@ Segment(wr.start, wr.chunk)

\* The first append, and the one after each wait.
WriteAppend ==
    /\ wr.pc = "append"
    /\ \/ /\ HasRoom(sendBuf, Len(wr.chunk))
          /\ sendBuf' = Append(sendBuf, Unsent)
          /\ wr' = [wr EXCEPT !.pc = "reconcile", !.acked = 0]
       \/ /\ ~HasRoom(sendBuf, Len(wr.chunk))
          /\ wr' = [wr EXCEPT !.pc = "full"]
          /\ UNCHANGED sendBuf
    /\ UNCHANGED <<conn, handler, cleanup, toGuest, timerVars, recvVars, appVars, envVars>>

\* The queue is full: read what has been acknowledged, ...
WriteFull ==
    /\ wr.pc = "full"
    /\ wr' = IF conn.closed THEN [wr EXCEPT !.pc = "failed", !.chunk = <<>>, !.start = 0]
             ELSE [wr EXCEPT !.pc = "retry", !.acked = conn.sendAcked]
    /\ UNCHANGED <<conn, sendBuf, handler, cleanup, toGuest, timerVars, recvVars, appVars, envVars>>

\* ... drop that from the queue and try again, ...
WriteRetry ==
    /\ wr.pc = "retry"
    /\ LET left == Acked(sendBuf, wr.acked)
       IN  \/ /\ HasRoom(left, Len(wr.chunk))
              /\ sendBuf' = Append(left, Unsent)
              /\ wr' = [wr EXCEPT !.pc = "reconcile", !.acked = 0]
           \/ /\ ~HasRoom(left, Len(wr.chunk))
              /\ sendBuf' = left
              /\ wr' = [wr EXCEPT !.pc = "block", !.acked = 0]
    /\ UNCHANGED <<conn, handler, cleanup, toGuest, timerVars, recvVars, appVars, envVars>>

\* ... and wait for a broadcast.
WriteBlock ==
    /\ wr.pc = "block"
    /\ wr' = [wr EXCEPT !.pc = "wait"]
    /\ UNCHANGED <<conn, sendBuf, handler, cleanup, toGuest, timerVars, recvVars, appVars, envVars>>

\* The acknowledgement may have come before the segment was in the queue.
WriteReconcile ==
    /\ wr.pc = "reconcile"
    /\ wr' = [wr EXCEPT !.pc = "trim", !.acked = conn.sendAcked]
    /\ UNCHANGED <<conn, sendBuf, handler, cleanup, toGuest, timerVars, recvVars, appVars, envVars>>

WriteDone(w) ==
    [w EXCEPT !.taken = @ + Len(w.chunk), !.chunk = <<>>, !.start = 0, !.acked = 0,
              !.pc = "idle"]

WriteTrim ==
    /\ wr.pc = "trim"
    /\ sendBuf' = Acked(sendBuf, wr.acked)
    /\ wr' = IF sendBuf' = <<>> THEN WriteDone(wr) ELSE [wr EXCEPT !.pc = "start", !.acked = 0]
    /\ UNCHANGED <<conn, handler, cleanup, toGuest, timerVars, recvVars, appVars, envVars>>

WriteStartTimer ==
    /\ wr.pc = "start"
    /\ StartTimer
    /\ wr' = WriteDone(wr)
    /\ UNCHANGED <<conn, sendBuf, orphans, cb, handler, cleanup, toGuest, recvVars, appVars, envVars>>

-----------------------------------------------------------------------------
(* Close and CloseWrite.                                                    *)

\* The section under c.mu; Close does nothing when it has been there before.
\* The channel keeps what is in it: closed means that it ends after that.
CloseSection ==
    IF conn.closed THEN UNCHANGED <<conn, cleanup, wr>>
    ELSE /\ conn' = [conn EXCEPT !.state = "Closed", !.closed = TRUE]
         /\ cleanup' = IF conn.state = "Established" /\ ~conn.writeClosed THEN "fin" ELSE "nofin"
         /\ wr' = Broadcast(wr)

\* completeDial(net.ErrClosed) in Close: the first completion counts.
DialFails == dial' = IF dial = "waiting" THEN "failed" ELSE dial

\* The rest of Close: stop the timer, clear the buffers, send FIN.
CloseCleanup ==
    /\ cleanup \in {"fin", "nofin"}
    /\ cleanup' = "done"
    /\ retxTimer' = "nil"
    /\ sendBuf' = <<>> /\ oooRecvBuf' = <<>>
    /\ \/ /\ cleanup = "fin"
          /\ toGuest' = Append(toGuest, Frame(conn.hostSeq, conn.guestSeq, {"F", "A"}, <<>>))
          /\ conn' = [conn EXCEPT !.hostSeq = Plus(@, 1)]
       \/ /\ cleanup = "nofin"
          /\ UNCHANGED <<conn, toGuest>>
    /\ UNCHANGED <<recvBuf, orphans, cb, wr, handler, appVars, envVars>>

\* The socket of the host has ended: io.Copy returns nil and copyOne calls
\* CloseWrite, which refuses a connection that the guest has closed.
CloseWrite ==
    /\ proxy = "copying" /\ wr.pc = "idle" /\ plan.hostEnds
    /\ \/ /\ conn.closed \/ conn.writeClosed
          /\ wr' = [wr EXCEPT !.pc = "ended"]
          /\ UNCHANGED conn
       \/ /\ ~conn.closed /\ ~conn.writeClosed /\ conn.state # "Established"
          /\ wr' = [wr EXCEPT !.pc = "failed"]
          /\ UNCHANGED conn
       \/ /\ ~conn.closed /\ ~conn.writeClosed /\ conn.state = "Established"
          /\ wr' = [wr EXCEPT !.pc = "fin"]
          /\ conn' = [conn EXCEPT !.writeClosed = TRUE]
    /\ UNCHANGED <<sendBuf, handler, cleanup, toGuest, timerVars, recvVars, appVars, envVars>>

CloseWriteFin ==
    /\ wr.pc = "fin"
    /\ toGuest' = Append(toGuest, Frame(conn.hostSeq, conn.guestSeq, {"F", "A"}, <<>>))
    /\ conn' = [conn EXCEPT !.hostSeq = Plus(@, 1)]
    /\ wr' = [wr EXCEPT !.pc = "ended"]
    /\ UNCHANGED <<sendBuf, handler, cleanup, timerVars, recvVars, appVars, envVars>>

-----------------------------------------------------------------------------
(* The reader and the proxy.                                               *)

\* nextReadPayload: a payload, the end (nil), or the closed channel.
Read ==
    /\ rd.pc = "idle" /\ proxy \in {"copying", "done"}
    /\ \/ /\ recvBuf # <<>>
          /\ recvBuf' = Tail(recvBuf)
          /\ rd' = IF Head(recvBuf) = <<>> THEN [rd EXCEPT !.pc = "ended"]
                   ELSE [rd EXCEPT !.got = @ \o Head(recvBuf)]
       \/ /\ recvBuf = <<>> /\ conn.closed
          /\ rd' = [rd EXCEPT !.pc = "failed"]
          /\ UNCHANGED recvBuf
    /\ UNCHANGED <<conn, sendBuf, oooRecvBuf, wr, proxy, dial, handler, cleanup,
                   toGuest, timerVars, envVars>>

\* startServiceProxy, startOutboundTCPProxy: the socket of the host is connected, or
\* the connection is closed.
OutboundDial ==
    /\ proxy = "dialing"
    /\ \/ proxy' = "copying" /\ UNCHANGED <<conn, cleanup, wr>>
       \/ proxy' = "refused" /\ CloseSection
    /\ UNCHANGED <<sendBuf, rd, dial, handler, toGuest, timerVars, recvVars, envVars>>

\* proxyConns: an error closes both ends at once; then, or when both directions
\* have ended, both are closed.
ProxyClose ==
    /\ proxy = "copying"
    /\ \/ wr.pc = "failed" \/ rd.pc = "failed"
       \/ wr.pc = "ended" /\ rd.pc = "ended"
    /\ proxy' = "done"
    /\ CloseSection
    /\ UNCHANGED <<sendBuf, rd, dial, handler, toGuest, timerVars, recvVars, envVars>>

\* DialInternalContext returns the connection; or its context has ended, which
\* select may prefer, and it closes the connection.
DialReturns ==
    /\ dial = "done" /\ proxy = "none"
    /\ proxy' = "copying"
    /\ UNCHANGED <<conn, sendBuf, wr, rd, dial, handler, cleanup, toGuest, timerVars,
                   recvVars, envVars>>

DialCancelled ==
    /\ dial \in {"waiting", "done"} /\ proxy = "none"
    /\ dial' = "failed"
    /\ CloseSection
    /\ UNCHANGED <<sendBuf, rd, proxy, handler, toGuest, timerVars, recvVars, envVars>>

\* retransmitSyn, every 100 ms until the dial is done (bounded as the guest's
\* own repetitions are).
RetransmitSyn ==
    /\ dial = "waiting" /\ ~conn.closed /\ conn.state = "SynSent"
    /\ plan.resent > 0
    /\ plan' = [plan EXCEPT !.resent = @ - 1]
    /\ toGuest' = Append(toGuest, Frame(Plus(conn.hostSeq, -1), 0, {"S"}, <<>>))
    /\ UNCHANGED <<conn, sendBuf, wr, handler, cleanup, toHost, guest, overflow, timerVars,
                   recvVars, appVars>>

-----------------------------------------------------------------------------
(* handleSegment.  The calls made after c.mu is released are queued in      *)
(* handler.todo and made one by one.                                        *)

\* The frame is kept for the calls that look at it again.
Pending(f, todo) ==
    [frame |-> IF \E i \in 1 .. Len(todo) : todo[i].op \in {"again", "state"} THEN f ELSE <<>>,
     todo |-> todo]
Call(op) == [op |-> op, data |-> <<>>]
Enqueue(data) == [op |-> "enqueue", data |-> data]

\* The state machine, for connection c and frame f: the connection and the
\* out-of-order buffer it leaves, and the calls still to make.
Result(c, ooo, todo) == [conn |-> c, ooo |-> ooo, todo |-> todo]

InSynSent(c, f) ==
    CASE "R" \in f.flags ->
            Result([c EXCEPT !.state = "Closed"], oooRecvBuf, <<Call("close")>>)
      [] "R" \notin f.flags /\ {"S", "A"} \subseteq f.flags /\ f.ack = c.hostSeq ->
            Result([c EXCEPT !.state = "Established", !.guestSeq = Plus(f.seq, 1)],
                   oooRecvBuf, <<Call("ack"), Call("dialed")>>)
      [] OTHER -> Result(c, oooRecvBuf, <<>>)

InSynRcvd(c, f) ==
    IF "A" \in f.flags /\ f.ack = c.hostSeq
    THEN Result([c EXCEPT !.state = "Established"], oooRecvBuf,
                IF f.data # <<>> \/ f.flags \cap {"F", "R"} # {}
                THEN <<Call("established"), Call("again")>> ELSE <<Call("established")>>)
    ELSE Result(c, oooRecvBuf, <<>>)

\* The guest's FIN is answered with an acknowledgement and the host's own FIN.
PeerClosed(c) ==
    <<Call("eof"), Call("ack")>> \o (IF c.writeClosed THEN <<>> ELSE <<Call("fin")>>)

InEstablished(c, f) ==
    CASE f.data # <<>> /\ f.seq # c.guestSeq ->
            Result(c, IF seqGT(f.seq, c.guestSeq)
                      THEN Insert(oooRecvBuf, Segment(f.seq, f.data)) ELSE oooRecvBuf,
                   <<Call("ack")>>)
      [] f.data # <<>> /\ f.seq = c.guestSeq ->
            LET col == CollectContiguous(oooRecvBuf, Plus(c.guestSeq, Len(f.data)))
                enq == [i \in 1 .. Len(col.got) |-> Enqueue(col.got[i])]
                all == <<Enqueue(f.data)>> \o enq
            IN  IF "F" \in f.flags
                THEN Result([c EXCEPT !.guestSeq = Plus(col.next, 1), !.state = "FinWait"],
                            col.left, all \o PeerClosed(c))
                ELSE Result([c EXCEPT !.guestSeq = col.next], col.left, Append(all, Call("ack")))
      [] f.data = <<>> /\ "F" \in f.flags ->
            Result([c EXCEPT !.guestSeq = Plus(@, 1), !.state = "FinWait"], oooRecvBuf, PeerClosed(c))
      [] OTHER -> Result(c, oooRecvBuf, IF "R" \in f.flags THEN <<Call("close")>> ELSE <<>>)

InFinWait(c, f) ==
    IF "A" \in f.flags
    THEN Result([c EXCEPT !.state = "Closed"], oooRecvBuf, <<Call("close")>>)
    ELSE Result(c, oooRecvBuf, <<>>)

StateMachine(c, f) ==
    CASE c.state = "SynSent" -> InSynSent(c, f)
      [] c.state = "SynRcvd" -> InSynRcvd(c, f)
      [] c.state = "Established" -> InEstablished(c, f)
      [] c.state = "FinWait" -> InFinWait(c, f)
      [] c.state = "Closed" -> Result(c, oooRecvBuf, <<>>)

\* What an acknowledgement changes.  The comparisons are of plain numbers.
Advances(f) == "A" \in f.flags /\ f.ack > conn.sendAcked
Resyncs(f) == "A" \in f.flags /\ f.ack > conn.hostSeq
Duplicate(f) ==
    /\ "A" \in f.flags /\ f.ack = conn.sendAcked /\ sendBuf # <<>> /\ f.data = <<>>
    /\ f.flags \cap {"S", "F", "R"} = {} /\ f.wnd = conn.peerWnd
FastRetransmit(f) == Duplicate(f) /\ conn.dupAcks + 1 = DupThreshold

\* The oldest segment, with the acknowledgement it is sent again with.
Resent == [start |-> sendBuf[1].start, ack |-> conn.guestSeq, data |-> sendBuf[1].data]

AckSection(f) ==
    IF "A" \notin f.flags THEN conn
    ELSE [conn EXCEPT !.peerWnd = f.wnd,
                      !.sendAcked = IF Advances(f) \/ Resyncs(f) THEN f.ack ELSE @,
                      !.hostSeq = IF Resyncs(f) THEN f.ack ELSE @,
                      !.dupAcks = IF Advances(f) THEN 0
                                  ELSE IF Duplicate(f) /\ @ <= DupThreshold THEN @ + 1 ELSE @]

Wakes(f) ==
    \/ Advances(f) \/ Resyncs(f)
    \/ "A" \in f.flags /\ conn.peerWnd = 0 /\ f.wnd > 0

\* Mutant: any progress stops the timer.
AckTimerStops(f) ==
    IF Advances(f)
    THEN sendBuf' = Acked(sendBuf, f.ack) /\ retxTimer' = "nil"
    ELSE UNCHANGED <<sendBuf, retxTimer>>

\* restartRetxTimer when something is left to acknowledge, else stopRetxTimer.
AckTimer(f) ==
    IF Advances(f)
    THEN /\ sendBuf' = Acked(sendBuf, f.ack)
         /\ retxTimer' = IF sendBuf' # <<>> THEN "armed" ELSE "nil"
    ELSE UNCHANGED <<sendBuf, retxTimer>>

\* Frame f is handled: in one section, or, when a fast retransmit releases the
\* lock, in two.
HandleSegment(f) ==
    IF conn.closed
    THEN /\ handler' = Pending(f, <<>>)
         /\ UNCHANGED <<conn, sendBuf, retxTimer, wr, oooRecvBuf>>
    ELSE /\ AckTimer(f)
         /\ wr' = IF Wakes(f) THEN Broadcast(wr) ELSE wr
         /\ \/ /\ FastRetransmit(f)
               /\ conn' = AckSection(f)
               /\ handler' = [frame |-> f,
                              todo |-> <<[op |-> "resend", data |-> Resent], Call("state")>>]
               /\ UNCHANGED oooRecvBuf
            \/ /\ ~FastRetransmit(f)
               /\ LET r == StateMachine(AckSection(f), f)
                  IN  /\ conn' = r.conn /\ oooRecvBuf' = r.ooo
                      /\ handler' = Pending(f, r.todo)

\* The device delivers the next frame of the guest, or one that overtakes it.
Deliver ==
    /\ handler.todo = <<>> /\ toHost # <<>>
    /\ \E i \in {1, 2} :
          /\ i <= Len(toHost)
          /\ i = 2 => plan.reorder > 0
          /\ HandleSegment(toHost[i])
          /\ toHost' = RemoveAt(toHost, i)
          /\ plan' = [plan EXCEPT !.reorder = IF i = 2 THEN @ - 1 ELSE @]
    /\ UNCHANGED <<recvBuf, orphans, cb, cleanup, toGuest, guest, overflow, appVars>>

Next1(h) == Pending(h.frame, Tail(h.todo))
Due(op) == handler.todo # <<>> /\ Head(handler.todo).op = op

\* The segment of a fast retransmit, sent without c.mu.
HandlerResend ==
    /\ Due("resend")
    /\ LET seg == Head(handler.todo).data
       IN  \E d \in Payloads(seg) :
               toGuest' = Append(toGuest, Frame(seg.start, seg.ack, {"A"}, d))
    /\ handler' = Next1(handler)
    /\ UNCHANGED <<conn, sendBuf, wr, cleanup, timerVars, recvVars, appVars, envVars>>

\* sendAck, sendFin
HandlerSend ==
    /\ \/ Due("ack") \/ Due("fin")
    /\ LET call == Head(handler.todo)
       IN  toGuest' = Append(toGuest,
               CASE call.op = "ack" -> Frame(conn.hostSeq, conn.guestSeq, {"A"}, <<>>)
                 [] call.op = "fin" -> Frame(conn.hostSeq, conn.guestSeq, {"F", "A"}, <<>>))
    /\ conn' = IF Due("fin") THEN [conn EXCEPT !.hostSeq = Plus(@, 1)] ELSE conn
    /\ handler' = Next1(handler)
    /\ UNCHANGED <<sendBuf, wr, cleanup, timerVars, recvVars, appVars, envVars>>

\* enqueueData: a full channel drops the payload, or the end.
HandlerEnqueue ==
    /\ Due("enqueue") \/ Due("eof")
    /\ LET room == Len(recvBuf) < RecvCap
       IN  /\ recvBuf' = IF ~conn.closed /\ room THEN Append(recvBuf, Head(handler.todo).data)
                         ELSE recvBuf
           /\ overflow' = (overflow \/ (~conn.closed /\ ~room))
    /\ handler' = Next1(handler)
    /\ UNCHANGED <<conn, sendBuf, oooRecvBuf, wr, cleanup, toGuest, toHost, guest, plan,
                   timerVars, appVars>>

HandlerClose ==
    /\ Due("close")
    /\ CloseSection /\ DialFails
    /\ handler' = Next1(handler)
    /\ UNCHANGED <<sendBuf, rd, proxy, toGuest, timerVars, recvVars, envVars>>

\* The connection is established: the proxy starts, or the dial is complete.
HandlerEstablished ==
    /\ \/ Due("established") /\ proxy' = "dialing" /\ UNCHANGED dial
       \/ Due("dialed") /\ dial' = (IF dial = "waiting" THEN "done" ELSE dial) /\ UNCHANGED proxy
    /\ handler' = Next1(handler)
    /\ UNCHANGED <<conn, sendBuf, wr, rd, cleanup, toGuest, timerVars, recvVars, envVars>>

\* handleSegment calls itself for the data that came with the acknowledgement.
HandlerAgain ==
    /\ Due("again")
    /\ HandleSegment(handler.frame)
    /\ UNCHANGED <<recvBuf, orphans, cb, cleanup, toGuest, appVars, envVars>>

\* The rest of the handler after a fast retransmit.
HandlerState ==
    /\ Due("state")
    /\ LET r == StateMachine(conn, handler.frame)
       IN  /\ conn' = r.conn /\ oooRecvBuf' = r.ooo
           /\ handler' = Pending(handler.frame, r.todo)
    /\ UNCHANGED <<sendBuf, recvBuf, wr, cleanup, toGuest, timerVars, appVars, envVars>>

-----------------------------------------------------------------------------
(* onRetxTimeout.  Callbacks run one at a time here; at most one timer that *)
(* nobody points to is kept.                                                *)

Fire ==
    /\ cb.pc = "idle"
    /\ \/ retxTimer = "armed" /\ retxTimer' = "stale" /\ UNCHANGED orphans
       \/ orphans > 0 /\ orphans' = orphans - 1 /\ UNCHANGED retxTimer
    /\ cb' = [cb EXCEPT !.pc = "fired"]
    /\ UNCHANGED <<conn, sendBuf, wr, handler, cleanup, toGuest, recvVars, appVars, envVars>>

\* Nothing to do: closed, or everything acknowledged.
RetxNothing ==
    /\ cb.pc = "fired"
    /\ conn.closed \/ sendBuf = <<>>
    /\ retxTimer' = IF conn.closed THEN retxTimer ELSE "nil"
    /\ cb' = [cb EXCEPT !.pc = "idle"]
    /\ UNCHANGED <<conn, sendBuf, orphans, wr, handler, cleanup, toGuest, recvVars, appVars, envVars>>

\* The oldest segment was sent less than half a timeout ago.
RetxSpurious ==
    /\ cb.pc = "fired" /\ ~conn.closed /\ sendBuf # <<>>
    /\ cb' = [cb EXCEPT !.pc = "rearm"]
    /\ UNCHANGED <<conn, sendBuf, retxTimer, orphans, wr, handler, cleanup, toGuest,
                   recvVars, appVars, envVars>>

\* It is due: send it again, or give up.
RetxDue ==
    /\ cb.pc = "fired" /\ ~conn.closed /\ sendBuf # <<>>
    /\ cb' = IF sendBuf[1].retxCount >= MaxRetries THEN [cb EXCEPT !.pc = "giveup"]
             ELSE [pc |-> "resend", seg |-> Resent]
    /\ conn' = IF sendBuf[1].retxCount \in 1 .. MaxRetries - 1
               THEN [conn EXCEPT !.dupAcks = 0] ELSE conn
    /\ UNCHANGED <<sendBuf, retxTimer, orphans, wr, handler, cleanup, toGuest,
                   recvVars, appVars, envVars>>

\* The mark falls on whatever is oldest by now.
RetxResend ==
    /\ cb.pc = "resend"
    /\ sendBuf' = MarkOldest(sendBuf)
    /\ \E d \in Payloads(cb.seg) :
           toGuest' = Append(toGuest, Frame(cb.seg.start, cb.seg.ack, {"A"}, d))
    /\ cb' = [pc |-> "rearm", seg |-> <<>>]
    /\ UNCHANGED <<conn, retxTimer, orphans, wr, handler, cleanup, recvVars, appVars, envVars>>

RetxRearm ==
    /\ cb.pc = "rearm"
    /\ retxTimer' = "armed"
    /\ orphans' = IF retxTimer = "armed" THEN 1 ELSE orphans
    /\ cb' = [cb EXCEPT !.pc = "idle"]
    /\ UNCHANGED <<conn, sendBuf, wr, handler, cleanup, toGuest, recvVars, appVars, envVars>>

RetxGiveUp ==
    /\ cb.pc = "giveup"
    /\ CloseSection /\ DialFails
    /\ cb' = [cb EXCEPT !.pc = "idle"]
    /\ UNCHANGED <<sendBuf, retxTimer, orphans, rd, proxy, handler, toGuest, recvVars, envVars>>

-----------------------------------------------------------------------------
(* The guest's TCP and the wire (external).  Byte k of the guest has        *)
(* sequence number k, after its SYN.                                        *)

\* The host's sequence number the guest expects next.
Expected(g) == Plus(InitialSeq, 1 + Len(g.got) + (IF g.finSeen THEN 1 ELSE 0))

ToHost(g, seq, flags, data) ==
    [seq |-> seq, ack |-> Expected(g), flags |-> flags, data |-> data, wnd |-> plan.window - g.unread]

\* The bytes of frame f the guest did not have and has room for.
NewBytes(f) ==
    LET old == (Expected(guest) - f.seq) % Wrap
    IN  IF guest.finSeen \/ old >= Len(f.data) THEN <<>>
        ELSE SubSeq(f.data, old + 1, Min({Len(f.data), old + plan.window - guest.unread}))

GuestReceive ==
    /\ toGuest # <<>>
    /\ LET f == Head(toGuest)
           opened == IF "S" \in f.flags THEN [guest EXCEPT !.open = TRUE]
                     ELSE [guest EXCEPT !.got = @ \o NewBytes(f), !.unread = @ + Len(NewBytes(f)),
                                        !.una = IF f.ack > @ THEN f.ack ELSE @]
           g == [opened EXCEPT !.finSeen =
                     @ \/ ("F" \in f.flags /\ Plus(f.seq, Len(f.data)) = Expected(opened))]
           reply == IF f.flags = {"S"} /\ ~guest.open THEN <<ToHost(g, 0, {"S", "A"}, <<>>)>>
                    ELSE IF f.flags # {"A"} \/ f.data # <<>> THEN <<ToHost(g, g.next, {"A"}, <<>>)>>
                    ELSE <<>>
       IN  /\ guest' = g
           /\ toHost' = toHost \o reply
    /\ toGuest' = Tail(toGuest)
    /\ UNCHANGED <<conn, sendBuf, wr, handler, cleanup, plan, overflow, timerVars, recvVars, appVars>>

\* A connection attempt is refused.
GuestRefuse ==
    /\ toGuest # <<>> /\ Head(toGuest).flags = {"S"} /\ ~guest.open
    /\ toHost' = Append(toHost, ToHost(guest, 0, {"R", "A"}, <<>>))
    /\ toGuest' = Tail(toGuest)
    /\ UNCHANGED <<conn, sendBuf, wr, handler, cleanup, guest, plan, overflow, timerVars, recvVars, appVars>>

Lose ==
    /\ toGuest # <<>> /\ plan.lost > 0
    /\ plan' = [plan EXCEPT !.lost = @ - 1]
    /\ toGuest' = Tail(toGuest)
    /\ UNCHANGED <<conn, sendBuf, wr, handler, cleanup, toHost, guest, overflow, timerVars, recvVars, appVars>>

\* Bytes i to j, with the FIN after the last one if fin.
GuestSegment(i, j, fin) ==
    ToHost(guest, i, IF fin THEN {"A", "F"} ELSE {"A"}, Bytes(i, j))

GuestSend ==
    /\ guest.open /\ ~guest.finSent
    /\ \E j \in guest.next - 1 .. plan.guest, fin \in BOOLEAN :
          /\ j - guest.next < GuestPayload
          /\ fin => plan.guestEnds /\ j = plan.guest
          /\ fin \/ j >= guest.next
          /\ toHost' = Append(toHost, GuestSegment(guest.next, j, fin))
          /\ guest' = [guest EXCEPT !.next = j + 1, !.finSent = fin]
    /\ UNCHANGED <<conn, sendBuf, wr, handler, cleanup, toGuest, plan, overflow, timerVars, recvVars, appVars>>

\* What is not acknowledged is sent again, cut differently perhaps.
GuestResend ==
    /\ plan.resent > 0
    /\ guest.una < guest.next
    /\ \E j \in guest.una .. guest.next - 1 :
          /\ j - guest.una < GuestPayload
          /\ toHost' = Append(toHost, GuestSegment(guest.una, j, guest.finSent /\ j = plan.guest))
    /\ plan' = [plan EXCEPT !.resent = @ - 1]
    /\ UNCHANGED <<conn, sendBuf, wr, handler, cleanup, toGuest, guest, overflow, timerVars, recvVars, appVars>>

\* The guest's program reads once its buffer is full, which is announced.
GuestRead ==
    /\ guest.unread = plan.window
    /\ guest' = [guest EXCEPT !.unread = 0]
    /\ toHost' = Append(toHost, ToHost(guest', guest.next, {"A"}, <<>>))
    /\ UNCHANGED <<conn, sendBuf, wr, handler, cleanup, toGuest, plan, overflow, timerVars, recvVars, appVars>>

-----------------------------------------------------------------------------

Writer ==
    \/ WriteReserve \/ WriteSend \/ WriteAppend \/ WriteFull \/ WriteRetry
    \/ WriteBlock \/ WriteReconcile \/ WriteTrim \/ WriteStartTimer \/ CloseWriteFin
Handler ==
    \/ HandlerResend \/ HandlerSend \/ HandlerEnqueue \/ HandlerClose \/ HandlerEstablished
    \/ HandlerAgain \/ HandlerState
Callback ==
    \/ RetxNothing \/ RetxSpurious \/ RetxDue \/ RetxResend \/ RetxRearm \/ RetxGiveUp

Next ==
    \/ WriteCall \/ Writer \/ CloseWrite \/ CloseCleanup \/ OutboundDial \/ Read \/ ProxyClose
    \/ DialReturns \/ DialCancelled \/ RetransmitSyn
    \/ Deliver \/ Handler \/ Fire \/ Callback
    \/ GuestReceive \/ GuestRefuse \/ Lose \/ GuestSend \/ GuestResend \/ GuestRead

Spec == Init /\ [][Next]_vars

\* Goroutines run, timers fire, the device and the guest work; a timeout is not
\* taken for spurious for ever.  Nothing is assumed of the socket of the host, of
\* what the guest sends by itself, or of a dial's context.
Fairness ==
    /\ WF_vars(Writer) /\ WF_vars(CloseCleanup) /\ WF_vars(Read) /\ WF_vars(ProxyClose)
    /\ WF_vars(DialReturns) /\ WF_vars(Deliver \/ Handler)
    /\ WF_vars(Fire \/ Callback) /\ SF_vars(RetxDue)
    /\ WF_vars(GuestReceive) /\ WF_vars(GuestRead)

FairSpec == Spec /\ Fairness

-----------------------------------------------------------------------------

\* Payload order: what the reader has got, then what waits in the channel, then
\* what the handler is about to put there.
Waiting == SelectSeq(recvBuf, LAMBDA d : d # <<>>)
Ahead == SelectSeq(handler.todo, LAMBDA c : c.op = "enqueue")
Received ==
    rd.got \o FlattenSeq(Waiting) \o FlattenSeq([i \in 1 .. Len(Ahead) |-> Ahead[i].data])

\* The bytes the reader gets are the guest's, in order, none missing and none
\* twice, however segments were reordered, repeated or cut (handleSegment,
\* tcpRecvBuffer); unless the receive queue overflowed.
ReceivedInOrder ==
    ~overflow /\ ~conn.closed => Received = Bytes(1, Len(Received))

\* What the host acknowledges it has handed on: no byte the guest may forget is
\* missing from what the reader gets (guestSeq, enqueueData).
AckedIsHandedOn ==
    ~overflow /\ ~conn.closed /\ proxy # "none" =>
        conn.guestSeq = 1 + Len(Received) + (IF conn.state = "Established" THEN 0 ELSE 1)

\* The guest receives what the host's socket delivered, in order, whatever was
\* lost, sent twice, or retransmitted from a buffer that had returned to the pool
\* meanwhile (onRetxTimeout and handleSegment use the payload without a lock).
GuestInOrder == ~conn.closed => guest.got = Bytes(1, Len(guest.got))

\* Every byte Write has taken reaches the guest, unless the connection closes.
Delivered ==
    Len(guest.got) < wr.taken ~> (Len(guest.got) = wr.taken \/ conn.closed)
=============================================================================
