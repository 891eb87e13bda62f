----------------------------- MODULE MCTcpConn -----------------------------
(* Small instances of TcpConn for TLC.                                     *)
EXTENDS TcpConn

Plan(sendCap, window, host, hostEnds, guestBytes, guestEnds, dialing, lost, reorder, resent) ==
    [sendCap |-> sendCap, window |-> window, host |-> host, hostEnds |-> hostEnds,
     guest |-> guestBytes, guestEnds |-> guestEnds, dial |-> dialing, lost |-> lost,
     reorder |-> reorder, resent |-> resent]

\* Two bytes for the guest: a frame is lost, or the queue has room for one only, or
\* the guest has; one end closes, or the other, or both; the guest's bytes
\* overtaken, cut and sent again; a dialled connection.
MCPlans ==
    {Plan(2, 2, 2, FALSE, 0, FALSE, FALSE, 1, 0, 0),
     Plan(1, 2, 2, FALSE, 0, FALSE, FALSE, 0, 0, 0),
     Plan(1, 1, 2, FALSE, 0, FALSE, FALSE, 0, 0, 0),
     Plan(1, 1, 1, FALSE, 0, TRUE, FALSE, 0, 0, 0),
     Plan(1, 1, 1, TRUE, 0, FALSE, FALSE, 0, 0, 0),
     Plan(1, 1, 0, TRUE, 1, TRUE, FALSE, 0, 0, 0),
     Plan(1, 1, 0, FALSE, 4, FALSE, FALSE, 0, 2, 1),
     Plan(1, 1, 1, FALSE, 0, FALSE, TRUE, 0, 0, 1)}
=============================================================================
