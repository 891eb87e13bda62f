--------------------------- MODULE MachineOpsProofs ---------------------------
(***************************************************************************)
(* Proofs about MachineOps, for any set of requests.                       *)
(***************************************************************************)
EXTENDS MachineOps, TLAPS

\* Init establishes the inductive invariant.
LEMMA InitInv == Init => IndInv
  BY ConstantsAssumption, Zenon DEF Init, IndInv, TypeOK, StopShows, StopHoldsLock, PastLook, SnapshotArmed,
     StopCancelsSnapshot, ClosedMeansStop, Kinds

\* Every step keeps the types, and who is inside a lock's region holds it.
LEMMA NextType == IndInv /\ [Next]_vars => TypeOK'
  <1> SUFFICES ASSUME IndInv, [Next]_vars PROVE TypeOK'
    OBVIOUS
  <1>0. TypeOK /\ StopHoldsLock
    BY DEF IndInv
  <1>1. ASSUME NEW o \in Ops, Look(o) PROVE TypeOK'
    BY <1>0, <1>1 DEF Look, Goto, TypeOK, execVars
  <1>2. ASSUME NEW o \in Ops, LockLifecycle(o) PROVE TypeOK'
    BY <1>0, <1>2, ConstantsAssumption DEF LockLifecycle, Goto, TypeOK, execVars
  <1>3. ASSUME NEW o \in Ops, LookAgain(o) PROVE TypeOK'
    BY <1>0, <1>3, ConstantsAssumption DEF LookAgain, Goto, TypeOK, execVars
  <1>4. ASSUME NEW o \in Ops, ArmSnapshot(o) PROVE TypeOK'
    BY <1>0, <1>4, ConstantsAssumption DEF ArmSnapshot, Goto, TypeOK, execVars
  <1>5. ASSUME NEW o \in Ops, WorkReturns(o) PROVE TypeOK'
    BY <1>0, <1>5 DEF WorkReturns, Goto, TypeOK, execVars
  <1>6. ASSUME NEW o \in Ops, Unlock(o) PROVE TypeOK'
    BY <1>0, <1>6, ConstantsAssumption DEF Unlock, Goto, TypeOK, execVars
  <1>7. ASSUME NEW o \in Ops, ExecReturns(o) PROVE TypeOK'
    BY <1>0, <1>7 DEF ExecReturns, Goto, TypeOK
  <1>8. ASSUME NEW o \in Ops, instanceIsStopping(o) PROVE TypeOK'
    BY <1>0, <1>8 DEF instanceIsStopping, Goto, TypeOK
  <1>9. ASSUME NEW o \in Ops, LockBalloon(o) PROVE TypeOK'
    BY <1>0, <1>9, ConstantsAssumption DEF LockBalloon, Goto, TypeOK, execVars
  <1>10. ASSUME NEW o \in Ops, LookAgainBalloon(o) PROVE TypeOK'
    BY <1>0, <1>10, ConstantsAssumption DEF LookAgainBalloon, Goto, TypeOK, execVars
  <1>11. ASSUME NEW o \in Ops, BalloonReturns(o) PROVE TypeOK'
    BY <1>0, <1>11, ConstantsAssumption DEF BalloonReturns, Goto, TypeOK, execVars
  <1>12. CASE beginMachineStopLocked
    BY <1>0, <1>12 DEF beginMachineStopLocked, TypeOK, execVars
  <1>13. CASE StopLock
    BY <1>0, <1>13, ConstantsAssumption DEF StopLock, TypeOK, execVars
  <1>14. CASE StopClosed
    BY <1>0, <1>14, ConstantsAssumption DEF StopClosed, StopHoldsLock, TypeOK, execVars
  <1>15. CASE StopPublishes
    BY <1>0, <1>15, Zenon DEF StopPublishes, TypeOK
  <1>16. CASE GuestExit
    BY <1>0, <1>16 DEF GuestExit, TypeOK, execVars
  <1>17. CASE Watch
    BY <1>0, <1>17, Zenon DEF Watch, TypeOK, execVars
  <1>18. CASE UNCHANGED vars
    BY <1>0, <1>18 DEF vars, TypeOK
  <1> QED
    BY <1>1, <1>2, <1>3, <1>4, <1>5, <1>6, <1>7, <1>8, <1>9, <1>10, <1>11, <1>12, <1>13, <1>14, <1>15,
       <1>16, <1>17, <1>18 DEF Next, Operation

\* Every step keeps the relation between the stop, lifecycleMu and the requests
\* past their second look.
LEMMA NextLock == IndInv /\ [Next]_vars => StopShows' /\ StopHoldsLock' /\ PastLook'
  <1> DEFINE Good == StopShows /\ StopHoldsLock /\ PastLook
  <1> SUFFICES ASSUME IndInv, [Next]_vars PROVE Good'
    OBVIOUS
  <1>0. TypeOK /\ Good
    BY DEF IndInv
  <1>1. ASSUME NEW o \in Ops, Look(o) PROVE Good'
    BY <1>0, <1>1 DEF Look, Goto, TypeOK, execVars, StopShows, StopHoldsLock, PastLook
  <1>2. ASSUME NEW o \in Ops, LockLifecycle(o) PROVE Good'
    BY <1>0, <1>2, ConstantsAssumption DEF LockLifecycle, Goto, TypeOK, StopShows, StopHoldsLock, PastLook
  <1>3. ASSUME NEW o \in Ops, LookAgain(o) PROVE Good'
    BY <1>0, <1>3, ConstantsAssumption DEF LookAgain, Valid, Goto, TypeOK, StopShows, StopHoldsLock, PastLook
  <1>4. ASSUME NEW o \in Ops, ArmSnapshot(o) PROVE Good'
    BY <1>0, <1>4, ConstantsAssumption DEF ArmSnapshot, Valid, Goto, TypeOK, StopShows, StopHoldsLock, PastLook
  <1>5. ASSUME NEW o \in Ops, WorkReturns(o) PROVE Good'
    BY <1>0, <1>5 DEF WorkReturns, Goto, TypeOK, StopShows, StopHoldsLock, PastLook
  <1>6. ASSUME NEW o \in Ops, Unlock(o) PROVE Good'
    <2>1. pc[o] = "unlocking" /\ stopper # "closing"
      BY <1>0, <1>6, ConstantsAssumption DEF Unlock, Goto, TypeOK, StopHoldsLock, PastLook
    <2> QED
      BY <1>0, <1>6, <2>1, ConstantsAssumption DEF Unlock, Goto, TypeOK, StopShows, StopHoldsLock, PastLook
  <1>7. ASSUME NEW o \in Ops, ExecReturns(o) PROVE Good'
    BY <1>0, <1>7 DEF ExecReturns, Goto, TypeOK, StopShows, StopHoldsLock, PastLook
  <1>8. ASSUME NEW o \in Ops, instanceIsStopping(o) PROVE Good'
    BY <1>0, <1>8 DEF instanceIsStopping, Goto, TypeOK, StopShows, StopHoldsLock, PastLook
  <1>9. ASSUME NEW o \in Ops, LockBalloon(o) \/ LookAgainBalloon(o) \/ BalloonReturns(o) PROVE Good'
    BY <1>0, <1>9 DEF LockBalloon, LookAgainBalloon, BalloonReturns, Goto, TypeOK, StopShows, StopHoldsLock,
       PastLook
  <1>10. CASE beginMachineStopLocked
    BY <1>0, <1>10 DEF beginMachineStopLocked, StopShows, StopHoldsLock, PastLook
  <1>11. CASE StopLock
    <2>1. \A o \in Ops : kind[o] # "balloon" => pc[o] \notin {"arming", "working", "unlocking"}
      BY <1>0, <1>11, ConstantsAssumption DEF StopLock, TypeOK
    <2> QED
      BY <1>0, <1>11, <2>1, ConstantsAssumption DEF StopLock, StopShows, StopHoldsLock, PastLook
  <1>12. CASE StopClosed
    BY <1>0, <1>12, ConstantsAssumption DEF StopClosed, StopShows, StopHoldsLock, PastLook
  <1>13. CASE StopPublishes
    BY <1>0, <1>13 DEF StopPublishes, StopShows, StopHoldsLock, PastLook
  <1>14. CASE GuestExit \/ Watch
    BY <1>0, <1>14 DEF GuestExit, Watch, StopShows, StopHoldsLock, PastLook
  <1>15. CASE UNCHANGED vars
    BY <1>0, <1>15 DEF vars, StopShows, StopHoldsLock, PastLook
  <1> QED
    BY <1>1, <1>2, <1>3, <1>4, <1>5, <1>6, <1>7, <1>8, <1>9, <1>10, <1>11, <1>12, <1>13, <1>14, <1>15
    DEF Next, Operation

\* Every step keeps a snapshot at work within reach of the stop.
LEMMA NextSnapshot == IndInv /\ [Next]_vars => SnapshotArmed' /\ StopCancelsSnapshot'
  <1> DEFINE Good == SnapshotArmed /\ StopCancelsSnapshot
  <1> SUFFICES ASSUME IndInv, [Next]_vars PROVE Good'
    OBVIOUS
  <1>0. TypeOK /\ Good
    BY DEF IndInv
  <1>1. ASSUME NEW o \in Ops,
               \/ Look(o) \/ LockLifecycle(o) \/ LookAgain(o) \/ Unlock(o)
               \/ LockBalloon(o) \/ LookAgainBalloon(o) \/ BalloonReturns(o)
               \/ ExecReturns(o) \/ instanceIsStopping(o)
        PROVE  Good'
    <2>1. /\ UNCHANGED <<kind, stopping, snapshotCancel, cancelled>>
          /\ \A p \in Ops : kind[p] = "snapshot" /\ pc'[p] = "working" => pc[p] = "working"
      BY <1>0, <1>1 DEF Look, LockLifecycle, LookAgain, Unlock, LockBalloon, LookAgainBalloon, BalloonReturns,
         ExecReturns, instanceIsStopping, Goto, TypeOK
    <2> QED
      BY <1>0, <2>1 DEF SnapshotArmed, StopCancelsSnapshot
  <1>2. ASSUME NEW o \in Ops, ArmSnapshot(o) PROVE Good'
    <2>1. \A p \in Ops \ {o} : kind[p] = "snapshot" => pc[p] # "working"
      BY <1>0, <1>2 DEF ArmSnapshot, Goto, TypeOK
    <2>2. kind[o] # "balloon" => lifecycleMu = o
      BY <1>0, <1>2 DEF ArmSnapshot, Goto, TypeOK
    <2> QED
      BY <1>0, <1>2, <2>1, <2>2 DEF ArmSnapshot, Valid, Goto, TypeOK, SnapshotArmed, StopCancelsSnapshot
  <1>3. ASSUME NEW o \in Ops, WorkReturns(o) PROVE Good'
    <2>1. \A p \in Ops \ {o} : kind[p] = "snapshot" => pc[p] # "working"
      BY <1>0, <1>3 DEF WorkReturns, Goto, TypeOK
    <2> QED
      BY <1>0, <1>3, <2>1 DEF WorkReturns, Goto, TypeOK, SnapshotArmed, StopCancelsSnapshot
  <1>4. CASE beginMachineStopLocked
    BY <1>0, <1>4, ConstantsAssumption DEF beginMachineStopLocked, SnapshotArmed, StopCancelsSnapshot
  <1>5. CASE StopLock \/ StopClosed \/ StopPublishes \/ GuestExit \/ Watch
    <2>1. UNCHANGED <<kind, pc, snapshotCancel, cancelled>> /\ (stopping' => stopping)
      BY <1>5 DEF StopLock, StopClosed, StopPublishes, GuestExit, Watch
    <2> QED
      BY <1>0, <2>1 DEF SnapshotArmed, StopCancelsSnapshot
  <1>6. CASE UNCHANGED vars
    BY <1>0, <1>6 DEF vars, SnapshotArmed, StopCancelsSnapshot
  <1> QED
    BY <1>1, <1>2, <1>3, <1>4, <1>5, <1>6 DEF Next, Operation

\* Every step keeps what a closed instance says about the stop.
LEMMA NextClosed == IndInv /\ [Next]_vars => ClosedMeansStop'
  <1> SUFFICES ASSUME IndInv, [Next]_vars PROVE ClosedMeansStop'
    OBVIOUS
  <1>0. TypeOK /\ ClosedMeansStop /\ StopShows
    BY DEF IndInv
  <1>1. ASSUME NEW o \in Ops,
               \/ Look(o) \/ LockLifecycle(o) \/ LookAgain(o) \/ ArmSnapshot(o) \/ WorkReturns(o) \/ Unlock(o)
               \/ LockBalloon(o) \/ LookAgainBalloon(o) \/ BalloonReturns(o)
        PROVE  ClosedMeansStop'
    <2>1. UNCHANGED <<stopping, inst, result, cut, closeFailed>>
      BY <1>1 DEF Look, LockLifecycle, LookAgain, ArmSnapshot, WorkReturns, Unlock, LockBalloon,
         LookAgainBalloon, BalloonReturns, execVars
    <2> QED
      BY <1>0, <2>1 DEF ClosedMeansStop
  <1>2. ASSUME NEW o \in Ops, ExecReturns(o) PROVE ClosedMeansStop'
    <2>1. /\ UNCHANGED <<stopping, inst, closeFailed>>
          /\ \/ result' = [result EXCEPT ![o] = "ok"] /\ UNCHANGED cut
             \/ /\ UNCHANGED result
                /\ \/ UNCHANGED cut
                   \/ inst \in {"closing", "closed"} /\ cut' = cut \cup {o} /\ pc[o] = "executing"
      BY <1>2 DEF ExecReturns, Goto
    <2>2. pc[o] = "executing" => result[o] # "error"
      BY <1>0 DEF TypeOK
    <2>3. result \in [Ops -> {"none", "ok", "error", "stopped"}] /\ cut \subseteq Ops
      BY <1>0 DEF TypeOK
    <2> QED
      BY <1>0, <2>1, <2>2, <2>3 DEF ClosedMeansStop
  <1>3. ASSUME NEW o \in Ops, instanceIsStopping(o) PROVE ClosedMeansStop'
    BY <1>0, <1>3 DEF instanceIsStopping, Valid, TypeOK, ClosedMeansStop
  <1>4. CASE beginMachineStopLocked \/ StopLock \/ StopClosed \/ GuestExit \/ Watch
    BY <1>0, <1>4 DEF beginMachineStopLocked, StopLock, StopClosed, GuestExit, Watch, execVars, TypeOK,
       ClosedMeansStop, StopShows
  <1>5. CASE StopPublishes
    BY <1>0, <1>5 DEF StopPublishes, ClosedMeansStop
  <1>6. CASE UNCHANGED vars
    BY <1>0, <1>6 DEF vars, ClosedMeansStop
  <1> QED
    BY <1>1, <1>2, <1>3, <1>4, <1>5, <1>6 DEF Next, Operation

\* The inductive invariant holds in every reachable state.
THEOREM Inductive == Spec => []IndInv
  <1>1. IndInv /\ [Next]_vars => IndInv'
    BY NextType, NextLock, NextSnapshot, NextClosed DEF IndInv
  <1> QED
    BY InitInv, <1>1, PTL DEF Spec

\* No share, forward, flush or snapshot is at work in an instance that
\* runMachineStop is closing or has closed, for any number of requests: the
\* second look of lockMachineOperation, under lifecycleMu, is what it takes.
THEOREM NoOverlap == Spec => []NoWorkDuringClose
  <1>1. IndInv => NoWorkDuringClose
    BY DEF IndInv, PastLook, NoWorkDuringClose
  <1> QED
    BY Inductive, <1>1, PTL

\* A stop never waits for a snapshot it has not cancelled: SnapshotRootFS looks
\* at stopping in the critical section in which it publishes its cancel function.
THEOREM SnapshotsCancelled == Spec => []StopCancelsSnapshot
  <1>1. IndInv => StopCancelsSnapshot
    BY DEF IndInv
  <1> QED
    BY Inductive, <1>1, PTL

\* A command that a stop cut off is reported as "VM stopped" (instanceIsStopping),
\* unless a stop has failed.
THEOREM CutSaysStopped == Spec => []CutCommandsSayStopped
  <1>1. IndInv => CutCommandsSayStopped
    BY DEF IndInv, ClosedMeansStop, CutCommandsSayStopped
  <1> QED
    BY Inductive, <1>1, PTL
===============================================================================
