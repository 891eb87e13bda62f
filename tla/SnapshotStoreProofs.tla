------------------------ MODULE SnapshotStoreProofs ------------------------
(* Proofs about SnapshotStore, for any set of captures.                    *)
EXTENDS SnapshotStore, TLAPS

\* The invariant holds initially: no directory exists.
LEMMA InitHolds == Init => IInv
BY DEF Init, IInv, TypeOK, VisibleIsDurable, LoadedIsWhole, CaptureInv, Running, Absent, Files

\* Each kind of step of capture d keeps the types.
LEMMA TypeKept == TypeOK /\ [Next]_vars => TypeOK'
<1> SUFFICES ASSUME TypeOK, [Next]_vars PROVE TypeOK'
  OBVIOUS
<1> USE DEF TypeOK
<1>1. CASE PowerFails
  <2>1. pc' \in [Captures -> {"idle", "begin", "mkdir", "write", "validate", "sync", "rename",
                            "syncRoot", "abort", "dead"}]
    BY <1>1 DEF PowerFails
  <2>2. QED
    BY <1>1, <2>1 DEF PowerFails
<1>2. ASSUME NEW d \in Captures, Step(d) PROVE TypeOK'
  <2>1. CASE markWrite(d)
    BY <2>1 DEF markWrite, fsVars
  <2>2. CASE captureIfPending(d)
    BY <2>2 DEF captureIfPending, Goto, fsVars
  <2>3. CASE Cleanup(d)
    BY <2>3 DEF Cleanup, cleanupStale, Goto, Absent
  <2>4. CASE MkdirTemp(d)
    BY <2>4 DEF MkdirTemp, Goto
  <2>5. CASE WriteBegins(d)
    BY <2>5 DEF WriteBegins, Current, Files
  <2>6. CASE WriteEnds(d)
    BY <2>6 DEF WriteEnds, Current, Goto, Files
  <2>7. CASE Validate(d)
    BY <2>7 DEF Validate, Goto, fsVars
  <2>8. CASE SyncFile(d)
    BY <2>8 DEF SyncFile, Present
  <2>9. CASE SyncStaging(d)
    BY <2>9 DEF SyncStaging, Present, Goto
  <2>10. CASE Rename(d)
    BY <2>10 DEF Rename, Goto
  <2>11. CASE SyncRoot(d)
    BY <2>11 DEF SyncRoot, Return, Goto
  <2>12. CASE SyncRootFails(d)
    BY <2>12 DEF SyncRootFails, Return, Goto, fsVars
  <2>13. CASE Fails(d)
    BY <2>13 DEF Fails, Goto, fsVars
  <2>14. CASE AbortFile(d)
    BY <2>14 DEF AbortFile, Present
  <2>15. CASE Abort(d)
    BY <2>15 DEF Abort, Return, Goto
  <2>16. CASE Ages(d)
    BY <2>16 DEF Ages, fsVars
  <2>17. CASE Killed(d)
    BY <2>17 DEF Killed, Goto, fsVars
  <2>18. CASE loadKVMSnapshot(d)
    BY <2>18 DEF loadKVMSnapshot, fsVars
  <2>19. QED
    BY <1>2, <2>1, <2>2, <2>3, <2>4, <2>5, <2>6, <2>7, <2>8, <2>9, <2>10, <2>11, <2>12, <2>13, <2>14, <2>15, <2>16, <2>17, <2>18 DEF Step
<1>3. CASE UNCHANGED vars
  BY <1>3 DEF vars
<1>4. QED
  BY <1>1, <1>2, <1>3 DEF Next

\* What a step must keep besides the types.
Safe == VisibleIsDurable /\ LoadedIsWhole /\ \A c \in Captures : CaptureInv(c)

\* The guest's trigger starts a capture only once.
LEMMA TriggerSafe ==
    ASSUME NEW d \in Captures, IInv, markWrite(d) \/ captureIfPending(d)
    PROVE  Safe'
<1> USE DEF IInv, TypeOK, Safe, CaptureInv, VisibleIsDurable, LoadedIsWhole, Running, Files
<1>1. CASE markWrite(d)
  BY <1>1 DEF markWrite, fsVars
<1>2. CASE captureIfPending(d)
  BY <1>2 DEF captureIfPending, Goto, fsVars
<1>3. QED
  BY <1>1, <1>2

\* Begin removes only directories that are nobody's.
LEMMA BeginSafe ==
    ASSUME NEW d \in Captures, IInv, Cleanup(d) \/ MkdirTemp(d)
    PROVE  Safe'
<1> USE DEF IInv, TypeOK, Safe, CaptureInv, VisibleIsDurable, LoadedIsWhole, Running, Files
<1>1. CASE Cleanup(d)
  <2>1. PICK gone \in SUBSET old : cleanupStale(gone)
    BY <1>1 DEF Cleanup
  <2>2. VisibleIsDurable' /\ LoadedIsWhole'
    BY <1>1, <2>1 DEF Cleanup, cleanupStale
  <2>3. ASSUME NEW c \in gone PROVE CaptureInv(c)'
    BY <1>1, <2>1, <2>3 DEF Cleanup, cleanupStale, Goto
  <2>4. ASSUME NEW c \in Captures \ gone PROVE CaptureInv(c)'
    BY <1>1, <2>1, <2>4 DEF Cleanup, cleanupStale, Goto
  <2>5. QED
    BY <2>2, <2>3, <2>4
<1>2. CASE MkdirTemp(d)
  BY <1>2 DEF MkdirTemp, Goto
<1>3. QED
  BY <1>1, <1>2

\* Components are written in the staging directory.
LEMMA WriteSafe ==
    ASSUME NEW d \in Captures, IInv, WriteBegins(d) \/ WriteEnds(d)
    PROVE  Safe'
<1> USE DEF IInv, TypeOK, Safe, CaptureInv, VisibleIsDurable, LoadedIsWhole, Running, Files
<1>1. CASE WriteBegins(d)
  BY <1>1 DEF WriteBegins, Current
<1>2. CASE WriteEnds(d)
  BY <1>2 DEF WriteEnds, Current, Goto
<1>3. QED
  BY <1>1, <1>2

\* Publish syncs every file and the directory before the rename.
LEMMA SyncSafe ==
    ASSUME NEW d \in Captures, IInv, Validate(d) \/ SyncFile(d) \/ SyncStaging(d)
    PROVE  Safe'
<1> USE DEF IInv, TypeOK, Safe, CaptureInv, VisibleIsDurable, LoadedIsWhole, Running, Files
<1>1. CASE Validate(d)
  BY <1>1 DEF Validate, Goto, fsVars
<1>2. CASE SyncFile(d)
  BY <1>2 DEF SyncFile, Present
<1>3. CASE SyncStaging(d)
  BY <1>3 DEF SyncStaging, Present, Goto
<1>4. QED
  BY <1>1, <1>2, <1>3

\* The rename shows what is whole and on disk.
LEMMA PublishSafe ==
    ASSUME NEW d \in Captures, IInv, Rename(d) \/ SyncRoot(d) \/ SyncRootFails(d)
    PROVE  Safe'
<1> USE DEF IInv, TypeOK, Safe, CaptureInv, VisibleIsDurable, LoadedIsWhole, Running, Files
<1>1. CASE Rename(d)
  BY <1>1 DEF Rename, Goto
<1>2. CASE SyncRoot(d)
  BY <1>2 DEF SyncRoot, Return, Goto
<1>3. CASE SyncRootFails(d)
  BY <1>3 DEF SyncRootFails, Return, Goto, fsVars
<1>4. QED
  BY <1>1, <1>2, <1>3

\* An error removes only what was not published.
LEMMA AbortSafe ==
    ASSUME NEW d \in Captures, IInv, Fails(d) \/ AbortFile(d) \/ Abort(d)
    PROVE  Safe'
<1> USE DEF IInv, TypeOK, Safe, CaptureInv, VisibleIsDurable, LoadedIsWhole, Running, Files
<1>1. CASE Fails(d)
  BY <1>1 DEF Fails, Goto, fsVars
<1>2. CASE AbortFile(d)
  BY <1>2 DEF AbortFile, Present
<1>3. CASE Abort(d)
  BY <1>3 DEF Abort, Return, Goto
<1>4. QED
  BY <1>1, <1>2, <1>3

\* Time, the death of a process and a reader change no directory.
LEMMA RestSafe ==
    ASSUME NEW d \in Captures, IInv, Ages(d) \/ Killed(d) \/ loadKVMSnapshot(d)
    PROVE  Safe'
<1> USE DEF IInv, TypeOK, Safe, CaptureInv, VisibleIsDurable, LoadedIsWhole, Running, Files
<1>1. CASE Ages(d)
  BY <1>1 DEF Ages, fsVars
<1>2. CASE Killed(d)
  BY <1>2 DEF Killed, Goto, fsVars
<1>3. CASE loadKVMSnapshot(d)
  BY <1>3 DEF loadKVMSnapshot, fsVars
<1>4. QED
  BY <1>1, <1>2, <1>3

\* After a crash of the host what is visible was visible before, and is the same.
LEMMA SameInCrash ==
    ASSUME NEW c \in Captures, IInv, PowerFails, place'[c] = "final"
    PROVE  place[c] = "final" /\ content'[c] = content[c]
<1> USE DEF IInv, TypeOK
<1>1. place[c] = "final"
  BY DEF PowerFails, Places, CaptureInv
<1>2. ASSUME NEW f \in Files PROVE content'[c][f] = content[c][f]
  <2>1. Contents(c, f) = {content[c][f]}
    BY <1>1 DEF Contents, VisibleIsDurable
  <2>2. content'[c][f] \in Contents(c, f)
    BY DEF PowerFails
  <2>3. QED
    BY <2>1, <2>2
<1>3. QED
  BY <1>1, <1>2 DEF PowerFails

\* So what it leaves visible is whole.
LEMMA CrashSafe == ASSUME IInv, PowerFails PROVE Safe'
<1> USE DEF IInv, TypeOK, Safe
<1>1. \A c \in Captures : place'[c] = "final" => place[c] = "final" /\ content'[c] = content[c]
  BY SameInCrash
<1>2. VisibleIsDurable'
  BY <1>1 DEF VisibleIsDurable, PowerFails
<1>3. LoadedIsWhole'
  BY DEF LoadedIsWhole, PowerFails
<1>4. ASSUME NEW c \in Captures PROVE CaptureInv(c)'
  BY <1>4, <1>1 DEF CaptureInv, PowerFails, Places, Contents, Running, Absent
<1>5. QED
  BY <1>2, <1>3, <1>4

\* Every step keeps the invariant.
LEMMA StepHolds == IInv /\ [Next]_vars => IInv'
<1> SUFFICES ASSUME IInv, [Next]_vars PROVE IInv'
  OBVIOUS
<1>1. TypeOK'
  BY TypeKept DEF IInv
<1>2. Safe'
  <2>1. CASE PowerFails
    BY <2>1, CrashSafe
  <2>2. ASSUME NEW d \in Captures, Step(d) PROVE Safe'
    BY <2>2, TriggerSafe, BeginSafe, WriteSafe, SyncSafe, PublishSafe, AbortSafe, RestSafe DEF Step
  <2>3. CASE UNCHANGED vars
    BY <2>3 DEF vars, IInv, Safe, VisibleIsDurable, LoadedIsWhole, CaptureInv, Running
  <2>4. QED
    BY <2>1, <2>2, <2>3 DEF Next
<1>3. QED
  BY <1>1, <1>2 DEF IInv, Safe

\* What is visible, synced, listed and loaded agrees in every behaviour of the
\* store, crashes of the host included.
THEOREM Invariance == Spec => []IInv
<1>1. QED
  BY InitHolds, StepHolds, PTL DEF Spec

\* A snapshot a reader can find is complete and on disk, for any number of machines
\* that capture, fail, crash and clean up beside each other.
THEOREM Durable == Spec => []VisibleIsDurable
<1>1. IInv => VisibleIsDurable
  BY DEF IInv
<1>2. QED
  BY <1>1, Invariance, PTL

\* A snapshot that loads has its whole memory.
THEOREM LoadsWhole == Spec => []LoadedIsWhole
<1>1. IInv => LoadedIsWhole
  BY DEF IInv
<1>2. QED
  BY <1>1, Invariance, PTL

\* Every other step changes neither what is visible nor what is reported.
LEMMA OthersHide ==
    ASSUME NEW d \in Captures, IInv, Step(d), ~Rename(d), ~SyncRoot(d), NEW c \in Captures
    PROVE  /\ place'[c] = "final" <=> place[c] = "final"
           /\ place[c] = "final" => content'[c] = content[c]
           /\ result'[c] = "nil" <=> result[c] = "nil"
<1> USE DEF IInv, TypeOK
<1>1. CASE markWrite(d)
  BY <1>1 DEF markWrite, fsVars
<1>2. CASE captureIfPending(d)
  BY <1>2 DEF captureIfPending, Goto, fsVars
<1>3. CASE Cleanup(d)
  BY <1>3 DEF Cleanup, cleanupStale, Goto, CaptureInv, Running
<1>4. CASE MkdirTemp(d)
  BY <1>4 DEF MkdirTemp, Goto, CaptureInv, Running
<1>5. CASE WriteBegins(d)
  BY <1>5 DEF WriteBegins, Current, CaptureInv, Running
<1>6. CASE WriteEnds(d)
  BY <1>6 DEF WriteEnds, Current, Goto, CaptureInv, Running
<1>7. CASE Validate(d)
  BY <1>7 DEF Validate, Goto, fsVars
<1>8. CASE SyncFile(d)
  BY <1>8 DEF SyncFile
<1>9. CASE SyncStaging(d)
  BY <1>9 DEF SyncStaging, Goto
<1>10. CASE SyncRootFails(d)
  <2>1. result[d] = "none"
    BY <1>10 DEF SyncRootFails, CaptureInv, Running
  <2>2. QED
    BY <1>10, <2>1 DEF SyncRootFails, Return, fsVars
<1>11. CASE Fails(d)
  BY <1>11 DEF Fails, Goto, fsVars
<1>12. CASE AbortFile(d)
  BY <1>12 DEF AbortFile, Present, CaptureInv, Running
<1>13. CASE Abort(d)
  BY <1>13 DEF Abort, Return, Goto, CaptureInv, Running
<1>14. CASE Ages(d)
  BY <1>14 DEF Ages, fsVars
<1>15. CASE Killed(d)
  BY <1>15 DEF Killed, Goto, fsVars
<1>16. CASE loadKVMSnapshot(d)
  BY <1>16 DEF loadKVMSnapshot, fsVars
<1>17. QED
  BY <1>1, <1>2, <1>3, <1>4, <1>5, <1>6, <1>7, <1>8, <1>9, <1>10, <1>11, <1>12, <1>13, <1>14, <1>15, <1>16 DEF Step

\* Seen from outside the store is SnapshotRoot: the rename is the step in which a
\* snapshot appears, the sync of the root the one in which it is reported, and a
\* crash of the host loses only what was not reported.
THEOREM Implements == Spec => AppearsAtOnce
<1> DEFINE shown == [c \in Captures |-> IF place[c] = "final" THEN content[c] ELSE Absent]
           reported == {c \in Captures : result[c] = "nil"}
<1>1. Init => Root!RootInit
  BY DEF Init, Root!RootInit, Root!Hidden, Absent
<1>2. ASSUME IInv, IInv', [Next]_vars
      PROVE  Root!RootNext \/ UNCHANGED <<shown, reported>>
  <2> USE DEF IInv, TypeOK
  <2>1. CASE PowerFails
    <3> DEFINE lost == {c \in Captures : place[c] = "final" /\ place'[c] # "final"}
    <3>1. ASSUME NEW c \in Captures
          PROVE  shown'[c] = IF c \in lost THEN Root!Hidden ELSE shown[c]
      <4>1. CASE place'[c] = "final"
        BY <1>2, <2>1, <4>1, SameInCrash
      <4>2. CASE place'[c] # "final"
        BY <4>2 DEF Root!Hidden, Absent
      <4>3. QED
        BY <4>1, <4>2
    <3>2. lost \cap reported = {}
      BY <1>2, <2>1 DEF PowerFails, Places, CaptureInv
    <3>3. shown' = [c \in Captures |-> IF c \in lost THEN Root!Hidden ELSE shown[c]]
      BY <3>1
    <3>4. reported' = reported
      BY <2>1 DEF PowerFails
    <3>5. PICK gone \in SUBSET Captures : gone = lost
      OBVIOUS
    <3>6. Root!Lose(gone)
      BY <3>2, <3>3, <3>4, <3>5 DEF Root!Lose
    <3>7. QED
      BY <3>6 DEF Root!RootNext
  <2>2. ASSUME NEW d \in Captures, Step(d)
        PROVE  Root!RootNext \/ UNCHANGED <<shown, reported>>
    <3>1. CASE Rename(d)
      <4>1. shown[d] = Root!Hidden
        BY <1>2, <3>1 DEF Rename, CaptureInv, Root!Hidden, Absent
      <4>2. shown' = [shown EXCEPT ![d] = Root!Whole]
        <5>1. content[d] = Root!Whole
          BY <1>2, <3>1 DEF Rename, CaptureInv, Root!Whole
        <5>2. ASSUME NEW c \in Captures
              PROVE  shown'[c] = IF c = d THEN Root!Whole ELSE shown[c]
          BY <1>2, <3>1, <5>1 DEF Rename
        <5>3. QED
          BY <5>2
      <4>3. reported' = reported
        BY <3>1 DEF Rename
      <4>4. Root!Appear(d)
        BY <4>1, <4>2, <4>3 DEF Root!Appear
      <4>5. QED
        BY <4>4 DEF Root!RootNext
    <3>2. CASE SyncRoot(d)
      <4>1. shown[d] = Root!Whole
        BY <1>2, <3>2 DEF SyncRoot, CaptureInv, VisibleIsDurable, Root!Whole
      <4>2. reported' = reported \cup {d}
        BY <1>2, <3>2 DEF SyncRoot, Return
      <4>3. shown' = shown
        BY <3>2 DEF SyncRoot
      <4>4. Root!Report(d)
        BY <4>1, <4>2, <4>3 DEF Root!Report
      <4>5. QED
        BY <4>4 DEF Root!RootNext
    <3>3. CASE ~Rename(d) /\ ~SyncRoot(d)
      <4>1. ASSUME NEW c \in Captures PROVE shown'[c] = shown[c]
        BY <1>2, <2>2, <3>3, OthersHide
      <4>2. reported' = reported
        BY <1>2, <2>2, <3>3, OthersHide
      <4>3. QED
        BY <4>1, <4>2
    <3>4. QED
      BY <3>1, <3>2, <3>3
  <2>3. CASE UNCHANGED vars
    BY <2>3 DEF vars
  <2>4. QED
    BY <1>2, <2>1, <2>2, <2>3 DEF Next
<1>3. QED
  BY <1>1, <1>2, Invariance, PTL DEF Spec, AppearsAtOnce, Root!RootSpec
=============================================================================
