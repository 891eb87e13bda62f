-------------------------- MODULE VMManagerProofs ---------------------------
(***************************************************************************)
(* Proofs about the manager's registry, for any number of ids, generations *)
(* and calls of ShutdownAll: who holds an id, what is known of the         *)
(* instances and the network leases, what a ShutdownAll waits for, and the *)
(* theorems.                                                               *)
(***************************************************************************)
EXTENDS VMManager, TLAPS, WellFoundedInduction

-----------------------------------------------------------------------------
(* The host byte ensureNetworkLeaseLocked picks.                           *)

\* A nonempty set of naturals has a least element.
LEMMA LeastElement ==
    ASSUME NEW S \in SUBSET Nat, S # {}
    PROVE  \E h \in S : \A k \in S : h <= k
<1>1. PICK x \in S : \A y \in S : ~(<<y, x>> \in OpToRel(<, Nat))
    BY NatLessThanWellFounded, WFMin, Zenon
<1>2. \A y \in S : ~(y < x)
    BY <1>1, Zenon DEF OpToRel
<1> QED BY <1>2

\* The byte is free, or the one after the last when none is: the loop over the
\* host bytes in ensureNetworkLeaseLocked.
LEMMA NextHostIsFree ==
    ASSUME TypeOK
    PROVE  /\ NextHost \in 2..(LastHost + 1)
           /\ NextHost # LastHost + 1 => \A i \in Ids : networkLeases[i] # NextHost
<1> USE ConstantsAssumption
<1>1. CASE FreeHosts = {}
    BY <1>1 DEF NextHost
<1>2. CASE FreeHosts # {}
    <2>1. FreeHosts \in SUBSET Nat
        BY DEF FreeHosts
    <2>2. NextHost \in FreeHosts
        BY <1>2, <2>1, LeastElement, Zenon DEF NextHost
    <2> QED BY <2>2 DEF FreeHosts
<1> QED BY <1>1, <1>2

-----------------------------------------------------------------------------
(* Types.                                                                  *)

\* The maps of a new manager are of their types.
LEMMA InitType == Init => TypeOK
<1> SUFFICES ASSUME Init PROVE TypeOK OBVIOUS
<1> QED BY Zenon DEF Init, TypeOK, Phases

\* recordExitLocked leaves a well-typed set of tombstones.
LEMMA RecordExitType ==
    ASSUME TypeOK, NEW g \in Gens, id[g] \in Ids, NEW status \in {"stopped", "crashed"},
           recordExitLocked(g, status)
    PROVE  /\ exited' \in [Ids -> Tombstones \cup {None}]
           /\ clock' \in Nat
           /\ exits' \in [Gens -> Nat]
<1> DEFINE recorded == [exited EXCEPT ![id[g]] = [gen |-> g, status |-> status, at |-> clock']]
<1>1. clock' \in Nat
    BY DEF recordExitLocked, TypeOK
<1>2. recorded \in [Ids -> Tombstones \cup {None}]
    BY <1>1 DEF TypeOK, Tombstones
<1>3. exited' = recorded \/ \E i \in Ids : exited' = [recorded EXCEPT ![i] = None]
    BY DEF recordExitLocked, Oldest
<1>4. exits' \in [Gens -> Nat]
    BY DEF recordExitLocked, TypeOK
<1> HIDE DEF recorded
<1> QED BY <1>1, <1>2, <1>3, <1>4

\* Every step of the manager preserves the types.  A generation past "unused"
\* has an id, which StartInv adds to the types.
LEMMA NextType == TypeOK /\ StartInv /\ MachineInv /\ [Next]_vars => TypeOK'
<1> SUFFICES ASSUME TypeOK, StartInv, MachineInv, [Next]_vars PROVE TypeOK'
    OBVIOUS
<1> USE DEF registry, shutdown, start
<1>1. ASSUME NEW g \in Gens, NEW i \in Ids, NEW d \in Demands, StartInstanceStream(g, i, d)
      PROVE  TypeOK'
    BY <1>1, NextHostIsFree DEF TypeOK, StartInstanceStream, ensureNetworkLeaseLocked, Phases
<1>2. ASSUME NEW g \in Gens, HostStarted(g) PROVE TypeOK'
    BY <1>2 DEF TypeOK, HostStarted, Step, Phases
<1>3. ASSUME NEW g \in Gens, HostFailed(g) PROVE TypeOK'
    BY <1>3, Zenon DEF TypeOK, HostFailed, finishStart, ForgetStart, Phases
<1>4. ASSUME NEW g \in Gens, addInstanceShares(g) PROVE TypeOK'
    BY <1>4 DEF TypeOK, addInstanceShares, Step, Phases
<1>5. ASSUME NEW g \in Gens, startVNCServer(g) PROVE TypeOK'
    BY <1>5 DEF TypeOK, startVNCServer, Step, Phases
<1>6. ASSUME NEW g \in Gens, CloseFailedStart(g) PROVE TypeOK'
    <2>1. ForgetStart(g)
          /\ \E p \in Phases, v \in {"closed", inst[g]} : phase' = [phase EXCEPT ![g] = p]
                                                          /\ inst' = [inst EXCEPT ![g] = v]
          /\ cleanupErr' \subseteq cleanupErr \cup {g}
          /\ UNCHANGED <<exited, closing, id, demand, cancelled, leased, watch, stop, shutdown,
                         clock, exits>>
        BY <1>6, Zenon DEF CloseFailedStart, finishStart, Phases
    <2>2. /\ running' \in [Ids -> Gens \cup {None}] /\ starting' \in [Ids -> Gens \cup {None}]
          /\ reservations' \in [Ids -> Demands \cup {None}]
          /\ networkLeases' \in [Ids -> (2..LastHost + 1) \cup {None}]
        BY <2>1, Zenon DEF TypeOK, ForgetStart
    <2>3. phase' \in [Gens -> Phases] /\ inst' \in [Gens -> {"none", "up", "down", "closed"}]
        BY <2>1 DEF TypeOK
    <2> QED BY <2>1, <2>2, <2>3 DEF TypeOK
<1>7. ASSUME NEW g \in Gens, Publish(g) PROVE TypeOK'
    <2>1. id[g] \in Ids
        BY <1>7 DEF Publish, PublishUnless, StartInv
    <2>2. CASE closing \/ starting[id[g]] # g
        <3>1. Abandon(g)
            BY <1>7, <2>2 DEF Publish, PublishUnless
        <3> QED BY <1>7, <2>1, <3>1
                DEF TypeOK, Publish, PublishUnless, Abandon, ForgetStart, Phases
    <2>3. CASE ~(closing \/ starting[id[g]] # g)
        <3>1. Register(g)
            BY <1>7, <2>3 DEF Publish, PublishUnless
        <3> QED BY <1>7, <2>1, <3>1 DEF TypeOK, Publish, PublishUnless, Register, Phases
    <2> QED BY <2>2, <2>3
<1>8. ASSUME NEW g \in Gens, CloseLateStart(g) PROVE TypeOK'
    BY <1>8 DEF TypeOK, CloseLateStart, CloseLate, Phases
<1>9. ASSUME NEW g \in Gens, GuestExit(g) PROVE TypeOK'
    BY <1>9 DEF TypeOK, GuestExit
<1>10. ASSUME NEW g \in Gens, Watch(g) PROVE TypeOK'
    <2>1. id[g] \in Ids
        BY <1>10 DEF Watch, WatchUnless, StartInv, MachineInv
    <2>2. CASE Stopping(g) \/ stop[g] = "failed"
        BY <1>10, <2>2 DEF TypeOK, Watch, WatchUnless
    <2>3. CASE ~(Stopping(g) \/ stop[g] = "failed")
        <3>1. WatchRecords(g)
            BY <1>10, <2>3 DEF Watch, WatchUnless
        <3>2. PICK status \in {"stopped", "crashed"} : recordExitLocked(g, status)
            BY <3>1 DEF WatchRecords
        <3>3. /\ exited' \in [Ids -> Tombstones \cup {None}]
              /\ clock' \in Nat
              /\ exits' \in [Gens -> Nat]
            BY <2>1, <3>2, RecordExitType
        <3> QED BY <1>10, <2>1, <3>1, <3>3, Zenon DEF TypeOK, Watch, WatchUnless, WatchRecords, Unregister
    <2> QED BY <2>2, <2>3
<1>11. ASSUME NEW g \in Gens, StopClose(g) PROVE TypeOK'
    BY <1>11 DEF TypeOK, StopClose
<1>12. ASSUME NEW g \in Gens, StopFinish(g) PROVE TypeOK'
    <2>1. CASE StopSucceeds(g)
        <3>1. id[g] \in Ids
            BY <2>1 DEF StopSucceeds, StartInv, MachineInv
        <3>2. recordExitLocked(g, "stopped")
            BY <2>1 DEF StopSucceeds
        <3> QED BY <1>12, <2>1, <3>1, <3>2, RecordExitType
                DEF TypeOK, StopFinish, StopSucceeds, Unregister
    <2>2. CASE StopFails(g)
        BY <1>12, <2>2 DEF TypeOK, StopFinish, StopFails
    <2> QED BY <1>12, <2>1, <2>2 DEF StopFinish
<1>13. ASSUME NEW i \in Ids, ShutdownInstance(i) PROVE TypeOK'
    BY <1>13 DEF TypeOK, ShutdownInstance, beginMachineStopLocked
<1>14. ASSUME NEW c \in Calls, ShutdownAll(c) PROVE TypeOK'
    BY <1>14 DEF TypeOK, ShutdownAll, beginMachineStopLocked, Running, Starting
<1>15. ASSUME NEW c \in Calls, ShutdownAllReturn(c) \/ ShutdownAllExpire(c) PROVE TypeOK'
    BY <1>15 DEF TypeOK, ShutdownAllReturn, ShutdownAllExpire, Return
<1>16. CASE UNCHANGED vars
    BY <1>16 DEF TypeOK, vars
<1> QED BY <1>1, <1>2, <1>3, <1>4, <1>5, <1>6, <1>7, <1>8, <1>9, <1>10, <1>11, <1>12, <1>13,
           <1>14, <1>15, <1>16 DEF Next, Start

-----------------------------------------------------------------------------
(* The registry: who holds an id.                                          *)

\* The cases of a step, with the alternatives of a handler apart.  The proofs
\* below follow this split.
LEMMA StepCases ==
    ASSUME [Next]_vars
    PROVE  \/ \E g \in Gens, i \in Ids, d \in Demands : StartInstanceStream(g, i, d)
           \/ \E g \in Gens : HostStarted(g) \/ addInstanceShares(g) \/ startVNCServer(g)
           \/ \E g \in Gens : HostFailed(g) \/ CloseFailedStart(g)
           \/ \E g \in Gens : Publish(g)
           \/ \E g \in Gens : CloseLateStart(g)
           \/ \E g \in Gens : GuestExit(g)
           \/ \E g \in Gens : Watch(g)
           \/ \E g \in Gens : StopClose(g)
           \/ \E g \in Gens : StopFinish(g)
           \/ \E i \in Ids : ShutdownInstance(i)
           \/ \E c \in Calls : ShutdownAll(c)
           \/ \E c \in Calls : ShutdownAllReturn(c) \/ ShutdownAllExpire(c)
           \/ UNCHANGED vars
BY DEF Next, Start

\* nil is no generation and no id.
LEMMA NoneApart == None \notin Gens /\ None \notin Ids
BY ConstantsAssumption

\* The maps running and starting change only for the id of the generation that
\* steps; StartInv is preserved.
LEMMA NextStart == TypeOK /\ StartInv /\ MachineInv /\ [Next]_vars => StartInv'
<1> SUFFICES ASSUME TypeOK, StartInv, MachineInv, [Next]_vars PROVE StartInv'
    OBVIOUS
<1> USE DEF registry, shutdown, start, InFlight
<1>0. /\ running \in [Ids -> Gens \cup {None}]
      /\ starting \in [Ids -> Gens \cup {None}]
      /\ phase \in [Gens -> Phases]
      /\ id \in [Gens -> Ids \cup {None}]
    BY DEF TypeOK
<1>1. ASSUME NEW g \in Gens, NEW i \in Ids, NEW d \in Demands, StartInstanceStream(g, i, d)
      PROVE  StartInv'
    BY <1>0, <1>1, NoneApart DEF StartInv, StartInstanceStream
<1>2. ASSUME NEW g \in Gens, HostStarted(g) \/ addInstanceShares(g) \/ startVNCServer(g)
      PROVE  StartInv'
    BY <1>0, <1>2 DEF StartInv, HostStarted, addInstanceShares, startVNCServer, Step
<1>3. ASSUME NEW g \in Gens, HostFailed(g) \/ CloseFailedStart(g) PROVE StartInv'
    <2>1. InFlight(g) /\ ForgetStart(g) /\ UNCHANGED id
          /\ \E end \in {"aborted", "displayAborted"} : phase' = [phase EXCEPT ![g] = end]
        BY <1>3 DEF HostFailed, CloseFailedStart, finishStart
    <2> QED BY <1>0, <2>1, NoneApart DEF StartInv, ForgetStart
<1>4. ASSUME NEW g \in Gens, Publish(g) PROVE StartInv'
    <2>1. CASE Abandon(g)
        BY <1>0, <1>4, <2>1, NoneApart
           DEF StartInv, Publish, PublishUnless, Abandon, ForgetStart
    <2>2. CASE Register(g)
        BY <1>0, <1>4, <2>2, NoneApart DEF StartInv, Publish, PublishUnless, Register
    <2> QED BY <1>4, <2>1, <2>2 DEF Publish, PublishUnless
<1>5. ASSUME NEW g \in Gens, CloseLateStart(g) PROVE StartInv'
    BY <1>0, <1>5 DEF StartInv, CloseLateStart, CloseLate
<1>6. ASSUME NEW g \in Gens, Watch(g) PROVE StartInv'
    <2>1. UNCHANGED <<phase, id, starting>>
          /\ \A i \in Ids : running'[i] \in {running[i], None}
        BY <1>0, <1>6 DEF Watch, WatchUnless, WatchRecords, Unregister
    <2> QED BY <2>1 DEF StartInv
<1>7. ASSUME NEW g \in Gens, StopFinish(g) PROVE StartInv'
    <2>1. UNCHANGED <<phase, id, starting>>
          /\ \A i \in Ids : running'[i] \in {running[i], None}
        BY <1>0, <1>7 DEF StopFinish, StopSucceeds, StopFails, Unregister
    <2> QED BY <2>1 DEF StartInv
<1>8. CASE UNCHANGED <<phase, id, starting, running>>
    BY <1>8 DEF StartInv
<1> QED BY <1>1, <1>2, <1>3, <1>4, <1>5, <1>6, <1>7, <1>8, StepCases, Zenon
        DEF GuestExit, StopClose, ShutdownInstance, ShutdownAll, ShutdownAllReturn,
            ShutdownAllExpire, Return, vars

\* Of watch and runMachineStop exactly one takes the machine out of the map and
\* records its exit; MachineInv is preserved.
LEMMA NextMachine == TypeOK /\ StartInv /\ MachineInv /\ [Next]_vars => MachineInv'
<1> SUFFICES ASSUME TypeOK, StartInv, MachineInv, [Next]_vars PROVE MachineInv'
    OBVIOUS
<1> USE DEF registry, shutdown, start, InFlight
<1>0. /\ running \in [Ids -> Gens \cup {None}]
      /\ phase \in [Gens -> Phases]
      /\ id \in [Gens -> Ids \cup {None}]
      /\ watch \in [Gens -> {"none", "waiting", "over"}]
      /\ stop \in [Gens -> {"none", "pending", "closed", "closeFailed", "stopped", "failed"}]
      /\ exits \in [Gens -> Nat]
    BY DEF TypeOK
<1>1. ASSUME NEW g \in Gens, NEW i \in Ids, NEW d \in Demands, StartInstanceStream(g, i, d)
      PROVE  MachineInv'
    <2>1. /\ phase[g] = "unused" /\ phase' = [phase EXCEPT ![g] = "booting"]
          /\ id' = [id EXCEPT ![g] = i] /\ UNCHANGED <<running, watch, stop, exits>>
        BY <1>1 DEF StartInstanceStream
    <2> QED BY <1>0, <2>1 DEF MachineInv
<1>2. ASSUME NEW g \in Gens,
             \/ HostStarted(g) \/ addInstanceShares(g) \/ startVNCServer(g)
             \/ HostFailed(g) \/ CloseFailedStart(g) \/ CloseLateStart(g)
      PROVE  MachineInv'
    <2>1. phase[g] # "registered" /\ UNCHANGED <<running, id, watch, stop, exits>>
          /\ \E p \in Phases : phase' = [phase EXCEPT ![g] = p] /\ p # "registered"
        BY <1>2 DEF HostStarted, addInstanceShares, startVNCServer, Step, HostFailed,
                    CloseFailedStart, finishStart, ForgetStart, CloseLateStart, CloseLate, Phases
    <2> QED BY <1>0, <2>1 DEF MachineInv
<1>3. ASSUME NEW g \in Gens, Publish(g) PROVE MachineInv'
    <2>1. CASE Abandon(g)
        <3>1. /\ phase[g] = "publishing" /\ phase' = [phase EXCEPT ![g] = "lateClose"]
              /\ UNCHANGED <<id, running, watch, stop, exits>>
            BY <1>3, <2>1, Zenon DEF Publish, PublishUnless, Abandon, ForgetStart
        <3> QED BY <1>0, <3>1 DEF MachineInv
    <2>2. CASE Register(g)
        <3>1. /\ phase[g] = "publishing" /\ phase' = [phase EXCEPT ![g] = "registered"]
              /\ running' = [running EXCEPT ![id[g]] = g]
              /\ watch' = [watch EXCEPT ![g] = "waiting"]
              /\ UNCHANGED <<id, stop, exits>>
            BY <1>3, <2>2 DEF Publish, PublishUnless, Register
        <3>2. id[g] \in Ids /\ running[id[g]] = None
            BY <3>1, NoneApart DEF StartInv
        <3>3. \A i \in Ids : running'[i] # None => phase'[running'[i]] = "registered"
                                                   /\ id'[running'[i]] = i
            BY <1>0, <3>1, <3>2 DEF MachineInv
        <3>4. ASSUME NEW h \in Gens, h # g PROVE (running'[id[h]] = h) <=> (running[id[h]] = h)
            BY <1>0, <3>1, <3>2, <3>4, NoneApart
        <3> QED BY <1>0, <3>1, <3>2, <3>3, <3>4 DEF MachineInv
    <2> QED BY <1>3, <2>1, <2>2 DEF Publish, PublishUnless
<1>4. ASSUME NEW g \in Gens, Watch(g) PROVE MachineInv'
    <2>1. CASE Stopping(g) \/ stop[g] = "failed"
        BY <1>0, <1>4, <2>1 DEF MachineInv, Watch, WatchUnless, Stopping
    <2>2. CASE ~(Stopping(g) \/ stop[g] = "failed")
        <3>1. WatchRecords(g) /\ watch[g] = "waiting" /\ watch' = [watch EXCEPT ![g] = "over"]
              /\ UNCHANGED <<phase, id, stop>>
            BY <1>4, <2>2 DEF Watch, WatchUnless
        <3>2. running' = [running EXCEPT ![id[g]] = IF @ = g THEN None ELSE @]
              /\ exits' = [exits EXCEPT ![g] = @ + 1]
            BY <3>1 DEF WatchRecords, Unregister, recordExitLocked
        <3>3. stop[g] = "none"
            BY <1>0, <2>2 DEF Stopping
        <3>4. phase[g] = "registered" /\ running[id[g]] = g /\ exits[g] = 0
            BY <3>1, <3>3 DEF MachineInv
        <3> QED BY <1>0, <3>1, <3>2, <3>3, <3>4, NoneApart, SMTT(30) DEF StartInv, MachineInv
    <2> QED BY <2>1, <2>2
<1>5. ASSUME NEW g \in Gens, StopFinish(g) PROVE MachineInv'
    <2>1. CASE StopSucceeds(g)
        <3>1. /\ running' = [running EXCEPT ![id[g]] = IF @ = g THEN None ELSE @]
              /\ exits' = [exits EXCEPT ![g] = @ + 1]
              /\ stop[g] = "closed" /\ stop' = [stop EXCEPT ![g] = "stopped"]
              /\ UNCHANGED <<phase, id, watch>>
            BY <1>5, <2>1 DEF StopFinish, StopSucceeds, Unregister, recordExitLocked
        <3>2. phase[g] = "registered" /\ running[id[g]] = g /\ exits[g] = 0
            BY <3>1 DEF MachineInv
        <3> QED BY <1>0, <3>1, <3>2, NoneApart, SMTT(30) DEF StartInv, MachineInv
    <2>2. CASE StopFails(g)
        <3>1. /\ stop[g] = "closeFailed" /\ stop' = [stop EXCEPT ![g] = "failed"]
              /\ UNCHANGED <<phase, id, running, watch, exits>>
            BY <1>5, <2>2, Zenon DEF StopFinish, StopFails
        <3> QED BY <1>0, <3>1, SMTT(30) DEF MachineInv
    <2> QED BY <1>5, <2>1, <2>2 DEF StopFinish
<1>6. ASSUME NEW g \in Gens, StopClose(g) PROVE MachineInv'
    BY <1>0, <1>6 DEF MachineInv, StopClose
<1>7. ASSUME NEW i \in Ids, ShutdownInstance(i) PROVE MachineInv'
    BY <1>0, <1>7 DEF MachineInv, ShutdownInstance, beginMachineStopLocked
<1>8. ASSUME NEW c \in Calls, ShutdownAll(c) PROVE MachineInv'
    BY <1>0, <1>8, SMTT(30) DEF MachineInv, ShutdownAll, beginMachineStopLocked, Running
<1>9. CASE UNCHANGED <<phase, id, running, watch, stop, exits>>
    BY <1>9 DEF MachineInv
<1> QED BY <1>1, <1>2, <1>3, <1>4, <1>5, <1>6, <1>7, <1>8, <1>9, StepCases, Zenon
        DEF GuestExit, ShutdownAllReturn, ShutdownAllExpire, Return, vars

-----------------------------------------------------------------------------
(* The instances behind the machines.                                      *)

\* What the goroutines know of an instance stays true: a closed one stays
\* closed, one that is down never comes up again.
LEMMA NextInst == TypeOK /\ StartInv /\ MachineInv /\ InstInv /\ [Next]_vars => InstInv'
<1> SUFFICES ASSUME TypeOK, StartInv, MachineInv, InstInv, [Next]_vars PROVE InstInv'
    OBVIOUS
<1> USE DEF registry, shutdown, start
<1>0. /\ phase \in [Gens -> Phases]
      /\ inst \in [Gens -> {"none", "up", "down", "closed"}]
      /\ watch \in [Gens -> {"none", "waiting", "over"}]
      /\ stop \in [Gens -> {"none", "pending", "closed", "closeFailed", "stopped", "failed"}]
    BY DEF TypeOK
<1>1. ASSUME NEW g \in Gens, NEW i \in Ids, NEW d \in Demands, StartInstanceStream(g, i, d)
      PROVE  InstInv'
    BY <1>0, <1>1 DEF InstInv, StartInstanceStream
<1>a. \A h \in Gens : phase[h] # "registered" => watch[h] = "none" /\ stop[h] = "none"
    BY Zenon DEF MachineInv
<1>b. ASSUME NEW g \in Gens, phase[g] # "registered",
             NEW p \in Phases, phase' = [phase EXCEPT ![g] = p],
             NEW v, inst' = [inst EXCEPT ![g] = v],
             cleanupErr' \in {cleanupErr, cleanupErr \cup {g}}, UNCHANGED <<watch, stop>>,
             p \notin {"unused", "booting"}, p = "aborted" /\ g \notin cleanupErr' => v # "up"
      PROVE  InstInv'
    <2>1. /\ phase'[g] = p /\ inst'[g] = v
          /\ watch'[g] = "none" /\ stop'[g] = "none"
        BY <1>0, <1>a, <1>b
    <2>2. ASSUME NEW h \in Gens \ {g}
          PROVE  /\ phase'[h] = phase[h] /\ inst'[h] = inst[h]
                 /\ watch'[h] = watch[h] /\ stop'[h] = stop[h]
                 /\ h \in cleanupErr' <=> h \in cleanupErr
        BY <1>0, <1>b, <2>2
    <2>3. /\ phase'[g] \notin {"unused", "booting"}
          /\ stop'[g] \notin {"closed", "stopped"} /\ watch'[g] # "over"
          /\ phase'[g] = "aborted" /\ g \notin cleanupErr' => inst'[g] # "up"
        BY <1>b, <2>1
    <2>4. ASSUME NEW h \in Gens, h # g
          PROVE  /\ phase'[h] \in {"unused", "booting"} => inst'[h] = "none"
                 /\ stop'[h] \in {"closed", "stopped"} => inst'[h] = "closed"
                 /\ watch'[h] = "over" => inst'[h] \in {"down", "closed"}
                 /\ phase'[h] = "aborted" /\ h \notin cleanupErr' => inst'[h] # "up"
        BY <2>2, <2>4 DEF InstInv
    <2> QED BY <2>3, <2>4 DEF InstInv
<1>c. ASSUME NEW g \in Gens PROVE inst = [inst EXCEPT ![g] = inst[g]]
    BY <1>0
<1>2. ASSUME NEW g \in Gens, HostStarted(g) PROVE InstInv'
    <2>1. /\ phase[g] = "booting" /\ UNCHANGED <<cleanupErr, watch, stop>>
          /\ \E p \in {"display", "sharing"} : phase' = [phase EXCEPT ![g] = p]
          /\ inst' = [inst EXCEPT ![g] = "up"]
        BY <1>2 DEF HostStarted, Step
    <2> QED BY <1>b, <2>1, Zenon DEF Phases
<1>3. ASSUME NEW g \in Gens, addInstanceShares(g) \/ startVNCServer(g) PROVE InstInv'
    <2>1. /\ phase[g] \in {"sharing", "display"} /\ UNCHANGED <<cleanupErr, watch, stop, inst>>
          /\ \E p \in {"display", "shareFailed", "publishing", "displayFailed"} :
                phase' = [phase EXCEPT ![g] = p]
        BY <1>3 DEF addInstanceShares, startVNCServer, Step
    <2> QED BY <1>b, <1>c, <2>1, Zenon DEF Phases
<1>14. ASSUME NEW g \in Gens, HostFailed(g) PROVE InstInv'
    <2>1. /\ phase[g] = "booting" /\ UNCHANGED <<cleanupErr, watch, stop, inst>>
          /\ phase' = [phase EXCEPT ![g] = "aborted"]
        BY <1>14 DEF HostFailed, finishStart
    <2>2. inst[g] = "none"
        BY <2>1 DEF InstInv
    <2> QED BY <1>b, <1>c, <2>1, <2>2, Zenon DEF Phases
<1>4. ASSUME NEW g \in Gens, CloseFailedStart(g) PROVE InstInv'
    <2>1. PICK closed \in BOOLEAN :
            /\ inst' = [inst EXCEPT ![g] = IF closed THEN "closed" ELSE @]
            /\ \/ /\ phase[g] = "shareFailed" /\ phase' = [phase EXCEPT ![g] = "aborted"]
                  /\ cleanupErr' = IF closed THEN cleanupErr ELSE cleanupErr \cup {g}
               \/ /\ phase[g] = "displayFailed" /\ phase' = [phase EXCEPT ![g] = "displayAborted"]
                  /\ UNCHANGED cleanupErr
            /\ UNCHANGED <<watch, stop>>
        BY <1>4, Zenon DEF CloseFailedStart, finishStart
    <2>2. inst' = [inst EXCEPT ![g] = IF closed THEN "closed" ELSE inst[g]]
        BY <1>0, <2>1
    <2>3. CASE phase[g] = "shareFailed"
        <3>1. (closed /\ cleanupErr' = cleanupErr) \/ (~closed /\ cleanupErr' = cleanupErr \cup {g})
            BY <2>1, <2>3
        <3> QED BY <1>b, <2>1, <2>2, <2>3, <3>1, Zenon DEF Phases
    <2>4. CASE phase[g] = "displayFailed"
        BY <1>b, <2>1, <2>2, <2>4, Zenon DEF Phases
    <2> QED BY <2>1, <2>3, <2>4
<1>5. ASSUME NEW g \in Gens, Publish(g) PROVE InstInv'
    BY <1>0, <1>5 DEF InstInv, Publish, PublishUnless, Abandon, Register
<1>6. ASSUME NEW g \in Gens, CloseLateStart(g) PROVE InstInv'
    <2>1. PICK closed \in BOOLEAN :
            /\ phase[g] = "lateClose" /\ phase' = [phase EXCEPT ![g] = "aborted"]
            /\ inst' = [inst EXCEPT ![g] = IF closed THEN "closed" ELSE @]
            /\ cleanupErr' = IF ~closed THEN cleanupErr \cup {g} ELSE cleanupErr
            /\ UNCHANGED <<watch, stop>>
        BY <1>6, Zenon DEF CloseLateStart, CloseLate
    <2>2. inst' = [inst EXCEPT ![g] = IF closed THEN "closed" ELSE inst[g]]
        BY <1>0, <2>1
    <2>3. (closed /\ cleanupErr' = cleanupErr) \/ (~closed /\ cleanupErr' = cleanupErr \cup {g})
        BY <2>1
    <2> QED BY <1>b, <2>1, <2>2, <2>3, Zenon DEF Phases
<1>7. ASSUME NEW g \in Gens, GuestExit(g) PROVE InstInv'
    BY <1>0, <1>7 DEF InstInv, GuestExit
<1>8. ASSUME NEW g \in Gens, Watch(g) PROVE InstInv'
    BY <1>0, <1>8 DEF InstInv, Watch, WatchUnless
<1>9. ASSUME NEW g \in Gens, StopClose(g) PROVE InstInv'
    BY <1>0, <1>9, SMTT(30) DEF MachineInv, InstInv, StopClose
<1>10. ASSUME NEW g \in Gens, StopFinish(g) PROVE InstInv'
    BY <1>0, <1>10 DEF InstInv, StopFinish, StopSucceeds, StopFails
<1>11. ASSUME NEW i \in Ids, ShutdownInstance(i) PROVE InstInv'
    BY <1>0, <1>11 DEF InstInv, ShutdownInstance, beginMachineStopLocked
<1>12. ASSUME NEW c \in Calls, ShutdownAll(c) PROVE InstInv'
    BY <1>0, <1>12 DEF InstInv, ShutdownAll, beginMachineStopLocked
<1>13. CASE UNCHANGED <<phase, cleanupErr, inst, watch, stop>>
    BY <1>13 DEF InstInv
<1> QED BY <1>1, <1>2, <1>3, <1>4, <1>5, <1>6, <1>7, <1>8, <1>9, <1>10, <1>11, <1>12, <1>13, <1>14,
           StepCases
        DEF ShutdownAllReturn, ShutdownAllExpire, Return, vars

-----------------------------------------------------------------------------
(* Network leases.                                                         *)

\* A delete of networkLeases[id] is always that of the generation that holds
\* the id; LeaseInv is preserved.
LEMMA NextLease == TypeOK /\ StartInv /\ MachineInv /\ LeaseInv /\ [Next]_vars => LeaseInv'
<1> SUFFICES ASSUME TypeOK, StartInv, MachineInv, LeaseInv, [Next]_vars PROVE LeaseInv'
    OBVIOUS
<1> USE DEF registry, shutdown, start, InFlight
<1>0. /\ running \in [Ids -> Gens \cup {None}]
      /\ starting \in [Ids -> Gens \cup {None}]
      /\ networkLeases \in [Ids -> (2..LastHost + 1) \cup {None}]
      /\ phase \in [Gens -> Phases]
      /\ id \in [Gens -> Ids \cup {None}]
      /\ leased \subseteq Gens
      /\ stop \in [Gens -> {"none", "pending", "closed", "closeFailed", "stopped", "failed"}]
    BY DEF TypeOK
<1>1. ASSUME NEW g \in Gens, NEW i \in Ids, NEW d \in Demands, StartInstanceStream(g, i, d)
      PROVE  LeaseInv'
    <2>1. networkLeases[i] = None /\ g \notin leased /\ running[i] = None /\ starting[i] = None
        BY <1>0, <1>1, NoneApart DEF StartInstanceStream, LeaseInv, LeasesFollowRegistration
    <2>2. NextHost # None
        BY NextHostIsFree, ConstantsAssumption
    <2>3. CASE UNCHANGED <<networkLeases, leased>>
        BY <1>0, <1>1, <2>1, <2>3, NoneApart DEF StartInstanceStream, LeaseInv, LeasesFollowRegistration
    <2>4. CASE ensureNetworkLeaseLocked(i) /\ leased' = leased \cup {g}
        <3>1. /\ networkLeases' = [networkLeases EXCEPT ![i] = NextHost]
              /\ starting' = [starting EXCEPT ![i] = g] /\ running' = running
              /\ phase' = [phase EXCEPT ![g] = "booting"] /\ phase[g] = "unused"
            BY <1>0, <1>1, <2>1, <2>4 DEF StartInstanceStream, ensureNetworkLeaseLocked
        <3>2. \A j \in Ids : g # running[j] /\ g # starting[j]
            <4>1. ASSUME NEW j \in Ids, g = running[j] PROVE FALSE
                BY <3>1, <4>1, NoneApart DEF MachineInv
            <4>2. ASSUME NEW j \in Ids, g = starting[j] PROVE FALSE
                BY <3>1, <4>2, NoneApart DEF StartInv
            <4> QED BY <4>1, <4>2
        <3>3. LeasesFollowRegistration'
            <4>1. networkLeases'[i] # None /\ starting'[i] = g /\ g \in leased'
                BY <1>0, <2>2, <2>4, <3>1
            <4>2. ASSUME NEW j \in Ids, j # i
                  PROVE  /\ networkLeases'[j] = networkLeases[j]
                         /\ running'[j] = running[j] /\ starting'[j] = starting[j]
                BY <1>0, <3>1, <4>2
            <4> QED BY <2>4, <3>2, <4>1, <4>2, Zenon DEF LeaseInv, LeasesFollowRegistration
        <3> QED BY <1>0, <2>4, <3>1, <3>3 DEF LeaseInv
    <2> QED BY <1>1, <2>3, <2>4 DEF StartInstanceStream
<1>2. ASSUME NEW g \in Gens, HostStarted(g) \/ addInstanceShares(g) \/ startVNCServer(g)
      PROVE  LeaseInv'
    BY <1>0, <1>2
       DEF HostStarted, addInstanceShares, startVNCServer, Step, LeaseInv, LeasesFollowRegistration
<1>3. ASSUME NEW g \in Gens, HostFailed(g) \/ CloseFailedStart(g) PROVE LeaseInv'
    <2>1. InFlight(g) /\ ForgetStart(g) /\ UNCHANGED <<id, leased>>
          /\ \E end \in {"aborted", "displayAborted"} : phase' = [phase EXCEPT ![g] = end]
        BY <1>3, Zenon DEF HostFailed, CloseFailedStart, finishStart
    <2>2. id[g] \in Ids /\ starting[id[g]] = g
        BY <2>1 DEF StartInv
    <2>3. running[id[g]] = None
        BY <2>2, NoneApart DEF StartInv
    <2> QED BY <1>0, <2>1, <2>2, <2>3, NoneApart, SMTT(30)
            DEF ForgetStart, LeaseInv, LeasesFollowRegistration
<1>4. ASSUME NEW g \in Gens, Publish(g) PROVE LeaseInv'
    <2>1. id[g] \in Ids /\ starting[id[g]] = g /\ running[id[g]] = None /\ UNCHANGED <<id, leased>>
        BY <1>4, NoneApart, Zenon DEF StartInv, Publish, PublishUnless
    <2>2. CASE Abandon(g)
        BY <1>0, <2>1, <2>2, NoneApart DEF Abandon, ForgetStart, LeaseInv, LeasesFollowRegistration
    <2>3. CASE Register(g)
        BY <1>0, <2>1, <2>3, NoneApart DEF Register, LeaseInv, LeasesFollowRegistration
    <2> QED BY <1>4, <2>2, <2>3, Zenon DEF Publish, PublishUnless
<1>5. ASSUME NEW g \in Gens, Unregister(g), phase[g] = "registered", running[id[g]] = g,
             UNCHANGED <<phase, leased>>
      PROVE  LeaseInv'
    <2>1. id[g] \in Ids
        BY <1>5 DEF StartInv
    <2>2. starting[id[g]] = None
        BY <1>5, <2>1, NoneApart DEF StartInv
    <2> QED BY <1>0, <1>5, <2>1, <2>2, NoneApart DEF Unregister, LeaseInv, LeasesFollowRegistration
<1>6. ASSUME NEW g \in Gens, Watch(g) PROVE LeaseInv'
    <2>1. CASE Stopping(g) \/ stop[g] = "failed"
        BY <1>6, <2>1, Zenon DEF Watch, WatchUnless, LeaseInv, LeasesFollowRegistration
    <2>2. CASE ~(Stopping(g) \/ stop[g] = "failed")
        <3>1. stop[g] = "none"
            BY <1>0, <2>2 DEF Stopping
        <3>2. Unregister(g) /\ watch[g] = "waiting" /\ UNCHANGED <<phase, leased>>
            BY <1>6, <2>2 DEF Watch, WatchUnless, WatchRecords
        <3>3. phase[g] = "registered" /\ running[id[g]] = g
            BY <3>1, <3>2 DEF MachineInv
        <3> QED BY <1>5, <3>2, <3>3
    <2> QED BY <2>1, <2>2
<1>7. ASSUME NEW g \in Gens, StopFinish(g) PROVE LeaseInv'
    <2>1. CASE StopSucceeds(g)
        <3>1. phase[g] = "registered" /\ running[id[g]] = g
            BY <2>1 DEF StopSucceeds, MachineInv
        <3> QED BY <1>5, <1>7, <2>1, <3>1, Zenon DEF StopFinish, StopSucceeds
    <2>2. CASE StopFails(g)
        BY <1>7, <2>2, Zenon DEF StopFinish, StopFails, LeaseInv, LeasesFollowRegistration
    <2> QED BY <1>7, <2>1, <2>2, Zenon DEF StopFinish
<1>8. ASSUME NEW g \in Gens, CloseLateStart(g) PROVE LeaseInv'
    BY <1>0, <1>8 DEF CloseLateStart, CloseLate, LeaseInv, LeasesFollowRegistration
<1>9. CASE UNCHANGED <<phase, running, starting, networkLeases, leased>>
    BY <1>9, Zenon DEF LeaseInv, LeasesFollowRegistration
<1> QED BY <1>1, <1>2, <1>3, <1>4, <1>6, <1>7, <1>8, <1>9, StepCases, Zenon
        DEF GuestExit, StopClose, ShutdownInstance, ShutdownAll, ShutdownAllReturn,
            ShutdownAllExpire, Return, vars

-----------------------------------------------------------------------------
(* ShutdownAll.                                                            *)

\* No start or machine enters the maps once closing is set, so what a call
\* captured stays what it must wait for; ShutdownInv is preserved.
LEMMA NextShutdown ==
    TypeOK /\ StartInv /\ MachineInv /\ ShutdownInv /\ [Next]_vars => ShutdownInv'
<1> SUFFICES ASSUME TypeOK, StartInv, MachineInv, ShutdownInv, [Next]_vars PROVE ShutdownInv'
    OBVIOUS
<1> USE DEF registry, shutdown, start, InFlight
<1>0. /\ phase \in [Gens -> Phases]
      /\ stop \in [Gens -> {"none", "pending", "closed", "closeFailed", "stopped", "failed"}]
      /\ call \in [Calls -> {"idle", "waiting", "nil", "error"}]
      /\ stops \in [Calls -> SUBSET Gens]
      /\ starts \in [Calls -> SUBSET Gens]
      /\ sawErr \subseteq Calls
      /\ duty \in [Calls -> SUBSET Gens]
    BY DEF TypeOK
<1>1. ASSUME NEW g \in Gens, NEW i \in Ids, NEW d \in Demands, StartInstanceStream(g, i, d)
      PROVE  ShutdownInv'
    BY <1>0, <1>1 DEF ShutdownInv, StartInstanceStream
<1>2. ASSUME NEW g \in Gens, HostStarted(g) \/ addInstanceShares(g) \/ startVNCServer(g)
      PROVE  ShutdownInv'
    <2>1. /\ phase[g] # "unused" /\ \E p \in {"display", "sharing", "shareFailed", "publishing",
                                             "displayFailed"} : phase' = [phase EXCEPT ![g] = p]
          /\ UNCHANGED <<closing, stop, shutdown>>
        BY <1>2 DEF HostStarted, addInstanceShares, startVNCServer, Step
    <2> QED BY <1>0, <2>1 DEF ShutdownInv
<1>3. ASSUME NEW g \in Gens, HostFailed(g) \/ CloseFailedStart(g) PROVE ShutdownInv'
    <2>1. /\ phase[g] # "unused"
          /\ \E p \in {"aborted", "displayAborted"} : phase' = [phase EXCEPT ![g] = p]
          /\ UNCHANGED <<closing, stop, shutdown>>
        BY <1>3 DEF HostFailed, CloseFailedStart, finishStart
    <2> QED BY <1>0, <2>1 DEF ShutdownInv
<1>4. ASSUME NEW g \in Gens, Publish(g) PROVE ShutdownInv'
    <2>1. id[g] \in Ids /\ starting[id[g]] = g /\ UNCHANGED <<closing, stop, shutdown>>
        BY <1>4, Zenon DEF StartInv, Publish, PublishUnless
    <2>2. CASE Abandon(g)
        BY <1>0, <2>1, <2>2, Zenon DEF ShutdownInv, Abandon
    <2>3. CASE ~closing /\ Register(g)
        BY <1>0, <2>1, <2>3 DEF ShutdownInv, Register
    <2> QED BY <1>4, <2>1, <2>2, <2>3 DEF Publish, PublishUnless
<1>5. ASSUME NEW g \in Gens, CloseLateStart(g) PROVE ShutdownInv'
    BY <1>0, <1>5 DEF ShutdownInv, CloseLateStart, CloseLate
<1>6. ASSUME NEW g \in Gens, StopClose(g) PROVE ShutdownInv'
    BY <1>0, <1>6 DEF ShutdownInv, StopClose
<1>7. ASSUME NEW g \in Gens, StopFinish(g) PROVE ShutdownInv'
    <2>1. /\ stops' = [c \in Calls |-> stops[c] \ {g}]
          /\ UNCHANGED <<closing, phase, call, starts, duty>>
        BY <1>7 DEF StopFinish, StopSucceeds, StopFails
    <2>2. CASE StopSucceeds(g)
        BY <1>0, <2>1, <2>2, SMTT(30) DEF ShutdownInv, StopSucceeds
    <2>3. CASE StopFails(g)
        <3>1. /\ stop[g] = "closeFailed" /\ stop' = [stop EXCEPT ![g] = "failed"]
              /\ sawErr' = sawErr \cup {c \in Calls : g \in stops[c]}
            BY <2>3 DEF StopFails
        <3>2. ASSUME NEW c \in Calls, NEW h \in stops'[c] PROVE h \in stops[c] /\ stop'[h] = stop[h]
            BY <1>0, <2>1, <3>1, <3>2
        <3>3. ASSUME NEW c \in Calls, NEW h \in duty[c]
              PROVE  h \in starts[c] \cup stops'[c] \/ stop'[h] = "stopped" \/ c \in sawErr'
            <4>1. CASE h = g
                BY <1>0, <2>1, <3>1, <3>3, <4>1 DEF ShutdownInv
            <4>2. CASE h # g
                BY <1>0, <2>1, <3>1, <3>3, <4>2 DEF ShutdownInv
            <4> QED BY <4>1, <4>2
        <3> QED BY <1>0, <2>1, <3>2, <3>3, SMTT(30) DEF ShutdownInv
    <2> QED BY <1>7, <2>2, <2>3 DEF StopFinish
<1>8. ASSUME NEW i \in Ids, ShutdownInstance(i) PROVE ShutdownInv'
    <2>1. /\ UNCHANGED <<closing, phase, shutdown>>
          /\ \/ stop' = stop
             \/ \E m : stop' = [g \in Gens |-> IF g \in m /\ stop[g] \in {"none", "failed"}
                                             THEN "pending" ELSE stop[g]]
        BY <1>8, Zenon DEF ShutdownInstance, beginMachineStopLocked
    <2>2. \A g \in Gens : stop'[g] = stop[g] \/ (stop[g] \in {"none", "failed"} /\ stop'[g] = "pending")
        BY <2>1
    <2> QED BY <1>0, <2>1, <2>2 DEF ShutdownInv
<1>9. ASSUME NEW c \in Calls, ShutdownAll(c) PROVE ShutdownInv'
    <2> DEFINE machines == {running[i] : i \in Running}
               begun == {starting[i] : i \in Starting}
    <2>0. running \in [Ids -> Gens \cup {None}] /\ starting \in [Ids -> Gens \cup {None}]
        BY DEF TypeOK
    <2>1. ASSUME NEW g \in machines PROVE g \in Gens /\ stop[g] # "stopped"
        <3>1. PICK i \in Ids : g = running[i] /\ running[i] # None
            BY DEF Running
        <3>2. g \in Gens /\ phase[g] = "registered" /\ running[id[g]] = g
            BY <2>0, <3>1, NoneApart DEF MachineInv
        <3> QED BY <3>2, Zenon DEF MachineInv
    <2>2. ASSUME NEW g \in begun PROVE g \in Gens /\ InFlight(g)
        <3>1. PICK i \in Ids : g = starting[i] /\ starting[i] # None
            BY DEF Starting
        <3> QED BY <2>0, <3>1, NoneApart DEF StartInv
    <2>3. /\ stop' = [g \in Gens |-> IF g \in machines /\ stop[g] \in {"none", "failed"}
                                     THEN "pending" ELSE stop[g]]
          /\ stops' = [stops EXCEPT ![c] = machines] /\ starts' = [starts EXCEPT ![c] = begun]
          /\ duty' = [duty EXCEPT ![c] = machines \cup begun]
          /\ call' = [call EXCEPT ![c] = "waiting"] /\ closing' /\ UNCHANGED <<phase, sawErr>>
        BY <1>9 DEF ShutdownAll, beginMachineStopLocked
    <2> HIDE DEF machines, begun
    <2> QED BY <1>0, <2>1, <2>2, <2>3, SMTT(30) DEF ShutdownInv
<1>10. ASSUME NEW c \in Calls, ShutdownAllReturn(c) \/ ShutdownAllExpire(c) PROVE ShutdownInv'
    <2>1. /\ call[c] = "waiting" /\ \E result \in {"nil", "error"} : call' = [call EXCEPT ![c] = result]
          /\ UNCHANGED <<closing, phase, stop, stops, starts, sawErr, duty>>
        BY <1>10, Zenon DEF ShutdownAllReturn, ShutdownAllExpire, Return
    <2>2. \A e \in Calls : call'[e] = "idle" <=> call[e] = "idle"
        BY <1>0, <2>1
    <2> QED BY <2>1, <2>2, Zenon DEF ShutdownInv
<1>11. CASE UNCHANGED <<closing, phase, stop, shutdown>>
    BY <1>11, Zenon DEF ShutdownInv
<1> QED BY <1>1, <1>2, <1>3, <1>4, <1>5, <1>6, <1>7, <1>8, <1>9, <1>10, <1>11, StepCases
        DEF GuestExit, Watch, WatchUnless, vars

\* A start that is over stays over, and its instance does not come back up.
LEMMA OverStaysOver ==
    ASSUME TypeOK, [Next]_vars, NEW h \in Gens, Done(h)
    PROVE  phase'[h] = phase[h] /\ (inst[h] # "up" => inst'[h] # "up")
<1> DEFINE Goal == phase'[h] = phase[h] /\ (inst[h] # "up" => inst'[h] # "up")
<1> USE DEF start
<1>0. /\ phase[h] \in {"aborted", "displayAborted", "registered"}
      /\ DOMAIN phase = Gens /\ DOMAIN inst = Gens
    BY DEF TypeOK, Done
<1>a. ASSUME NEW g \in Gens, ~Done(g), NEW p, phase' = [phase EXCEPT ![g] = p],
             NEW v, inst' = inst \/ inst' = [inst EXCEPT ![g] = v]
      PROVE  Goal
    <2>1. g # h
        BY <1>a
    <2> QED BY <1>0, <1>a, <2>1
<1>1. ASSUME NEW g \in Gens, NEW i \in Ids, NEW d \in Demands, StartInstanceStream(g, i, d)
      PROVE  Goal
    <2>1. ~Done(g) /\ phase' = [phase EXCEPT ![g] = "booting"] /\ inst' = inst
        BY <1>1 DEF StartInstanceStream, Done
    <2> QED BY <1>a, <2>1
<1>2. ASSUME NEW g \in Gens, HostStarted(g) \/ addInstanceShares(g) \/ startVNCServer(g) PROVE Goal
    <2>1. /\ ~Done(g) /\ \E p : phase' = [phase EXCEPT ![g] = p]
          /\ inst' = inst \/ inst' = [inst EXCEPT ![g] = "up"]
        BY <1>2 DEF HostStarted, addInstanceShares, startVNCServer, Step, Done
    <2> QED BY <1>a, <2>1, Zenon
<1>3. ASSUME NEW g \in Gens, HostFailed(g) \/ CloseFailedStart(g) PROVE Goal
    <2>1. ~Done(g) /\ \E p : phase' = [phase EXCEPT ![g] = p]
        BY <1>3 DEF HostFailed, CloseFailedStart, finishStart, Done
    <2>2. inst' = inst \/ \E v : inst' = [inst EXCEPT ![g] = v]
        BY <1>3 DEF HostFailed, CloseFailedStart
    <2> QED BY <1>a, <2>1, <2>2, Zenon
<1>4. ASSUME NEW g \in Gens, Publish(g) PROVE Goal
    <2>1. ~Done(g) /\ inst' = inst /\ \E p : phase' = [phase EXCEPT ![g] = p]
        BY <1>4 DEF Publish, PublishUnless, Abandon, Register, Done
    <2> QED BY <1>a, <2>1
<1>5. ASSUME NEW g \in Gens, CloseLateStart(g) PROVE Goal
    <2>1. ~Done(g) /\ phase' = [phase EXCEPT ![g] = "aborted"]
        BY <1>5 DEF CloseLateStart, CloseLate, Done
    <2>2. \E v : inst' = [inst EXCEPT ![g] = v]
        BY <1>5, Zenon DEF CloseLateStart, CloseLate
    <2> QED BY <1>a, <2>1, <2>2
<1>6. ASSUME NEW g \in Gens, GuestExit(g) \/ StopClose(g) PROVE Goal
    BY <1>6 DEF TypeOK, GuestExit, StopClose
<1>7. CASE UNCHANGED <<phase, inst>>
    BY <1>7
<1> QED BY <1>1, <1>2, <1>3, <1>4, <1>5, <1>6, <1>7, StepCases, Zenon
        DEF Watch, WatchUnless, StopFinish, ShutdownInstance, ShutdownAll, ShutdownAllReturn,
            ShutdownAllExpire, Return, vars

\* The only step that makes a call return nil is ShutdownAllReturn.
LEMMA NilIsReturned ==
    ASSUME TypeOK, [Next]_vars, NEW c \in Calls, call'[c] = "nil"
    PROVE  duty'[c] = duty[c] /\ (call[c] = "nil" \/ ShutdownAllReturn(c))
<1>1. CASE UNCHANGED <<call, duty>>
    BY <1>1
<1>2. ASSUME NEW b \in Calls, ShutdownAll(b) PROVE duty'[c] = duty[c] /\ call[c] = "nil"
    BY <1>2 DEF TypeOK, ShutdownAll
<1>3. ASSUME NEW b \in Calls, ShutdownAllReturn(b) \/ ShutdownAllExpire(b)
      PROVE  duty'[c] = duty[c] /\ (call[c] = "nil" \/ ShutdownAllReturn(c))
    <2>1. CASE b = c
        BY <1>3, <2>1 DEF TypeOK, ShutdownAllExpire, ShutdownAllReturn, Return
    <2>2. CASE b # c
        BY <1>3, <2>2 DEF TypeOK, ShutdownAllReturn, ShutdownAllExpire, Return
    <2> QED BY <2>1, <2>2
<1> QED BY <1>1, <1>2, <1>3, StepCases, Zenon
        DEF shutdown, StartInstanceStream, HostStarted, HostFailed, addInstanceShares,
            startVNCServer, CloseFailedStart, finishStart, Step, Publish, PublishUnless,
            CloseLateStart, CloseLate, GuestExit, Watch, WatchUnless, StopClose, StopFinish,
            ShutdownInstance, vars

\* Behind a nil result lie a finished stop or a finished start for every machine
\* that the call found; neither is undone.
LEMMA NextNil == IndInv /\ [Next]_vars => ShutdownNilClosesInstances'
<1> SUFFICES ASSUME IndInv, [Next]_vars, NEW c \in Calls, call'[c] = "nil", NEW g \in duty[c]
             PROVE  (phase[g] # "displayAborted" => Done(g) /\ inst[g] # "up")'
    BY NilIsReturned DEF ShutdownNilClosesInstances, IndInv
<1>1. TypeOK /\ MachineInv /\ InstInv /\ ShutdownInv /\ ShutdownNilClosesInstances /\ g \in Gens
    BY DEF IndInv, TypeOK
<1>2. CASE call[c] = "nil"
    BY <1>1, <1>2, OverStaysOver DEF ShutdownNilClosesInstances, Done
<1>3. CASE ShutdownAllReturn(c)
    <2>1. /\ stops[c] = {} /\ \A h \in starts[c] : Done(h) /\ h \notin cleanupErr
          /\ c \notin sawErr
        BY <1>1, <1>3 DEF TypeOK, ShutdownAllReturn, Return
    <2>2. CASE g \in starts[c]
        <3>1. phase[g] = "displayAborted" \/ (phase[g] = "aborted" /\ inst[g] # "up")
            BY <1>1, <2>1, <2>2 DEF Done, ShutdownInv, InstInv
        <3> QED BY <1>1, <3>1, OverStaysOver DEF Done
    <2>3. CASE stop[g] = "stopped"
        <3>1. phase[g] = "registered" /\ inst[g] # "up"
            BY <1>1, <2>3 DEF MachineInv, InstInv
        <3> QED BY <1>1, <3>1, OverStaysOver DEF Done
    <2> QED BY <1>1, <2>1, <2>2, <2>3 DEF ShutdownInv
<1> QED BY <1>1, <1>2, <1>3, NilIsReturned

-----------------------------------------------------------------------------
(* The theorems.                                                           *)

\* The invariant holds of a manager that has nothing registered.
LEMMA InitInv == Init => IndInv
<1> SUFFICES ASSUME Init PROVE IndInv
    OBVIOUS
<1>1. TypeOK
    BY InitType
<1>2. StartInv /\ MachineInv /\ InstInv
    BY NoneApart DEF Init, StartInv, MachineInv, InstInv, InFlight
<1>3. LeaseInv /\ ShutdownInv /\ ShutdownNilClosesInstances
    BY DEF Init, LeaseInv, LeasesFollowRegistration, ShutdownInv, ShutdownNilClosesInstances
<1> QED BY <1>1, <1>2, <1>3 DEF IndInv

\* Every step of the manager's goroutines keeps every conjunct of the invariant.
LEMMA NextInv == IndInv /\ [Next]_vars => IndInv'
BY NextType, NextStart, NextMachine, NextInst, NextLease, NextShutdown, NextNil DEF IndInv

\* IndInv holds in every reachable state of the manager.
THEOREM Inductive == Spec => []IndInv
BY InitInv, NextInv, PTL DEF Spec

\* Every map and goroutine of the manager has its type: in particular no
\* host byte outside 2..LastHost + 1 is ever leased.
THEOREM TypeCorrect == Spec => []TypeOK
<1>1. IndInv => TypeOK
    BY DEF IndInv
<1> QED BY <1>1, Inductive, PTL

\* Between watch and runMachineStop, exactly one records the exit of a machine.
THEOREM ExitOnce == Spec => []ExitPublishedOnce
<1>1. IndInv => ExitPublishedOnce
    BY DEF IndInv, MachineInv, ExitPublishedOnce
<1> QED BY <1>1, Inductive, PTL

\* A machine whose stop failed stays registered, whatever its guest does, so
\* that the stop can be retried.
THEOREM FailedCloseKept == Spec => []FailedCloseStaysRegistered
<1>1. IndInv => FailedCloseStaysRegistered
    BY DEF IndInv, MachineInv, FailedCloseStaysRegistered
<1> QED BY <1>1, Inductive, PTL

\* The unguarded deletes of networkLeases never touch another generation's
\* lease, and no lease outlives its machine.
THEOREM LeasesKept == Spec => []LeasesFollowRegistration
<1>1. IndInv => LeasesFollowRegistration
    BY DEF IndInv, LeaseInv
<1> QED BY <1>1, Inductive, PTL

\* An instance that is up is registered, or its start has reported the failure
\* to close it, or its display failed.
THEOREM InstancesReachable == Spec => []NoForgottenInstance
<1>1. IndInv => NoForgottenInstance
    BY DEF IndInv, MachineInv, InstInv, NoForgottenInstance, Done
<1> QED BY <1>1, Inductive, PTL

\* ShutdownAll returns nil only when every instance it found is down.
THEOREM ShutdownNil == Spec => []ShutdownNilClosesInstances
<1>1. IndInv => ShutdownNilClosesInstances
    BY DEF IndInv
<1> QED BY <1>1, Inductive, PTL

\* Once ShutdownAll has begun, the maps only lose entries and closing stays set.
LEMMA ClosingStep ==
    TypeOK /\ StartInv /\ [Next]_vars =>
        (closing => /\ closing'
                    /\ \A i \in Ids : running'[i] \in {running[i], None}
                                      /\ starting'[i] \in {starting[i], None})
<1> SUFFICES ASSUME TypeOK, StartInv, [Next]_vars, closing
             PROVE  /\ closing'
                    /\ \A i \in Ids : running'[i] \in {running[i], None}
                                      /\ starting'[i] \in {starting[i], None}
    OBVIOUS
<1> DEFINE Goal == /\ closing'
                   /\ \A i \in Ids : running'[i] \in {running[i], None}
                                     /\ starting'[i] \in {starting[i], None}
<1> USE DEF registry, shutdown, start
<1>1. ASSUME NEW g \in Gens, HostFailed(g) \/ CloseFailedStart(g) PROVE Goal
    <2>1. ForgetStart(g) /\ closing'
        BY <1>1, Zenon DEF HostFailed, CloseFailedStart, finishStart
    <2> QED BY <2>1 DEF TypeOK, ForgetStart
<1>2. ASSUME NEW g \in Gens, Publish(g) PROVE Goal
    <2>1. ForgetStart(g) /\ closing'
        BY <1>2, Zenon DEF Publish, PublishUnless, Abandon
    <2> QED BY <2>1 DEF TypeOK, ForgetStart
<1>3. ASSUME NEW g \in Gens, Unregister(g), closing' = closing PROVE Goal
    <2>1. running \in [Ids -> Gens \cup {None}]
        BY DEF TypeOK
    <2>2. running' = [running EXCEPT ![id[g]] = IF @ = g THEN None ELSE @]
          /\ starting' = starting /\ closing'
        BY <1>3 DEF Unregister
    <2> QED BY <2>1, <2>2
<1>4. ASSUME NEW g \in Gens, Watch(g) \/ StopFinish(g) PROVE Goal
    <2>1. closing' = closing /\ (Unregister(g) \/ UNCHANGED registry)
        BY <1>4, Zenon DEF Watch, WatchUnless, WatchRecords, StopFinish, StopSucceeds, StopFails
    <2> QED BY <1>3, <2>1, Zenon
<1>5. CASE closing' /\ UNCHANGED registry
    BY <1>5, Zenon
<1> QED BY <1>1, <1>2, <1>4, <1>5, StepCases, ZenonT(30)
        DEF StartInstanceStream, HostStarted, addInstanceShares, startVNCServer, Step,
            CloseLateStart, CloseLate, GuestExit, StopClose, ShutdownInstance, ShutdownAll,
            ShutdownAllReturn, ShutdownAllExpire, Return, vars

\* What a ShutdownAll captured when it set closing is all there will be.
THEOREM ClosingFinal == Spec => ClosingIsFinal
<1>1. IndInv /\ [Next]_vars =>
        [closing => /\ closing'
                    /\ \A i \in Ids : running'[i] \in {running[i], None}
                                      /\ starting'[i] \in {starting[i], None}]_vars
    BY ClosingStep DEF IndInv
<1> QED BY <1>1, Inductive, PTL DEF Spec, ClosingIsFinal

\* A lease is given only by ensureNetworkLeaseLocked, which picks a byte that
\* no other id holds while there is one.
LEMMA LeaseStep == TypeOK /\ LeasesDistinct /\ [Next]_vars => LeasesDistinct'
<1> SUFFICES ASSUME TypeOK, LeasesDistinct, [Next]_vars PROVE LeasesDistinct'
    OBVIOUS
<1> USE DEF registry, shutdown, start
<1>1. ASSUME NEW g \in Gens, networkLeases' = [networkLeases EXCEPT ![id[g]] = None]
      PROVE  LeasesDistinct'
    BY <1>1 DEF TypeOK, LeasesDistinct
<1>2. ASSUME NEW i \in Ids, ensureNetworkLeaseLocked(i) PROVE LeasesDistinct'
    <2>1. \A j \in Ids : networkLeases[j] # NextHost \/ NextHost = LastHost + 1
        BY NextHostIsFree
    <2> QED BY <1>2, <2>1 DEF TypeOK, LeasesDistinct, ensureNetworkLeaseLocked
<1>3. CASE networkLeases' = networkLeases
    BY <1>3 DEF LeasesDistinct
<1>4. ASSUME NEW g \in Gens, NEW i \in Ids, NEW d \in Demands, StartInstanceStream(g, i, d)
      PROVE  LeasesDistinct'
    <2>1. ensureNetworkLeaseLocked(i) \/ networkLeases' = networkLeases
        BY <1>4, Zenon DEF StartInstanceStream
    <2> QED BY <1>2, <1>3, <2>1, Zenon
<1>5. ASSUME NEW g \in Gens, HostFailed(g) \/ CloseFailedStart(g) \/ Publish(g) \/ Watch(g)
                             \/ StopFinish(g)
      PROVE  LeasesDistinct'
    BY <1>1, <1>3, <1>5, Zenon
       DEF HostFailed, CloseFailedStart, finishStart, ForgetStart, Publish, PublishUnless, Abandon,
           Register, Watch, WatchUnless, WatchRecords, Unregister, StopFinish, StopSucceeds, StopFails
<1> QED BY <1>3, <1>4, <1>5, StepCases, Zenon
        DEF HostStarted, addInstanceShares, startVNCServer, Step, CloseLateStart, CloseLate,
            GuestExit, StopClose, ShutdownInstance, ShutdownAll, ShutdownAllReturn,
            ShutdownAllExpire, Return, vars

\* Two machines never hold the same address while a byte is free: whatever the
\* order of starts and exits, holes in the range are filled and never doubled.
THEOREM LeasesApart == Spec => []LeasesDistinct
<1>1. Init => LeasesDistinct
    BY DEF Init, LeasesDistinct
<1> QED BY <1>1, LeaseStep, TypeCorrect, PTL DEF Spec
=============================================================================
