------------------------------ MODULE VMManager ------------------------------
(***************************************************************************)
(* The VM manager's registry (internal/vm/vm.go): accepting a start,       *)
(* publishing the machine, stopping it, watching it exit, and shutting     *)
(* everything down.  The manager is a set of maps guarded by one mutex     *)
(* m.mu; every action below is one critical section of m.mu, or one call   *)
(* the code makes with m.mu released (booting, adding shares, opening the  *)
(* VNC listener, closing an instance), so the interleavings are exactly    *)
(* those the mutex allows.                                                 *)
(*                                                                         *)
(* A generation is one accepted start: the *managerStart, the goroutine    *)
(* that runs it, and, once it is published, the *Machine, its watch        *)
(* goroutine and its stop operations.  Requests that are refused before    *)
(* they touch a map (validation, closing, already running, over capacity)  *)
(* change nothing and are the negation of StartInstanceStream's guard.     *)
(***************************************************************************)
EXTENDS Integers, FiniteSets, Functions

CONSTANTS
    Ids,            \* instance ids a client may name
    Gens,           \* generations: accepted starts over the manager's life
    Calls,          \* calls of ShutdownAll
    None,           \* the nil pointer / the missing map entry
    Demands,        \* requests: [memoryMB: Nat, cpus: Nat]
    MaxVMs,         \* host capability MaxVMs, 0 = unlimited
    MaxMemoryMB,    \* m.maxMemoryMB, 0 = unlimited
    MaxCPUs,        \* m.maxCPUs, 0 = unlimited
    LastHost,       \* last assignable host byte of 10.42.0.0/24 (254)
    MaxExitTombstones

ASSUME ConstantsAssumption ==
    /\ None \notin Gens \cup Ids \cup Demands \cup Nat
    /\ IsFiniteSet(Ids)
    /\ Demands \subseteq [memoryMB : Nat, cpus : Nat]
    /\ MaxVMs \in Nat /\ MaxMemoryMB \in Nat /\ MaxCPUs \in Nat
    /\ LastHost \in Nat /\ LastHost >= 2
    /\ MaxExitTombstones \in Nat \ {0}

VARIABLES
    \* The manager's maps, all guarded by m.mu.
    running,        \* [Ids -> Gens or None]: the published machine
    starting,       \* [Ids -> Gens or None]: the start in flight
    reservations,   \* [Ids -> Demands or None]
    networkLeases,  \* [Ids -> host byte or None]
    exited,         \* [Ids -> exit tombstone or None]
    closing,        \* set for good by ShutdownAll
    \* One generation.
    phase,          \* where the start goroutine is
    id,             \* the id it was started under
    demand,         \* its memory and CPUs
    cancelled,      \* the generations whose startCtx ShutdownAll has cancelled
    cleanupErr,     \* the generations whose start.cleanupErr is not nil
    inst,           \* the backend instance behind it
    watch,          \* the watch goroutine
    stop,           \* the machine's current stop operation
    \* One call of ShutdownAll.
    call,           \* idle, waiting, or what it returned
    stops, starts,  \* what it still waits for
    sawErr,         \* the calls with an error in errs
    \* Observation only: nothing the code reads.
    clock,          \* wall clock, in the seconds that tombstones record
    leased,         \* the generations that were given a lease
    exits,          \* how often recordExitLocked ran for the generation
    duty            \* generations registered when the call began

registry == <<running, starting, reservations, networkLeases>>
shutdown == <<call, stops, starts, sawErr, duty>>
start == <<phase, id, demand, cancelled, cleanupErr, leased>>
vars == <<registry, exited, closing, start, inst, watch, stop, shutdown, clock, exits>>

Phases == {"unused", "booting", "sharing", "shareFailed", "display", "displayFailed",
           "publishing", "lateClose", "aborted", "displayAborted", "registered"}

\* close(start.done) has happened.
Done(g) == phase[g] \in {"aborted", "displayAborted", "registered"}

\* machine.stopping: set when a stop begins, cleared only when it fails.
Stopping(g) == stop[g] \in {"pending", "closed", "closeFailed", "stopped"}

Running == {i \in Ids : running[i] # None}
Starting == {i \in Ids : starting[i] # None}

Init ==
    /\ running = [i \in Ids |-> None] /\ starting = [i \in Ids |-> None]
    /\ reservations = [i \in Ids |-> None] /\ networkLeases = [i \in Ids |-> None]
    /\ exited = [i \in Ids |-> None]
    /\ closing = FALSE
    /\ phase = [g \in Gens |-> "unused"]
    /\ id = [g \in Gens |-> None] /\ demand = [g \in Gens |-> None]
    /\ cancelled = {} /\ cleanupErr = {}
    /\ inst = [g \in Gens |-> "none"]
    /\ watch = [g \in Gens |-> "none"] /\ stop = [g \in Gens |-> "none"]
    /\ call = [c \in Calls |-> "idle"]
    /\ stops = [c \in Calls |-> {}] /\ starts = [c \in Calls |-> {}]
    /\ sawErr = {}
    /\ clock = 0
    /\ leased = {} /\ exits = [g \in Gens |-> 0]
    /\ duty = [c \in Calls |-> {}]

-----------------------------------------------------------------------------
(* Starting a machine.                                                     *)

\* What an id adds to the sums of resourceUsageLocked: by its machine, and by
\* its reservation.
Nothing == [memoryMB |-> 0, cpus |-> 0]
MachineUse(i) == IF running[i] = None THEN Nothing ELSE demand[running[i]]
ReservedUse(i) == IF reservations[i] = None THEN Nothing ELSE reservations[i]

UsedMemory ==
    SumFunction([i \in Ids |-> MachineUse(i).memoryMB]) + SumFunction([i \in Ids |-> ReservedUse(i).memoryMB])

UsedCPUs ==
    SumFunction([i \in Ids |-> MachineUse(i).cpus]) + SumFunction([i \in Ids |-> ReservedUse(i).cpus])

\* Mutant: starts in flight do not count.
checkCapacityRunningOnly(d) ==
    MaxMemoryMB > 0 => SumFunction([i \in Ids |-> MachineUse(i).memoryMB]) + d.memoryMB <= MaxMemoryMB

checkCapacityLocked(d) ==
    /\ MaxVMs > 0 => Cardinality(Running) + Cardinality(Starting) < MaxVMs
    /\ MaxMemoryMB > 0 => d.memoryMB <= MaxMemoryMB /\ UsedMemory <= MaxMemoryMB - d.memoryMB
    /\ MaxCPUs > 0 => d.cpus <= MaxCPUs /\ UsedCPUs <= MaxCPUs - d.cpus

\* The first free host byte from 2 on; the byte after the last one when every
\* byte is taken (the loop runs off its end).
FreeHosts == {h \in 2..LastHost : \A i \in Ids : networkLeases[i] # h}

NextHost == IF FreeHosts = {} THEN LastHost + 1 ELSE CHOOSE h \in FreeHosts : \A k \in FreeHosts : h <= k

\* ensureNetworkLeaseLocked: an id keeps the lease it has.
ensureNetworkLeaseLocked(i) ==
    networkLeases' = [networkLeases EXCEPT ![i] = IF @ = None THEN NextHost ELSE @]

StartInstanceStream(g, i, d) ==
    /\ phase[g] = "unused"
    /\ ~closing
    /\ running[i] = None /\ starting[i] = None
    /\ checkCapacityLocked(d)
    /\ exited' = [exited EXCEPT ![i] = None]
    /\ reservations' = [reservations EXCEPT ![i] = d]
    /\ starting' = [starting EXCEPT ![i] = g]
    /\ \/ ensureNetworkLeaseLocked(i) /\ leased' = leased \cup {g}
       \/ UNCHANGED <<networkLeases, leased>>  \* no network, or an address of the client's own
    /\ phase' = [phase EXCEPT ![g] = "booting"]
    /\ id' = [id EXCEPT ![g] = i]
    /\ demand' = [demand EXCEPT ![g] = d]
    /\ UNCHANGED <<running, closing, cancelled, cleanupErr, inst, watch, stop, shutdown, clock, exits>>

\* The map updates finishStart and the refused publication share; the deletes
\* of the reservation and the lease are unconditional.
ForgetStart(g) ==
    /\ starting' = [starting EXCEPT ![id[g]] = IF @ = g THEN None ELSE @]
    /\ reservations' = [reservations EXCEPT ![id[g]] = None]
    /\ networkLeases' = [networkLeases EXCEPT ![id[g]] = None]
    /\ UNCHANGED running

finishStart(g, end) ==
    /\ ForgetStart(g)
    /\ phase' = [phase EXCEPT ![g] = end]
    /\ UNCHANGED <<exited, closing, id, demand, cancelled, leased, watch, stop, shutdown, clock, exits>>

\* The start goroutine moves on without holding m.mu.
Step(g, from, to) ==
    /\ phase[g] = from
    /\ phase' = [phase EXCEPT ![g] = to]
    /\ UNCHANGED <<registry, exited, closing, id, demand, cancelled, cleanupErr, leased,
                   watch, stop, shutdown, clock, exits>>

\* host.StartStream / host.StartBlankStream return an instance.  Only a blank
\* start goes on to add the shares itself.
HostStarted(g) ==
    /\ Step(g, "booting", "display") \/ Step(g, "booting", "sharing")
    /\ inst' = [inst EXCEPT ![g] = "up"]

HostFailed(g) ==
    /\ phase[g] = "booting"
    /\ finishStart(g, "aborted")
    /\ UNCHANGED <<inst, cleanupErr>>

\* addInstanceShares.
addInstanceShares(g) ==
    /\ Step(g, "sharing", "display") \/ Step(g, "sharing", "shareFailed")
    /\ UNCHANGED inst

\* startVNCServer.
startVNCServer(g) ==
    /\ Step(g, "display", "publishing") \/ Step(g, "display", "displayFailed")
    /\ UNCHANGED inst

\* inst.Close() of a start that failed, then finishStart.  Only the path of the
\* shares keeps the error of Close in start.cleanupErr.
CloseFailedStart(g) ==
    \E closed \in BOOLEAN :
        /\ inst' = [inst EXCEPT ![g] = IF closed THEN "closed" ELSE @]
        /\ \/ /\ phase[g] = "shareFailed"
              /\ cleanupErr' = IF closed THEN cleanupErr ELSE cleanupErr \cup {g}
              /\ finishStart(g, "aborted")
           \/ /\ phase[g] = "displayFailed"
              /\ UNCHANGED cleanupErr
              /\ finishStart(g, "displayAborted")

\* The second critical section of a start: the machine is published, or the
\* manager has begun to close and the start is abandoned.
Abandon(g) ==
    /\ ForgetStart(g)
    /\ phase' = [phase EXCEPT ![g] = "lateClose"]
    /\ UNCHANGED watch

Register(g) ==
    /\ starting' = [starting EXCEPT ![id[g]] = None]
    /\ reservations' = [reservations EXCEPT ![id[g]] = None]
    /\ running' = [running EXCEPT ![id[g]] = g]
    /\ phase' = [phase EXCEPT ![g] = "registered"]
    /\ watch' = [watch EXCEPT ![g] = "waiting"]
    /\ UNCHANGED networkLeases

PublishUnless(g, refused) ==
    /\ phase[g] = "publishing"
    /\ (refused /\ Abandon(g)) \/ (~refused /\ Register(g))
    /\ UNCHANGED <<exited, closing, id, demand, cancelled, cleanupErr, leased, inst, stop,
                   shutdown, clock, exits>>

Publish(g) == PublishUnless(g, closing \/ starting[id[g]] # g)

\* inst.Close() of an abandoned start, outside m.mu; then close(start.done).
CloseLate(g, remember) ==
    \E closed \in BOOLEAN :
        /\ phase[g] = "lateClose"
        /\ phase' = [phase EXCEPT ![g] = "aborted"]
        /\ inst' = [inst EXCEPT ![g] = IF closed THEN "closed" ELSE @]
        /\ cleanupErr' = IF remember /\ ~closed THEN cleanupErr \cup {g} ELSE cleanupErr
        /\ UNCHANGED <<registry, exited, closing, id, demand, cancelled, leased, watch, stop,
                       shutdown, clock, exits>>

\* Mutant: the error of Close goes to the caller of Start only.
CloseLateUnreported(g) == CloseLate(g, FALSE)

CloseLateStart(g) == CloseLate(g, TRUE)

-----------------------------------------------------------------------------
(* Exit, stop, and shutdown.                                               *)

\* The tombstones recordExitLocked may evict: it compares times it has written
\* with a resolution of one second, and ties fall to map order.
Oldest(ex) == {i \in Ids : ex[i] # None /\ \A j \in Ids : ex[j] # None => ex[i].at <= ex[j].at}

recordExitLocked(g, status) ==
    /\ clock' \in {clock, clock + 1}
    /\ LET recorded == [exited EXCEPT ![id[g]] = [gen |-> g, status |-> status, at |-> clock']]
       IN  IF Cardinality({i \in Ids : recorded[i] # None}) > MaxExitTombstones
           THEN \E i \in Oldest(recorded) : exited' = [recorded EXCEPT ![i] = None]
           ELSE exited' = recorded
    /\ exits' = [exits EXCEPT ![g] = @ + 1]

\* Mutant: the lease stays behind.
UnregisterKeepingLease(g) ==
    /\ running' = [running EXCEPT ![id[g]] = IF @ = g THEN None ELSE @]
    /\ UNCHANGED <<starting, reservations, networkLeases>>

\* The machine leaves the maps: only if it is still the one published, while
\* its id's lease goes unconditionally.
Unregister(g) ==
    /\ running' = [running EXCEPT ![id[g]] = IF @ = g THEN None ELSE @]
    /\ networkLeases' = [networkLeases EXCEPT ![id[g]] = None]
    /\ UNCHANGED <<starting, reservations>>

\* The guest goes down by itself (external: the backend).
GuestExit(g) ==
    /\ inst[g] = "up"
    /\ inst' = [inst EXCEPT ![g] = "down"]
    /\ UNCHANGED <<registry, exited, closing, start, watch, stop, shutdown, clock, exits>>

\* instance.Wait() has returned; watch takes m.mu, and publishes the exit unless
\* an explicit stop owns it.
WatchRecords(g) ==
    /\ Unregister(g)
    /\ \E status \in {"stopped", "crashed"} : recordExitLocked(g, status)

WatchUnless(g, stopOwnsExit) ==
    /\ watch[g] = "waiting" /\ inst[g] \in {"down", "closed"}
    /\ watch' = [watch EXCEPT ![g] = "over"]
    /\ \/ stopOwnsExit /\ UNCHANGED <<registry, exited, clock, exits>>
       \/ ~stopOwnsExit /\ WatchRecords(g)
    /\ UNCHANGED <<closing, start, inst, stop, shutdown>>

\* Mutant: a stop in flight does not own the exit.
WatchRacingStop(g) == WatchUnless(g, stop[g] = "failed")

Watch(g) == WatchUnless(g, Stopping(g) \/ stop[g] = "failed")

\* The machines among ms whose stop beginMachineStopLocked really begins; the
\* others join the stop in flight.
beginMachineStopLocked(ms) ==
    stop' = [g \in Gens |-> IF g \in ms /\ stop[g] \in {"none", "failed"} THEN "pending" ELSE stop[g]]

\* ShutdownInstance: stop the machine, or forget the tombstone of one that is
\* already down.  Waiting for the result changes nothing.
ShutdownInstance(i) ==
    /\ \/ /\ running[i] # None
          /\ stop[running[i]] \in {"none", "failed"}
          /\ beginMachineStopLocked({running[i]})
          /\ UNCHANGED exited
       \/ /\ running[i] = None /\ exited[i] # None
          /\ exited' = [exited EXCEPT ![i] = None]
          /\ UNCHANGED stop
    /\ UNCHANGED <<registry, closing, start, inst, watch, shutdown, clock, exits>>

\* runMachineStop up to its second lock: the VNC server and the instance are
\* closed; an error of either fails the stop.
StopClose(g) ==
    /\ stop[g] = "pending"
    /\ \E closed, vncClosed \in BOOLEAN :
        /\ inst' = [inst EXCEPT ![g] = IF closed THEN "closed" ELSE @]
        /\ stop' = [stop EXCEPT ![g] = IF closed /\ vncClosed THEN "closed" ELSE "closeFailed"]
    /\ UNCHANGED <<registry, exited, closing, start, watch, shutdown, clock, exits>>

\* runMachineStop from its second lock on.  close(stop.done) hands the result
\* to every ShutdownAll that waits for this operation.
StopSucceeds(g) ==
    /\ stop[g] = "closed"
    /\ stop' = [stop EXCEPT ![g] = "stopped"]
    /\ Unregister(g)
    /\ recordExitLocked(g, "stopped")
    /\ stops' = [c \in Calls |-> stops[c] \ {g}]
    /\ UNCHANGED sawErr

\* Mutants: a failed stop forgets the machine; a failed stop never closes done.
StopFailsForgetting(g) ==
    /\ stop[g] = "closeFailed"
    /\ stop' = [stop EXCEPT ![g] = "failed"]
    /\ sawErr' = sawErr \cup {c \in Calls : g \in stops[c]}
    /\ stops' = [c \in Calls |-> stops[c] \ {g}]
    /\ Unregister(g)
    /\ UNCHANGED <<exited, clock, exits>>

StopFailsSilently(g) ==
    /\ stop[g] = "closeFailed"
    /\ stop' = [stop EXCEPT ![g] = "failed"]
    /\ UNCHANGED <<registry, exited, clock, exits, stops, sawErr>>

StopFails(g) ==
    /\ stop[g] = "closeFailed"
    /\ stop' = [stop EXCEPT ![g] = "failed"]
    /\ sawErr' = sawErr \cup {c \in Calls : g \in stops[c]}
    /\ stops' = [c \in Calls |-> stops[c] \ {g}]
    /\ UNCHANGED <<registry, exited, clock, exits>>

StopFinish(g) ==
    /\ StopSucceeds(g) \/ StopFails(g)
    /\ UNCHANGED <<closing, start, inst, watch, call, starts, duty>>

\* ShutdownAll up to the point where it waits.
ShutdownAll(c) ==
    LET machines == {running[i] : i \in Running}
        begun == {starting[i] : i \in Starting}
    IN  /\ call[c] = "idle"
        /\ call' = [call EXCEPT ![c] = "waiting"]
        /\ closing' = TRUE
        /\ beginMachineStopLocked(machines)
        /\ stops' = [stops EXCEPT ![c] = machines]
        /\ starts' = [starts EXCEPT ![c] = begun]
        /\ cancelled' = cancelled \cup begun
        /\ duty' = [duty EXCEPT ![c] = machines \cup begun]
        /\ UNCHANGED <<registry, exited, phase, id, demand, cleanupErr, leased, inst, watch,
                       sawErr, clock, exits>>

Return(c, result) ==
    /\ call[c] = "waiting"
    /\ call' = [call EXCEPT ![c] = result]
    /\ UNCHANGED <<registry, exited, closing, start, inst, watch, stop, stops, starts, sawErr,
                   duty, clock, exits>>

ShutdownAllReturn(c) ==
    /\ stops[c] = {}
    /\ \A g \in starts[c] : Done(g)
    /\ Return(c, IF c \in sawErr \/ starts[c] \cap cleanupErr # {} THEN "error" ELSE "nil")

\* ctx.Done() while something is still outstanding.
ShutdownAllExpire(c) ==
    /\ stops[c] # {} \/ \E g \in starts[c] : ~Done(g)
    /\ Return(c, "error")

-----------------------------------------------------------------------------
Start(g) ==
    \/ \E i \in Ids, d \in Demands : StartInstanceStream(g, i, d)
    \/ HostStarted(g)
    \/ HostFailed(g)
    \/ addInstanceShares(g)
    \/ startVNCServer(g)
    \/ CloseFailedStart(g)
    \/ Publish(g)
    \/ CloseLateStart(g)

Next ==
    \/ \E g \in Gens : \/ Start(g)
                       \/ GuestExit(g)
                       \/ Watch(g)
                       \/ StopClose(g)
                       \/ StopFinish(g)
    \/ \E i \in Ids : ShutdownInstance(i)
    \/ \E c \in Calls : \/ ShutdownAll(c)
                        \/ ShutdownAllReturn(c)
                        \/ ShutdownAllExpire(c)

Spec == Init /\ [][Next]_vars

\* The Go scheduler runs every goroutine that is not blocked.  An instance's
\* Close and the VNC listener return; a boot and the adding of shares are only
\* known to return once their context is cancelled.
Fairness ==
    /\ \A g \in Gens :
        /\ WF_vars(StopClose(g)) /\ WF_vars(StopFinish(g))
        /\ WF_vars(g \in cancelled /\ (HostStarted(g) \/ HostFailed(g)))
        /\ WF_vars(g \in cancelled /\ addInstanceShares(g))
        /\ WF_vars(startVNCServer(g)) /\ WF_vars(CloseFailedStart(g))
        /\ WF_vars(Publish(g)) /\ WF_vars(CloseLateStart(g))
    /\ \A c \in Calls : WF_vars(ShutdownAllReturn(c))

FairSpec == Spec /\ Fairness

-----------------------------------------------------------------------------
(* Properties.                                                             *)

Tombstones == [gen : Gens, status : {"stopped", "crashed"}, at : Nat]

\* Every map and every goroutine's state has the type the code declares.
TypeOK ==
    /\ running \in [Ids -> Gens \cup {None}] /\ starting \in [Ids -> Gens \cup {None}]
    /\ reservations \in [Ids -> Demands \cup {None}]
    /\ networkLeases \in [Ids -> (2..LastHost + 1) \cup {None}]
    /\ exited \in [Ids -> Tombstones \cup {None}]
    /\ closing \in BOOLEAN
    /\ phase \in [Gens -> Phases]
    /\ id \in [Gens -> Ids \cup {None}] /\ demand \in [Gens -> Demands \cup {None}]
    /\ cancelled \subseteq Gens /\ cleanupErr \subseteq Gens
    /\ inst \in [Gens -> {"none", "up", "down", "closed"}]
    /\ watch \in [Gens -> {"none", "waiting", "over"}]
    /\ stop \in [Gens -> {"none", "pending", "closed", "closeFailed", "stopped", "failed"}]
    /\ call \in [Calls -> {"idle", "waiting", "nil", "error"}]
    /\ stops \in [Calls -> SUBSET Gens] /\ starts \in [Calls -> SUBSET Gens]
    /\ sawErr \subseteq Calls
    /\ clock \in Nat
    /\ leased \subseteq Gens /\ exits \in [Gens -> Nat]
    /\ duty \in [Calls -> SUBSET Gens]

\* A machine that was published is registered under its id until its exit is
\* recorded, and its exit is recorded exactly once: watch and runMachineStop
\* race for it, and exactly one of them wins.
ExitPublishedOnce ==
    \A g \in Gens : exits[g] = IF phase[g] = "registered" /\ running[id[g]] # g THEN 1 ELSE 0

\* watch's comment: "A failed Close keeps the machine registered so cleanup can
\* be retried", even when the guest goes down after the failure.
FailedCloseStaysRegistered ==
    \A g \in Gens : stop[g] = "failed" => running[id[g]] = g

\* The deletes of networkLeases in finishStart, watch and runMachineStop name
\* only the id: they never take the lease of a later machine of that id, and
\* none is left behind.
LeasesFollowRegistration ==
    \A i \in Ids :
        networkLeases[i] # None <=> \E g \in leased : g \in {running[i], starting[i]}

\* Two ids never hold the same address, until the host bytes run out.
LeasesDistinct ==
    \A i, j \in Ids :
        i # j /\ networkLeases[i] # None /\ networkLeases[i] = networkLeases[j]
            => networkLeases[i] = LastHost + 1

\* The number of machines, the memory and the CPUs admitted stay within the
\* host's and the manager's limits: a reservation covers a start until the
\* machine itself counts.
AdmissionRespected ==
    /\ \A i \in Ids : reservations[i] = IF starting[i] = None THEN None ELSE demand[starting[i]]
    /\ MaxVMs > 0 => Cardinality(Running) + Cardinality(Starting) <= MaxVMs
    /\ MaxMemoryMB > 0 => UsedMemory <= MaxMemoryMB
    /\ MaxCPUs > 0 => UsedCPUs <= MaxCPUs

\* An instance that is up is reachable by a later shutdown, or is still owned by
\* its start, or its Close failed while its start was failing.
NoForgottenInstance ==
    \A g \in Gens :
        inst[g] = "up" /\ Done(g) => \/ phase[g] = "registered" /\ running[id[g]] = g
                                     \/ phase[g] = "aborted" /\ g \in cleanupErr
                                     \/ phase[g] = "displayAborted"

\* A ShutdownAll that returned nil has closed, or seen go down, every instance
\* of the machines and starts it found, but for a start whose display failed.
ShutdownNilClosesInstances ==
    \A c \in Calls : call[c] = "nil" =>
        \A g \in duty[c] : phase[g] # "displayAborted" => Done(g) /\ inst[g] # "up"

\* Once ShutdownAll has begun, closing stays set and no start or machine enters
\* the maps: what the call captured is all there will be.
ClosingIsFinal ==
    [][closing => /\ closing'
                  /\ \A i \in Ids : running'[i] \in {running[i], None}
                                    /\ starting'[i] \in {starting[i], None}]_vars

\* Every ShutdownAll returns, without the help of its deadline: each stop it
\* began or joined finishes, each cancelled start closes its done channel.
ShutdownAllReturns == \A c \in Calls : call[c] = "waiting" ~> call[c] \in {"nil", "error"}

-----------------------------------------------------------------------------
(* The inductive invariant behind the safety properties.                   *)

\* The start goroutine is before the end of its second critical section.
InFlight(g) ==
    phase[g] \in {"booting", "sharing", "shareFailed", "display", "displayFailed", "publishing"}

\* An id is held by the start in flight, or by the machine, never by both; a
\* start holds its id from one critical section to the other.
StartInv ==
    /\ \A g \in Gens : phase[g] # "unused" => id[g] \in Ids
    /\ \A g \in Gens : InFlight(g) => starting[id[g]] = g
    /\ \A i \in Ids : starting[i] # None => InFlight(starting[i]) /\ id[starting[i]] = i
    /\ \A i \in Ids : running[i] = None \/ starting[i] = None

\* A published machine is registered until its watch (with no stop about) or
\* its stop has recorded the exit; a watch that gave way leaves a stop behind.
MachineInv ==
    /\ \A i \in Ids : running[i] # None => phase[running[i]] = "registered" /\ id[running[i]] = i
    /\ \A g \in Gens :
        IF phase[g] # "registered"
        THEN watch[g] = "none" /\ stop[g] = "none" /\ exits[g] = 0
        ELSE IF running[id[g]] = g
             THEN /\ exits[g] = 0 /\ stop[g] # "stopped"
                  /\ watch[g] = "waiting" \/ (watch[g] = "over" /\ stop[g] # "none")
             ELSE /\ exits[g] = 1
                  /\ stop[g] = "stopped" \/ (watch[g] = "over" /\ stop[g] = "none")

\* What the goroutines know of the instance.
InstInv ==
    \A g \in Gens :
        /\ phase[g] \in {"unused", "booting"} => inst[g] = "none"
        /\ stop[g] \in {"closed", "stopped"} => inst[g] = "closed"
        /\ watch[g] = "over" => inst[g] \in {"down", "closed"}
        /\ phase[g] = "aborted" /\ g \notin cleanupErr => inst[g] # "up"

LeaseInv == LeasesFollowRegistration /\ \A g \in Gens : phase[g] = "unused" => g \notin leased

\* What a call of ShutdownAll found is still waited for, was stopped, or has
\* left its error behind.
ShutdownInv ==
    \A c \in Calls :
        /\ call[c] = "idle" => duty[c] = {} /\ stops[c] = {} /\ starts[c] = {}
        /\ call[c] # "idle" => closing
        /\ \A g \in stops[c] : stop[g] \in {"pending", "closed", "closeFailed"}
        /\ \A g \in starts[c] : phase[g] \notin {"unused", "registered"}
        /\ \A g \in duty[c] : g \in starts[c] \cup stops[c] \/ stop[g] = "stopped" \/ c \in sawErr

\* What a machine or a start counts for is known from its first critical section.
DemandInv == \A g \in Gens : phase[g] # "unused" => demand[g] \in Demands

IndInv == TypeOK /\ StartInv /\ MachineInv /\ InstInv /\ LeaseInv /\ ShutdownInv
            /\ ShutdownNilClosesInstances
=============================================================================
