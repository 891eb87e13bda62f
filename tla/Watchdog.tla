------------------------------- MODULE Watchdog -------------------------------
(***************************************************************************)
(* The daemon's watchdog (internal/ccvmd/ccvmd.go: watchdogController): a  *)
(* main deadline and any number of leases share one timer; when all of     *)
(* them have passed, the daemon shuts itself down.                         *)
(*                                                                         *)
(* Every method is one critical section of w.mu.  A deadline is kept as    *)
(* the time left until it, so that time needs no bound: Tick takes one     *)
(* unit from all of them.  A timer that fires starts a goroutine that      *)
(* waits for w.mu; Stop and Reset do not recall it, so any method may run  *)
(* between the firing and expire.                                          *)
(***************************************************************************)
EXTENDS Naturals, FiniteSets, FiniteSetsExt

CONSTANTS
    Leases,         \* lease ids (random, hence unique)
    Timeouts,       \* the timeouts clients ask for, in units of time
    None,
    MaxRequests,    \* bound: requests of the clients, after which they are silent
    MaxCallbacks    \* bound: expire goroutines waiting for w.mu

ASSUME ConstantsAssumption ==
    /\ Timeouts \subseteq Nat \ {0} /\ None \notin Nat \cup [timeout : Nat, left : Nat]
    /\ MaxRequests \in Nat /\ MaxCallbacks \in Nat \ {0}

VARIABLES
    persistent,     \* w.persistent
    active,         \* w.active
    timeout,        \* w.timeout
    deadline,       \* time left until w.deadline
    leases,         \* w.leases: [Leases -> None or [timeout, left]]
    madeLeases,     \* w.leases # nil
    timer,          \* time left until the timer fires, None when it is not armed
    callbacks,      \* expire goroutines waiting for w.mu
    stopped,        \* Stop was called: the daemon is being shut down by a client
    \* Observation only.
    requests,       \* requests made so far
    owed,           \* time each lease's holder may still count on
    expired,        \* onExpired has been called
    wrongful        \* ... while a lease or the main deadline was still running

vars == <<persistent, active, timeout, deadline, leases, madeLeases, timer, callbacks, stopped,
          requests, owed, expired, wrongful>>

Held == {l \in Leases : leases[l] # None}

Init ==
    /\ persistent \in BOOLEAN
    /\ active = FALSE /\ timeout = None /\ deadline = 0
    /\ leases = [l \in Leases |-> None] /\ madeLeases = FALSE
    /\ timer = None /\ callbacks = 0
    /\ stopped = FALSE /\ requests = 0
    /\ owed = [l \in Leases |-> 0]
    /\ expired = FALSE /\ wrongful = FALSE

-----------------------------------------------------------------------------
(* resetTimerLocked and the requests.                                      *)

Deadlines(act, dl, ls) ==
    (IF act THEN {dl} ELSE {}) \cup {ls[l].left : l \in {k \in Leases : ls[k] # None}}

\* The timer is armed for the earliest deadline, or at once (one unit) when it
\* has passed; with no deadline it is stopped.
resetTimerLocked(act, dl, ls) ==
    timer' = IF Deadlines(act, dl, ls) = {} THEN None
             ELSE Max({Min(Deadlines(act, dl, ls)), 1})

Request == requests < MaxRequests /\ requests' = requests + 1

Create(t) ==
    /\ Request
    /\ timeout' = t /\ deadline' = t /\ active' = TRUE
    /\ resetTimerLocked(TRUE, t, leases)
    /\ UNCHANGED <<persistent, leases, madeLeases, callbacks, stopped, owed, expired, wrongful>>

\* An active watchdog has a timer, so feedLocked's second test adds nothing.
Feed ==
    /\ Request
    /\ active
    /\ deadline' = timeout
    /\ resetTimerLocked(TRUE, timeout, leases)
    /\ UNCHANGED <<persistent, active, timeout, leases, madeLeases, callbacks, stopped, owed, expired,
                   wrongful>>

CreateLease(l, t) ==
    /\ Request
    /\ leases[l] = None
    /\ leases' = [leases EXCEPT ![l] = [timeout |-> t, left |-> t]]
    /\ madeLeases' = TRUE
    /\ owed' = [owed EXCEPT ![l] = t]
    /\ resetTimerLocked(active, deadline, leases')
    /\ UNCHANGED <<persistent, active, timeout, deadline, callbacks, stopped, expired, wrongful>>

\* Mutant: a lease that was fed gets one unit, not its own timeout.
FeedLeaseBriefly(l) ==
    /\ Request
    /\ leases[l] # None
    /\ leases' = [leases EXCEPT ![l].left = 1]
    /\ owed' = [owed EXCEPT ![l] = leases[l].timeout]
    /\ resetTimerLocked(active, deadline, leases')
    /\ UNCHANGED <<persistent, active, timeout, deadline, madeLeases, callbacks, stopped, expired,
                   wrongful>>

FeedLease(l) ==
    /\ Request
    /\ leases[l] # None
    /\ leases' = [leases EXCEPT ![l].left = leases[l].timeout]
    /\ owed' = [owed EXCEPT ![l] = leases[l].timeout]
    /\ resetTimerLocked(active, deadline, leases')
    /\ UNCHANGED <<persistent, active, timeout, deadline, madeLeases, callbacks, stopped, expired,
                   wrongful>>

\* Somebody still counts on the daemon.
InUse(act, dl, ow) == (act /\ dl > 0) \/ \E l \in Leases : ow[l] > 0

\* The last lease takes the daemon with it, unless the main deadline is active.
ReleaseLease(l) ==
    /\ Request
    /\ leases[l] # None
    /\ leases' = [leases EXCEPT ![l] = None]
    /\ owed' = [owed EXCEPT ![l] = 0]
    /\ IF Held = {l} /\ ~active
       THEN /\ timer' = None
            /\ expired' = (expired \/ ~persistent)
            /\ wrongful' = (wrongful \/ (~persistent /\ InUse(active, deadline, owed')))
       ELSE /\ resetTimerLocked(active, deadline, leases')
            /\ UNCHANGED <<expired, wrongful>>
    /\ UNCHANGED <<persistent, active, timeout, deadline, madeLeases, callbacks, stopped>>

\* The shutdown request of a client, and the daemon's exit.
Stop ==
    /\ Request
    /\ stopped' = TRUE
    /\ active' = FALSE
    /\ timer' = None
    /\ UNCHANGED <<persistent, timeout, deadline, leases, madeLeases, callbacks, owed, expired, wrongful>>

-----------------------------------------------------------------------------
(* Time, the timer, and expire.                                            *)

Less(n) == IF n > 0 THEN n - 1 ELSE 0

\* A unit of time passes (external: the clock).
Tick ==
    /\ deadline' = Less(deadline)
    /\ leases' = [l \in Leases |-> IF leases[l] = None THEN None
                                   ELSE [leases[l] EXCEPT !.left = Less(leases[l].left)]]
    /\ owed' = [l \in Leases |-> Less(owed[l])]
    /\ timer' = IF timer = None THEN None ELSE Less(timer)
    /\ UNCHANGED <<persistent, active, timeout, madeLeases, callbacks, stopped, requests, expired, wrongful>>

\* The timer fires and its goroutine starts (external: time.AfterFunc).
Fire ==
    /\ timer = 0 /\ callbacks < MaxCallbacks
    /\ timer' = None
    /\ callbacks' = callbacks + 1
    /\ UNCHANGED <<persistent, active, timeout, deadline, leases, madeLeases, stopped, requests, owed,
                   expired, wrongful>>

\* Mutant: expire trusts the timer and does not look at the deadlines again.
expireBlindly ==
    /\ callbacks > 0
    /\ callbacks' = callbacks - 1
    /\ leases' = [l \in Leases |-> None]
    /\ active' = FALSE
    /\ expired' = (expired \/ ~persistent)
    /\ wrongful' = (wrongful \/ (~persistent /\ InUse(active, deadline, owed)))
    /\ UNCHANGED <<persistent, timeout, deadline, madeLeases, timer, stopped, requests, owed>>

\* Mutant: after an early callback the timer is not armed again.
expireWithoutReset ==
    LET alive == {l \in Held : leases[l].left > 0}
    IN  /\ callbacks > 0
        /\ callbacks' = callbacks - 1
        /\ leases' = [l \in Leases |-> IF l \in alive THEN leases[l] ELSE None]
        /\ IF alive # {} \/ (active /\ deadline > 0)
           THEN UNCHANGED <<active, timer, expired, wrongful>>
           ELSE /\ active' = FALSE
                /\ expired' = (expired \/ ~persistent)
                /\ UNCHANGED <<timer, wrongful>>
        /\ UNCHANGED <<persistent, timeout, deadline, madeLeases, stopped, requests, owed>>

expire ==
    LET alive == {l \in Held : leases[l].left > 0}
    IN  /\ callbacks > 0
        /\ callbacks' = callbacks - 1
        /\ leases' = [l \in Leases |-> IF l \in alive THEN leases[l] ELSE None]
        /\ IF alive # {} \/ (active /\ deadline > 0)
           THEN /\ resetTimerLocked(active, deadline, leases')
                /\ UNCHANGED <<active, expired, wrongful>>
           ELSE LET fires == (active \/ madeLeases) /\ ~persistent
                IN  /\ active' = FALSE
                    /\ expired' = (expired \/ fires)
                    /\ wrongful' = (wrongful \/ (fires /\ InUse(active, deadline, owed)))
                    /\ UNCHANGED timer
        /\ UNCHANGED <<persistent, timeout, deadline, madeLeases, stopped, requests, owed>>

Next ==
    \/ \E t \in Timeouts : Create(t)
    \/ Feed
    \/ \E l \in Leases : \/ \E t \in Timeouts : CreateLease(l, t)
                         \/ FeedLease(l)
                         \/ ReleaseLease(l)
    \/ Stop
    \/ Tick
    \/ Fire
    \/ expire

Spec == Init /\ [][Next]_vars

\* Time passes, timers fire, and goroutines get the mutex.
Fairness == WF_vars(Tick) /\ WF_vars(Fire) /\ WF_vars(expire)

FairSpec == Spec /\ Fairness

-----------------------------------------------------------------------------
(* Properties.                                                             *)

\* The daemon is never taken down while a lease, or the main deadline, that was
\* fed in time is running: a callback that a feed overtook looks again.
NoWrongfulExpiry == ~wrongful

\* A lease lasts at least as long as its holder was told when it was created or
\* last fed (TestWatchdogLeaseFeedsPreserveCreatedTimeout).
LeaseLastsAsPromised ==
    \A l \in Leases : owed[l] > 0 => leases[l] # None /\ leases[l].left >= owed[l]

\* When the clients fall silent the watchdog lets go of every deadline, and a
\* daemon that is not persistent is shut down.
SilenceExpires ==
    active \/ Held # {} ~> stopped \/ (~active /\ Held = {} /\ (persistent \/ expired))

-----------------------------------------------------------------------------
(* The inductive invariant behind the safety properties.                   *)

\* Deadlines and promises are amounts of time, and the main deadline is active
\* only once Create has given it a timeout.
TypeOK ==
    /\ persistent \in BOOLEAN /\ active \in BOOLEAN /\ madeLeases \in BOOLEAN
    /\ timeout \in Nat \cup {None} /\ (active => timeout # None)
    /\ deadline \in Nat
    /\ leases \in [Leases -> [timeout : Nat, left : Nat] \cup {None}]
    /\ owed \in [Leases -> Nat]

IndInv == TypeOK /\ LeaseLastsAsPromised /\ NoWrongfulExpiry
===============================================================================
