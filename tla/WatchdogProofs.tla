---------------------------- MODULE WatchdogProofs ----------------------------
(***************************************************************************)
(* Proofs about the watchdog, for any set of leases, any timeouts and any  *)
(* number of requests and of callbacks waiting for the mutex: nobody who   *)
(* was promised time loses the daemon before that time has passed.         *)
(***************************************************************************)
EXTENDS Watchdog, TLAPS

-----------------------------------------------------------------------------
(* Types.                                                                  *)

\* A clock tick takes a unit from an amount of time, but never below zero.
LEMMA LessIsNat ==
    ASSUME NEW n \in Nat, NEW m \in Nat
    PROVE  /\ Less(n) \in Nat
           /\ Less(m) > 0 /\ n >= m => Less(n) >= Less(m) /\ m > 0
BY DEF Less

\* The lease a request creates or feeds is a record, never the missing entry.
LEMMA LeaseIsNotNone ==
    ASSUME NEW r \in [timeout : Nat, left : Nat]
    PROVE  r # None
BY ConstantsAssumption

\* The watchdog's fields keep the types the code declares.
LEMMA NextType == TypeOK /\ [Next]_vars => TypeOK'
<1> SUFFICES ASSUME TypeOK, [Next]_vars PROVE TypeOK'
    OBVIOUS
<1> USE ConstantsAssumption DEF TypeOK
<1>1. ASSUME NEW t \in Timeouts, Create(t) PROVE TypeOK'
    BY <1>1 DEF Create
<1>2. CASE Feed
    BY <1>2 DEF Feed
<1>3. ASSUME NEW l \in Leases, NEW t \in Timeouts, CreateLease(l, t) PROVE TypeOK'
    BY <1>3 DEF CreateLease
<1>4. ASSUME NEW l \in Leases, FeedLease(l) PROVE TypeOK'
    BY <1>4 DEF FeedLease
<1>5. ASSUME NEW l \in Leases, ReleaseLease(l) PROVE TypeOK'
    BY <1>5 DEF ReleaseLease
<1>6. CASE Stop
    BY <1>6 DEF Stop
<1>7. CASE Tick
    BY <1>7 DEF Tick, Less
<1>8. CASE Fire
    BY <1>8 DEF Fire
<1>9. CASE expire
    BY <1>9 DEF expire
<1>10. CASE UNCHANGED vars
    BY <1>10 DEF vars
<1> QED BY <1>1, <1>2, <1>3, <1>4, <1>5, <1>6, <1>7, <1>8, <1>9, <1>10 DEF Next

-----------------------------------------------------------------------------
(* The leases.                                                             *)

\* No step takes from a lease time that its holder still counts on: requests
\* touch one lease and its promise together, the clock takes the same from
\* both, and expire drops only leases whose time has passed.
LEMMA NextLeaseLasts ==
    TypeOK /\ LeaseLastsAsPromised /\ [Next]_vars => LeaseLastsAsPromised'
<1> SUFFICES ASSUME TypeOK, LeaseLastsAsPromised, [Next]_vars,
                    NEW k \in Leases, owed'[k] > 0
             PROVE  leases'[k] # None /\ leases'[k].left >= owed'[k]
    BY DEF LeaseLastsAsPromised
<1> DEFINE Lasts == leases'[k] # None /\ leases'[k].left >= owed'[k]
<1>a. /\ leases \in [Leases -> [timeout : Nat, left : Nat] \cup {None}]
      /\ owed \in [Leases -> Nat]
    BY DEF TypeOK
<1>b. owed[k] > 0 => leases[k] # None /\ leases[k].left >= owed[k]
    BY DEF LeaseLastsAsPromised
<1>1. CASE UNCHANGED <<leases, owed>>
    BY <1>1, <1>b
<1>2. ASSUME NEW l \in Leases, NEW t \in Timeouts, CreateLease(l, t) PROVE Lasts
    <2>1. /\ leases' = [leases EXCEPT ![l] = [timeout |-> t, left |-> t]]
          /\ owed' = [owed EXCEPT ![l] = t]
          /\ t \in Nat
        BY <1>2, ConstantsAssumption DEF CreateLease
    <2>2. [timeout |-> t, left |-> t] # None
        BY <2>1, LeaseIsNotNone
    <2> QED BY <1>a, <1>b, <2>1, <2>2
<1>3. ASSUME NEW l \in Leases, FeedLease(l) PROVE Lasts
    <2>1. /\ leases' = [leases EXCEPT ![l].left = leases[l].timeout]
          /\ owed' = [owed EXCEPT ![l] = leases[l].timeout]
          /\ leases[l] \in [timeout : Nat, left : Nat]
        BY <1>3, <1>a DEF FeedLease
    <2>2. CASE k = l
        <3>1. leases'[k] = [leases[k] EXCEPT !.left = leases[k].timeout]
            BY <1>a, <2>1, <2>2
        <3>2. leases'[k] \in [timeout : Nat, left : Nat]
            BY <2>1, <2>2, <3>1
        <3> QED BY <1>a, <2>1, <2>2, <3>1, <3>2, LeaseIsNotNone
    <2> QED BY <1>a, <1>b, <2>1, <2>2
<1>4. ASSUME NEW l \in Leases, ReleaseLease(l) PROVE Lasts
    BY <1>4, <1>a, <1>b DEF ReleaseLease
<1>5. CASE Tick
    <2>1. /\ owed'[k] = Less(owed[k])
          /\ leases'[k] = IF leases[k] = None THEN None
                          ELSE [leases[k] EXCEPT !.left = Less(leases[k].left)]
        BY <1>5 DEF Tick
    <2>2. leases[k] = None => owed[k] = 0
        BY <1>a, <1>b
    <2>3. leases[k] # None /\ leases[k] \in [timeout : Nat, left : Nat]
        BY <1>a, <2>1, <2>2 DEF Less
    <2>4. leases[k].left >= owed[k] /\ Less(leases[k].left) >= owed'[k]
        BY <1>a, <1>b, <2>1, <2>3, LessIsNat DEF Less
    <2>5. leases'[k] = [leases[k] EXCEPT !.left = Less(leases[k].left)]
        BY <2>1, <2>3
    <2>6. leases'[k] \in [timeout : Nat, left : Nat] /\ leases'[k].left = Less(leases[k].left)
        BY <2>3, <2>5, LessIsNat
    <2> QED BY <2>4, <2>6, LeaseIsNotNone
<1>6. CASE expire
    BY <1>6, <1>a, <1>b DEF expire, Held
<1> QED BY <1>1, <1>2, <1>3, <1>4, <1>5, <1>6
        DEF Next, vars, Create, Feed, Stop, Fire

-----------------------------------------------------------------------------
(* Expiry.                                                                 *)

\* The daemon goes down only when no lease is left that anybody counts on and
\* the main deadline is not running: in ReleaseLease because the released lease
\* was the last one, in expire because it looks at every deadline again.
LEMMA NextNoWrongful ==
    IndInv /\ [Next]_vars => NoWrongfulExpiry'
<1> SUFFICES ASSUME TypeOK, LeaseLastsAsPromised, NoWrongfulExpiry, [Next]_vars
             PROVE  wrongful' = FALSE
    BY DEF IndInv, NoWrongfulExpiry
<1>a. /\ leases \in [Leases -> [timeout : Nat, left : Nat] \cup {None}]
      /\ owed \in [Leases -> Nat] /\ deadline \in Nat
      /\ wrongful = FALSE
    BY DEF TypeOK, NoWrongfulExpiry
<1>1. CASE UNCHANGED wrongful
    BY <1>1, <1>a
<1>2. ASSUME NEW l \in Leases, ReleaseLease(l), Held = {l}, ~active PROVE wrongful' = FALSE
    <2>1. \A k \in Leases : k # l => owed[k] = 0
        BY <1>2, <1>a DEF LeaseLastsAsPromised, Held
    <2>2. owed' = [owed EXCEPT ![l] = 0]
        BY <1>2 DEF ReleaseLease
    <2>3. ~InUse(active, deadline, owed')
        BY <1>2, <1>a, <2>1, <2>2 DEF InUse
    <2> QED BY <1>2, <1>a, <2>3 DEF ReleaseLease
<1>3. CASE expire
    <2>1. CASE \E l \in Held : leases[l].left > 0
        BY <1>3, <1>a, <2>1 DEF expire
    <2>2. CASE active /\ deadline > 0
        BY <1>3, <1>a, <2>2 DEF expire
    <2>3. CASE ~(\E l \in Held : leases[l].left > 0) /\ ~(active /\ deadline > 0)
        <3>1. \A l \in Leases : ~(owed[l] > 0)
            BY <1>a, <2>3 DEF LeaseLastsAsPromised, Held
        <3>2. ~InUse(active, deadline, owed)
            BY <2>3, <3>1 DEF InUse
        <3> QED BY <1>3, <1>a, <2>3, <3>2 DEF expire
    <2> QED BY <2>1, <2>2, <2>3
<1>4. ASSUME NEW l \in Leases, ReleaseLease(l), ~(Held = {l} /\ ~active) PROVE wrongful' = FALSE
    BY <1>4, <1>a DEF ReleaseLease
<1> QED BY <1>1, <1>2, <1>3, <1>4
        DEF Next, vars, Create, Feed, CreateLease, FeedLease, Stop, Tick, Fire

-----------------------------------------------------------------------------
(* The theorems.                                                           *)

\* The inductive invariant: no lease has less time left than was promised for
\* it, and nothing was taken down that was in use.
THEOREM Invariance == Spec => []IndInv
<1>1. Init => IndInv
    <2>1. Init => TypeOK
        <3>1. Init => active \in BOOLEAN /\ madeLeases \in BOOLEAN /\ ~active
            BY Zenon DEF Init
        <3>2. Init => deadline \in Nat /\ owed \in [Leases -> Nat]
            BY DEF Init
        <3>3. Init => leases \in [Leases -> [timeout : Nat, left : Nat] \cup {None}]
            BY Zenon DEF Init
        <3> QED BY <3>1, <3>2, <3>3, Zenon DEF Init, TypeOK
    <2>2. Init => LeaseLastsAsPromised
        BY DEF Init, LeaseLastsAsPromised
    <2>3. Init => NoWrongfulExpiry
        BY DEF Init, NoWrongfulExpiry
    <2> QED BY <2>1, <2>2, <2>3 DEF IndInv
<1>2. IndInv /\ [Next]_vars => IndInv'
    BY NextType, NextLeaseLasts, NextNoWrongful DEF IndInv
<1> QED BY <1>1, <1>2, PTL DEF Spec

\* The daemon is never taken down while a lease or the main deadline is running,
\* whatever order requests, timer and callbacks take the mutex in.
THEOREM DaemonOutlivesItsUsers == Spec => []NoWrongfulExpiry
<1>1. IndInv => NoWrongfulExpiry
    BY DEF IndInv
<1> QED BY <1>1, Invariance, PTL

\* A lease lasts at least as long as its holder was told when it was created or
\* last fed: watchdogController keeps each lease's own timeout.
THEOREM LeasesLast == Spec => []LeaseLastsAsPromised
<1>1. IndInv => LeaseLastsAsPromised
    BY DEF IndInv
<1> QED BY <1>1, Invariance, PTL
===============================================================================
