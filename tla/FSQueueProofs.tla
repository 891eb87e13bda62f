--------------------------- MODULE FSQueueProofs ---------------------------
(***************************************************************************)
(* The order of the answers and the quiet of the backend, for any number of  *)
(* workers, pollers, requests and resets.                                   *)
(***************************************************************************)
EXTENDS FSQueue, TLAPS

Threads == {VCPU} \cup Pollers
Work == [gen : Nat, seq : Nat, req : Nat]
Answer == [gen : Nat, req : Nat]

\* What may be under way when g resets have happened and n requests were
\* harvested since the last: a work carries the place of its request in the ring.
Works(g, n) == {x \in Work : x.req = x.seq + 1 /\ x.gen <= g /\ (x.gen = g => x.seq < n)}
\* The first n requests of generation g, answered in order.
Answers(g, n) == [k \in 1..n |-> [gen |-> g, req |-> k]]

RingType == ring \in [posted : Nat, used : Seq(Answer), noInterrupt : BOOLEAN]
DevType ==
    dev \in [gen : Nat, ready : BOOLEAN, lastAvail : Nat, nextWork : Nat, nextComplete : Nat,
             completions : SUBSET Work, irq : BOOLEAN, kickPoll : BOOLEAN, active : BOOLEAN,
             mem : BOOLEAN]
MuType ==
    mu \in [by : Workers \cup {"nobody"}, at : {"", "drain", "stored", "loaded"},
            req : Answer, flag : BOOLEAN]
LimitsType == limits \in [resets : Nat, timeouts : Nat]
TypeOK == RingType /\ DevType /\ MuType /\ LimitsType /\ DOMAIN workers = Workers

\* The generation counts the resets, and the close once more.
Bumped == closed /\ closer # "start"
GenerationOK ==
    /\ dev.gen = limits.resets + (IF Bumped THEN 1 ELSE 0)
    /\ closed \/ closer = "idle"
    /\ mu = Unlocked \/ ~Bumped
    /\ Bumped => ~dev.kickPoll

WorksOK ==
    /\ workCh \in Seq(Works(limits.resets, dev.nextWork))
    /\ works \in [Threads -> Seq(Works(limits.resets, dev.nextWork))]
    /\ \A w \in Workers :
          workers[w].at = "dispatch" => workers[w].work \in Works(limits.resets, dev.nextWork)
    /\ \A c \in dev.completions :
          c \in Works(limits.resets, dev.nextWork) /\ c.gen = limits.resets

\* The used ring holds the completions that were drained, but for one that is
\* between the load of the flag and the store.
RingOK ==
    /\ dev.lastAvail = dev.nextWork /\ dev.nextWork <= ring.posted
    /\ dev.nextComplete <= dev.nextWork
    /\ mu.at = "" => mu = Unlocked
    /\ mu.at # "loaded" => ring.used = Answers(limits.resets, dev.nextComplete)
    /\ mu.at = "loaded" =>
          /\ dev.nextComplete > 0
          /\ ring.used = Answers(limits.resets, dev.nextComplete - 1)
          /\ mu.req = [gen |-> limits.resets, req |-> dev.nextComplete]

\* Workers that are gone stay so: nothing starts them once the device is closed,
\* and the one that holds the lock is draining.
QuietOK ==
    /\ mu.at # "" => mu.by \in Workers /\ workers[mu.by].at = "drain"
    /\ once \/ \A w \in Workers : workers[w].at = "off"
    /\ closed => once
    /\ backend # "open" => closed /\ \A w \in Workers : workers[w].at \in {"off", "gone"}

IInv == TypeOK /\ GenerationOK /\ WorksOK /\ RingOK /\ QuietOK

-----------------------------------------------------------------------------
\* A further harvest, and a reset, leave every work under way what it was.
LEMMA WorksGrow ==
  ASSUME NEW g \in Nat, NEW m \in Nat, NEW n \in Nat
  PROVE  /\ m <= n => Works(g, m) \subseteq Works(g, n)
         /\ Works(g, m) \subseteq Works(g + 1, n)
BY DEF Works, Work

\* A sequence over a set is one over a larger set.
LEMMA SeqGrows == ASSUME NEW S, NEW T, S \subseteq T PROVE Seq(S) \subseteq Seq(T)
OBVIOUS

\* The used ring is a sequence of answers, and storing the next extends it.
LEMMA AnswersExtend ==
  ASSUME NEW g \in Nat, NEW n \in Nat
  PROVE  /\ Answers(g, n) \in Seq(Answer)
         /\ Append(Answers(g, n), [gen |-> g, req |-> n + 1]) = Answers(g, n + 1)
         /\ Len(Answers(g, n)) = n
         /\ Answers(g, 0) = <<>>
<1>1. \A k \in 1..n : [gen |-> g, req |-> k] \in Answer
  BY DEF Answer
<1>2. Answers(g, n) \in Seq(Answer) /\ Len(Answers(g, n)) = n
  BY <1>1 DEF Answers
<1>3. Append(Answers(g, n), [gen |-> g, req |-> n + 1]) = Answers(g, n + 1)
  BY <1>1, <1>2 DEF Answers
<1>4. Answers(g, 0) = <<>>
  BY DEF Answers
<1> QED
  BY <1>2, <1>3, <1>4

\* The counters that the steps compare and count up.
LEMMA Counters ==
  ASSUME TypeOK
  PROVE  /\ ring.posted \in Nat /\ limits.resets \in Nat /\ limits.timeouts \in Nat
         /\ dev.gen \in Nat /\ dev.lastAvail \in Nat /\ dev.nextWork \in Nat /\ dev.nextComplete \in Nat
<1>1. ring.posted \in Nat
  BY DEF TypeOK, RingType
<1>2. limits.resets \in Nat /\ limits.timeouts \in Nat
  BY DEF TypeOK, LimitsType
<1>3. dev.gen \in Nat /\ dev.lastAvail \in Nat /\ dev.nextWork \in Nat /\ dev.nextComplete \in Nat
  BY DEF TypeOK, DevType
<1> QED
  BY <1>1, <1>2, <1>3

\* How sequences over a set are built.
LEMMA SeqBuilt ==
  ASSUME NEW S
  PROVE  <<>> \in Seq(S) /\ \A s \in Seq(S), e \in S : Append(s, e) \in Seq(S)
OBVIOUS

\* The lock is free exactly when no phase of the drain holds it.
LEMMA Held == Unlocked.at = "" /\ Unlocked.at \notin {"drain", "stored", "loaded"}
BY DEF Unlocked

\* Requests are posted, harvested and answered in this order.
LEMMA Order ==
  ASSUME IInv
  PROVE  /\ dev.lastAvail = dev.nextWork /\ dev.nextWork <= ring.posted /\ dev.nextComplete <= dev.nextWork
         /\ ~Bumped => dev.gen = limits.resets
<1>1. dev.lastAvail = dev.nextWork /\ dev.nextWork <= ring.posted /\ dev.nextComplete <= dev.nextWork
  BY DEF IInv, RingOK
<1>2. ~Bumped => dev.gen = limits.resets + 0
  BY DEF IInv, GenerationOK
<1> QED
  BY <1>1, <1>2, Counters DEF IInv

\* What a harvest hands to its thread are works of this generation.
LEMMA HarvestOK ==
  ASSUME IInv, ~Bumped
  PROVE  /\ Harvest \in Seq(Works(limits.resets, Harvested(dev).nextWork))
         /\ Harvested(dev) \in [gen : {dev.gen}, ready : {dev.ready}, lastAvail : Nat, nextWork : Nat,
                                nextComplete : {dev.nextComplete}, completions : {dev.completions},
                                irq : {dev.irq}, kickPoll : {dev.kickPoll}, active : {dev.active},
                                mem : {dev.mem}]
         /\ Harvested(dev).lastAvail = Harvested(dev).nextWork
         /\ Harvested(dev).nextWork <= ring.posted
         /\ dev.nextWork <= Harvested(dev).nextWork
<1> DEFINE n == ring.posted
           m == dev.nextWork
           g == limits.resets
<1>1. n \in Nat /\ m \in Nat /\ g \in Nat /\ dev.gen = g /\ dev.lastAvail = m /\ m <= n
  BY Counters, Order DEF IInv
<1>2. CASE ~CanHarvest
  <2>1. Harvest = <<>> /\ Harvested(dev) = dev
    BY <1>2 DEF Harvest, Harvested
  <2> QED
    BY <1>1, <2>1 DEF IInv, TypeOK, DevType
<1>3. CASE CanHarvest
  <2>1. Harvested(dev) = [dev EXCEPT !.lastAvail = n, !.nextWork = m + (n - m)] /\ m + (n - m) = n
    BY <1>1, <1>3 DEF Harvested
  <2>2. Harvest = [k \in 1..(n - m) |-> [gen |-> g, seq |-> m + k - 1, req |-> m + k]]
    BY <1>1, <1>3 DEF Harvest
  <2>3. ASSUME NEW k \in 1..(n - m)
        PROVE  [gen |-> g, seq |-> m + k - 1, req |-> m + k] \in Works(g, n)
    <3>1. m + k - 1 \in Nat /\ m + k \in Nat /\ m + k = (m + k - 1) + 1 /\ m + k - 1 < n
      BY <1>1
    <3> QED
      BY <1>1, <3>1 DEF Works, Work
  <2>4. n - m \in Nat
    BY <1>1
  <2>5. Harvest \in Seq(Works(g, n))
    BY <2>2, <2>3, <2>4
  <2>6. Harvested(dev).nextWork = n /\ Harvested(dev).lastAvail = n
    BY <2>1 DEF IInv, TypeOK, DevType
  <2>7. Harvested(dev) \in [gen : {dev.gen}, ready : {dev.ready}, lastAvail : Nat, nextWork : Nat,
                            nextComplete : {dev.nextComplete}, completions : {dev.completions},
                            irq : {dev.irq}, kickPoll : {dev.kickPoll}, active : {dev.active},
                            mem : {dev.mem}]
    BY <1>1, <2>1 DEF IInv, TypeOK, DevType
  <2> QED
    BY <1>1, <2>5, <2>6, <2>7
<1> QED
  BY <1>2, <1>3

\* Works under way stay so when the device counts on.
LEMMA WorksStay ==
  ASSUME IInv,
         NEW g \in Nat, NEW n \in Nat,
         \/ g = limits.resets /\ dev.nextWork <= n
         \/ g = limits.resets + 1
  PROVE  /\ Works(limits.resets, dev.nextWork) \subseteq Works(g, n)
         /\ workCh \in Seq(Works(g, n))
         /\ works \in [Threads -> Seq(Works(g, n))]
         /\ \A w \in Workers : workers[w].at = "dispatch" => workers[w].work \in Works(g, n)
<1>1. limits.resets \in Nat /\ dev.nextWork \in Nat
  BY Counters DEF IInv
<1>2. Works(limits.resets, dev.nextWork) \subseteq Works(g, n)
  BY <1>1, WorksGrow
<1>3. Seq(Works(limits.resets, dev.nextWork)) \subseteq Seq(Works(g, n))
  BY <1>2, SeqGrows
<1> QED
  BY <1>2, <1>3 DEF IInv, WorksOK

\* A step that touches flags only keeps the invariant.
LEMMA FlagsOnly ==
  ASSUME IInv, RingType', DevType',
         ring'.posted = ring.posted, ring'.used = ring.used, dev'.gen = dev.gen, dev'.kickPoll = dev.kickPoll,
         dev'.lastAvail = dev.lastAvail, dev'.nextWork = dev.nextWork,
         dev'.nextComplete = dev.nextComplete, dev'.completions = dev.completions,
         UNCHANGED <<mu, workCh, works, workers, closed, once, closer, backend, limits>>
  PROVE  IInv'
<1>1. TypeOK'
  BY DEF IInv, TypeOK, MuType, LimitsType
<1>2. GenerationOK'
  BY DEF IInv, GenerationOK, Bumped
<1>3. WorksOK'
  BY DEF IInv, WorksOK
<1>4. RingOK'
  BY DEF IInv, RingOK
<1>5. QuietOK'
  BY DEF IInv, QuietOK
<1> QED
  BY <1>1, <1>2, <1>3, <1>4, <1>5 DEF IInv

-----------------------------------------------------------------------------
\* The device starts in the invariant.
LEMMA Initial == ASSUME Init PROVE IInv
<1>1. PICK kickPoll \in BOOLEAN :
         dev = [gen |-> 0, ready |-> FALSE, lastAvail |-> 0, nextWork |-> 0, nextComplete |-> 0,
                completions |-> {}, irq |-> FALSE, kickPoll |-> kickPoll, active |-> FALSE, mem |-> TRUE]
  BY DEF Init
<1>2. DevType
  BY <1>1 DEF DevType
<1>3. TypeOK
  <2>1. MuType
    BY DEF Init, MuType, Unlocked, Answer
  <2>2. RingType
    BY DEF Init, RingType, EmptyRing
  <2>3. LimitsType /\ DOMAIN workers = Workers
    BY DEF Init, LimitsType
  <2> QED
    BY <1>2, <2>1, <2>2, <2>3 DEF TypeOK
<1>4. GenerationOK
  BY <1>1 DEF Init, GenerationOK, Bumped
<1>5. WorksOK
  BY <1>1 DEF Init, WorksOK, Threads
<1>6. RingOK
  <2>1. ring.posted = 0 /\ ring.used = <<>> /\ mu = Unlocked /\ limits.resets = 0
    BY DEF Init, EmptyRing
  <2>2. dev.lastAvail = 0 /\ dev.nextWork = 0 /\ dev.nextComplete = 0
    BY <1>1
  <2>3. Answers(0, 0) = <<>>
    BY AnswersExtend
  <2>4. mu.at # "loaded"
    BY <2>1, Held
  <2> QED
    BY <2>1, <2>2, <2>3, <2>4 DEF RingOK
<1>7. QuietOK
  BY DEF Init, QuietOK, Unlocked
<1> QED
  BY <1>3, <1>4, <1>5, <1>6, <1>7 DEF IInv

\* The driver makes the queue ready.
LEMMA QueueReadyStep == ASSUME IInv, QueueReady PROVE IInv'
<1>1. UNCHANGED <<mu, workCh, works, workers, closed, once, closer, backend, limits>>
  BY DEF QueueReady, guestOnly
<1>2. RingType' /\ ring'.posted = ring.posted /\ ring'.used = ring.used
  BY DEF IInv, TypeOK, RingType, QueueReady
<1>3. /\ DevType' /\ dev'.gen = dev.gen /\ dev'.kickPoll = dev.kickPoll /\ dev'.lastAvail = dev.lastAvail
      /\ dev'.nextWork = dev.nextWork /\ dev'.nextComplete = dev.nextComplete
      /\ dev'.completions = dev.completions
  BY DEF IInv, TypeOK, DevType, QueueReady
<1> QED
  BY <1>1, <1>2, <1>3, FlagsOnly

\* A request posted is one more to harvest, and nothing else.
LEMMA PostStep == ASSUME IInv, Post PROVE IInv'
<1>1. ring' = [ring EXCEPT !.posted = ring.posted + 1] /\ ring.posted \in Nat /\ ring.posted + 1 \in Nat
  BY Counters DEF IInv, Post
<1>2. RingType'
  BY <1>1 DEF IInv, TypeOK, RingType
<1>3. ring'.posted = ring.posted + 1 /\ ring'.used = ring.used
  BY <1>1 DEF IInv, TypeOK, RingType
<1>4. UNCHANGED <<dev, mu, workCh, works, workers, closed, once, closer, backend, limits>>
  BY DEF Post, guestOnly
<1>5. TypeOK'
  BY <1>2, <1>4 DEF IInv, TypeOK, DevType, MuType, LimitsType
<1>6. dev.nextWork <= ring'.posted
  BY <1>1, <1>3, Counters, Order DEF IInv
<1>7. RingOK'
  BY <1>3, <1>4, <1>6 DEF IInv, RingOK
<1>8. GenerationOK'
  BY <1>4 DEF IInv, GenerationOK, Bumped
<1>9. WorksOK' /\ QuietOK'
  BY <1>4 DEF IInv, WorksOK, QuietOK
<1> QED
  BY <1>5, <1>7, <1>8, <1>9 DEF IInv

\* The harvest of a kick: its works are new ones of this generation.
LEMMA NotifyStep == ASSUME IInv, Notify PROVE IInv'
<1>1. ~Bumped /\ mu = Unlocked
  BY DEF IInv, GenerationOK, Bumped, Notify, Free
<1>2. PICK a \in BOOLEAN : dev' = [Harvested(dev) EXCEPT !.active = a]
  <2>1. CASE Starts
    <3>1. dev' = [Harvested(dev) EXCEPT !.active = TRUE]
      BY <2>1 DEF Notify
    <3> QED
      BY <3>1
  <2>2. CASE ~Starts
    <3>1. dev' = Harvested(dev)
      BY <2>2 DEF Notify
    <3>2. Harvested(dev) = [Harvested(dev) EXCEPT !.active = dev.active] /\ dev.active \in BOOLEAN
      BY <1>1, HarvestOK DEF IInv, TypeOK, DevType
    <3> QED
      BY <3>1, <3>2
  <2> QED
    BY <2>1, <2>2
<1>3. /\ dev'.gen = dev.gen /\ dev'.nextComplete = dev.nextComplete /\ dev'.completions = dev.completions
      /\ dev'.kickPoll = dev.kickPoll
      /\ dev'.lastAvail = Harvested(dev).lastAvail /\ dev'.nextWork = Harvested(dev).nextWork
  BY <1>1, <1>2, HarvestOK
<1>4. DevType'
  BY <1>1, <1>2, HarvestOK DEF IInv, TypeOK, DevType
<1>5. /\ works' = [works EXCEPT ![VCPU] = Harvest]
      /\ UNCHANGED <<ring, mu, workCh, workers, closed, once, closer, backend, limits>>
  BY DEF Notify
<1>6. TypeOK'
  BY <1>4, <1>5 DEF IInv, TypeOK, RingType, MuType, LimitsType
<1>7. GenerationOK'
  BY <1>3, <1>5 DEF IInv, GenerationOK, Bumped
<1>8. dev.nextWork <= dev'.nextWork /\ dev'.nextWork \in Nat /\ dev'.nextWork <= ring.posted
  BY <1>1, <1>3, HarvestOK
<1>9. WorksOK'
  <2> DEFINE n == dev'.nextWork
  <2>1. /\ Works(limits.resets, dev.nextWork) \subseteq Works(limits.resets, n)
        /\ workCh \in Seq(Works(limits.resets, n))
        /\ works \in [Threads -> Seq(Works(limits.resets, n))]
        /\ \A w \in Workers : workers[w].at = "dispatch" => workers[w].work \in Works(limits.resets, n)
    BY <1>8, WorksStay, Counters DEF IInv
  <2>2. Harvest \in Seq(Works(limits.resets, n))
    BY <1>1, <1>3, HarvestOK
  <2>3. works' \in [Threads -> Seq(Works(limits.resets, n))]
    BY <1>5, <2>1, <2>2
  <2> QED
    BY <1>3, <1>5, <2>1, <2>3 DEF IInv, WorksOK
<1>10. dev'.nextComplete <= dev'.nextWork
  BY <1>3, <1>8, Counters, Order DEF IInv
<1>11. RingOK'
  BY <1>1, <1>3, <1>5, <1>8, <1>10, HarvestOK DEF IInv, RingOK
<1>12. QuietOK'
  BY <1>5 DEF IInv, QuietOK
<1> QED
  BY <1>6, <1>7, <1>9, <1>11, <1>12 DEF IInv

\* The guest takes an interrupt.
LEMMA InterruptStep == ASSUME IInv, Interrupt PROVE IInv'
<1>1. UNCHANGED <<mu, workCh, works, workers, closed, once, closer, backend, limits>>
  BY DEF Interrupt, guestOnly
<1>2. RingType' /\ ring'.posted = ring.posted /\ ring'.used = ring.used
  BY DEF IInv, TypeOK, RingType, Interrupt
<1>3. /\ DevType' /\ dev'.gen = dev.gen /\ dev'.kickPoll = dev.kickPoll /\ dev'.lastAvail = dev.lastAvail
      /\ dev'.nextWork = dev.nextWork /\ dev'.nextComplete = dev.nextComplete
      /\ dev'.completions = dev.completions
  BY DEF IInv, TypeOK, DevType, Interrupt
<1> QED
  BY <1>1, <1>2, <1>3, FlagsOnly

\* The guest reads the used ring and turns interrupts on.
LEMMA EnableStep == ASSUME IInv, Enable PROVE IInv'
<1>1. UNCHANGED <<mu, workCh, works, workers, closed, once, closer, backend, limits>>
  BY DEF Enable, guestOnly
<1>2. RingType' /\ ring'.posted = ring.posted /\ ring'.used = ring.used
  BY DEF IInv, TypeOK, RingType, Enable
<1>3. /\ DevType' /\ dev'.gen = dev.gen /\ dev'.kickPoll = dev.kickPoll /\ dev'.lastAvail = dev.lastAvail
      /\ dev'.nextWork = dev.nextWork /\ dev'.nextComplete = dev.nextComplete
      /\ dev'.completions = dev.completions
  BY DEF IInv, TypeOK, DevType, Enable
<1> QED
  BY <1>1, <1>2, <1>3, FlagsOnly

\* After a reset the ring is empty, and every work under way is of an earlier
\* generation.
LEMMA resetLockedStep == ASSUME IInv, resetLocked PROVE IInv'
<1> DEFINE g == limits.resets + 1
<1>1. /\ limits' = [limits EXCEPT !.resets = g] /\ g \in Nat
      /\ dev' = [dev EXCEPT !.gen = dev.gen + 1, !.ready = FALSE, !.lastAvail = 0, !.nextWork = 0,
                            !.nextComplete = 0, !.completions = {}, !.irq = FALSE, !.active = FALSE]
      /\ dev.gen + 1 \in Nat /\ dev.gen = limits.resets
      /\ ~closed /\ mu = Unlocked /\ ring' = EmptyRing
      /\ UNCHANGED <<mu, workCh, works, workers, closed, once, closer, backend>>
  BY Counters DEF IInv, resetLocked, guestOnly, Free, GenerationOK, Bumped
<1>2. DevType'
  BY <1>1 DEF IInv, TypeOK, DevType
<1>3. limits'.resets = g /\ LimitsType'
  BY <1>1 DEF IInv, TypeOK, LimitsType
<1>4. dev'.gen = g /\ dev'.lastAvail = 0 /\ dev'.nextWork = 0 /\ dev'.nextComplete = 0 /\ dev'.completions = {}
  BY <1>1 DEF IInv, TypeOK, DevType
<1>5. ring'.posted = 0 /\ ring'.used = <<>> /\ RingType'
  BY <1>1 DEF EmptyRing, RingType
<1>6. TypeOK'
  BY <1>1, <1>2, <1>3, <1>5 DEF IInv, TypeOK, MuType
<1>7. GenerationOK'
  BY <1>1, <1>3, <1>4 DEF IInv, GenerationOK, Bumped
<1>8. WorksOK'
  BY <1>1, <1>3, <1>4, WorksStay DEF WorksOK
<1>9. RingOK'
  <2>1. mu' = Unlocked /\ limits'.resets \in Nat
    BY <1>1, <1>3
  <2>2. Answers(g, 0) = <<>>
    BY <1>1, AnswersExtend
  <2>3. mu'.at # "loaded"
    BY <2>1, Held
  <2> QED
    BY <1>3, <1>4, <1>5, <2>1, <2>2, <2>3 DEF RingOK
<1>10. QuietOK'
  BY <1>1 DEF IInv, QuietOK
<1> QED
  BY <1>6, <1>7, <1>8, <1>9, <1>10 DEF IInv

\* A work moves from its thread into the channel, or is dropped.
LEMMA enqueueWorksStep == ASSUME IInv, NEW t \in Threads, enqueueWorks(t) PROVE IInv'
<1>1. TypeOK'
  BY DEF IInv, TypeOK, RingType, DevType, MuType, LimitsType, enqueueWorks
<1>2. GenerationOK'
  BY DEF IInv, TypeOK, GenerationOK, Bumped, enqueueWorks
<1>3. WorksOK'
  <2> DEFINE S == Works(limits.resets, dev.nextWork)
  <2>1. works[t] \in Seq(S) /\ works[t] # <<>> /\ works \in [Threads -> Seq(S)] /\ workCh \in Seq(S)
    BY DEF IInv, WorksOK, enqueueWorks
  <2>2. Head(works[t]) \in S /\ Tail(works[t]) \in Seq(S)
    BY <2>1
  <2>3. works' \in [Threads -> Seq(S)]
    BY <2>1, <2>2 DEF enqueueWorks
  <2>4. workCh' \in Seq(S)
    <3>1. workCh' = workCh \/ workCh' = Append(workCh, Head(works[t]))
      BY DEF enqueueWorks
    <3> HIDE DEF S
    <3> QED
      BY <2>1, <2>2, <3>1, SeqBuilt
  <2>5. \A w \in Workers : workers'[w].at = "dispatch" => workers'[w].work \in S
    BY DEF IInv, WorksOK, enqueueWorks
  <2> QED
    BY <2>3, <2>4, <2>5 DEF IInv, WorksOK, enqueueWorks
<1>4. RingOK'
  BY DEF IInv, TypeOK, RingOK, enqueueWorks
<1>5. QuietOK'
  BY DEF IInv, TypeOK, QuietOK, enqueueWorks
<1> QED
  BY <1>1, <1>2, <1>3, <1>4, <1>5 DEF IInv

\* The poller leaves a device that is closed.
LEMMA PollClosedStep == ASSUME IInv, NEW p \in Pollers, PollClosed(p) PROVE IInv'
<1>1. UNCHANGED <<mu, workCh, works, workers, closed, once, closer, backend, limits>>
  BY DEF PollClosed, pollOnly, Leaves
<1>2. RingType' /\ ring'.posted = ring.posted /\ ring'.used = ring.used
  BY DEF IInv, TypeOK, RingType, PollClosed, pollOnly
<1>3. /\ DevType' /\ dev'.gen = dev.gen /\ dev'.kickPoll = dev.kickPoll /\ dev'.lastAvail = dev.lastAvail
      /\ dev'.nextWork = dev.nextWork /\ dev'.nextComplete = dev.nextComplete
      /\ dev'.completions = dev.completions
  BY DEF IInv, TypeOK, DevType, PollClosed
<1> QED
  BY <1>1, <1>2, <1>3, FlagsOnly

\* The poller of an earlier generation leaves.
LEMMA PollOutdatedStep == ASSUME IInv, NEW p \in Pollers, PollOutdated(p) PROVE IInv'
<1>1. UNCHANGED <<mu, workCh, works, workers, closed, once, closer, backend, limits>>
  BY DEF PollOutdated, pollOnly, Leaves
<1>2. RingType' /\ ring'.posted = ring.posted /\ ring'.used = ring.used
  BY DEF IInv, TypeOK, RingType, PollOutdated, pollOnly
<1>3. /\ DevType' /\ dev'.gen = dev.gen /\ dev'.kickPoll = dev.kickPoll /\ dev'.lastAvail = dev.lastAvail
      /\ dev'.nextWork = dev.nextWork /\ dev'.nextComplete = dev.nextComplete
      /\ dev'.completions = dev.completions
  BY DEF IInv, TypeOK, DevType, PollOutdated
<1> QED
  BY <1>1, <1>2, <1>3, FlagsOnly

\* The harvest of the poller: kick polling is off once the generation counts the
\* close, so its works are of this generation too.
LEMMA PollHarvestStep == ASSUME IInv, NEW p \in Pollers, PollHarvest(p) PROVE IInv'
<1>1. ~Bumped /\ mu = Unlocked
  BY DEF IInv, GenerationOK, Bumped, PollHarvest, Free, Outdated
<1>2. PICK a \in BOOLEAN : dev' = [Harvested(dev) EXCEPT !.active = a]
  BY <1>1, HarvestOK DEF IInv, TypeOK, DevType, PollHarvest
<1>3. /\ dev'.gen = dev.gen /\ dev'.nextComplete = dev.nextComplete /\ dev'.completions = dev.completions
      /\ dev'.kickPoll = dev.kickPoll
      /\ dev'.lastAvail = Harvested(dev).lastAvail /\ dev'.nextWork = Harvested(dev).nextWork
  BY <1>1, <1>2, HarvestOK
<1>4. DevType'
  BY <1>1, <1>2, HarvestOK DEF IInv, TypeOK, DevType
<1>5. /\ works' = [works EXCEPT ![p] = Harvest]
      /\ UNCHANGED <<ring, mu, workCh, workers, closed, once, closer, backend, limits>>
  BY DEF PollHarvest, pollOnly
<1>6. TypeOK'
  BY <1>4, <1>5 DEF IInv, TypeOK, RingType, MuType, LimitsType
<1>7. GenerationOK'
  BY <1>3, <1>5 DEF IInv, GenerationOK, Bumped
<1>8. dev.nextWork <= dev'.nextWork /\ dev'.nextWork \in Nat /\ dev'.nextWork <= ring.posted
  BY <1>1, <1>3, HarvestOK
<1>9. WorksOK'
  <2> DEFINE n == dev'.nextWork
  <2>1. /\ Works(limits.resets, dev.nextWork) \subseteq Works(limits.resets, n)
        /\ workCh \in Seq(Works(limits.resets, n))
        /\ works \in [Threads -> Seq(Works(limits.resets, n))]
        /\ \A w \in Workers : workers[w].at = "dispatch" => workers[w].work \in Works(limits.resets, n)
    BY <1>8, WorksStay, Counters DEF IInv
  <2>2. Harvest \in Seq(Works(limits.resets, n))
    BY <1>1, <1>3, HarvestOK
  <2>3. works' \in [Threads -> Seq(Works(limits.resets, n))]
    BY <1>5, <2>1, <2>2
  <2> QED
    BY <1>3, <1>5, <2>1, <2>3 DEF IInv, WorksOK
<1>10. dev'.nextComplete <= dev'.nextWork
  BY <1>3, <1>8, Counters, Order DEF IInv
<1>11. RingOK'
  BY <1>1, <1>3, <1>5, <1>8, <1>10, HarvestOK DEF IInv, RingOK
<1>12. QuietOK'
  BY <1>5 DEF IInv, QuietOK
<1> QED
  BY <1>6, <1>7, <1>9, <1>11, <1>12 DEF IInv

\* The poller leaves an idle device.
LEMMA PollStopsStep == ASSUME IInv, NEW p \in Pollers, PollStops(p) PROVE IInv'
<1>1. UNCHANGED <<mu, workCh, works, workers, closed, once, closer, backend, limits>>
  BY DEF PollStops, pollOnly, Leaves
<1>2. RingType' /\ ring'.posted = ring.posted /\ ring'.used = ring.used
  BY DEF IInv, TypeOK, RingType, PollStops, pollOnly
<1>3. /\ DevType' /\ dev'.gen = dev.gen /\ dev'.kickPoll = dev.kickPoll /\ dev'.lastAvail = dev.lastAvail
      /\ dev'.nextWork = dev.nextWork /\ dev'.nextComplete = dev.nextComplete
      /\ dev'.completions = dev.completions
  BY DEF IInv, TypeOK, DevType, PollStops
<1> QED
  BY <1>1, <1>2, <1>3, FlagsOnly

\* A worker takes a work from the channel.
LEMMA TakeStep == ASSUME IInv, NEW w \in Workers, Take(w) PROVE IInv'
<1>1. TypeOK'
  BY DEF IInv, TypeOK, RingType, DevType, MuType, LimitsType, Take, workerOnly, Becomes
<1>2. GenerationOK'
  BY DEF IInv, TypeOK, GenerationOK, Bumped, Take, workerOnly, Becomes
<1>3. WorksOK'
  <2> DEFINE S == Works(limits.resets, dev.nextWork)
  <2>1. workCh \in Seq(S) /\ workCh # <<>>
    BY DEF IInv, WorksOK, Take
  <2>2. Head(workCh) \in S /\ Tail(workCh) \in Seq(S)
    BY <2>1
  <2>3. \A v \in Workers : workers'[v].at = "dispatch" => workers'[v].work \in S
    BY <2>2 DEF IInv, TypeOK, WorksOK, Take, Becomes
  <2> QED
    BY <2>2, <2>3 DEF IInv, WorksOK, Take, workerOnly
<1>4. RingOK'
  BY DEF IInv, TypeOK, RingOK, Take, workerOnly, Becomes
<1>5. QuietOK'
  BY DEF IInv, TypeOK, QuietOK, Take, workerOnly, Becomes
<1> QED
  BY <1>1, <1>2, <1>3, <1>4, <1>5 DEF IInv

\* A worker sees that the device is closed.
LEMMA ExitStep == ASSUME IInv, NEW w \in Workers, Exit(w) PROVE IInv'
<1>1. TypeOK'
  BY DEF IInv, TypeOK, RingType, DevType, MuType, LimitsType, Exit, workerOnly, Becomes
<1>2. GenerationOK'
  BY DEF IInv, TypeOK, GenerationOK, Bumped, Exit, workerOnly, Becomes
<1>3. WorksOK'
  BY DEF IInv, TypeOK, WorksOK, Exit, workerOnly, Becomes
<1>4. RingOK'
  BY DEF IInv, TypeOK, RingOK, Exit, workerOnly, Becomes
<1>5. QuietOK'
  BY DEF IInv, TypeOK, QuietOK, Exit, workerOnly, Becomes
<1> QED
  BY <1>1, <1>2, <1>3, <1>4, <1>5 DEF IInv

\* Only a work of this generation becomes a completion.
LEMMA completeWorkStep == ASSUME IInv, NEW w \in Workers, completeWork(w) PROVE IInv'
<1>1. /\ mu = Unlocked /\ w \in Workers /\ workers[w].at = "dispatch"
      /\ UNCHANGED <<ring, workCh, works, closed, once, closer, backend, limits>>
  BY DEF completeWork, Free, workerOnly
<1>2. /\ DOMAIN workers' = Workers
      /\ \A v \in Workers : v # w => workers'[v] = workers[v]
      /\ workers'[w].at \in {"gone", "idle", "drain"}
  BY DEF IInv, TypeOK, completeWork, Becomes
<1>3. backend = "open" /\ once
  BY <1>1 DEF IInv, QuietOK
<1>4. CASE UNCHANGED <<dev, mu>>
  <2>1. TypeOK'
    BY <1>1, <1>2, <1>4 DEF IInv, TypeOK, RingType, DevType, MuType, LimitsType
  <2>2. GenerationOK'
    BY <1>1, <1>4 DEF IInv, GenerationOK, Bumped
  <2>3. WorksOK'
    BY <1>1, <1>2, <1>4 DEF IInv, WorksOK
  <2>4. RingOK'
    BY <1>1, <1>4 DEF IInv, RingOK
  <2>5. QuietOK'
    BY <1>1, <1>3, <1>4 DEF IInv, QuietOK, Unlocked
  <2> QED
    BY <2>1, <2>2, <2>3, <2>4, <2>5 DEF IInv
<1>5. CASE /\ ~closed /\ workers[w].work.gen = dev.gen
           /\ dev' = [dev EXCEPT !.completions = dev.completions \cup {workers[w].work}]
           /\ mu' = [Unlocked EXCEPT !.by = w, !.at = "drain"]
           /\ workers'[w].at = "drain"
  <2>1. workers[w].work \in Works(limits.resets, dev.nextWork) /\ workers[w].work.gen = limits.resets
    BY <1>1, <1>5, Counters DEF IInv, WorksOK, GenerationOK, Bumped
  <2>2. workers[w].work \in Work
    BY <2>1 DEF Works
  <2>3. DevType'
    BY <1>5, <2>2 DEF IInv, TypeOK, DevType
  <2>4. /\ dev'.gen = dev.gen /\ dev'.lastAvail = dev.lastAvail /\ dev'.nextWork = dev.nextWork
        /\ dev'.nextComplete = dev.nextComplete /\ dev'.kickPoll = dev.kickPoll
        /\ dev'.completions = dev.completions \cup {workers[w].work}
    BY <1>5 DEF IInv, TypeOK, DevType
  <2>5. MuType' /\ mu'.by = w /\ mu'.at = "drain"
    BY <1>1, <1>5 DEF IInv, TypeOK, MuType, Unlocked
  <2>6. TypeOK'
    BY <1>1, <1>2, <2>3, <2>5 DEF IInv, TypeOK, RingType, LimitsType
  <2>7. GenerationOK'
    BY <1>1, <1>5, <2>4 DEF IInv, GenerationOK, Bumped
  <2>8. WorksOK'
    BY <1>1, <1>2, <2>1, <2>4 DEF IInv, WorksOK
  <2>9. RingOK'
    BY <1>1, <2>4, <2>5 DEF IInv, RingOK, Unlocked
  <2>10. QuietOK'
    BY <1>1, <1>3, <1>5, <2>5 DEF IInv, QuietOK
  <2> QED
    BY <2>6, <2>7, <2>8, <2>9, <2>10 DEF IInv
<1> QED
  BY <1>2, <1>4, <1>5 DEF IInv, TypeOK, completeWork, Becomes

\* The completion that is due answers the next request of the ring.
LEMMA DrainStep == ASSUME IInv, NEW w \in Workers, Drain(w) PROVE IInv'
<1> DEFINE n == dev.nextComplete
           g == limits.resets
<1>1. /\ mu.by = w /\ mu.at = "drain" /\ ~Bumped
      /\ UNCHANGED <<workCh, workers, works, closed, once, closer, backend, limits>>
      /\ n \in Nat /\ g \in Nat /\ dev.nextWork \in Nat /\ n + 1 \in Nat
  <2>1. mu.by = w /\ mu.at = "drain"
    BY DEF Drain
  <2>2. mu # Unlocked
    BY <2>1, Held
  <2>3. ~Bumped
    BY <2>2 DEF IInv, GenerationOK
  <2>4. UNCHANGED <<workCh, workers, works, closed, once, closer, backend, limits>>
    BY DEF Drain, workerOnly
  <2> QED
    BY <2>1, <2>3, <2>4, Counters DEF IInv
<1>2. PICK c \in Due :
         /\ dev' = [dev EXCEPT !.completions = dev.completions \ {c}, !.nextComplete = n + 1]
         /\ \/ /\ ring' = [ring EXCEPT !.used = Append(ring.used, [gen |-> c.gen, req |-> c.req])]
               /\ mu' = [mu EXCEPT !.at = "stored"]
            \/ /\ mu' = [mu EXCEPT !.at = "loaded", !.req = [gen |-> c.gen, req |-> c.req],
                                   !.flag = ring.noInterrupt]
               /\ UNCHANGED ring
  BY DEF Drain
<1>3. c \in dev.completions /\ c.seq = n /\ c \in Works(g, dev.nextWork) /\ c.gen = g
  BY DEF Due, IInv, WorksOK
<1>4. c.req = n + 1 /\ n < dev.nextWork
  BY <1>1, <1>3 DEF Works, Work
<1>5. [gen |-> c.gen, req |-> c.req] = [gen |-> g, req |-> n + 1] /\ [gen |-> g, req |-> n + 1] \in Answer
  BY <1>1, <1>3, <1>4 DEF Answer
<1>6. DevType'
  BY <1>1, <1>2 DEF IInv, TypeOK, DevType
<1>7. /\ dev'.gen = dev.gen /\ dev'.lastAvail = dev.lastAvail /\ dev'.nextWork = dev.nextWork
      /\ dev'.nextComplete = n + 1 /\ dev'.kickPoll = dev.kickPoll
      /\ dev'.completions \subseteq dev.completions
  BY <1>2 DEF IInv, TypeOK, DevType
<1>8. ring.used = Answers(g, n) /\ ring.used \in Seq(Answer)
  BY <1>1, AnswersExtend DEF IInv, RingOK
<1>9. dev'.nextComplete <= dev'.nextWork /\ dev'.nextComplete > 0 /\ dev'.nextComplete - 1 = n
  <2>1. n \in Nat /\ dev.nextWork \in Nat /\ n < dev.nextWork
    BY <1>1, <1>4
  <2>2. dev'.nextComplete = n + 1 /\ dev'.nextWork = dev.nextWork
    BY <1>7
  <2> QED
    BY <2>1, <2>2
<1>10. /\ RingType' /\ MuType' /\ ring'.posted = ring.posted /\ mu'.by = w
       /\ \/ mu'.at = "stored" /\ ring'.used = Answers(g, n + 1)
          \/ mu'.at = "loaded" /\ ring'.used = Answers(g, n) /\ mu'.req = [gen |-> g, req |-> n + 1]
  <2>1. CASE /\ ring' = [ring EXCEPT !.used = Append(ring.used, [gen |-> c.gen, req |-> c.req])]
             /\ mu' = [mu EXCEPT !.at = "stored"]
    <3>1. Append(ring.used, [gen |-> c.gen, req |-> c.req]) = Answers(g, n + 1)
      BY <1>1, <1>5, <1>8, AnswersExtend
    <3>2. Answers(g, n + 1) \in Seq(Answer)
      BY <1>1, AnswersExtend
    <3>3. RingType' /\ ring'.posted = ring.posted /\ ring'.used = Answers(g, n + 1)
      BY <2>1, <3>1, <3>2 DEF IInv, TypeOK, RingType
    <3>4. MuType' /\ mu'.by = w /\ mu'.at = "stored"
      BY <1>1, <2>1 DEF IInv, TypeOK, MuType
    <3> QED
      BY <3>3, <3>4
  <2>2. CASE /\ mu' = [mu EXCEPT !.at = "loaded", !.req = [gen |-> c.gen, req |-> c.req],
                                 !.flag = ring.noInterrupt]
             /\ UNCHANGED ring
    <3>1. ring.noInterrupt \in BOOLEAN
      BY DEF IInv, TypeOK, RingType
    <3>2. MuType' /\ mu'.by = w /\ mu'.at = "loaded" /\ mu'.req = [gen |-> c.gen, req |-> c.req]
      BY <1>1, <1>5, <2>2, <3>1 DEF IInv, TypeOK, MuType
    <3> QED
      BY <1>5, <1>8, <2>2, <3>2 DEF IInv, TypeOK, RingType
  <2> QED
    BY <1>2, <2>1, <2>2
<1>11. TypeOK'
  BY <1>1, <1>6, <1>10 DEF IInv, TypeOK, LimitsType
<1>12. GenerationOK'
  BY <1>1, <1>7 DEF IInv, GenerationOK, Bumped
<1>13. WorksOK'
  BY <1>1, <1>7 DEF IInv, WorksOK
<1>14. RingOK'
  BY <1>1, <1>7, <1>9, <1>10 DEF IInv, RingOK
<1>15. QuietOK'
  BY <1>1, <1>10 DEF IInv, QuietOK
<1> QED
  BY <1>11, <1>12, <1>13, <1>14, <1>15 DEF IInv

\* The answer is in the ring when the drain goes on.
LEMMA WrittenStep == ASSUME IInv, NEW w \in Workers, Written(w) PROVE IInv'
<1> DEFINE n == dev.nextComplete
           g == limits.resets
<1>1. /\ mu.by = w /\ mu.at \in {"stored", "loaded"} /\ ~Bumped
      /\ UNCHANGED <<workCh, workers, works, closed, once, closer, backend, limits>>
      /\ n \in Nat /\ g \in Nat
      /\ mu' = [Unlocked EXCEPT !.by = w, !.at = "drain"]
      /\ ring' = IF mu.at = "loaded" THEN [ring EXCEPT !.used = Append(ring.used, mu.req)] ELSE ring
  <2>1. mu.by = w /\ mu.at \in {"stored", "loaded"}
    BY DEF Written
  <2>2. mu # Unlocked
    BY <2>1, Held
  <2>3. ~Bumped
    BY <2>2 DEF IInv, GenerationOK
  <2>4. /\ UNCHANGED <<workCh, workers, works, closed, once, closer, backend, limits>>
        /\ mu' = [Unlocked EXCEPT !.by = w, !.at = "drain"]
        /\ ring' = IF mu.at = "loaded" THEN [ring EXCEPT !.used = Append(ring.used, mu.req)] ELSE ring
    BY DEF Written, workerOnly
  <2>5. n \in Nat /\ g \in Nat
    BY Counters DEF IInv
  <2> QED
    BY <2>1, <2>3, <2>4, <2>5
<1>2. PICK irq \in BOOLEAN : dev' = [dev EXCEPT !.irq = irq]
  BY DEF Written
<1>3. /\ DevType' /\ dev'.gen = dev.gen /\ dev'.lastAvail = dev.lastAvail /\ dev'.nextWork = dev.nextWork
      /\ dev'.nextComplete = n /\ dev'.kickPoll = dev.kickPoll /\ dev'.completions = dev.completions
  BY <1>2 DEF IInv, TypeOK, DevType
<1>4. MuType' /\ mu'.by = w /\ mu'.at = "drain"
  BY <1>1 DEF IInv, TypeOK, MuType, Unlocked, Answer
<1>5. RingType' /\ ring'.posted = ring.posted /\ ring'.used = Answers(g, n)
  <2>1. CASE mu.at = "loaded"
    <3>1. n - 1 \in Nat /\ ring.used = Answers(g, n - 1) /\ mu.req = [gen |-> g, req |-> (n - 1) + 1]
      BY <1>1, <2>1 DEF IInv, RingOK
    <3>2. Append(ring.used, mu.req) = Answers(g, (n - 1) + 1) /\ (n - 1) + 1 = n
      BY <1>1, <3>1, AnswersExtend
    <3>3. Answers(g, n) \in Seq(Answer)
      BY <1>1, AnswersExtend
    <3> QED
      BY <1>1, <2>1, <3>2, <3>3 DEF IInv, TypeOK, RingType
  <2>2. CASE mu.at = "stored"
    BY <1>1, <2>2 DEF IInv, TypeOK, RingType, RingOK
  <2> QED
    BY <1>1, <2>1, <2>2
<1>6. TypeOK'
  BY <1>1, <1>3, <1>4, <1>5 DEF IInv, TypeOK, LimitsType
<1>7. GenerationOK'
  BY <1>1, <1>3 DEF IInv, GenerationOK, Bumped
<1>8. WorksOK'
  BY <1>1, <1>3 DEF IInv, WorksOK
<1>9. RingOK'
  BY <1>1, <1>3, <1>4, <1>5 DEF IInv, RingOK
<1>10. QuietOK'
  BY <1>1, <1>4 DEF IInv, QuietOK
<1> QED
  BY <1>6, <1>7, <1>8, <1>9, <1>10 DEF IInv

\* The worker gives the lock back.
LEMMA DrainedStep == ASSUME IInv, NEW w \in Workers, Drained(w) PROVE IInv'
<1>1. TypeOK'
  <2>1. MuType'
    BY DEF Drained, MuType, Unlocked, Answer
  <2>2. DOMAIN workers' = Workers
    BY DEF IInv, TypeOK, Drained, Becomes
  <2> QED
    BY <2>1, <2>2 DEF IInv, TypeOK, RingType, DevType, LimitsType, Drained, workerOnly
<1>2. GenerationOK'
  BY DEF IInv, TypeOK, MuType, GenerationOK, Bumped, Drained, workerOnly, Unlocked, Becomes, Due
<1>3. WorksOK'
  BY DEF IInv, TypeOK, MuType, WorksOK, Drained, workerOnly, Unlocked, Becomes, Due
<1>4. RingOK'
  BY DEF IInv, TypeOK, MuType, RingOK, Drained, workerOnly, Unlocked, Becomes, Due
<1>5. QuietOK'
  <2>1. workers[w].at = "drain" /\ mu'.at = ""
    BY DEF IInv, QuietOK, Drained, Unlocked
  <2>2. backend = "open" /\ once
    BY <2>1 DEF IInv, QuietOK
  <2> QED
    BY <2>1, <2>2 DEF IInv, QuietOK, Drained, workerOnly
<1> QED
  BY <1>1, <1>2, <1>3, <1>4, <1>5 DEF IInv

\* The keepalive raises the interrupt.
LEMMA PokeStep == ASSUME IInv, Poke PROVE IInv'
<1>1. UNCHANGED <<mu, workCh, works, workers, closed, once, closer, backend, limits>>
  BY DEF Poke
<1>2. RingType' /\ ring'.posted = ring.posted /\ ring'.used = ring.used
  BY DEF IInv, TypeOK, RingType, Poke
<1>3. /\ DevType' /\ dev'.gen = dev.gen /\ dev'.kickPoll = dev.kickPoll /\ dev'.lastAvail = dev.lastAvail
      /\ dev'.nextWork = dev.nextWork /\ dev'.nextComplete = dev.nextComplete
      /\ dev'.completions = dev.completions
  BY DEF IInv, TypeOK, DevType, Poke
<1> QED
  BY <1>1, <1>2, <1>3, FlagsOnly

\* The host signals the close.
LEMMA CloseSignalStep == ASSUME IInv, CloseSignal PROVE IInv'
<1>1. TypeOK'
  BY DEF IInv, TypeOK, RingType, DevType, MuType, LimitsType, CloseSignal, closeOnly, VCPU
<1>2. GenerationOK'
  BY DEF IInv, TypeOK, GenerationOK, Bumped, CloseSignal, closeOnly, VCPU
<1>3. WorksOK'
  BY DEF IInv, TypeOK, WorksOK, CloseSignal, closeOnly, VCPU
<1>4. RingOK'
  BY DEF IInv, TypeOK, RingOK, CloseSignal, closeOnly, VCPU
<1>5. QuietOK'
  BY DEF IInv, TypeOK, QuietOK, CloseSignal, closeOnly, VCPU
<1> QED
  BY <1>1, <1>2, <1>3, <1>4, <1>5 DEF IInv

\* The close runs out of time.
LEMMA CloseTimesOutStep == ASSUME IInv, CloseTimesOut PROVE IInv'
<1>1. TypeOK'
  <2>1. limits' = limits \/ limits' = [limits EXCEPT !.timeouts = limits.timeouts + 1]
    BY DEF CloseTimesOut, TimesOut
  <2>2. limits.timeouts + 1 \in Nat
    BY Counters DEF IInv
  <2>3. LimitsType'
    BY <2>1, <2>2 DEF IInv, TypeOK, LimitsType
  <2> QED
    BY <2>3 DEF IInv, TypeOK, RingType, DevType, MuType, CloseTimesOut, closeOnly
<1>2. GenerationOK'
  BY DEF IInv, TypeOK, LimitsType, GenerationOK, Bumped, CloseTimesOut, closeOnly, TimesOut
<1>3. WorksOK'
  BY DEF IInv, TypeOK, LimitsType, WorksOK, CloseTimesOut, closeOnly, TimesOut
<1>4. RingOK'
  BY DEF IInv, TypeOK, LimitsType, RingOK, CloseTimesOut, closeOnly, TimesOut
<1>5. QuietOK'
  BY DEF IInv, TypeOK, LimitsType, QuietOK, CloseTimesOut, closeOnly, TimesOut
<1> QED
  BY <1>1, <1>2, <1>3, <1>4, <1>5 DEF IInv

\* The close counts the generation up: nobody holds the lock, so no drain is
\* half way.
LEMMA CloseLockedStep == ASSUME IInv, CloseLocked PROVE IInv'
<1>1. /\ mu = Unlocked /\ closer = "start" /\ closer' = "wait" /\ closed
      /\ dev' = [dev EXCEPT !.kickPoll = FALSE, !.active = FALSE, !.gen = dev.gen + 1]
      /\ dev.gen + 1 \in Nat /\ dev.gen = limits.resets
      /\ UNCHANGED <<ring, mu, works, workers, workCh, closed, once, backend, limits>>
  BY Counters DEF IInv, GenerationOK, Bumped, CloseLocked, closeOnly, Free
<1>2. /\ DevType' /\ dev'.gen = dev.gen + 1 /\ dev'.lastAvail = dev.lastAvail
      /\ dev'.nextWork = dev.nextWork /\ dev'.nextComplete = dev.nextComplete
      /\ dev'.completions = dev.completions /\ dev'.kickPoll = FALSE
  BY <1>1 DEF IInv, TypeOK, DevType
<1>3. TypeOK'
  BY <1>1, <1>2 DEF IInv, TypeOK, RingType, MuType, LimitsType
<1>4. GenerationOK'
  BY <1>1, <1>2 DEF GenerationOK, Bumped
<1>5. WorksOK'
  BY <1>1, <1>2 DEF IInv, WorksOK
<1>6. RingOK'
  BY <1>1, <1>2 DEF IInv, RingOK
<1>7. QuietOK'
  BY <1>1 DEF IInv, QuietOK
<1> QED
  BY <1>3, <1>4, <1>5, <1>6, <1>7 DEF IInv

\* The backend is closed after every worker is gone.
LEMMA CloseBackendStep == ASSUME IInv, CloseBackend PROVE IInv'
<1>1. /\ mu = Unlocked /\ closer = "wait" /\ closer' = "backend" /\ closed
      /\ \A w \in Workers : workers[w].at \in {"off", "gone"}
      /\ UNCHANGED <<ring, mu, works, workers, closed, once, limits>>
  BY DEF IInv, GenerationOK, CloseBackend, WorkersDone, closeOnly, Free
<1>2. /\ DevType' /\ dev'.gen = dev.gen /\ dev'.lastAvail = dev.lastAvail
      /\ dev'.nextWork = dev.nextWork /\ dev'.nextComplete = dev.nextComplete
      /\ dev'.completions = dev.completions /\ dev'.kickPoll = dev.kickPoll
  BY DEF IInv, TypeOK, DevType, CloseBackend
<1>3. workCh' \in Seq(Works(limits.resets, dev.nextWork))
  <2>1. workCh \in Seq(Works(limits.resets, dev.nextWork))
    BY DEF IInv, WorksOK
  <2>2. workCh' = workCh \/ workCh' = <<>>
    BY DEF CloseBackend
  <2> QED
    BY <2>1, <2>2, SeqBuilt
<1>4. TypeOK'
  BY <1>1, <1>2 DEF IInv, TypeOK, RingType, MuType, LimitsType
<1>5. GenerationOK'
  BY <1>1, <1>2 DEF IInv, GenerationOK, Bumped
<1>6. WorksOK'
  BY <1>1, <1>2, <1>3 DEF IInv, WorksOK
<1>7. RingOK'
  BY <1>1, <1>2 DEF IInv, RingOK
<1>8. QuietOK'
  BY <1>1 DEF IInv, QuietOK
<1> QED
  BY <1>4, <1>5, <1>6, <1>7, <1>8 DEF IInv

\* An incomplete close is called again.
LEMMA CloseAgainStep == ASSUME IInv, CloseAgain PROVE IInv'
<1>1. TypeOK'
  BY DEF IInv, TypeOK, RingType, DevType, MuType, LimitsType, CloseAgain, closeOnly
<1>2. GenerationOK'
  BY DEF IInv, TypeOK, GenerationOK, Bumped, CloseAgain, closeOnly
<1>3. WorksOK'
  BY DEF IInv, TypeOK, WorksOK, CloseAgain, closeOnly
<1>4. RingOK'
  BY DEF IInv, TypeOK, RingOK, CloseAgain, closeOnly
<1>5. QuietOK'
  BY DEF IInv, TypeOK, QuietOK, CloseAgain, closeOnly
<1> QED
  BY <1>1, <1>2, <1>3, <1>4, <1>5 DEF IInv

\* The close returns what the backend did.
LEMMA CloseReturnsStep == ASSUME IInv, CloseReturns PROVE IInv'
<1>1. TypeOK'
  BY DEF IInv, TypeOK, RingType, DevType, MuType, LimitsType, CloseReturns, closeOnly
<1>2. GenerationOK'
  BY DEF IInv, TypeOK, GenerationOK, Bumped, CloseReturns, closeOnly
<1>3. WorksOK'
  BY DEF IInv, TypeOK, WorksOK, CloseReturns, closeOnly
<1>4. RingOK'
  BY DEF IInv, TypeOK, RingOK, CloseReturns, closeOnly
<1>5. QuietOK'
  BY DEF IInv, TypeOK, QuietOK, CloseReturns, closeOnly
<1> QED
  BY <1>1, <1>2, <1>3, <1>4, <1>5 DEF IInv

\* The backend returns, or runs out of time.
LEMMA BackendReturnsStep == ASSUME IInv, BackendReturns PROVE IInv'
<1>1. TypeOK'
  <2>1. limits' = limits \/ limits' = [limits EXCEPT !.timeouts = limits.timeouts + 1]
    BY DEF BackendReturns, TimesOut
  <2>2. limits.timeouts + 1 \in Nat
    BY Counters DEF IInv
  <2>3. LimitsType'
    BY <2>1, <2>2 DEF IInv, TypeOK, LimitsType
  <2> QED
    BY <2>3 DEF IInv, TypeOK, RingType, DevType, MuType, BackendReturns, closeOnly
<1>2. GenerationOK'
  BY DEF IInv, TypeOK, LimitsType, GenerationOK, Bumped, BackendReturns, closeOnly, TimesOut
<1>3. WorksOK'
  BY DEF IInv, TypeOK, LimitsType, WorksOK, BackendReturns, closeOnly, TimesOut
<1>4. RingOK'
  BY DEF IInv, TypeOK, LimitsType, RingOK, BackendReturns, closeOnly, TimesOut
<1>5. QuietOK'
  BY DEF IInv, TypeOK, LimitsType, QuietOK, BackendReturns, closeOnly, TimesOut
<1> QED
  BY <1>1, <1>2, <1>3, <1>4, <1>5 DEF IInv

-----------------------------------------------------------------------------
\* Every step of the device, the guest and the host keeps the invariant.
LEMMA Inductive == IInv /\ [Next]_vars => IInv'
<1> SUFFICES ASSUME IInv, [Next]_vars PROVE IInv'
  OBVIOUS
<1>1. CASE UNCHANGED vars
  <2>1. UNCHANGED <<ring, dev, mu, workCh, works, workers, closed, once, closer, backend, limits>>
    BY <1>1 DEF vars
  <2>2. TypeOK'
    BY <2>1 DEF IInv, TypeOK, RingType, DevType, MuType, LimitsType
  <2>3. GenerationOK'
    BY <2>1 DEF IInv, GenerationOK, Bumped
  <2>4. WorksOK' /\ QuietOK'
    BY <2>1 DEF IInv, WorksOK, QuietOK
  <2>5. RingOK'
    BY <2>1 DEF IInv, RingOK
  <2> QED
    BY <2>2, <2>3, <2>4, <2>5 DEF IInv
<1>2. CASE QueueReady \/ Post \/ Notify \/ GuestStep \/ resetLocked
  BY <1>2, QueueReadyStep, PostStep, NotifyStep, InterruptStep, EnableStep, resetLockedStep DEF GuestStep
<1>3. CASE \E t \in {VCPU} \cup Pollers : enqueueWorks(t)
  BY <1>3, enqueueWorksStep DEF Threads
<1>4. CASE \E p \in Pollers : PollStep(p)
  BY <1>4, PollClosedStep, PollOutdatedStep, PollHarvestStep, PollStopsStep DEF PollStep
<1>5. CASE \E w \in Workers : WorkerStep(w)
  BY <1>5, TakeStep, ExitStep, completeWorkStep, DrainStep, WrittenStep, DrainedStep DEF WorkerStep
<1>6. CASE Poke \/ CloseSignal \/ CloseTimesOut \/ BackendReturns
  BY <1>6, PokeStep, CloseSignalStep, CloseTimesOutStep, BackendReturnsStep
<1>7. CASE CloseStep
  BY <1>7, CloseLockedStep, CloseBackendStep, CloseAgainStep, CloseReturnsStep DEF CloseStep
<1> QED
  BY <1>1, <1>2, <1>3, <1>4, <1>5, <1>6, <1>7 DEF Next

\* The works, the used ring and the workers agree in every behaviour of the
\* queue, whatever the guest resets and the host closes.
THEOREM Invariance == Spec => []IInv
<1>1. Init => IInv
  BY Initial
<1> QED
  BY <1>1, Inductive, PTL DEF Spec

\* The guest finds the answers to the requests of its own generation in the used
\* ring, each once and in order, with any number of workers that serve them in
\* any order and any number of resets in between (writeCompletionLocked).
THEOREM InOrder == Spec => []AnsweredInOrder
<1>1. ASSUME IInv PROVE AnsweredInOrder
  <2> DEFINE g == limits.resets
             n == IF mu.at = "loaded" THEN dev.nextComplete - 1 ELSE dev.nextComplete
  <2>1. n \in Nat /\ n <= ring.posted /\ g \in Nat
    <3>1. mu.at = "loaded" => dev.nextComplete > 0
      BY <1>1 DEF IInv, RingOK
    <3> QED
      BY <1>1, <3>1, Counters, Order DEF IInv
  <2>2. ring.used = Answers(g, n)
    BY <1>1 DEF IInv, RingOK
  <2>3. Len(ring.used) = n /\ DOMAIN ring.used = 1..n
    BY <2>1, <2>2, AnswersExtend DEF Answers
  <2>4. \A k \in DOMAIN ring.used : ring.used[k].req = k /\ ring.used[k].gen = g
    BY <2>2, <2>3 DEF Answers
  <2> QED
    BY <2>1, <2>3, <2>4 DEF AnsweredInOrder
<1> QED
  BY <1>1, Invariance, PTL

\* However many workers there are and however often a Close ran out of time, the
\* backend is closed only when none of them is in it (closeWithin).
THEOREM Quiet == Spec => []BackendQuiet
<1>1. ASSUME IInv PROVE BackendQuiet
  BY <1>1 DEF IInv, QuietOK, BackendQuiet
<1> QED
  BY <1>1, Invariance, PTL
=============================================================================
