------------------------------ MODULE FSQueue ------------------------------
(***************************************************************************)
(* The request queue of the virtio-fs device, internal/virtio/fs.go, in its  *)
(* asynchronous mode.  A kick of the guest, or the kick poller, harvests the *)
(* posted requests under FS.mu and hands them to the workers outside it; the *)
(* workers serve them in any order; completions go back to the guest in the  *)
(* order of the harvest.  The guest may reset the device at any moment.  The  *)
(* host closes it when the virtual CPUs have stopped, with a time limit, and  *)
(* may try again.                                                           *)
(*                                                                          *)
(* The used ring and the guest's interrupt flag are shared memory.  The       *)
(* device stores the ring index and loads the flag without a fence, so the    *)
(* load may take effect first; the guest has its fences.                    *)
(***************************************************************************)
EXTENDS Naturals, Sequences

CONSTANTS
    Workers,       \* runWorker goroutines
    Pollers,       \* runKickPoller goroutines that can be alive at once
    Depth,         \* capacity of workCh (fsWorkQueueDepth)
    MaxPosts,      \* bound: requests posted between two resets
    MaxResets,     \* bound: resets
    MaxTimeouts    \* bound: times a Close gives up waiting

VARIABLES
    ring,      \* shared memory: requests posted, the used ring, the flag
    guest,     \* the driver of the guest
    dev,       \* what FS.mu guards
    mu,        \* FS.mu: free, or held by a worker that drains completions
    workCh,
    works,     \* of each thread that enqueues, what it still has to enqueue
    workers, pollers,
    closed,    \* the channel of that name
    once,      \* workerOnce is done
    closer,    \* the goroutine in closeWithin
    backend,
    limits     \* what counts against the bounds

vars == <<ring, guest, dev, mu, workCh, works, workers, pollers, closed, once, closer, backend, limits>>

VCPU == "vcpu"
Unlocked == [by |-> "nobody", at |-> "", req |-> [gen |-> 0, req |-> 0], flag |-> FALSE]
Asleep == [at |-> "sleep", kick |-> FALSE, seen |-> 0]
EmptyRing == [posted |-> 0, used |-> <<>>, noInterrupt |-> FALSE]

Init ==
    /\ ring = EmptyRing
    /\ guest = Asleep
    /\ \E kickPoll \in BOOLEAN :
          dev = [gen |-> 0, ready |-> FALSE, lastAvail |-> 0, nextWork |-> 0, nextComplete |-> 0,
                 completions |-> {}, irq |-> FALSE, kickPoll |-> kickPoll, active |-> FALSE, mem |-> TRUE]
    /\ mu = Unlocked
    /\ workCh = <<>>
    /\ works = [t \in {VCPU} \cup Pollers |-> <<>>]
    /\ workers = [w \in Workers |-> [at |-> "off"]]
    /\ pollers = [p \in Pollers |-> [at |-> "none"]]
    /\ closed = FALSE /\ once = FALSE
    /\ closer = "idle" /\ backend = "open"
    /\ limits = [resets |-> 0, timeouts |-> 0]

Free == mu = Unlocked

-----------------------------------------------------------------------------
(* The guest: it posts and kicks; an interrupt makes it scan the used ring    *)
(* with interrupts off, turn them on and look once more.                    *)

guestOnly == ~closed /\ UNCHANGED <<mu, workCh, works, workers, pollers, closed, once, closer, backend>>

QueueReady ==
    /\ Free /\ ~dev.ready /\ dev' = [dev EXCEPT !.ready = TRUE]
    /\ UNCHANGED <<ring, guest, limits>> /\ guestOnly

Post ==
    /\ dev.ready /\ ring.posted < MaxPosts
    /\ ring' = [ring EXCEPT !.posted = @ + 1]
    /\ guest' = [guest EXCEPT !.kick = TRUE]
    /\ UNCHANGED <<dev, limits>> /\ guestOnly

Interrupt ==
    /\ Free /\ guest.at = "sleep" /\ dev.irq
    /\ dev' = [dev EXCEPT !.irq = FALSE]
    /\ ring' = [ring EXCEPT !.noInterrupt = TRUE]
    /\ guest' = [guest EXCEPT !.at = "scan", !.seen = Len(ring.used)]
    /\ UNCHANGED limits /\ guestOnly

Enable ==
    /\ guest.at = "scan"
    /\ IF guest.seen < Len(ring.used)
       THEN guest' = [guest EXCEPT !.seen = Len(ring.used)] /\ UNCHANGED ring
       ELSE /\ guest' = [guest EXCEPT !.at = "sleep"]
            /\ ring' = [ring EXCEPT !.noInterrupt = FALSE]
    /\ UNCHANGED <<dev, limits>> /\ guestOnly

\* resetLocked, and a driver that starts over.
resetLocked ==
    /\ Free /\ limits.resets < MaxResets
    /\ limits' = [limits EXCEPT !.resets = @ + 1]
    /\ dev' = [dev EXCEPT !.gen = @ + 1, !.ready = FALSE, !.lastAvail = 0, !.nextWork = 0,
                          !.nextComplete = 0, !.completions = {}, !.irq = FALSE, !.active = FALSE]
    /\ ring' = EmptyRing
    /\ guest' = Asleep
    /\ guestOnly

-----------------------------------------------------------------------------
(* Harvesting and enqueueing.                                              *)

\* processQueueAsyncLocked with prepareRequestLocked.
CanHarvest == dev.ready /\ dev.mem
Harvest ==
    IF ~CanHarvest THEN <<>>
    ELSE [k \in 1..(ring.posted - dev.lastAvail) |->
             [gen |-> dev.gen, seq |-> dev.nextWork + k - 1, req |-> dev.lastAvail + k]]
Harvested(d) ==
    IF ~CanHarvest THEN d
    ELSE [d EXCEPT !.lastAvail = ring.posted, !.nextWork = @ + (ring.posted - dev.lastAvail)]

Starts == dev.kickPoll /\ ~dev.active

\* MMIO write of the notify register, up to where the lock is released.
Notify ==
    /\ ~closed /\ Free /\ guest.kick /\ works[VCPU] = <<>>
    /\ guest' = [guest EXCEPT !.kick = FALSE]
    /\ works' = [works EXCEPT ![VCPU] = Harvest]
    /\ IF Starts
       THEN LET p == CHOOSE q \in Pollers : pollers[q].at = "none"
            IN  /\ pollers' = [pollers EXCEPT ![p] = [at |-> "top", gen |-> dev.gen]]
                /\ dev' = [Harvested(dev) EXCEPT !.active = TRUE]
       ELSE dev' = Harvested(dev) /\ UNCHANGED pollers
    /\ UNCHANGED <<ring, mu, workCh, workers, closed, once, closer, backend, limits>>

\* Mutant: the turn waits for room in the channel whatever happens.
enqueueWaits(t) ==
    /\ works[t] # <<>>
    /\ works' = [works EXCEPT ![t] = Tail(@)]
    /\ Len(workCh) < Depth /\ workCh' = Append(workCh, Head(works[t]))
    /\ once' = TRUE
    /\ workers' = IF once THEN workers ELSE [w \in Workers |-> [at |-> "idle"]]
    /\ UNCHANGED <<ring, guest, dev, mu, pollers, closed, closer, backend, limits>>

\* One turn of enqueueWorks: the first one of all starts the workers.  When the
\* device is closed the work is dropped, or enters the channel if there is room.
enqueueWorks(t) ==
    /\ works[t] # <<>>
    /\ works' = [works EXCEPT ![t] = Tail(@)]
    /\ \/ closed /\ UNCHANGED workCh
       \/ Len(workCh) < Depth /\ workCh' = Append(workCh, Head(works[t]))
    /\ once' = TRUE
    /\ workers' = IF once THEN workers ELSE [w \in Workers |-> [at |-> "idle"]]
    /\ UNCHANGED <<ring, guest, dev, mu, pollers, closed, closer, backend, limits>>

Leaves(p) ==
    /\ pollers' = [pollers EXCEPT ![p] = [at |-> "none"]]
    /\ UNCHANGED works

pollOnly == UNCHANGED <<ring, guest, mu, workCh, workers, closed, once, closer, backend, limits>>

\* The poller has found the device closed, at the top or in its sleep.
PollClosed(p) ==
    /\ pollers[p].at = "top" /\ works[p] = <<>> /\ closed /\ Free
    /\ dev' = [dev EXCEPT !.active = @ /\ pollers[p].gen # dev.gen]
    /\ Leaves(p) /\ pollOnly

Outdated(p) == pollers[p].gen # dev.gen \/ ~dev.kickPoll

\* A poller of an earlier generation clears the mark of the present one.
PollOutdated(p) ==
    /\ pollers[p].at # "none" /\ works[p] = <<>> /\ Free /\ Outdated(p)
    /\ dev' = [dev EXCEPT !.active = FALSE]
    /\ Leaves(p) /\ pollOnly

\* A pass that finds work goes on.  After the idle time, the second of two
\* passes that find none ends the poller.
PollHarvest(p) ==
    /\ pollers[p].at = "top" /\ works[p] = <<>> /\ Free /\ ~Outdated(p) /\ Harvest # <<>>
    /\ works' = [works EXCEPT ![p] = Harvest]
    /\ dev' = Harvested(dev)
    /\ UNCHANGED pollers /\ pollOnly

PollStops(p) ==
    /\ pollers[p].at = "top" /\ works[p] = <<>> /\ Free /\ ~Outdated(p) /\ Harvest = <<>>
    /\ dev' = [dev EXCEPT !.active = FALSE]
    /\ Leaves(p) /\ pollOnly

-----------------------------------------------------------------------------
(* runWorker and completeWork.                                             *)

workerOnly == UNCHANGED <<guest, works, pollers, closed, once, closer, backend, limits>>
Becomes(w, s) == workers' = [workers EXCEPT ![w] = s]

Take(w) ==
    /\ workers[w].at = "idle" /\ ~closed /\ workCh # <<>>
    /\ Becomes(w, [at |-> "dispatch", work |-> Head(workCh)])
    /\ workCh' = Tail(workCh)
    /\ UNCHANGED <<ring, dev, mu>> /\ workerOnly

Exit(w) ==
    /\ workers[w].at = "idle" /\ closed
    /\ Becomes(w, [at |-> "gone"])
    /\ UNCHANGED <<ring, dev, mu, workCh>> /\ workerOnly

\* Mutant: the generation of the work is not looked at.
completeAnyWork(w) ==
    /\ workers[w].at = "dispatch" /\ Free
    /\ IF closed
       THEN Becomes(w, [at |-> "gone"]) /\ UNCHANGED <<dev, mu>>
       ELSE /\ dev' = [dev EXCEPT !.completions = @ \cup {workers[w].work}]
            /\ mu' = [Unlocked EXCEPT !.by = w, !.at = "drain"]
            /\ Becomes(w, [at |-> "drain"])
    /\ UNCHANGED <<ring, workCh>> /\ workerOnly

\* Dispatch has returned a reply, an error reply among them.
completeWork(w) ==
    /\ workers[w].at = "dispatch" /\ Free
    /\ IF closed THEN Becomes(w, [at |-> "gone"]) /\ UNCHANGED <<dev, mu>>
       ELSE IF workers[w].work.gen # dev.gen THEN Becomes(w, [at |-> "idle"]) /\ UNCHANGED <<dev, mu>>
       ELSE /\ dev' = [dev EXCEPT !.completions = @ \cup {workers[w].work}]
            /\ mu' = [Unlocked EXCEPT !.by = w, !.at = "drain"]
            /\ Becomes(w, [at |-> "drain"])
    /\ UNCHANGED <<ring, workCh>> /\ workerOnly

Due == {c \in dev.completions : c.seq = dev.nextComplete}

\* drainCompletionsLocked takes the next completion and writeCompletionLocked
\* stores it in the used ring, before or after the flag is loaded.
Drain(w) ==
    /\ mu.by = w /\ mu.at = "drain"
    /\ \E c \in Due :
          /\ dev' = [dev EXCEPT !.completions = @ \ {c}, !.nextComplete = @ + 1]
          /\ \/ /\ ring' = [ring EXCEPT !.used = Append(@, [gen |-> c.gen, req |-> c.req])]
                /\ mu' = [mu EXCEPT !.at = "stored"]
             \/ /\ mu' = [mu EXCEPT !.at = "loaded", !.req = [gen |-> c.gen, req |-> c.req],
                                    !.flag = ring.noInterrupt]
                /\ UNCHANGED ring
    /\ UNCHANGED <<workCh, workers>> /\ workerOnly

Written(w) ==
    LET flag == IF mu.at = "loaded" THEN mu.flag ELSE ring.noInterrupt
    IN  /\ mu.by = w /\ mu.at \in {"stored", "loaded"}
        /\ ring' = IF mu.at = "loaded" THEN [ring EXCEPT !.used = Append(@, mu.req)] ELSE ring
        /\ dev' = [dev EXCEPT !.irq = @ \/ ~flag]
        /\ mu' = [Unlocked EXCEPT !.by = w, !.at = "drain"]
        /\ UNCHANGED <<workCh, workers>> /\ workerOnly

Drained(w) ==
    /\ mu.by = w /\ mu.at = "drain" /\ Due = {}
    /\ mu' = Unlocked
    /\ Becomes(w, [at |-> "idle"])
    /\ UNCHANGED <<ring, dev, workCh>> /\ workerOnly

\* Mutant: the status bit is not set, so there is no level to raise.
PokeNoStatus ==
    /\ Free /\ dev.mem
    /\ UNCHANGED vars

\* Poke, by the keepalive of a running command.
Poke ==
    /\ Free /\ dev.mem
    /\ dev' = [dev EXCEPT !.irq = TRUE]
    /\ UNCHANGED <<ring, guest, mu, workCh, works, workers, pollers, closed, once, closer, backend, limits>>

-----------------------------------------------------------------------------
(* closeWithin.                                                            *)

closeOnly == UNCHANGED <<ring, guest, mu, works, workers, pollers>>

CloseSignal ==
    /\ closer = "idle" /\ ~closed /\ works[VCPU] = <<>>
    /\ closed' = TRUE /\ once' = TRUE /\ closer' = "start"
    /\ UNCHANGED <<dev, workCh, backend, limits>> /\ closeOnly

CloseLocked ==
    /\ closer = "start" /\ Free /\ closer' = "wait"
    /\ dev' = [dev EXCEPT !.kickPoll = FALSE, !.active = FALSE, !.gen = @ + 1]
    /\ UNCHANGED <<workCh, closed, once, backend, limits>> /\ closeOnly

WorkersDone ==
    /\ \A w \in Workers : workers[w].at \in {"off", "gone"}
    /\ \A p \in Pollers : pollers[p].at = "none"

\* The cleanup happens once; then the backend is closed by a goroutine, unless
\* an earlier call has started it.
CloseBackend ==
    /\ closer = "wait" /\ WorkersDone /\ Free
    /\ IF dev.mem
       THEN dev' = [dev EXCEPT !.mem = FALSE, !.irq = FALSE] /\ workCh' = <<>>
       ELSE UNCHANGED <<dev, workCh>>
    /\ closer' = "backend"
    /\ backend' = IF backend = "open" THEN "closing" ELSE backend
    /\ UNCHANGED <<closed, once, limits>> /\ closeOnly

TimesOut == limits.timeouts < MaxTimeouts /\ limits' = [limits EXCEPT !.timeouts = @ + 1]

\* Mutant: the backend is closed although the workers have not stopped.
CloseGivesUpWaiting ==
    /\ closer = "wait" /\ TimesOut
    /\ closer' = "backend" /\ backend' = "closing"
    /\ UNCHANGED <<dev, workCh, closed, once>> /\ closeOnly

\* The call returns CloseIncompleteError.
CloseTimesOut ==
    /\ closer \in {"wait", "backend"} /\ TimesOut
    /\ closer' = "idle"
    /\ UNCHANGED <<dev, workCh, closed, once, backend>> /\ closeOnly

CloseAgain ==
    /\ closer = "idle" /\ closed
    /\ closer' = "wait"
    /\ UNCHANGED <<dev, workCh, closed, once, backend, limits>> /\ closeOnly

BackendReturns ==
    /\ backend = "closing"
    /\ \/ backend' = "returned" /\ UNCHANGED limits
       \/ backend' = "incomplete" /\ TimesOut
    /\ UNCHANGED <<dev, workCh, closed, once, closer>> /\ closeOnly

\* A backend that was not done in time is closed again by the next call.
CloseReturns ==
    /\ closer = "backend" /\ backend \in {"returned", "incomplete"}
    /\ IF backend = "returned" THEN closer' = "done" /\ backend' = "closed"
                               ELSE closer' = "idle" /\ backend' = "open"
    /\ UNCHANGED <<dev, workCh, closed, once, limits>> /\ closeOnly

-----------------------------------------------------------------------------
GuestStep == Interrupt \/ Enable
PollStep(p) ==
    PollClosed(p) \/ PollOutdated(p) \/ PollHarvest(p) \/ PollStops(p)
WorkerStep(w) ==
    Take(w) \/ Exit(w) \/ completeWork(w) \/ Drain(w) \/ Written(w) \/ Drained(w)
CloseStep == CloseLocked \/ CloseBackend \/ CloseAgain \/ CloseReturns

Next ==
    \/ QueueReady \/ Post \/ Notify \/ GuestStep \/ resetLocked
    \/ \E t \in {VCPU} \cup Pollers : enqueueWorks(t)
    \/ \E p \in Pollers : PollStep(p)
    \/ \E w \in Workers : WorkerStep(w)
    \/ Poke
    \/ CloseSignal \/ CloseTimesOut \/ CloseStep \/ BackendReturns

\* Every goroutine and the guest's driver go on; the backend's calls return; the
\* keepalive ticks; a Close that was incomplete is called again.  Nothing makes
\* the guest post or reset, or the host close.
Fairness ==
    /\ WF_vars(Notify) /\ WF_vars(GuestStep) /\ WF_vars(Poke)
    /\ \A t \in {VCPU} \cup Pollers : WF_vars(enqueueWorks(t))
    /\ \A p \in Pollers : WF_vars(PollStep(p))
    /\ \A w \in Workers : WF_vars(WorkerStep(w))
    /\ WF_vars(CloseStep) /\ WF_vars(BackendReturns)

Spec == Init /\ [][Next]_vars /\ Fairness

-----------------------------------------------------------------------------
(* Properties.                                                             *)

\* The used ring returns the requests of this generation of the queue, each
\* once and in the order in which they were posted: whatever the workers and
\* pollers still hold of an earlier one never reaches the guest.
AnsweredInOrder ==
    /\ Len(ring.used) <= ring.posted
    /\ \A k \in DOMAIN ring.used : ring.used[k].req = k
    /\ \A k \in DOMAIN ring.used : ring.used[k].gen = limits.resets

\* Every request is answered and the guest sees the answer, unless it resets
\* the device or the host closes it: a lost interrupt is made good by Poke, and
\* no request stays behind one that was answered later.
AnswersSeen == (guest.seen < ring.posted) ~> (guest.seen = ring.posted \/ closed)

\* The backend is closed when no worker can be in it any more.
BackendQuiet ==
    backend # "open" =>
        \A w \in Workers : workers[w].at \notin {"dispatch", "drain"}

\* A Close that is called again after running out of time ends, whatever the
\* workers and pollers were doing, with a full channel too.
CloseEnds == closed ~> (backend = "closed")
=============================================================================
