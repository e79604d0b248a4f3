------------------------------- MODULE Weave --------------------------------
(***************************************************************************)
(* Bound and weave phases of zsim (contention_sim.h, contention_sim.cpp)   *)
(* with the cores, the timing cache and the memory controllers whose       *)
(* events they exchange.  In a bound phase cores join, run basic blocks,   *)
(* access memory and leave.  When every running core has passed the end of *)
(* the phase, simulatePhase() wakes the simulation threads; each owns one  *)
(* or several domains and runs their events in order of cycles, up to the  *)
(* end of the phase.  Domains meet only in crossings: the thread of one    *)
(* polls the other's curCycle and the flag called, without a lock.         *)
(*                                                                         *)
(* A step of a thread goes from one access of another domain's state to    *)
(* the next.  A domain's queue is the ordered queue that PrioQueue         *)
(* implements: equal cycles come out in any order.                         *)
(* Definitions marked "Wrong" are variants that no other one uses.         *)
(***************************************************************************)
EXTENDS CoreRecorder

CONSTANTS Threads,      \* simulation threads
          Configs       \* systems and loads: see WeaveAssumption

\* owner: the thread of each domain; blocks: the lengths of basic blocks in
\* cycles; shapes: the accesses a core makes, [op, put, line, mem, wb, lookups];
\* accesses, joins: how often each core may access memory and join; phases: the
\* number of phases; mshrs: the MSHRs of the cache.
ASSUME WeaveAssumption ==
    \A k \in Configs :
        /\ k.owner \in [Domains -> Threads]
        /\ k.blocks \subseteq Nat \ {0}
        /\ \A c \in Cores : \A s \in k.shapes[c] : s.op \in {"put", "hit", "miss"}
        /\ k.accesses \in [Cores -> Nat] /\ k.joins \in [Cores -> Nat]
        /\ k.phases \in Nat /\ k.mshrs \in Nat \ {0}

VARIABLES
    events,         \* the event graph
    pq, curCycle, prio, queuePrio,      \* the fields of each domain
    recorder,       \* the recorder of each core, with the core's clock
    cache,          \* the timing cache
    lastCrossing,   \* lastCrossing
    sim,            \* limit, lastLimit, inCSim, globPhase; waitLock, threadsDone
    thread,         \* program counter and locals of each simulation thread
    config,         \* the member of Configs that runs; accesses and joins count down
    failed          \* history: assertions that have failed

domainVars == <<pq, curCycle, prio, queuePrio>>
weaveVars == <<events, pq, curCycle, prio, queuePrio, recorder, cache, lastCrossing,
               sim, thread, config, failed>>

World == [ev |-> events, pq |-> pq, cur |-> curCycle, prio |-> prio, rec |-> recorder,
          cache |-> cache, last |-> lastCrossing, stack |-> <<>>, sim |-> sim, failed |-> failed]

\* The step ends in world w; clocks, locks and threads are the action's own.
Becomes(w) ==
    /\ events' = w.ev /\ pq' = w.pq /\ prio' = w.prio /\ recorder' = w.rec
    /\ cache' = w.cache /\ lastCrossing' = w.last /\ failed' = w.failed

Asleep == [pc |-> "sleep", wake |-> FALSE, dom |-> 0, ev |-> Null, cycle |-> 0, next |-> 0,
           ready |-> {}, stalled |-> <<>>, nextStalled |-> <<>>, finished |-> 0, polled |-> FALSE]

WeaveInit ==
    /\ events = [c \in Cores |-> <<>>]
    /\ pq = [d \in Domains |-> {}]
    /\ curCycle = [d \in Domains |-> 0]
    /\ prio = [d \in Domains |-> 0]
    /\ queuePrio = [d \in Domains |-> 0]
    /\ recorder = [c \in Cores |-> RecorderInit]
    /\ lastCrossing = [k \in Cores \X Domains \X Domains |-> [cycle |-> 0, ev |-> Null]]
    /\ sim = [limit |-> 0, lastLimit |-> 0, inCSim |-> FALSE, globPhase |-> 0,
              waitLock |-> TRUE, threadsDone |-> 0]
    /\ thread = [t \in Threads |-> Asleep]
    /\ config \in Configs
    /\ cache = CacheInit(config.mshrs)
    /\ failed = {}

-----------------------------------------------------------------------------
(* The bound phase: calls of the cores.                                    *)

Bound == ~sim.inCSim /\ sim.globPhase < config.phases * PhaseLength
Running(c) == recorder[c].state = "RUNNING" /\ ~recorder[c].waiting

Join(c) ==
    /\ Bound
    /\ recorder[c].state # "RUNNING" /\ config.joins[c] > 0
    /\ config' = [config EXCEPT !.joins[c] = @ - 1]
    /\ Becomes(NotifyJoin(World, c))
    /\ UNCHANGED <<curCycle, queuePrio, sim, thread>>

\* Wrong: the barrier is taken at the end of the phase, not past it.
BblAtEnd(c, n) ==
    /\ Bound /\ Running(c)
    /\ recorder' = [recorder EXCEPT ![c].cur = @ + n,
                                    ![c].waiting = recorder[c].cur + n >= PhaseEnd(World)]
    /\ UNCHANGED <<events, domainVars, cache, lastCrossing, sim, thread, config, failed>>

\* A basic block; past the end of the phase the core takes the barrier.
Bbl(c, n) ==
    /\ Bound /\ Running(c)
    /\ recorder' = [recorder EXCEPT ![c].cur = @ + n,
                                    ![c].waiting = recorder[c].cur + n > PhaseEnd(World)]
    /\ UNCHANGED <<events, domainVars, cache, lastCrossing, sim, thread, config, failed>>

AccessRecord(w, c, s) ==
    LET start == w.rec[c].cur
        cycle == start + L1Lat
        Get(v) == IF s.op = "hit" THEN HitRecord(v, c, cycle)
                  ELSE MissRecord(v, c, cycle, s.line, s.mem, s.wb, s.lookups)
        put == HitRecord(w, c, cycle)
    IN CASE s.op = "put" -> put
         [] s.op # "put" /\ s.put -> Stitched(c, start, put, Get(put.w))
         [] OTHER -> Get(w)

Access(c, s) ==
    LET tr == AccessRecord(World, c, s)
        start == recorder[c].cur
        w == RecordAccess(c, start, tr, s.op # "put")
    IN /\ Bound /\ Running(c) /\ config.accesses[c] > 0
       /\ config' = [config EXCEPT !.accesses[c] = @ - 1]
       /\ Becomes([w EXCEPT !.rec[c].cur = IF s.op = "put" THEN start + L1Lat ELSE tr.resp])
       /\ UNCHANGED <<curCycle, queuePrio, sim, thread>>

Leave(c) ==
    /\ Bound /\ Running(c)
    /\ Becomes(NotifyLeave(World, c))
    /\ UNCHANGED <<curCycle, queuePrio, sim, thread, config>>

-----------------------------------------------------------------------------
(* simulatePhase(), called when all running cores are at the barrier.      *)

SimThreads == {config.owner[d] : d \in Domains}

EachCore(w, Op(_, _)) == FoldLeft(Op, w, SetToSeq(Cores))

SimulatePhase ==
    LET limit == PhaseEnd(World)
        w == Checked(EachCore(World, CSimStart), limit >= sim.lastLimit, "simulatePhase")
    IN /\ Bound
       /\ \A c \in Cores : recorder[c].state = "RUNNING" => recorder[c].waiting
       /\ Becomes(w)
       /\ sim' = [sim EXCEPT !.limit = limit, !.inCSim = TRUE]
       /\ thread' = [t \in Threads |-> [thread[t] EXCEPT !.wake = t \in SimThreads]]
       /\ UNCHANGED <<curCycle, queuePrio, config>>

\* The last thread has unlocked waitLock.  The next phase starts; a core whose
\* clock is past its end goes straight to the next barrier.
PhaseSimulated ==
    LET w == EachCore(World, CSimEnd)
        next == PhaseEnd(World) + PhaseLength
    IN /\ sim.inCSim /\ ~sim.waitLock
       /\ sim' = [sim EXCEPT !.inCSim = FALSE, !.waitLock = TRUE, !.lastLimit = sim.limit,
                             !.globPhase = @ + PhaseLength]
       /\ Becomes([w EXCEPT !.rec = [c \in Cores |->
              [@[c] EXCEPT !.waiting = @ /\ w.rec[c].cur > next]]])
       /\ UNCHANGED <<curCycle, queuePrio, thread, config>>

-----------------------------------------------------------------------------
(* simThreadLoop() and simulatePhaseThread().                              *)

Mine(t) == {d \in Domains : config.owner[d] = t}
OneDomain(t) == Cardinality(Mine(t)) = 1
FirstCycle(d) == CHOOSE n \in {q.cycle : q \in pq[d]} : \A q \in pq[d] : n <= q.cycle
Firsts(d) == {q \in pq[d] : q.cycle = FirstCycle(d)}

Wake(t) ==
    /\ thread[t].pc = "sleep" /\ thread[t].wake
    /\ thread' = [thread EXCEPT ![t] = [Asleep EXCEPT !.pc = "top", !.ready = Mine(t)]]
    /\ UNCHANGED <<events, domainVars, recorder, cache, lastCrossing, sim, config, failed>>

\* The first event q of domain d is taken and the domain's clock follows it.
TakeEvent(t, d, q, th) ==
    /\ pq' = [pq EXCEPT ![d] = @ \ {q}]
    /\ curCycle' = [curCycle EXCEPT ![d] = q.cycle]
    /\ thread' = [thread EXCEPT ![t] = [th EXCEPT !.pc = "run", !.dom = d, !.ev = q.ev, !.cycle = q.cycle]]
    /\ UNCHANGED <<events, prio, queuePrio, recorder, cache, lastCrossing, sim, config>>

\* A domain without events up to the limit is finished, and its clock says so.
CloseDomain(t, d, th) ==
    /\ curCycle' = [curCycle EXCEPT ![d] = sim.limit]
    /\ thread' = [thread EXCEPT ![t] = th]
    /\ UNCHANGED <<events, pq, prio, queuePrio, recorder, cache, lastCrossing, sim, config, failed>>

NextOfOne(t) ==
    \E d \in Mine(t) :
        /\ thread[t].pc = "top" /\ OneDomain(t)
        /\ IF pq[d] # {} /\ FirstCycle(d) < sim.limit
           THEN \E q \in Firsts(d) :
                    /\ failed' = Checked(World, q.cycle >= curCycle[d], "simulatePhaseThread").failed
                    /\ TakeEvent(t, d, q, thread[t])
           ELSE CloseDomain(t, d, [thread[t] EXCEPT !.pc = "done"])

\* With several domains: those not stalled first, the least queuePrio first,
\* then the stalled ones, last stalled first.  A round of stalled domains ends
\* with the exchange of the two stalled queues.
Exchange(th) ==
    IF th.stalled # <<>> THEN th ELSE [th EXCEPT !.stalled = th.nextStalled, !.nextStalled = <<>>]

NextDomain(t, d, th) ==
    IF pq[d] # {} /\ FirstCycle(d) <= sim.limit
    THEN \E q \in Firsts(d) : TakeEvent(t, d, q, th) /\ UNCHANGED failed
    ELSE LET closed == [th EXCEPT !.finished = @ + 1]
         IN CloseDomain(t, d, IF th.polled THEN Exchange(closed) ELSE closed)

NextOfMany(t) ==
    LET th == thread[t] IN
    /\ th.pc = "top" /\ ~OneDomain(t)
    /\ \/ \E d \in th.ready :
              /\ \A e \in th.ready : queuePrio[d] <= queuePrio[e]
              /\ NextDomain(t, d, [th EXCEPT !.ready = @ \ {d}, !.polled = FALSE])
       \/ /\ th.ready = {} /\ th.stalled # <<>>
          /\ NextDomain(t, Last(th.stalled), [th EXCEPT !.stalled = Front(@), !.polled = TRUE])
       \/ /\ th.ready = {} /\ th.stalled = <<>>
          /\ thread' = [thread EXCEPT ![t] =
                IF th.finished = Cardinality(Mine(t)) THEN [th EXCEPT !.pc = "done"] ELSE Exchange(th)]
          /\ UNCHANGED <<events, domainVars, recorder, cache, lastCrossing, sim, config, failed>>

\* run(); an event of a stalled domain is simulated without its checks.
Begin(w, e, cycle, polled) ==
    LET ev == At(w, e)
        v == Checked(w, polled \/ (ev.state \in {"NONE", "QUEUED"} /\ ev.min # Unset /\ cycle >= ev.min), "run")
    IN [Started(v, e, cycle) EXCEPT !.ev[e[1]][e[2]].state = "RUNNING"]

\* Wrong: the cycle at which the source event finished is not looked at.
CrossingDoneNow(w, e, cycle) == Done([w EXCEPT !.prio[At(w, e).dom] = 0], e, cycle)

CrossingDone(w, e, cycle) ==
    Done([w EXCEPT !.prio[At(w, e).dom] = 0], e, Larger(cycle, At(w, e).x.doneCycle))

Simulate(w, e, cycle) ==
    LET kind == At(w, e).kind IN
    CASE kind = "core" -> SimulateCore(w, e, cycle)
      [] kind = "hit" -> SimulateHit(w, e, cycle)
      [] kind = "mstart" -> SimulateMissStart(w, e, cycle)
      [] kind = "mresp" -> Done(w, e, cycle)
      [] kind = "mwb" -> SimulateMissWriteback(w, e, cycle)
      [] kind = "repl" -> SimulateReplAccess(w, e, cycle)
      [] kind = "mem" -> Done(w, e, cycle + At(w, e).x.lat)
      [] kind = "xing" -> CrossingDone(w, e, cycle)

Polls(w, e) == At(w, e).kind = "xing" /\ ~At(w, e).x.called

RunEvent(t) ==
    LET th == thread[t]
        w == Begin(World, th.ev, th.cycle, th.polled)
        poll == Polls(w, th.ev)
    IN /\ th.pc = "run"
       /\ Becomes(IF poll THEN w ELSE Simulate(w, th.ev, th.cycle))
       /\ thread' = [thread EXCEPT ![t] =
             [th EXCEPT !.pc = IF poll THEN "source" ELSE "advance"]]
       /\ UNCHANGED <<curCycle, queuePrio, sim, config>>

\* CrossingEvent::simulate(), when called is not set: it reads the source
\* domain's cycle, then the slack of the core, then looks at called again.
ReadSource(t) ==
    LET x == At(World, thread[t].ev).x IN
    /\ thread[t].pc = "source"
    /\ thread' = [thread EXCEPT ![t].pc = "slack", ![t].next = curCycle[x.src] + x.slack]
    /\ UNCHANGED <<events, domainVars, recorder, cache, lastCrossing, sim, config, failed>>

ReadSlack(t) ==
    LET th == thread[t]
        x == At(World, th.ev).x
    IN /\ th.pc = "slack"
       /\ thread' = [thread EXCEPT ![t].pc = "recheck",
             ![t].next = Larger(Larger(@, x.orig + recorder[th.ev[1]].slack + x.postSlack), th.cycle)]
       /\ UNCHANGED <<events, domainVars, recorder, cache, lastCrossing, sim, config, failed>>

\* Wrong: the crossing trusts the first look at called.
PollsBlindly(w, e) == TRUE

StillPolls(w, e) == Polls(w, e)

Recheck(t) ==
    LET th == thread[t]
        e == th.ev
        w == [World EXCEPT !.prio[th.dom] = IF th.next = th.cycle THEN 1 ELSE 2,
                           !.ev[e[1]][e[2]].parents = 0,
                           !.ev[e[1]][e[2]].x.asked = IF th.next > th.cycle THEN th.next ELSE @]
    IN /\ th.pc = "recheck"
       /\ Becomes(IF StillPolls(World, e) THEN Requeue(w, e, th.next) ELSE CrossingDone(World, e, th.cycle))
       /\ thread' = [thread EXCEPT ![t].pc = "advance"]
       /\ UNCHANGED <<curCycle, queuePrio, sim, config>>

\* The clock moves on to the next event.  A thread with one domain goes on with
\* it (taking it writes the same clock again); with several, the domain is put
\* back among the ready or the stalled ones.
AdvanceOne(t) ==
    LET th == thread[t]
        d == th.dom
        next == IF pq[d] # {} THEN FirstCycle(d) ELSE sim.limit
    IN /\ th.pc = "advance" /\ OneDomain(t)
       /\ failed' = Checked(World, next >= th.cycle, "newCycle").failed
       /\ IF pq[d] # {} /\ next < sim.limit
          THEN \E q \in Firsts(d) : TakeEvent(t, d, q, th)
          ELSE /\ curCycle' = [curCycle EXCEPT ![d] = next]
               /\ thread' = [thread EXCEPT ![t].pc = "top"]
               /\ UNCHANGED <<events, pq, prio, queuePrio, recorder, cache, lastCrossing, sim, config>>

AdvanceMany(t) ==
    LET th == [thread[t] EXCEPT !.pc = "top"]
        d == th.dom
        next == IF pq[d] # {} THEN FirstCycle(d) ELSE sim.limit
        put == CASE prio[d] = 0 -> [th EXCEPT !.ready = @ \cup {d}]
                 [] prio[d] # 0 /\ th.polled -> [th EXCEPT !.nextStalled = Append(@, d)]
                 [] OTHER -> [th EXCEPT !.stalled = Append(@, d)]
    IN /\ thread[t].pc = "advance" /\ ~OneDomain(t)
       /\ curCycle' = [curCycle EXCEPT ![d] = next]
       /\ queuePrio' = [queuePrio EXCEPT ![d] = next]
       /\ thread' = [thread EXCEPT ![t] = IF th.polled THEN Exchange(put) ELSE put]
       /\ UNCHANGED <<events, pq, prio, recorder, cache, lastCrossing, sim, config, failed>>

\* Wrong: the count of finished threads is kept for the next phase.
FinishKeepsCount(t) ==
    LET n == sim.threadsDone + 1 IN
    /\ thread[t].pc = "done"
    /\ thread' = [thread EXCEPT ![t] = Asleep]
    /\ sim' = [sim EXCEPT !.threadsDone = n, !.waitLock = n # Cardinality(SimThreads)]
    /\ UNCHANGED <<events, domainVars, recorder, cache, lastCrossing, config, failed>>

\* The thread that finishes last wakes the caller of simulatePhase().
Finish(t) ==
    LET n == sim.threadsDone + 1 IN
    /\ thread[t].pc = "done"
    /\ thread' = [thread EXCEPT ![t] = Asleep]
    /\ sim' = IF n = Cardinality(SimThreads)
              THEN [sim EXCEPT !.threadsDone = 0, !.waitLock = FALSE]
              ELSE [sim EXCEPT !.threadsDone = n]
    /\ UNCHANGED <<events, domainVars, recorder, cache, lastCrossing, config, failed>>

ThreadStep(t) ==
    \/ Wake(t) \/ NextOfOne(t) \/ NextOfMany(t) \/ RunEvent(t)
    \/ ReadSource(t) \/ ReadSlack(t) \/ Recheck(t) \/ AdvanceOne(t) \/ AdvanceMany(t) \/ Finish(t)

WeaveNext ==
    \/ \E c \in Cores : Join(c) \/ Leave(c)
    \/ \E c \in Cores, n \in config.blocks : Bbl(c, n)
    \/ \E c \in Cores : \E s \in config.shapes[c] : Access(c, s)
    \/ SimulatePhase
    \/ PhaseSimulated
    \/ \E t \in Threads : ThreadStep(t)

\* A simulation thread that can run is scheduled by the operating system, and
\* so is the caller of simulatePhase().  This is weak fairness of ThreadStep(t)
\* and of PhaseSimulated, with their enabling conditions written out: evaluating
\* ENABLED would simulate every event twice.
CanStep(t) == thread[t].pc # "sleep" \/ thread[t].wake
Steps(t) == thread'[t] # thread[t]
CanEnd == sim.inCSim /\ ~sim.waitLock
Ends == sim.inCSim /\ ~sim'.inCSim

Fairness ==
    /\ \A t \in Threads : []<>~CanStep(t) \/ []<><<Steps(t)>>_weaveVars
    /\ []<>~CanEnd \/ []<><<Ends>>_weaveVars

WeaveSpec == WeaveInit /\ [][WeaveNext]_weaveVars /\ Fairness

-----------------------------------------------------------------------------
(* Properties.                                                             *)

\* No assertion of the weave phase fails: events are queued neither in the
\* past of their domain nor before the last limit, they run once and not
\* before minStartCycle, crossings are marked once, the skew is not negative.
WeaveAsserts == failed \subseteq {"early", "port"}

\* visitChildren() reaches every child of an event, also the ones that are
\* added while it looks for crossings.
AllChildrenVisited == "visitChildren" \notin failed

\* No event starts before all the events it depends on have finished, in
\* whatever domain they are, plus the delays between them.
NoEarlyStart == "early" \notin failed

\* A crossing that has to wait is never put off past the cycle its source event
\* finishes (plus the delay it stole from the child): what it reads of another
\* domain, without a lock, is a lower bound while called is not set.
NotPutOff ==
    \A c \in Cores : \A i \in DOMAIN events[c] :
        LET e == events[c][i] IN
        e.kind = "xing" /\ e.x.called => e.x.asked <= e.x.doneCycle + e.x.postSlack

\* The tag port of the cache serves one access per cycle, although writebacks
\* are granted a cycle that has already passed.
OnePortAccess == "port" \notin failed

\* The MSHRs on the list are those in use, no event waits for an MSHR while one
\* is free, and none is held that a released MSHR would not queue again.
MSHRsAgree ==
    /\ cache.activeMisses = Cardinality({i \in 1..cache.numMSHRs : cache.mshrList[i] # Null})
    /\ cache.pendingQueue # <<>> => cache.activeMisses = cache.numMSHRs
    /\ \A c \in Cores : \A i \in DOMAIN events[c] :
          events[c][i].state = "HELD" => <<c, i>> \in Range(cache.pendingQueue)

\* A weave phase comes to its end: polling crossings never wait for each other
\* and no event is left held.
PhaseEnds == sim.inCSim ~> ~sim.inCSim
=============================================================================
