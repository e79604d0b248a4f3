----------------------------- MODULE EventGraph -----------------------------
(***************************************************************************)
(* The timing events of zsim (timing_event.h, timing_event.cpp) and the    *)
(* three ways into a domain's queue (enqueue, enqueueSynced and            *)
(* enqueueCrossing of contention_sim.cpp), as operators on a world w:      *)
(*                                                                         *)
(*   w.ev[c][n]  the n-th event allocated by the recorder of core c; an    *)
(*               event is named <<c, n>> and Null is no event              *)
(*   w.pq[d]     the queued events of domain d, with their cycles          *)
(*   w.cur[d], w.prio[d]   the domain's curCycle and prio                  *)
(*   w.rec[c]    the recorder of core c (module CoreRecorder)              *)
(*   w.cache     the timing cache (module TimingCache)                     *)
(*   w.last      lastCrossing; w.stack the recorder's crossing stack       *)
(*   w.sim       limit, lastLimit, inCSim and globPhaseCycles              *)
(*   w.failed    the names of the assertions that have failed              *)
(*                                                                         *)
(* A call of the code is an operator from world to world, so that nested   *)
(* calls (done wakes a delay event, whose done wakes another event) nest.  *)
(* Fields deps and ready of an event are a history: the parents that have  *)
(* not finished, and the latest cycle one of the finished ones asks for.   *)
(* Field asked of a crossing is a history too: the latest cycle to which   *)
(* it has postponed itself.                                                *)
(***************************************************************************)
EXTENDS Integers, FiniteSets, SequencesExt

CONSTANTS Domains,      \* the weave domains, 0 .. numDomains - 1
          Null          \* no event

Unset == -1             \* domain -1, and the minStartCycle no one has set
BlockEvents == 3        \* TIMING_BLOCK_EVENTS

Larger(a, b) == IF a > b THEN a ELSE b
At(w, e) == w.ev[e[1]][e[2]]

\* assert(ok): the run goes on, with the failure on record.
Checked(w, ok, what) == IF ok THEN w ELSE [w EXCEPT !.failed = @ \cup {what}]

Event(kind, pre, post, d, min, x) ==
    [kind |-> kind, state |-> "NONE", cycle |-> 0, min |-> min, dom |-> d,
     kids |-> <<>>, parents |-> 0, pre |-> pre, post |-> post, x |-> x,
     deps |-> 0, ready |-> 0]

Delay(d, min) == Event("delay", d, 0, Unset, min, <<>>)
Freed == [Event("freed", 0, 0, Unset, Unset, <<>>) EXCEPT !.state = "DONE"]

\* The next event recorder c allocates, and the world that holds it.
NextId(w, c) == <<c, Len(w.ev[c]) + 1>>
Alloc(w, c, e) == [w EXCEPT !.ev[c] = Append(@, e)]

-----------------------------------------------------------------------------
(* Building the graph, in the bound phase.                                 *)

RECURSIVE PropagateDomain(_, _, _)
PropagateDomain(w, e, d) ==
    FoldLeft(LAMBDA v, k : IF At(v, k).dom = Unset THEN PropagateDomain(v, k, d) ELSE v,
             [w EXCEPT !.ev[e[1]][e[2]].dom = d], At(w, e).kids)

AddChild(w, p, k) ==
    LET v == Checked(w, At(w, p).state \in {"NONE", "QUEUED"} /\ At(w, k).state = "NONE", "addChild")
        u == [v EXCEPT !.ev[p[1]][p[2]].kids = Append(@, k),
                       !.ev[k[1]][k[2]].parents = @ + 1,
                       !.ev[k[1]][k[2]].deps = @ + 1]
    IN IF At(w, p).dom # Unset /\ At(w, k).dom = Unset
       THEN PropagateDomain(u, k, At(w, p).dom) ELSE u

Chain(w, path) ==       \* a->addChild(b)->addChild(c) ...
    FoldLeft(LAMBDA v, i : AddChild(v, path[i], path[i + 1]), w, [i \in 1..(Len(path) - 1) |-> i])

ToQueue(w, e, cycle) ==
    [w EXCEPT !.pq[At(w, e).dom] = @ \cup {[cycle |-> cycle, ev |-> e]}]

EnqueueSynced(w, e, cycle) ==
    ToQueue(Checked(w, ~w.sim.inCSim /\ cycle >= w.sim.lastLimit /\ At(w, e).parents = 0,
                    "enqueueSynced"), e, cycle)

Queue(w, e, cycle) ==
    LET v == Checked(w, At(w, e).state = "NONE" /\ At(w, e).parents = 0, "queue")
    IN EnqueueSynced([v EXCEPT !.ev[e[1]][e[2]].state = "QUEUED"], e, cycle)

\* A crossing that answers the crossing on top of the stack hangs from the
\* event that made the request; another one from the last crossing of its
\* source between the same domains, while that one cannot have run yet.
LastValid(last, srcCycle, cycle) == last.cycle > srcCycle /\ last.cycle <= cycle

EnqueueCrossing(w, e, cycle) ==
    LET xe == At(w, e)
        key == <<e[1], xe.x.src, xe.dom>>
        isResp == /\ w.stack # <<>>
                  /\ At(w, Last(w.stack)).x.src = xe.dom
                  /\ At(w, Last(w.stack)).dom = xe.x.src
        srcCycle == w.cur[xe.x.src]
        v == Checked([w EXCEPT !.stack = Append(@, e), !.last[key] = [cycle |-> cycle, ev |-> e]],
                     LastValid(w.last[key], srcCycle, cycle) \/ cycle >= srcCycle, "enqueueCrossing")
    IN IF isResp
       THEN AddChild([w EXCEPT !.stack = Front(@)], At(w, Last(w.stack)).x.parent, e)
       ELSE IF LastValid(w.last[key], srcCycle, cycle)
            THEN AddChild(v, w.last[key].ev, e) ELSE EnqueueSynced(v, e, cycle)

\* handleCrossing: a crossing event in the child's domain takes the parent's
\* place, and its source event, in the parent's domain, takes the child's.
HandleCrossing(w, p, i) ==
    LET k == At(w, p).kids[i]
        pe == At(w, p)
        ke == At(w, k)
        X == NextId(w, p[1])
        S == <<p[1], Len(w.ev[p[1]]) + 2>>
        preSlack == IF pe.post = 0 THEN 1 ELSE pe.post
        min == pe.min + preSlack
        xing == [Event("xing", 0, 0, ke.dom, min,
                    [src |-> pe.dom, called |-> FALSE, doneCycle |-> 0, asked |-> 0,
                     orig |-> min - w.rec[p[1]].gap, slack |-> preSlack + ke.pre,
                     postSlack |-> ke.pre, parent |-> p, child |-> k])
                 EXCEPT !.kids = <<k>>]
        source == [Event("xsrc", 0, 0, pe.dom, Unset, [xe |-> X]) EXCEPT !.parents = 1]
        v == Checked(w, pe.min # Unset /\ ke.parents > 0 /\ ke.state = "NONE", "handleCrossing")
        u == [Alloc(Alloc(v, p[1], xing), p[1], source) EXCEPT !.ev[p[1]][p[2]].kids[i] = S]
    IN EnqueueCrossing(u, X, Larger(w.sim.lastLimit, min))

\* produceCrossings visits the children block by block, the block added last
\* first; one child needs no block.  Children are added while they are visited
\* (a response, by EnqueueCrossing), and those that need a new block are missed.
RECURSIVE ProduceCrossings(_, _), VisitFrom(_, _, _, _, _)

VisitChild(w, e, i) ==
    LET k == At(w, e).kids[i]
        v == IF At(w, k).dom # At(w, e).dom THEN HandleCrossing(w, e, i) ELSE w
    IN ProduceCrossings(v, k)

VisitFrom(w, e, block, i, visited) ==
    CASE block < 0 -> Checked(w, visited = Len(At(w, e).kids), "visitChildren")
      [] block >= 0 /\ i <= BlockEvents /\ block * BlockEvents + i <= Len(At(w, e).kids) ->
            VisitFrom(VisitChild(w, e, block * BlockEvents + i), e, block, i + 1, visited + 1)
      [] OTHER -> VisitFrom(w, e, block - 1, 1, visited)

ProduceCrossings(w, e) ==
    LET n == Len(At(w, e).kids)
        v == Checked(w, At(w, e).dom # Unset, "produceCrossings")
    IN CASE n = 0 -> v
         [] n = 1 -> VisitChild(v, e, 1)
         [] n > 1 -> VisitFrom(v, e, (n - 1) \div BlockEvents, 1, 0)

-----------------------------------------------------------------------------
(* Running the graph, in the weave phase.                                  *)

Enqueue(w, e, cycle) ==
    ToQueue(Checked(w, /\ w.sim.inCSim
                       /\ cycle >= w.sim.lastLimit
                       /\ cycle >= w.cur[At(w, e).dom]
                       /\ At(w, e).parents = 0, "enqueue"), e, cycle)

Requeue(w, e, cycle) ==
    LET v == Checked(w, At(w, e).parents = 0 /\ At(w, e).state \in {"RUNNING", "HELD"}, "requeue")
    IN Enqueue([v EXCEPT !.ev[e[1]][e[2]].state = "QUEUED"], e, cycle)

Hold(w, e) == [Checked(w, At(w, e).state = "RUNNING", "hold") EXCEPT !.ev[e[1]][e[2]].state = "HELD"]

MarkSrcEventDone(w, X, cycle) ==
    [Checked(w, ~At(w, X).x.called /\ cycle >= w.cur[At(w, X).x.src], "markSrcEventDone")
     EXCEPT !.ev[X[1]][X[2]].x.doneCycle = cycle, !.ev[X[1]][X[2]].x.called = TRUE]

\* History: event p tells k, or the event behind the crossing k stands for,
\* that it is finished and that k may start at cycle.
Told(w, p, k, cycle) ==
    LET t == IF At(w, k).kind = "xsrc" THEN At(w, At(w, k).x.xe).x.child ELSE k
    IN IF At(w, p).kind = "xing" /\ At(w, p).x.child = k THEN w
       ELSE [w EXCEPT !.ev[t[1]][t[2]].deps = @ - 1,
                      !.ev[t[1]][t[2]].ready = Larger(@, cycle)]

Started(w, e, cycle) ==
    Checked(w, At(w, e).deps = 0 /\ cycle >= At(w, e).ready + At(w, e).pre, "early")

RECURSIVE Done(_, _, _), ParentDone(_, _, _)

\* The last parent to finish queues the event; its cycle is the latest one.
PlainParentDone(w, e, cycle) ==
    LET v == [Checked(w, At(w, e).parents > 0, "parentDone")
              EXCEPT !.ev[e[1]][e[2]].cycle = Larger(@, cycle), !.ev[e[1]][e[2]].parents = @ - 1]
        u == [Checked(v, At(v, e).state = "NONE", "parentDone")
              EXCEPT !.ev[e[1]][e[2]].state = "QUEUED"]
    IN IF At(v, e).parents > 0 THEN v ELSE Enqueue(u, e, At(v, e).cycle + At(v, e).pre)

ParentDone(w, e, cycle) ==
    LET kind == At(w, e).kind
        x == At(w, e).x
        from == Larger(cycle, At(w, e).min)
        late == [w EXCEPT !.ev[e[1]][e[2]].x.doneCycle = Larger(@, from)]
        v == [w EXCEPT !.ev[e[1]][e[2]].cycle = Larger(@, cycle), !.ev[e[1]][e[2]].parents = @ - 1]
        u == [v EXCEPT !.ev[e[1]][e[2]].state = "RUNNING"]
    IN CASE kind = "xsrc" ->
                [MarkSrcEventDone(Checked(w, At(w, e).parents = 1, "CSE"), x.xe, cycle)
                 EXCEPT !.ev[e[1]][e[2]] = Freed]
         [] kind = "xing" -> PlainParentDone(IF x.called THEN late ELSE w, e, from)
         [] kind = "delay" ->
                IF At(v, e).parents > 0 THEN v ELSE Done(u, e, At(v, e).cycle + At(v, e).pre)
         [] OTHER -> PlainParentDone(w, e, cycle)

Done(w, e, cycle) ==
    LET ev == At(w, e)
        at == cycle + ev.post
        v == FoldLeft(LAMBDA u, k : ParentDone(Told(u, e, k, at), k, at),
                      [Checked(w, ev.state = "RUNNING", "done") EXCEPT !.ev[e[1]][e[2]].state = "DONE"],
                      ev.kids)
    IN [v EXCEPT !.ev[e[1]][e[2]] = Freed]
=============================================================================
