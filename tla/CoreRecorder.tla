---------------------------- MODULE CoreRecorder ----------------------------
(***************************************************************************)
(* The recorder of a timing core (core_recorder.h, core_recorder.cpp,      *)
(* event_recorder.h) and the core around it (timing_core.cpp).  In the     *)
(* bound phase the core runs ahead with latencies free of contention and   *)
(* the recorder links what it does into a chain of events; after the weave *)
(* phase has run the chain, the core's clock is moved by the delay that    *)
(* contention added.                                                       *)
(*                                                                         *)
(* w.rec[c]: state, prevResp (prevRespCycle), prevEv (prevRespEvent), gap  *)
(* (gapCycles), lastStart and lastOrig (the two cycles of the last event   *)
(* simulated), slack (lastStartSlack), lastUnhalted, and of the core cur   *)
(* (curCycle) and waiting (it is at the barrier at the end of a phase).    *)
(***************************************************************************)
EXTENDS TimingCache

CONSTANTS Cores, CoreDomain,    \* CoreDomain[c]: the domain of core c
          PhaseLength

ASSUME CoreRecorderAssumption ==
    CoreDomain \in [Cores -> Domains] /\ PhaseLength \in Nat \ {0}

\* What the constructor leaves unset; no cycle of the model reaches it.
Garbage == 1000

RecorderInit == [state |-> "HALTED", cur |-> 0, waiting |-> FALSE, prevResp |-> Garbage,
                 prevEv |-> Null, gap |-> 0, lastStart |-> Garbage, lastOrig |-> Garbage,
                 slack |-> 0, lastUnhalted |-> 0]

PhaseEnd(w) == w.sim.globPhase + PhaseLength

CoreEvent(w, c, delay, orig, d, min) ==
    Event("core", 0, delay, d, min, [orig |-> orig])

\* A core event that covers delay cycles from prevRespCycle on follows the
\* last response and takes its place.
Follow(w, c, delay) ==
    LET r == w.rec[c]
        e == NextId(w, c)
        v == Alloc(w, c, CoreEvent(w, c, delay, r.prevResp - r.gap, Unset, r.prevResp))
    IN [AddChild(v, r.prevEv, e) EXCEPT !.rec[c].prevEv = e, !.rec[c].prevResp = @ + delay]

NotifyJoin(w, c) ==
    LET r == w.rec[c]
        cycle == w.sim.globPhase
        e == NextId(w, c)
        v == Checked(w, r.prevEv = Null /\ r.lastUnhalted <= cycle, "notifyJoin")
        u == Queue(Alloc(v, c, CoreEvent(v, c, 0, cycle, CoreDomain[c], cycle)), e, cycle)
    IN IF r.state = "HALTED"
       THEN [u EXCEPT !.rec[c] = [@ EXCEPT !.state = "RUNNING", !.cur = cycle, !.gap = 0,
                                  !.prevEv = e, !.prevResp = cycle, !.slack = 0]]
       ELSE [Checked(w, r.state = "DRAINING" /\ r.cur >= cycle, "notifyJoin")
             EXCEPT !.rec[c].state = "RUNNING"]

\* The chain is tapered off with an event up to now and one without delay.
NotifyLeave(w, c) ==
    LET v == Checked(w, w.rec[c].state = "RUNNING" /\ w.rec[c].prevEv # Null, "notifyLeave")
    IN Follow(Follow([v EXCEPT !.rec[c].state = "DRAINING"], c, w.rec[c].cur - w.rec[c].prevResp), c, 0)

\* recordAccess() of a timing record tr; its world holds the events of tr.
RecordAccess(c, start, tr, isGet) ==
    LET w == tr.w
        r == w.rec[c]
        e == NextId(w, c)
        v == Checked(w, start >= r.prevResp /\ tr.req >= start, "recordAccess")
        g == [Chain(Alloc(v, c, CoreEvent(v, c, tr.req - r.prevResp, r.prevResp - r.gap, Unset, r.prevResp)),
                    <<r.prevEv, e, tr.start>>)
              EXCEPT !.rec[c].prevEv = tr.end, !.rec[c].prevResp = tr.resp]
        p == Chain(Alloc(v, c, Delay(tr.req - r.prevResp, r.prevResp)), <<r.prevEv, e, tr.start>>)
        u == IF isGet THEN g ELSE p
    IN IF Cardinality(Domains) > 1
       THEN [ProduceCrossings(u, r.prevEv) EXCEPT !.stack = <<>>] ELSE u

\* The chain is brought to the current cycle, and an event that starts in the
\* next phase is left at its end; a draining chain gets none.
CSimStart(w, c) ==
    LET r == w.rec[c]
        v == Checked(w, r.cur >= PhaseEnd(w), "cSimStart")
        covered == IF r.prevResp < r.cur THEN Follow(v, c, r.cur - r.prevResp) ELSE v
    IN CASE r.state = "HALTED" -> w
         [] r.state = "RUNNING" -> Follow(covered, c, 0)
         [] r.state = "DRAINING" -> [w EXCEPT !.rec[c].cur = Larger(@, PhaseEnd(w))]

\* The clock moves by the skew between the cycle at which the last simulated
\* event started and the one at which it would have without contention.
CSimEnd(w, c) ==
    LET r == w.rec[c]
        before == r.lastOrig + r.gap
        skew == r.lastStart - before
        v == Checked(Checked(w, before <= r.cur /\ r.lastStart <= r.cur, "cSimEnd"),
                     skew >= 0, "negative skew")
        u == [v EXCEPT !.rec[c].cur = @ + skew, !.rec[c].gap = @ + skew, !.rec[c].prevResp = @ + skew]
        h == [Checked(u, r.state = "DRAINING", "cSimEnd")
              EXCEPT !.rec[c].lastUnhalted = r.lastStart, !.rec[c].state = "HALTED"]
    IN CASE r.state = "HALTED" -> w
         [] r.state # "HALTED" /\ r.prevEv = Null -> h
         [] OTHER -> u

\* A simulated core event reports its two cycles; the last one of a draining
\* chain ends it.
SimulateCore(w, e, cycle) ==
    LET c == e[1]
        last == w.rec[c].prevEv = e
        orig == At(w, e).x.orig
        v == Checked(w, last => w.rec[c].state = "DRAINING", "reportEventSimulated")
        u == [v EXCEPT !.rec[c].lastStart = cycle, !.rec[c].lastOrig = orig,
                       !.rec[c].prevEv = IF last THEN Null ELSE @, !.rec[c].slack = cycle - orig]
    IN Done(u, e, cycle)
=============================================================================
