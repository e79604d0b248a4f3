---------------------------- MODULE TimingCache -----------------------------
(***************************************************************************)
(* The timing cache of zsim (timing_cache.h, timing_cache.cpp) and what    *)
(* its accesses record: the events of a hit, of a miss with its memory     *)
(* accesses (weave_md1_mem.h), and of a first-level cache that writes back *)
(* a line before it fetches another (cache.cpp).  In the weave phase the   *)
(* cache grants its tag port cycle by cycle, gives every miss an MSHR, and *)
(* holds the events that find all MSHRs taken.                             *)
(*                                                                         *)
(* w.cache has the fields of the class.  The replacement policy is CARE,   *)
(* so the list of MSHRs is kept too; the PMC values in it are not.  port   *)
(* is a history: the cycles in which the port was granted.                 *)
(* Definitions marked "Wrong" are variants that no other one uses.         *)
(***************************************************************************)
EXTENDS EventGraph

CONSTANTS CacheDomain,  \* the domain of the cache
          AccLat,       \* accLat of this cache
          L1Lat,        \* accLat of the first-level cache above
          MemLat,       \* zeroLoadLatency of a memory controller
          MemExtra,     \* its latency beyond that
          NetLat,       \* parentRTTs: round trip to memory
          TagLat        \* tagLat

ASSUME TimingCacheAssumption ==
    /\ CacheDomain \in Domains
    /\ {AccLat, L1Lat, MemLat, TagLat} \subseteq Nat \ {0}
    /\ {MemExtra, NetLat} \subseteq Nat

CacheInit(mshrs) ==
    [numMSHRs |-> mshrs, activeMisses |-> 0, lastAccCycle |-> 0, lastFreeCycle |-> 0,
     pendingQueue |-> <<>>, mshrList |-> [i \in 1..mshrs |-> Null], port |-> {}]

-----------------------------------------------------------------------------
(* The bound phase: what an access records.  A timing record has the       *)
(* cycles of the request and of the response and the events at both ends.  *)

CacheEvent(kind, pre, post, min, x) == Event(kind, pre, post, CacheDomain, min, x)

MemEvent(mem, cycle) ==
    Event("mem", MemLat \div 2, MemLat - MemLat \div 2, mem, cycle, [lat |-> MemExtra])

HitRecord(w, c, cycle) ==
    LET e == NextId(w, c) IN
    [w |-> Alloc(w, c, CacheEvent("hit", 0, AccLat, cycle, <<>>)),
     req |-> cycle, resp |-> cycle + AccLat, start |-> e, end |-> e]

\* access(): a miss on line, fetched from controller mem.  The victim is
\* written back to controller wb, or is clean (wb = Unset); lookups has the
\* accesses of each replacement lookup and is <<>> if cands <= ways.
MissRecord(w, c, cycle, line, mem, wb, lookups) ==
    LET n == Len(w.ev[c])
        Id(i) == <<c, n + i>>
        mse == Id(1)  mre == Id(2)  mwe == Id(3)  get == Id(4)  down == Id(5)  put == Id(6)
        up == cycle + AccLat
        done == up + MemLat + NetLat
        evDone == IF wb = Unset THEN up ELSE up + MemLat
        looks == Len(lookups)
        Lookup(i) == CacheEvent("repl", IF i = 1 THEN TagLat ELSE 0, 1, cycle, [accs |-> lookups[i]])
        swaps == <<CacheEvent("repl", TagLat, TagLat, cycle, [accs |-> 1]),
                   CacheEvent("repl", 0, 0, cycle, [accs |-> 1])>>
        new == <<CacheEvent("mstart", 0, AccLat, cycle, [line |-> line]),
                 CacheEvent("mresp", 0, 0, done, <<>>),
                 CacheEvent("mwb", 0, AccLat, Larger(evDone, done), [line |-> line]),
                 MemEvent(mem, up), Delay(NetLat, up + MemLat)>>
               \o (IF wb = Unset THEN <<>> ELSE <<MemEvent(wb, up)>>)
        repl == IF looks = 0 THEN <<>> ELSE [i \in 1..looks |-> Lookup(i)] \o swaps
        Repl(i) == Id(Len(new) + i)
        v == [w EXCEPT !.ev[c] = @ \o new \o repl]
        fetched == Chain(v, IF NetLat = 0 THEN <<mse, get, mre>> ELSE <<mse, get, down, mre>>)
        evicted == Chain(Chain(fetched, <<mre, mwe>>),
                         IF wb = Unset THEN <<mse, mwe>> ELSE <<mse, put, mwe>>)
        replaced == IF looks = 0 THEN evicted
                    ELSE Chain(evicted, <<mse>> \o [i \in 1..Len(repl) |-> Repl(i)] \o <<mwe>>)
    IN [w |-> replaced, req |-> cycle, resp |-> done, start |-> mse, end |-> mre]

\* The first-level cache's access(): its victim's writeback, a hit here, and
\* the access itself, recorded after it, are stitched together behind one
\* start event.
Stitched(c, cycle, wbRec, acc) ==
    LET n == Len(acc.w.ev[c])
        start == <<c, n + 1>>  dWb == <<c, n + 2>>  dAcc == <<c, n + 3>>
        v == [acc.w EXCEPT !.ev[c] = @ \o <<Delay(0, cycle), Delay(wbRec.req - cycle, cycle),
                                            Delay(acc.req - cycle, cycle)>>]
    IN [acc EXCEPT !.w = Chain(Chain(v, <<start, dWb, wbRec.start>>), <<start, dAcc, acc.start>>),
                   !.req = cycle, !.start = start]

-----------------------------------------------------------------------------
(* The weave phase.                                                        *)

\* The port is taken at the first free cycle, from cycle on.
HighPrioAccess(w, cycle) ==
    LET k == w.cache
        lookup == Larger(cycle, k.lastAccCycle + 1)
        v == Checked(w, cycle >= k.lastFreeCycle, "highPrioAccess")
        u == Checked(v, lookup \notin k.port, "port")
    IN [w |-> [u EXCEPT !.cache.lastAccCycle = lookup,
                        !.cache.lastFreeCycle = IF k.lastAccCycle < cycle - 1 THEN cycle - 1 ELSE @,
                        !.cache.port = @ \cup {lookup}],
        cycle |-> lookup]

\* Wrong: the free cycle is granted to every access that asks for it.
LowPrioShared(w, cycle) ==
    w.cache.lastAccCycle <= cycle - 1 \/ w.cache.lastFreeCycle = cycle - 1

\* A low-priority access is granted if the port was free the cycle before.
LowPrioGranted(w, cycle) ==
    w.cache.lastAccCycle < cycle - 1 \/ w.cache.lastFreeCycle = cycle - 1

TryLowPrioAccess(w, cycle) ==
    [Checked(w, cycle - 1 \notin w.cache.port, "port")
     EXCEPT !.cache.lastFreeCycle = 0,
            !.cache.lastAccCycle = Larger(cycle - 1, @),
            !.cache.port = @ \cup {cycle - 1}]

HoldPending(w, e) == [Hold(w, e) EXCEPT !.cache.pendingQueue = Append(@, e)]

SimulateHit(w, e, cycle) ==
    LET h == HighPrioAccess(w, cycle)
    IN IF w.cache.activeMisses < w.cache.numMSHRs THEN Done(h.w, e, h.cycle) ELSE HoldPending(w, e)

MSHRAdd(w, line) ==
    LET free == {i \in 1..w.cache.numMSHRs : w.cache.mshrList[i] = Null}
        first == CHOOSE i \in free : \A j \in free : i <= j
    IN IF free = {} THEN Checked(w, FALSE, "MSHR out of space")
       ELSE [w EXCEPT !.cache.mshrList[first] = line]

MSHRRemove(w, line) ==
    LET match == {i \in 1..w.cache.numMSHRs : w.cache.mshrList[i] = line}
        first == CHOOSE i \in match : \A j \in match : i <= j
    IN IF match = {} THEN Checked(w, FALSE, "MSHR entry not removed")
       ELSE [w EXCEPT !.cache.mshrList[first] = Null]

SimulateMissStart(w, e, cycle) ==
    LET v == MSHRAdd([w EXCEPT !.cache.activeMisses = @ + 1], At(w, e).x.line)
        h == HighPrioAccess(v, cycle)
    IN IF w.cache.activeMisses < w.cache.numMSHRs THEN Done(h.w, e, h.cycle) ELSE HoldPending(w, e)

\* Wrong: only the event that has waited longest is queued again.
MissWritebackWakesOne(w, e, cycle) ==
    LET v == TryLowPrioAccess(w, cycle)
        u == MSHRRemove([v EXCEPT !.cache.activeMisses = @ - 1], At(w, e).x.line)
        r == IF w.cache.pendingQueue = <<>> THEN u ELSE Requeue(u, Head(w.cache.pendingQueue), cycle + 1)
    IN IF LowPrioGranted(w, cycle)
       THEN Done([r EXCEPT !.cache.pendingQueue = <<>>], e, cycle)
       ELSE Requeue(w, e, cycle + 1)

\* The MSHR is released and everything that waits for one runs again.
SimulateMissWriteback(w, e, cycle) ==
    LET v == Checked(TryLowPrioAccess(w, cycle), w.cache.activeMisses > 0, "activeMisses")
        u == MSHRRemove([v EXCEPT !.cache.activeMisses = @ - 1], At(w, e).x.line)
        r == FoldLeft(LAMBDA x, q : Requeue(x, q, cycle + 1), u, w.cache.pendingQueue)
    IN IF LowPrioGranted(w, cycle)
       THEN Done([r EXCEPT !.cache.pendingQueue = <<>>], e, cycle)
       ELSE Requeue(w, e, cycle + 1)

SimulateReplAccess(w, e, cycle) ==
    LET v == Checked(TryLowPrioAccess(w, cycle), At(w, e).x.accs > 0, "accsLeft")
        u == [v EXCEPT !.ev[e[1]][e[2]].x.accs = @ - 1]
    IN CASE ~LowPrioGranted(w, cycle) -> Requeue(w, e, cycle + 1)
         [] LowPrioGranted(w, cycle) /\ At(u, e).x.accs > 0 -> Requeue(u, e, cycle + 1)
         [] OTHER -> Done(u, e, cycle)
=============================================================================
