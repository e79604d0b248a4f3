---------------------------- MODULE CacheArrays -----------------------------
(***************************************************************************)
(* The arrays of a zsim cache (cache_arrays.h, cache_arrays.cpp and the    *)
(* fully associative array of ideal_arrays.h) with their replacement       *)
(* policy, under the accesses of a cache: set-associative, zcache, whose   *)
(* replacement moves lines between their positions, and ideal LRU.         *)
(*                                                                         *)
(* An insertion is split in two, because the cache may be unlocked while   *)
(* the victim is written back: preinsert() chooses it, postinsert() gives  *)
(* its line away.  In between, lines may be invalidated from above.  With  *)
(* CARE, the misses report their cost when they end, in the weave phase.   *)
(* Definitions marked "Wrong" are variants that no other one uses.         *)
(***************************************************************************)
EXTENDS Replacement

CONSTANTS Configs   \* the caches to look at: see ConfigOK

\* array, repl: the types; lines, ways, cands: the geometry; hash[w][a]: hash w
\* of address a; children: the caches above; accesses: a bound; costs: PMCs.
\* A zcache has whole sets, two ways or more, at least as many candidates, and
\* a hash for each way; the ideal array comes with LRU (its asserts).  Random
\* choice asserts that a full set of candidates is ranked, which a zcache walk
\* that meets an empty line does not give it.
ConfigOK(k) ==
    /\ k \in [array : {"SetAssoc", "Z", "IdealLRU"},
              repl : {"LRU", "LRUNoSh", "NRU", "LFU", "Rand", "SRRIP", "CARE"},
              lines : Nat \ {0}, ways : Nat \ {0}, cands : Nat, hash : {k.hash},
              children : {k.children}, accesses : Nat, costs : SUBSET Nat]
    /\ IsFiniteSet(k.children) /\ k.ways <= k.lines /\ DOMAIN k.hash[0] \subseteq Nat \ {0}
    /\ \A w \in 0..(IF k.array = "Z" THEN k.ways - 1 ELSE 0) : k.hash[w] \in [DOMAIN k.hash[0] -> Nat]
    /\ k.array = "Z" => k.lines % k.ways = 0 /\ 1 < k.ways /\ k.ways <= k.cands
    /\ k.array = "IdealLRU" => k.repl = "LRU"
    /\ k.repl = "Rand" => k.array = "SetAssoc"

ASSUME CacheArraysAssumption == \A k \in Configs : ConfigOK(k)

VARIABLES config,       \* the member of Configs; accesses counts down
          array,        \* the address of each line, 0 if it has none
          lookupArray,  \* the line at each position (zcache)
          lruList,      \* the lines, the least recently used one last (ideal LRU)
          rp,           \* the replacement policy
          line,         \* validity and sharers, of the coherence controller
          pend,         \* the insertion under way: address, victim, swaps
          misses,       \* misses whose cost is not yet known (CARE)
          recent        \* history: the accesses left at the last use of each address

arrayVars == <<config, array, lookupArray, lruList, rp, line, pend, misses, recent>>

NoInsertion == [addr |-> 0, id |-> -1, swaps |-> <<>>, evicted |-> FALSE]
Empty == [valid |-> FALSE, sharers |-> {}]
Lines == 0..(config.lines - 1)
Addrs == DOMAIN config.hash[0]
NumSets == config.lines \div config.ways

ArraysInit ==
    /\ config \in Configs
    /\ array = [i \in Lines |-> 0]
    /\ lookupArray = [i \in Lines |-> i]
    /\ lruList = [i \in 1..config.lines |-> config.lines - i]
    /\ rp = NewPolicy(config.repl, config.lines)
    /\ line = [i \in Lines |-> Empty]
    /\ pend = NoInsertion /\ misses = {}
    /\ recent = [a \in Addrs |-> config.accesses]

-----------------------------------------------------------------------------
(* Where a line can be.                                                    *)

First(a) == (config.hash[0][a] % NumSets) * config.ways      \* SetAssoc
Pos(w, a) == w * NumSets + (config.hash[w][a] % NumSets)     \* Z
Ways == 0..(config.ways - 1)

Probed(a) ==
    CASE config.array = "SetAssoc" -> {First(a) + w : w \in Ways}
      [] config.array = "Z" -> {lookupArray[Pos(w, a)] : w \in Ways}
      [] OTHER -> Lines

Found(a) == {i \in Probed(a) : array[i] = a}

\* The zcache walk: the lines at the address's positions, then those at the
\* other positions of these lines, breadth first, until there are enough
\* candidates or one is empty.  from is the candidate whose line would move.
Candidate(w, a, from) == [pos |-> Pos(w, a), id |-> lookupArray[Pos(w, a)], from |-> from]

\* The fringe line n is not a candidate of its own expansion.
Expand(walk, n) ==
    LET grown[w \in 0..config.ways] ==
            IF w = 0 THEN walk
            ELSE LET c == Candidate(w - 1, array[walk[n].id], n)
                 IN IF c.id = walk[n].id THEN grown[w - 1] ELSE Append(grown[w - 1], c)
    IN grown[config.ways]

Enough(walk) == Len(walk) >= config.cands \/ \E i \in DOMAIN walk : array[walk[i].id] = 0

Walk(a) ==
    LET grown[n \in 0..config.cands] ==
            IF n = 0 THEN [w \in 1..config.ways |-> Candidate(w - 1, a, 0)]
            ELSE LET walk == grown[n - 1] IN IF Enough(walk) THEN walk ELSE Expand(walk, n)
        all == grown[config.cands]
    IN IF Len(all) > config.cands THEN SubSeq(all, 1, config.cands) ELSE all

Cands(a) ==
    CASE config.array = "SetAssoc" -> [i \in 1..config.ways |-> First(a) + i - 1]
      [] config.array = "Z" -> LET walk == Walk(a) IN [i \in DOMAIN walk |-> walk[i].id]
      [] OTHER -> <<Last(lruList)>>

\* Wrong: the last candidate with the victim's line is taken.
SwapsFromLast(a, id) ==
    LET walk == Walk(a)
        at == CHOOSE i \in DOMAIN walk : walk[i].id = id /\ \A j \in DOMAIN walk : walk[j].id = id => j <= i
        path[i \in 0..Len(walk)] == IF i = 0 THEN <<>> ELSE <<walk[i].pos>> \o path[walk[i].from]
    IN IF config.array = "Z" THEN path[at] ELSE <<>>

\* The positions from the victim's back to one of the new line's.
Swaps(a, id) ==
    LET walk == Walk(a)
        at == CHOOSE i \in DOMAIN walk : walk[i].id = id /\ \A j \in DOMAIN walk : walk[j].id = id => i <= j
        path[i \in 0..Len(walk)] == IF i = 0 THEN <<>> ELSE <<walk[i].pos>> \o path[walk[i].from]
    IN IF config.array = "Z" THEN path[at] ELSE <<>>

-----------------------------------------------------------------------------
(* Accesses.                                                               *)

\* Only the properties of LRU look at the history.
Uses(a) ==
    recent' = IF config.repl \in {"LRU", "LRUNoSh"} THEN [recent EXCEPT ![a] = config'.accesses] ELSE recent
Counted == config.accesses > 0 /\ config' = [config EXCEPT !.accesses = @ - 1]
MoveToFront(list, i) == <<i>> \o RemoveAt(list, CHOOSE n \in DOMAIN list : list[n] = i)

\* An ideal LRU array keeps its own order and has no policy to speak of.
Touch(p, i) == IF config.array = "IdealLRU" THEN p ELSE Update(p, i)

\* Misses on the way to the weave phase, each with the time of its access.
Missed(a, i, now) == IF config.repl = "CARE" THEN misses \cup {[addr |-> a, id |-> i, at |-> now]} ELSE misses

\* A GETS or GETX of child k finds the line: lookup() updates the policy.  It is
\* a miss all the same if the parent must be asked: for a line that is no longer
\* valid, or for the right to write one that is.
Hit(k, a, excl) ==
    /\ pend = NoInsertion /\ Counted
    /\ \E i \in Found(a), asks \in BOOLEAN :
          /\ IF line[i].valid THEN asks => excl ELSE asks
          /\ misses' = IF asks THEN Missed(a, i, config'.accesses) ELSE misses
          /\ rp' = Touch(rp, i)
          /\ lruList' = MoveToFront(lruList, i)
          /\ line' = [line EXCEPT ![i] = [valid |-> TRUE,
                                          sharers |-> IF excl THEN {k} ELSE @.sharers \cup {k}]]
    /\ Uses(a)
    /\ UNCHANGED <<array, lookupArray, pend>>

\* The PUT of child k: lookup() without an update.
Put(k, a) ==
    /\ pend = NoInsertion /\ Counted
    /\ \E i \in Found(a) :
          /\ k \in line[i].sharers
          /\ line' = [line EXCEPT ![i].sharers = @ \ {k}]
    /\ UNCHANGED <<array, lookupArray, lruList, rp, pend, misses, recent>>

\* The parent invalidates a line; its tag stays.
Invalidate(i) ==
    /\ line[i].valid /\ Counted
    /\ line' = [line EXCEPT ![i] = Empty]
    /\ UNCHANGED <<array, lookupArray, lruList, rp, pend, misses, recent>>

Preinsert(a) ==
    /\ pend = NoInsertion /\ Counted /\ Found(a) = {}
    /\ \E r \in Rank(rp, a, Cands(a), line) :
          /\ pend' = [addr |-> a, id |-> r.id, swaps |-> Swaps(a, r.id), evicted |-> FALSE]
          /\ rp' = r.p
    /\ UNCHANGED <<array, lookupArray, lruList, line, misses, recent>>

\* processEviction(): the victim is invalidated above and below.
Evict ==
    /\ pend # NoInsertion /\ ~pend.evicted
    /\ pend' = [pend EXCEPT !.evicted = TRUE]
    /\ line' = [line EXCEPT ![pend.id] = Empty]
    /\ UNCHANGED <<config, array, lookupArray, lruList, rp, misses, recent>>

Swapped(lookup, swaps, id) ==
    LET moved[n \in 0..Len(swaps)] ==
            IF n = 0 THEN lookup
            ELSE LET l == moved[n - 1]
                 IN [l EXCEPT ![swaps[n]] = IF n = Len(swaps) THEN id ELSE l[swaps[n + 1]]]
    IN moved[Len(swaps)]

Inserted(p, i) == IF config.array = "IdealLRU" THEN p ELSE Update(Replaced(p, i), i)

\* postinsert(), and the access that makes the line valid for child k.
Postinsert(k) ==
    LET i == pend.id IN
    /\ pend.evicted
    /\ lookupArray' = Swapped(lookupArray, pend.swaps, i)
    /\ rp' = Inserted(rp, i)
    /\ array' = [array EXCEPT ![i] = pend.addr]
    /\ lruList' = MoveToFront(lruList, i)
    /\ line' = [line EXCEPT ![i] = [valid |-> TRUE, sharers |-> {k}]]
    /\ misses' = Missed(pend.addr, i, config.accesses)
    /\ pend' = NoInsertion
    /\ UNCHANGED config
    /\ Uses(pend.addr)

\* simulateMissWriteback(): the cost of a miss is known.  Its line may hold
\* another address by now.
MissServed(m, pmc) ==
    /\ rp' = ShtPMCUpdate(QuantizePMC(DTRM(rp, pmc), pmc, m.id), m.addr, m.id)
    /\ misses' = misses \ {m}
    /\ UNCHANGED <<config, array, lookupArray, lruList, line, pend, recent>>

ArraysNext ==
    \/ \E k \in config.children, a \in Addrs, excl \in BOOLEAN : Hit(k, a, excl)
    \/ \E k \in config.children, a \in Addrs : Put(k, a)
    \/ \E i \in Lines : Invalidate(i)
    \/ \E a \in Addrs : Preinsert(a)
    \/ Evict
    \/ \E k \in config.children : Postinsert(k)
    \/ \E m \in misses, pmc \in config.costs : MissServed(m, pmc)

ArraysSpec == ArraysInit /\ [][ArraysNext]_arrayVars

-----------------------------------------------------------------------------
(* Properties.                                                             *)

\* Every line is found under its address and under no other one, also after
\* the moves of a zcache replacement, whose walk may go round in circles; the
\* victim is where preinsert() saw it when postinsert() moves it (its assert),
\* and the moves fit in swapArray.
LinesFound ==
    /\ \A i \in Lines : array[i] # 0 => Found(array[i]) = {i}
    /\ Range(lookupArray) = Lines
    /\ pend.swaps # <<>> => lookupArray[Head(pend.swaps)] = pend.id
    /\ Len(pend.swaps) <= (config.cands \div config.ways) + 2

\* What the score of LRU is meant to order by: validity, sharers, last use.
Sooner(i, j) ==
    LET Sharers(x) == IF config.repl = "LRU" THEN Cardinality(line[x].sharers) ELSE 0
    IN \/ ~line[i].valid
       \/ /\ line[j].valid
          /\ \/ Sharers(i) < Sharers(j)
             \/ Sharers(i) = Sharers(j) /\ recent[array[i]] >= recent[array[j]]

\* LRU evicts an invalid line if there is one, then the line with the fewest
\* sharers, then the one not used for longest; the ideal array the one not
\* used for longest of all.  LFU, SRRIP and CARE fill a set before they evict.
GoodChoice ==
    pend = NoInsertion /\ pend' # NoInsertion =>
        LET v == pend'.id
            cands == Range(Cands(pend'.addr))
        IN CASE config.array = "IdealLRU" ->
                    \A i \in Lines : array[v] = 0 \/ (array[i] # 0 /\ recent[array[v]] >= recent[array[i]])
             [] config.array # "IdealLRU" /\ config.repl \in {"LRU", "LRUNoSh"} ->
                    \A i \in cands : Sooner(v, i)
             [] config.array = "SetAssoc" /\ config.repl \in {"LFU", "SRRIP", "CARE"} ->
                    array[v] # 0 => \A i \in cands : array[i] # 0
             [] OTHER -> TRUE

\* That is so as long as the scores of LRU fit in their 32 bits: one is less than
\* a timestamp, which counts the uses, for each child and one more.
ScoresFit ==
    \A k \in Configs : k.repl \in {"LRU", "LRUNoSh"} =>
        (Cardinality(k.children) + 1) * (k.accesses + 1) <= ScoreValues
GoodVictim == [][GoodChoice]_arrayVars

\* CARE knows the address of each line; its reuse confidence of an entry is the
\* number of lines in the cache that hash to it, since an insertion adds one,
\* an eviction takes one and hits change nothing; where more than seven lines may
\* share an entry, the counters saturate and are at most that number; and the
\* two thresholds keep their ratio and never reach zero.
CareCountsLines ==
    config.repl = "CARE" =>
        /\ \A i \in Lines : rp.lineAddr[i] = array[i]
        /\ \A h \in DOMAIN rp.sht :
              LET count == Cardinality({i \in Lines : array[i] # 0 /\ HashAddr(rp, array[i]) = h})
              IN rp.sht[h].rc <= count /\ (config.lines <= CareMax => rp.sht[h].rc = count)
        /\ \A i \in Lines : rp.epv[i] = ComputeEPV(rp.rc[i], rp.pd[i])
        /\ rp.low >= 10 /\ rp.high = 7 * rp.low
=============================================================================
