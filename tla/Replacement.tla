---------------------------- MODULE Replacement -----------------------------
(***************************************************************************)
(* The replacement policies of zsim (repl_policies.h, rrip_repl.h and      *)
(* care_repl.h) as operators on a policy p, a record with the fields of    *)
(* its class.  A cache array calls Update on hits and on insertions, Rank  *)
(* to choose a victim among candidates, and Replaced when the victim's     *)
(* line is given to another address.  line[i] is what the coherence        *)
(* controller says of line i: whether it is valid and who shares it.       *)
(* Definitions marked "Wrong" are variants that no other one uses.         *)
(***************************************************************************)
EXTENDS Integers, FiniteSets, SequencesExt

CONSTANTS ScoreValues,  \* how many values the score that rank() compares has (2 ^ 32)
          MissPeriod    \* miss_period: misses between two updates of the thresholds

ASSUME ReplacementAssumption == ScoreValues \in Nat \ {0} /\ MissPeriod \in Nat \ {0}

RRPVMax == 3            \* rpvMax (init.cpp)
CareMax == 7            \* CARE_RC_MAX and CARE_PD_MAX
NoCandVal == 1048576    \* candVal before the first candidate (2 ^ 20)

\* What is left of s when each element replaces the best one so far if it goes
\* before that one.
Pick(s, before) ==
    LET best[n \in 0..(Len(s) - 1)] ==
            IF n = 0 THEN s[1]
            ELSE LET b == best[n - 1] IN IF <<s[n + 1], b>> \in before THEN s[n + 1] ELSE b
    IN best[Len(s) - 1]
Chosen(p, id) == {[p |-> p, id |-> id]}

-----------------------------------------------------------------------------
(* Least recently used, with or without regard to sharers.                 *)

LRUNew(n, aware) == [kind |-> "LRU", sharersAware |-> aware, timestamp |-> 1, array |-> [i \in 0..(n - 1) |-> 0]]

\* Wrong: lines touched in the same period cannot be told apart.
LRUUpdateSlow(p, id) == [p EXCEPT !.array[id] = p.timestamp, !.timestamp = @ + (id % 2)]

LRUUpdate(p, id) == [p EXCEPT !.array[id] = p.timestamp, !.timestamp = @ + 1]

LRUReplaced(p, id) == [p EXCEPT !.array[id] = 0]

Score(p, id, line) ==
    ((IF p.sharersAware THEN Cardinality(line[id].sharers) ELSE 0) * p.timestamp
     + (IF line[id].valid THEN p.array[id] ELSE 0)) % ScoreValues

LRUBefore(p, cands, line) ==
    {cb \in Range(cands) \X Range(cands) : Score(p, cb[1], line) < Score(p, cb[2], line)}

LRURank(p, cands, line) == Chosen(p, Pick(cands, LRUBefore(p, cands, line)))

-----------------------------------------------------------------------------
(* Not recently used, two bits per line; youngLines also breaks ties.      *)

NRUNew(n) == [kind |-> "NRU", array |-> [i \in 0..(n - 1) |-> 0], youngLines |-> 0,
              candVal |-> NoCandVal, candArray |-> <<>>]

NRUUpdate(p, id) ==
    LET young == p.youngLines + 1 - p.array[id] \div 2
        marked == [p.array EXCEPT ![id] = IF @ < 2 THEN @ + 2 ELSE @]
        n == Cardinality(DOMAIN p.array)
    IN IF young >= n \div 2
       THEN [p EXCEPT !.array = [i \in DOMAIN marked |-> marked[i] \div 2], !.youngLines = 0]
       ELSE [p EXCEPT !.array = marked, !.youngLines = young]

NRUReplaced(p, id) == [p EXCEPT !.candVal = NoCandVal, !.candArray = <<>>, !.array[id] = 0]

NRURecordCandidate(p, id) ==
    LET v == p.array[id] IN
    CASE v < p.candVal -> [p EXCEPT !.candVal = v, !.candArray = <<id>>]
      [] v = p.candVal -> [p EXCEPT !.candArray = Append(@, id)]
      [] OTHER -> p

NRURank(p, cands) ==
    LET recorded[n \in 0..Len(cands)] ==
            IF n = 0 THEN p ELSE NRURecordCandidate(recorded[n - 1], cands[n])
        q == recorded[Len(cands)]
    IN Chosen(q, q.candArray[(q.youngLines % Len(q.candArray)) + 1])

-----------------------------------------------------------------------------
(* Least frequently used.  ts is the mean time of a line's accesses.       *)

LFUNew(n) == [kind |-> "LFU", timestamp |-> 1, array |-> [i \in 0..(n - 1) |-> [ts |-> 0, acc |-> 0]]]

LFUUpdate(p, id) ==
    LET e == p.array[id] IN
    [p EXCEPT !.array[id] = [ts |-> (e.acc * e.ts + p.timestamp) \div (e.acc + 1), acc |-> e.acc + 1],
              !.timestamp = @ + 1000]

LFUReplaced(p, id) == [p EXCEPT !.array[id].acc = 0]

InvFreq(p, id) == (p.timestamp - p.array[id].ts) \div p.array[id].acc

\* lessThan: c goes before b.
LessUsed(p, c, b, line) ==
    LET shared == [i \in {b, c} |-> line[i].sharers # {}] IN
    \/ ~line[c].valid /\ line[b].valid
    \/ /\ line[c].valid = line[b].valid
       /\ \/ ~shared[c] /\ shared[b]
          \/ /\ shared[c] = shared[b]
             /\ \/ p.array[c].acc = 0
                \/ p.array[b].acc # 0 /\ InvFreq(p, c) > InvFreq(p, b)

LFUBefore(p, cands, line) ==
    {cb \in Range(cands) \X Range(cands) : LessUsed(p, cb[1], cb[2], line)}

LFURank(p, cands, line) == Chosen(p, Pick(cands, LFUBefore(p, cands, line)))

-----------------------------------------------------------------------------
(* Random choice.                                                          *)

RandNew == [kind |-> "Rand"]
RandRank(p, cands) == {[p |-> p, id |-> c] : c \in Range(cands)}

-----------------------------------------------------------------------------
(* Re-reference interval prediction (SRRIP).                               *)

SRRIPNew(n) == [kind |-> "SRRIP", rrpv |-> [i \in 0..(n - 1) |-> RRPVMax - 1],
                wasInserted |-> [i \in 0..(n - 1) |-> FALSE]]

SRRIPUpdate(p, id) ==
    IF p.wasInserted[id] THEN [p EXCEPT !.wasInserted[id] = FALSE] ELSE [p EXCEPT !.rrpv[id] = 0]

SRRIPReplaced(p, id) == [p EXCEPT !.rrpv[id] = RRPVMax - 1, !.wasInserted[id] = TRUE]

\* All candidates age, one round after another, until one is distant; a line
\* that is a candidate twice ages twice in a round.
Older(rrpv, cands, rounds) ==
    LET Times(i) == Cardinality({n \in DOMAIN cands : cands[n] = i})
        Age(i) == rrpv[i] + rounds * Times(i)
    IN [i \in DOMAIN rrpv |-> IF Age(i) < RRPVMax THEN Age(i) ELSE RRPVMax]

SRRIPRank(p, cands) ==
    LET Distant(r) == {n \in DOMAIN cands : Older(p.rrpv, cands, r)[cands[n]] = RRPVMax}
        rounds == CHOOSE r \in 0..RRPVMax : Distant(r) # {} /\ \A q \in 0..(r - 1) : Distant(q) = {}
        first == CHOOSE n \in Distant(rounds) : \A m \in Distant(rounds) : n <= m
    IN Chosen([p EXCEPT !.rrpv = Older(p.rrpv, cands, rounds)], cands[first])

-----------------------------------------------------------------------------
(* CARE: reuse confidence rc and miss cost pd per line, learnt in a table  *)
(* sht that is indexed by a hash of the address.                           *)

CareNew(n) ==
    LET zero == [i \in 0..(n - 1) |-> 0] IN
    [kind |-> "CARE", rc |-> zero, pd |-> zero, pmcs |-> zero, lineAddr |-> zero,
     epv |-> [i \in 0..(n - 1) |-> 3], rBit |-> [i \in 0..(n - 1) |-> FALSE],
     sht |-> [i \in 0..(n - 1) |-> [rc |-> 0, pd |-> 0]], incomingAddr |-> 0,
     TMC |-> 0, period |-> 0, high |-> 350, low |-> 50]

\* shtEntries is a power of two and no address has a bit above the tenth.
HashAddr(p, addr) == addr % Cardinality(DOMAIN p.sht)

ComputeEPV(rc, pd) ==
    CASE rc = 0 -> 3
      [] rc = CareMax -> 0
      [] OTHER -> IF pd = 0 THEN 2 ELSE 1

Up(n) == IF n < CareMax THEN n + 1 ELSE n
Down(n) == IF n > 0 THEN n - 1 ELSE n

\* Only the first update after an insertion has an effect.
CareUpdate(p, id) ==
    IF p.rBit[id] THEN p
    ELSE [p EXCEPT !.rBit[id] = TRUE, !.rc[id] = Up(@),
                   !.sht[HashAddr(p, p.lineAddr[id])].rc = Up(@),
                   !.epv[id] = ComputeEPV(Up(p.rc[id]), p.pd[id])]

CareBetter(p, c, b) ==
    \/ p.epv[c] > p.epv[b]
    \/ p.epv[c] = p.epv[b] /\ p.rc[c] < p.rc[b]
    \/ p.epv[c] = p.epv[b] /\ p.rc[c] = p.rc[b] /\ p.pd[c] < p.pd[b]

CareBefore(p, cands) == {cb \in Range(cands) \X Range(cands) : CareBetter(p, cb[1], cb[2])}

CareRank(p, addr, cands) == Chosen([p EXCEPT !.incomingAddr = addr], Pick(cands, CareBefore(p, cands)))

\* Wrong: the confidence of the evicted line's entry does not decay.
CareReplacedNoDecay(p, id) ==
    LET in == HashAddr(p, p.incomingAddr) IN
    [p EXCEPT !.rc[id] = p.sht[in].rc, !.lineAddr[id] = p.incomingAddr,
              !.epv[id] = ComputeEPV(p.sht[in].rc, p.pd[id]), !.rBit[id] = FALSE, !.pmcs[id] = 0]

CareReplaced(p, id) ==
    LET old == p.lineAddr[id]
        in == HashAddr(p, p.incomingAddr)
        sht == IF old = 0 THEN p.sht ELSE [p.sht EXCEPT ![HashAddr(p, old)].rc = Down(@)]
        pd == CASE p.pd[id] > sht[in].pd -> Up(sht[in].pd)
                [] p.pd[id] < sht[in].pd -> Down(sht[in].pd)
                [] OTHER -> sht[in].pd
    IN [p EXCEPT !.sht = [sht EXCEPT ![in].pd = pd], !.rc[id] = sht[in].rc, !.pd[id] = pd,
                 !.lineAddr[id] = p.incomingAddr, !.epv[id] = ComputeEPV(sht[in].rc, pd),
                 !.rBit[id] = FALSE, !.pmcs[id] = 0]

\* A miss of cost pmc has been served: the thresholds of costly misses follow
\* their share, five per cent and half a per cent of the misses of a period.  As a
\* float the one is more than the double 0.05, the other less than 0.005, so that
\* they move at exactly these shares too.
DTRM(p, pmc) ==
    LET n == p.period + 1
        tmc == IF pmc >= p.high THEN p.TMC + 1 ELSE p.TMC
        step == CASE tmc * 20 >= n -> 1
                  [] tmc * 200 <= n /\ p.low > 10 -> -1
                  [] OTHER -> 0
    IN IF n < MissPeriod THEN [p EXCEPT !.period = n, !.TMC = tmc]
       ELSE [p EXCEPT !.period = 0, !.TMC = 0, !.high = @ + 70 * step, !.low = @ + 10 * step]

QuantizePMC(p, pmc, id) ==
    [p EXCEPT !.pmcs[id] = CASE pmc < p.low -> 0 [] pmc > p.high -> 3 [] OTHER -> 1]

ShtPMCUpdate(p, addr, id) ==
    [p EXCEPT !.sht[HashAddr(p, addr)].pd =
        CASE p.pmcs[id] = 3 -> Up(@) [] p.pmcs[id] = 0 -> Down(@) [] OTHER -> @]

-----------------------------------------------------------------------------
(* The interface of the classes.                                           *)

NewPolicy(kind, n) ==
    CASE kind = "LRU" -> LRUNew(n, TRUE)
      [] kind = "LRUNoSh" -> LRUNew(n, FALSE)
      [] kind = "NRU" -> NRUNew(n)
      [] kind = "LFU" -> LFUNew(n)
      [] kind = "SRRIP" -> SRRIPNew(n)
      [] kind = "CARE" -> CareNew(n)
      [] OTHER -> RandNew

Update(p, id) ==
    CASE p.kind = "LRU" -> LRUUpdate(p, id)
      [] p.kind = "NRU" -> NRUUpdate(p, id)
      [] p.kind = "LFU" -> LFUUpdate(p, id)
      [] p.kind = "SRRIP" -> SRRIPUpdate(p, id)
      [] p.kind = "CARE" -> CareUpdate(p, id)
      [] OTHER -> p

Replaced(p, id) ==
    CASE p.kind = "LRU" -> LRUReplaced(p, id)
      [] p.kind = "NRU" -> NRUReplaced(p, id)
      [] p.kind = "LFU" -> LFUReplaced(p, id)
      [] p.kind = "SRRIP" -> SRRIPReplaced(p, id)
      [] p.kind = "CARE" -> CareReplaced(p, id)
      [] OTHER -> p

\* The choices rank() can make for the line at addr, with the policy after it.
Rank(p, addr, cands, line) ==
    CASE p.kind = "LRU" -> LRURank(p, cands, line)
      [] p.kind = "NRU" -> NRURank(p, cands)
      [] p.kind = "LFU" -> LFURank(p, cands, line)
      [] p.kind = "SRRIP" -> SRRIPRank(p, cands)
      [] p.kind = "CARE" -> CareRank(p, addr, cands)
      [] OTHER -> RandRank(p, cands)
=============================================================================
