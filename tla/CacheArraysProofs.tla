------------------------- MODULE CacheArraysProofs -------------------------
(***************************************************************************)
(* CacheArrays finds its lines, CARE counts them and victims are the ones  *)
(* that the policies promise, for every geometry, hash function, policy,   *)
(* number of accesses and miss cost that meet ConfigOK.  The module goes   *)
(* from data to steps: recursive functions, scans of candidates, policies, *)
(* the walk of a zcache, the path and the moves of a replacement, and then *)
(* the three inductive invariants.                                         *)
(***************************************************************************)
EXTENDS CacheArrays, FiniteSetTheorems, SequenceTheorems, WellFoundedInduction, TLAPS

-----------------------------------------------------------------------------
(* Recursive functions.  The walk, the policies' choices and the moves are *)
(* defined by recursion over 0..N.  That such a function exists, and what  *)
(* its values are, follows from the well-foundedness of < on Nat: the      *)
(* induction is over a set, not over an operator.                          *)

Less == {ss \in Nat \X Nat : ss[1] < ss[2]}

\* There is no infinite descent in the natural numbers.
LEMMA LessWellFounded == IsWellFoundedOn(Less, Nat)
BY NatLessThanWellFounded, Zenon DEF OpToRel, Less

\* Induction, with a set for the predicate.
LEMMA NatInduct ==
    ASSUME NEW S \in SUBSET Nat, 0 \in S, \A n \in S : n + 1 \in S
    PROVE  Nat \subseteq S
<1> SUFFICES ASSUME Nat \ S # {} PROVE FALSE
  OBVIOUS
<1>1. PICK x \in Nat \ S : \A y \in Nat \ S : <<y, x>> \notin Less
  BY LessWellFounded, WFMin
<1>2. x # 0 /\ x - 1 \in Nat /\ x - 1 < x /\ x = (x - 1) + 1
  OBVIOUS
<1>3. x - 1 \in S
  BY <1>1, <1>2 DEF Less
<1> QED
  BY <1>2, <1>3

IsFun(f, D) == f = [x \in D |-> f[x]]

\* A set of naturals that is not empty has a least element.
LEMMA NatLeast ==
    ASSUME NEW S \in SUBSET Nat, S # {}
    PROVE  \E x \in S : \A y \in S : x <= y
<1>1. PICK x \in S : \A y \in S : <<y, x>> \notin Less
  BY LessWellFounded, WFMin
<1>2. \A y \in S : x <= y
  <2> TAKE y \in S
  <2>1. <<y, x>> \in Nat \X Nat
    OBVIOUS
  <2>2. ~ (y < x)
    BY <1>1, <2>1 DEF Less
  <2> QED
    BY <2>2
<1> QED
  BY <1>2

\* Each st[n] leads from the set of an earlier index, fr[n], to the set of n.
Steps(N, V, b, fr, st) ==
    b \in V[0] /\ \A n \in 1..N : fr[n] \in 0..(n - 1) /\ (\A v \in V[fr[n]] : st[n][v] \in V[n])
Run(f, N, V, b, fr, st) ==
    /\ IsFun(f, 0..N) /\ f[0] = b
    /\ \A n \in 1..N : f[n] = st[n][f[fr[n]]]
    /\ \A n \in 0..N : f[n] \in V[n]

\* A function on 0..N can be defined at each n from its value at an earlier one.
LEMMA Recursion ==
    ASSUME NEW N \in Nat, NEW V, NEW b, NEW fr, NEW st, Steps(N, V, b, fr, st)
    PROVE  \E f : Run(f, N, V, b, fr, st)
<1> USE DEF Steps
<1> DEFINE F(m, f) == /\ IsFun(f, 0..m) /\ f[0] = b
                      /\ \A n \in 1..m : f[n] = st[n][f[fr[n]]]
                      /\ \A n \in 0..m : f[n] \in V[n]
           S == {m \in Nat : m <= N => \E f : F(m, f)}
<1>1. 0 \in S
  <2>1. F(0, [n \in 0..0 |-> b])
    BY DEF IsFun
  <2> QED
    BY <2>1
<1>2. ASSUME NEW m \in S PROVE m + 1 \in S
  <2> SUFFICES ASSUME m + 1 <= N PROVE \E f : F(m + 1, f)
    OBVIOUS
  <2>1. m \in Nat /\ m <= N
    OBVIOUS
  <2>2. PICK f : F(m, f)
    BY <2>1
  <2> DEFINE g == [n \in 0..(m + 1) |-> IF n = m + 1 THEN st[m + 1][f[fr[m + 1]]] ELSE f[n]]
  <2>3. g[m + 1] = st[m + 1][f[fr[m + 1]]] /\ \A n \in 0..m : g[n] = f[n]
    BY <2>1
  <2>4. IsFun(g, 0..(m + 1))
    BY <2>1 DEF IsFun
  <2>5. f[0] = b /\ (\A n \in 1..m : f[n] = st[n][f[fr[n]]]) /\ (\A n \in 0..m : f[n] \in V[n])
    BY <2>2
  <2>6. m + 1 \in 1..N /\ fr[m + 1] \in 0..m /\ \A v \in V[fr[m + 1]] : st[m + 1][v] \in V[m + 1]
    BY <2>1
  <2> HIDE DEF g
  <2>7. g[0] = b
    BY <2>1, <2>3, <2>5
  <2>8. ASSUME NEW n \in 1..(m + 1) PROVE g[n] = st[n][g[fr[n]]] /\ g[n] \in V[n]
    <3>1. CASE n = m + 1
      BY <3>1, <2>3, <2>5, <2>6
    <3>2. CASE n \in 1..m
      <4>1. n \in 1..N /\ fr[n] \in 0..m /\ n \in 0..m
        BY <3>2, <2>1
      <4> QED
        BY <4>1, <3>2, <2>3, <2>5
    <3> QED
      BY <3>1, <3>2, <2>1
  <2>9. \A n \in 0..(m + 1) : g[n] \in V[n]
    BY <2>1, <2>7, <2>8
  <2> QED
    BY <2>4, <2>7, <2>8, <2>9
<1>3. Nat \subseteq S
  <2> HIDE DEF S
  <2>1. S \in SUBSET Nat
    BY DEF S
  <2> QED
    BY <1>1, <1>2, <2>1, NatInduct
<1>4. N \in S
  BY <1>3
<1> QED
  BY <1>4 DEF Run

\* What holds at 0 and is handed on by each step holds throughout.
Hands(N, V, f, fr) ==
    f[0] \in V[0] /\ \A n \in 1..N : fr[n] \in 0..(n - 1) /\ (f[fr[n]] \in V[fr[n]] => f[n] \in V[n])

\* So it holds at every index.
LEMMA Handed ==
    ASSUME NEW N \in Nat, NEW V, NEW f, NEW fr, Hands(N, V, f, fr)
    PROVE  \A n \in 0..N : f[n] \in V[n]
<1> USE DEF Hands
<1> DEFINE S == {m \in Nat : \A n \in 0..m : n <= N => f[n] \in V[n]}
<1>1. 0 \in S
  OBVIOUS
<1>2. ASSUME NEW m \in S PROVE m + 1 \in S
  <2>1. m \in Nat /\ \A n \in 0..m : n <= N => f[n] \in V[n]
    OBVIOUS
  <2>2. m + 1 <= N => fr[m + 1] \in 0..m /\ (f[fr[m + 1]] \in V[fr[m + 1]] => f[m + 1] \in V[m + 1])
    BY <2>1
  <2>3. \A n \in 0..(m + 1) : n \in 0..m \/ n = m + 1
    BY <2>1
  <2>4. m + 1 <= N => f[m + 1] \in V[m + 1]
    BY <2>1, <2>2
  <2> QED
    BY <2>1, <2>3, <2>4
<1>3. Nat \subseteq S
  <2> HIDE DEF S
  <2>1. S \in SUBSET Nat
    BY DEF S
  <2> QED
    BY <1>1, <1>2, <2>1, NatInduct
<1>4. N \in S
  BY <1>3
<1> QED
  BY <1>4

\* A fold over 1..N stays in the sets V[n] that each of its steps leads to.
FoldSteps(N, V, b, st) == b \in V[0] /\ \A n \in 1..N : \A v \in V[n - 1] : st[n][v] \in V[n]
FoldRun(f, N, V, b, st) ==
    /\ IsFun(f, 0..N) /\ f[0] = b
    /\ \A n \in 1..N : f[n] = st[n][f[n - 1]]
    /\ \A n \in 0..N : f[n] \in V[n]

\* A fold over 1..N exists if each step leads from V[n - 1] to V[n].
LEMMA Fold ==
    ASSUME NEW N \in Nat, NEW V, NEW b, NEW st, FoldSteps(N, V, b, st)
    PROVE  \E f : FoldRun(f, N, V, b, st)
<1> DEFINE fr == [n \in 1..N |-> n - 1]
<1>1. \A n \in 1..N : fr[n] = n - 1 /\ fr[n] \in 0..(n - 1)
  OBVIOUS
<1> HIDE DEF fr
<1>2. Steps(N, V, b, fr, st)
  BY <1>1 DEF Steps, FoldSteps
<1>3. PICK f : Run(f, N, V, b, fr, st)
  BY <1>2, Recursion
<1>4. \A n \in 1..N : f[n] = st[n][f[n - 1]]
  BY <1>1, <1>3 DEF Run
<1>5. FoldRun(f, N, V, b, st)
  BY <1>3, <1>4 DEF Run, FoldRun
<1> QED
  BY <1>5

\* What holds at 0 and is handed on from n - 1 to n holds throughout.
LEMMA FoldHanded ==
    ASSUME NEW N \in Nat, NEW V, NEW f, f[0] \in V[0],
           \A n \in 1..N : f[n - 1] \in V[n - 1] => f[n] \in V[n]
    PROVE  \A n \in 0..N : f[n] \in V[n]
<1> DEFINE fr == [n \in 1..N |-> n - 1]
<1>1. \A n \in 1..N : fr[n] = n - 1 /\ fr[n] \in 0..(n - 1)
  OBVIOUS
<1> HIDE DEF fr
<1>2. Hands(N, V, f, fr)
  BY <1>1 DEF Hands
<1> QED
  BY <1>2, Handed

-----------------------------------------------------------------------------
(* Scans.  LRU, LFU and CARE keep the best candidate so far; R says which  *)
(* candidate goes before which.                                            *)

Scan(cands, R, best) ==
    /\ best[0] = cands[1]
    /\ \A n \in 1..(Len(cands) - 1) :
          best[n] = IF <<cands[n + 1], best[n - 1]>> \in R THEN cands[n + 1] ELSE best[n - 1]

\* What a scan keeps is a candidate.
LEMMA ScanRange ==
    ASSUME NEW L, NEW cands \in Seq(L), Len(cands) >= 1, NEW best, best[0] = cands[1],
           \A n \in 1..(Len(cands) - 1) : best[n] = cands[n + 1] \/ best[n] = best[n - 1]
    PROVE  \A n \in 0..(Len(cands) - 1) : best[n] \in Range(cands)
<1> DEFINE N == Len(cands) - 1
           V == [n \in 0..N |-> Range(cands)]
<1>1. N \in Nat /\ \A n \in 0..N : V[n] = Range(cands) /\ cands[n + 1] \in Range(cands)
  BY DEF Range
<1>2. best[0] \in V[0]
  BY <1>1
<1>3. \A n \in 1..N : best[n - 1] \in V[n - 1] => best[n] \in V[n]
  BY <1>1
<1> HIDE DEF V, N
<1>4. \A n \in 0..N : best[n] \in V[n]
  BY <1>1, <1>2, <1>3, FoldHanded
<1> QED
  BY <1>1, <1>4 DEF N

\* There is a scan, as a recursive function.
LEMMA ScanExists ==
    ASSUME NEW L, NEW cands \in Seq(L), Len(cands) >= 1, NEW R
    PROVE  \E f : /\ IsFun(f, 0..(Len(cands) - 1)) /\ Scan(cands, R, f)
                  /\ \A n \in 0..(Len(cands) - 1) : f[n] \in Range(cands)
<1> DEFINE N == Len(cands) - 1
           Step(n, b) == IF <<cands[n + 1], b>> \in R THEN cands[n + 1] ELSE b
           V == [n \in 0..N |-> Range(cands)]
           st == [n \in 1..N |-> [v \in Range(cands) |-> Step(n, v)]]
<1>1. N \in Nat /\ \A n \in 0..N : cands[n + 1] \in Range(cands)
  BY DEF Range
<1>2. \A n \in 1..N : \A v \in Range(cands) : Step(n, v) \in Range(cands)
  BY <1>1
<1> HIDE DEF Step
<1>3. /\ \A n \in 0..N : V[n] = Range(cands)
      /\ \A n \in 1..N : \A v \in V[n - 1] : st[n][v] = Step(n, v) /\ st[n][v] \in V[n]
  BY <1>1, <1>2
<1>4. cands[1] \in V[0]
  BY <1>1, <1>3
<1> HIDE DEF V, st, N
<1>5. FoldSteps(N, V, cands[1], st)
  BY <1>1, <1>3, <1>4 DEF FoldSteps
<1>6. PICK f : FoldRun(f, N, V, cands[1], st)
  BY <1>1, <1>5, Fold
<1>7. /\ f[0] = cands[1] /\ \A n \in 1..N : f[n] = Step(n, f[n - 1])
      /\ \A n \in 0..N : f[n] \in Range(cands)
  BY <1>1, <1>3, <1>6 DEF FoldRun
<1>8. IsFun(f, 0..N)
  BY <1>6 DEF FoldRun
<1> QED
  BY <1>7, <1>8 DEF Scan, Step, N

\* If the candidates in G go before the others and one is in G, the best one is.
LEMMA ScanBest ==
    ASSUME NEW L, NEW cands \in Seq(L), Len(cands) >= 1, NEW R, NEW best, Scan(cands, R, best),
           NEW G, NEW u \in Range(cands), u \in G,
           \A c, b \in Range(cands) : (b \in G /\ <<c, b>> \in R => c \in G)
                                      /\ (c \in G /\ <<c, b>> \notin R => b \in G)
    PROVE  best[Len(cands) - 1] \in G
<1> DEFINE N == Len(cands) - 1
           V == [n \in 0..N |-> {b \in Range(cands) : (\E m \in 1..(n + 1) : cands[m] \in G) => b \in G}]
<1>1. N \in Nat /\ \A n \in 0..N : cands[n + 1] \in Range(cands)
  BY DEF Range
<1>2. \A n \in 0..N : best[n] \in Range(cands)
  BY ScanRange DEF Scan
<1>3. \A n \in 0..N : V[n] = {b \in Range(cands) : (\E m \in 1..(n + 1) : cands[m] \in G) => b \in G}
  OBVIOUS
<1> HIDE DEF V
<1>4. best[0] \in V[0]
  BY <1>1, <1>2, <1>3 DEF Scan
<1>5. ASSUME NEW n \in 1..N, best[n - 1] \in V[n - 1] PROVE best[n] \in V[n]
  <2>1. n \in 0..N /\ n - 1 \in 0..N /\ (n - 1) + 1 = n
    BY <1>1
  <2>2. cands[n + 1] \in Range(cands) /\ best[n - 1] \in Range(cands) /\ best[n] \in Range(cands)
    BY <1>1, <1>2, <2>1
  <2>3. best[n] = IF <<cands[n + 1], best[n - 1]>> \in R THEN cands[n + 1] ELSE best[n - 1]
    BY DEF Scan
  <2>4. (\E m \in 1..n : cands[m] \in G) => best[n - 1] \in G
    BY <1>3, <1>5, <2>1
  <2>5. (\E m \in 1..(n + 1) : cands[m] \in G) => (\E m \in 1..n : cands[m] \in G) \/ cands[n + 1] \in G
    BY <2>1
  <2> QED
    BY <1>3, <2>1, <2>2, <2>3, <2>4, <2>5
<1>6. best[N] \in V[N]
  <2> HIDE DEF N
  <2>1. \A n \in 0..N : best[n] \in V[n]
    BY <1>1, <1>4, <1>5, FoldHanded
  <2> QED
    BY <1>1, <2>1
<1>7. \E m \in 1..(N + 1) : cands[m] \in G
  BY <1>1 DEF Range
<1> QED
  BY <1>1, <1>3, <1>6, <1>7

\* What Pick leaves is the end of such a scan.
LEMMA PickScan ==
    ASSUME NEW L, NEW cands \in Seq(L), Len(cands) >= 1, NEW R
    PROVE  \E best : Scan(cands, R, best) /\ Pick(cands, R) = best[Len(cands) - 1]
<1> DEFINE N == Len(cands) - 1
           Step(n, b) == IF <<cands[n + 1], b>> \in R THEN cands[n + 1] ELSE b
           best[n \in 0..N] == IF n = 0 THEN cands[1] ELSE Step(n, best[n - 1])
<1>1. Pick(cands, R) = best[N]
  BY DEF Pick
<1>2. N \in Nat
  OBVIOUS
<1>3. PICK f : IsFun(f, 0..N) /\ Scan(cands, R, f)
  BY ScanExists
<1>4. f[0] = cands[1] /\ \A n \in 1..N : f[n] = Step(n, f[n - 1])
  BY <1>3 DEF Scan
<1>5. f = [n \in 0..N |-> IF n = 0 THEN cands[1] ELSE Step(n, f[n - 1])]
  <2> HIDE DEF Step, N
  <2>1. \A n \in 0..N : f[n] = IF n = 0 THEN cands[1] ELSE Step(n, f[n - 1])
    BY <1>2, <1>4
  <2>2. f = [n \in 0..N |-> f[n]]
    BY <1>3 DEF IsFun
  <2> QED
    BY <2>1, <2>2
<1>6. best = [n \in 0..N |-> IF n = 0 THEN cands[1] ELSE Step(n, best[n - 1])]
  <2> HIDE DEF Step, N
  <2> QED
    BY <1>5
<1> HIDE DEF best
<1>7. best[0] = cands[1] /\ \A n \in 1..N : best[n] = Step(n, best[n - 1])
  <2> HIDE DEF Step, N
  <2> QED
    BY <1>2, <1>6
<1>8. Scan(cands, R, best)
  BY <1>7 DEF Scan
<1> QED
  BY <1>1, <1>8

\* It is a candidate.
LEMMA PickRange ==
    ASSUME NEW L, NEW cands \in Seq(L), Len(cands) >= 1, NEW R
    PROVE  Pick(cands, R) \in Range(cands)
<1>1. PICK best : Scan(cands, R, best) /\ Pick(cands, R) = best[Len(cands) - 1]
  BY PickScan
<1>2. \A n \in 0..(Len(cands) - 1) : best[n] \in Range(cands)
  BY <1>1, ScanRange DEF Scan
<1> QED
  BY <1>1, <1>2

\* If the candidates in G go before the others and one is in G, it is in G.
LEMMA PickBest ==
    ASSUME NEW L, NEW cands \in Seq(L), Len(cands) >= 1, NEW R,
           NEW G, NEW u \in Range(cands), u \in G,
           \A c, b \in Range(cands) : (b \in G /\ <<c, b>> \in R => c \in G)
                                      /\ (c \in G /\ <<c, b>> \notin R => b \in G)
    PROVE  Pick(cands, R) \in G
<1>1. PICK best : Scan(cands, R, best) /\ Pick(cands, R) = best[Len(cands) - 1]
  BY PickScan
<1>2. best[Len(cands) - 1] \in G
  BY <1>1, ScanBest
<1> QED
  BY <1>1, <1>2

\* LRU changes nothing.
LEMMA LRUChoice ==
    ASSUME NEW p, NEW ln, NEW L, NEW cands \in Seq(L), Len(cands) >= 1
    PROVE  \A r \in LRURank(p, cands, ln) : r.id \in Range(cands) /\ r.p = p
BY PickRange DEF LRURank, Chosen

\* Nor does LFU.
LEMMA LFUChoice ==
    ASSUME NEW p, NEW ln, NEW L, NEW cands \in Seq(L), Len(cands) >= 1
    PROVE  \A r \in LFURank(p, cands, ln) : r.id \in Range(cands) /\ r.p = p
BY PickRange DEF LFURank, Chosen

\* CARE only notes the address that comes in.
LEMMA CareChoice ==
    ASSUME NEW p, NEW addr, NEW L, NEW cands \in Seq(L), Len(cands) >= 1
    PROVE  \A r \in CareRank(p, addr, cands) : r.id \in Range(cands) /\ r.p = [p EXCEPT !.incomingAddr = addr]
BY PickRange DEF CareRank, Chosen

-----------------------------------------------------------------------------
(* The policies' state, for lines 0..(n - 1).                              *)

Slots(n) == 0..(n - 1)

LRUPolicies(n) ==
    [kind : {"LRU"}, sharersAware : BOOLEAN, timestamp : Nat, array : [Slots(n) -> Nat]]
NRUPolicies(n) ==
    [kind : {"NRU"}, array : [Slots(n) -> 0..3], youngLines : Nat, candVal : Nat, candArray : Seq(Slots(n))]
LFUPolicies(n) ==
    [kind : {"LFU"}, timestamp : Nat, array : [Slots(n) -> [ts : Int, acc : Nat]]]
SRRIPPolicies(n) ==
    [kind : {"SRRIP"}, rrpv : [Slots(n) -> 0..RRPVMax], wasInserted : [Slots(n) -> BOOLEAN]]
CarePolicies(n) ==
    [kind : {"CARE"}, rc : [Slots(n) -> 0..CareMax], pd : [Slots(n) -> 0..CareMax],
     pmcs : [Slots(n) -> Nat], lineAddr : [Slots(n) -> Nat], epv : [Slots(n) -> Nat],
     rBit : [Slots(n) -> BOOLEAN], sht : [Slots(n) -> [rc : 0..CareMax, pd : 0..CareMax]],
     incomingAddr : Nat, TMC : Nat, period : Nat, high : Int, low : Int]

\* A record type for each policy.
PolicyOK(p, n) ==
    \/ p \in LRUPolicies(n) \/ p \in NRUPolicies(n) \/ p \in LFUPolicies(n) \/ p = RandNew
    \/ p \in SRRIPPolicies(n) \/ p \in CarePolicies(n)

KindOf(repl) == IF repl = "LRUNoSh" THEN "LRU" ELSE repl
Repls == {"LRU", "LRUNoSh", "NRU", "LFU", "Rand", "SRRIP", "CARE"}

\* No NRU candidate is as bad as having none.
LEMMA NoCandValNat == NoCandVal \in Nat /\ NoCandVal > 3
BY SMT DEF NoCandVal

\* Policies start well-formed.
LEMMA NewPolicyOK ==
    ASSUME NEW repl \in Repls, NEW n \in Nat \ {0}
    PROVE  PolicyOK(NewPolicy(repl, n), n) /\ NewPolicy(repl, n).kind = KindOf(repl)
<1> USE DEF Slots
<1>1. CASE repl \in {"LRU", "LRUNoSh"}
  BY <1>1 DEF NewPolicy, KindOf, LRUNew, PolicyOK, LRUPolicies
<1>2. CASE repl = "NRU"
  BY <1>2, NoCandValNat DEF NewPolicy, KindOf, NRUNew, PolicyOK, NRUPolicies
<1>3. CASE repl = "LFU"
  BY <1>3 DEF NewPolicy, KindOf, LFUNew, PolicyOK, LFUPolicies
<1>4. CASE repl = "Rand"
  BY <1>4 DEF NewPolicy, KindOf, RandNew, PolicyOK
<1>5. CASE repl = "SRRIP"
  BY <1>5 DEF NewPolicy, KindOf, SRRIPNew, RRPVMax, PolicyOK, SRRIPPolicies
<1>6. CASE repl = "CARE"
  <2>1. CareNew(n) \in CarePolicies(n) /\ CareNew(n).kind = "CARE"
    BY DEF CareNew, CareMax, CarePolicies
  <2> QED
    BY <1>6, <2>1 DEF NewPolicy, KindOf, PolicyOK
<1> QED
  BY <1>1, <1>2, <1>3, <1>4, <1>5, <1>6 DEF Repls

\* What NRU does to ages.
LEMMA HalfNat == \A x \in Nat : x \div 2 \in Nat /\ (x <= 3 => x \div 2 <= 1) /\ x \div 2 <= x
OBVIOUS

\* What LFU does to timestamps.
LEMMA DivNat == ASSUME NEW a \in Int, NEW b \in Nat \ {0} PROVE a \div b \in Int
OBVIOUS

\* CARE's counters saturate at both ends.
LEMMA UpDown ==
    ASSUME NEW x \in 0..CareMax
    PROVE  /\ Up(x) \in 0..CareMax /\ (x < CareMax => Up(x) = x + 1) /\ (x = CareMax => Up(x) = x)
           /\ Down(x) \in 0..CareMax /\ (x > 0 => Down(x) = x - 1) /\ (x = 0 => Down(x) = 0)
BY DEF Up, Down, CareMax

\* Eviction priorities are numbers.
LEMMA EPVNat == ASSUME NEW r, NEW d PROVE ComputeEPV(r, d) \in Nat
BY DEF ComputeEPV

\* The table is indexed within its bounds.
LEMMA HashOK ==
    ASSUME NEW n \in Nat \ {0}, NEW p \in CarePolicies(n), NEW a \in Nat
    PROVE  HashAddr(p, a) = a % n /\ HashAddr(p, a) \in Slots(n)
<1>1. DOMAIN p.sht = 0..(n - 1)
  BY DEF CarePolicies, Slots
<1>2. Cardinality(0..(n - 1)) = n
  BY FS_Interval
<1> QED
  BY <1>1, <1>2 DEF HashAddr, Slots

\* What a use of line id does to the state of CARE.
CareUsed(p, id, h) ==
    [p EXCEPT !.rBit = [p.rBit EXCEPT ![id] = TRUE],
              !.rc = [p.rc EXCEPT ![id] = Up(p.rc[id])],
              !.sht = [p.sht EXCEPT ![h] = [p.sht[h] EXCEPT !.rc = Up(p.sht[h].rc)]],
              !.epv = [p.epv EXCEPT ![id] = ComputeEPV(Up(p.rc[id]), p.pd[id])]]

\* update() of CARE on a line whose used bit is clear, field by field.
LEMMA CareUpdateIs ==
    ASSUME NEW n \in Nat \ {0}, NEW p \in CarePolicies(n), NEW id \in Slots(n), ~p.rBit[id]
    PROVE  CareUpdate(p, id) = CareUsed(p, id, HashAddr(p, p.lineAddr[id]))
<1>1. p.lineAddr[id] \in Nat
  BY DEF CarePolicies
<1>2. HashAddr(p, p.lineAddr[id]) \in Slots(n)
  BY <1>1, HashOK
<1> DEFINE h == HashAddr(p, p.lineAddr[id])
<1> HIDE DEF h
<1>3. [p EXCEPT !.rBit[id] = TRUE, !.rc[id] = Up(@), !.sht[h].rc = Up(@),
                !.epv[id] = ComputeEPV(Up(p.rc[id]), p.pd[id])]
      = CareUsed(p, id, h)
  BY DEF CareUsed
<1> QED
  BY <1>2, <1>3 DEF CareUpdate, h

\* update() keeps CARE's state well-formed.
LEMMA CareUpdateOK ==
    ASSUME NEW n \in Nat \ {0}, NEW p \in CarePolicies(n), NEW id \in Slots(n)
    PROVE  CareUpdate(p, id) \in CarePolicies(n)
<1> DEFINE h == HashAddr(p, p.lineAddr[id])
           bit == [p.rBit EXCEPT ![id] = TRUE]
           rc == [p.rc EXCEPT ![id] = Up(p.rc[id])]
           entry == [p.sht[h] EXCEPT !.rc = Up(p.sht[h].rc)]
           sht == [p.sht EXCEPT ![h] = entry]
           epv == [p.epv EXCEPT ![id] = ComputeEPV(Up(p.rc[id]), p.pd[id])]
<1>1. CASE p.rBit[id]
  BY <1>1 DEF CareUpdate
<1>2. CASE ~p.rBit[id]
  <2>1. h \in Slots(n) /\ CareUpdate(p, id) = [p EXCEPT !.rBit = bit, !.rc = rc, !.sht = sht, !.epv = epv]
    <3>1. p.lineAddr[id] \in Nat
      BY DEF CarePolicies
    <3> QED
      BY <1>2, <3>1, HashOK, CareUpdateIs DEF CareUsed
  <2> HIDE DEF h
  <2>2. bit \in [Slots(n) -> BOOLEAN]
    BY DEF CarePolicies
  <2>3. rc \in [Slots(n) -> 0..CareMax]
    <3>1. p.rc \in [Slots(n) -> 0..CareMax]
      BY DEF CarePolicies
    <3> QED
      BY <3>1, UpDown
  <2>4. sht \in [Slots(n) -> [rc : 0..CareMax, pd : 0..CareMax]]
    <3>1. p.sht \in [Slots(n) -> [rc : 0..CareMax, pd : 0..CareMax]]
      BY DEF CarePolicies
    <3>2. entry \in [rc : 0..CareMax, pd : 0..CareMax]
      BY <2>1, <3>1, UpDown
    <3> HIDE DEF entry
    <3> QED
      BY <3>1, <3>2
  <2>5. epv \in [Slots(n) -> Nat]
    BY EPVNat DEF CarePolicies
  <2> HIDE DEF bit, rc, sht, epv
  <2> QED
    BY <2>1, <2>2, <2>3, <2>4, <2>5 DEF CarePolicies
<1> QED
  BY <1>1, <1>2

\* Uses keep the state of a policy well-formed, and its kind.
LEMMA UpdateOK ==
    ASSUME NEW n \in Nat \ {0}, NEW p, PolicyOK(p, n), NEW id \in Slots(n)
    PROVE  PolicyOK(Update(p, id), n) /\ Update(p, id).kind = p.kind
           /\ (p.kind = "NRU" => Update(p, id).candVal = p.candVal)
<1>1. CASE p \in LRUPolicies(n)
  <2>1. p.kind = "LRU" /\ p.array \in [Slots(n) -> Nat] /\ p.timestamp \in Nat
    BY <1>1 DEF LRUPolicies
  <2> DEFINE new == [p.array EXCEPT ![id] = p.timestamp]
  <2>2. new \in [Slots(n) -> Nat]
    BY <2>1
  <2> DEFINE now == p.timestamp + 1
  <2>3. now \in Nat /\ Update(p, id) = [p EXCEPT !.array = new, !.timestamp = now]
    BY <1>1, <2>1 DEF Update, LRUUpdate, LRUPolicies
  <2> HIDE DEF new, now
  <2>4. Update(p, id) \in LRUPolicies(n)
    BY <1>1, <2>2, <2>3 DEF LRUPolicies
  <2> QED
    BY <2>1, <2>4 DEF PolicyOK, LRUPolicies
<1>2. CASE p \in NRUPolicies(n)
  <2> DEFINE young == p.youngLines + 1 - p.array[id] \div 2
             marked == [p.array EXCEPT ![id] = IF @ < 2 THEN @ + 2 ELSE @]
             halved == [i \in DOMAIN marked |-> marked[i] \div 2]
  <2>1. p.kind = "NRU" /\ p.array \in [Slots(n) -> 0..3] /\ p.youngLines \in Nat
    BY <1>2 DEF NRUPolicies
  <2>2. young \in Nat
    BY <2>1, HalfNat
  <2>3. marked \in [Slots(n) -> 0..3]
    BY <2>1
  <2>4. halved \in [Slots(n) -> 0..3]
    <3> HIDE DEF marked
    <3>1. \A i \in Slots(n) : marked[i] \div 2 \in 0..3
      BY <2>3, HalfNat
    <3> QED
      BY <2>3, <3>1
  <2> HIDE DEF young, marked, halved
  <2>5. \/ Update(p, id) = [p EXCEPT !.array = halved, !.youngLines = 0]
        \/ Update(p, id) = [p EXCEPT !.array = marked, !.youngLines = young]
    BY <2>1 DEF Update, NRUUpdate, young, marked, halved
  <2>6. /\ [p EXCEPT !.array = halved, !.youngLines = 0] \in NRUPolicies(n)
        /\ [p EXCEPT !.array = halved, !.youngLines = 0].candVal = p.candVal
    BY <1>2, <2>4 DEF NRUPolicies
  <2>7. /\ [p EXCEPT !.array = marked, !.youngLines = young] \in NRUPolicies(n)
        /\ [p EXCEPT !.array = marked, !.youngLines = young].candVal = p.candVal
    BY <1>2, <2>2, <2>3 DEF NRUPolicies
  <2>8. Update(p, id) \in NRUPolicies(n) /\ Update(p, id).candVal = p.candVal
    BY <2>5, <2>6, <2>7
  <2> QED
    BY <2>1, <2>8 DEF PolicyOK, NRUPolicies
<1>3. CASE p \in LFUPolicies(n)
  <2> DEFINE e == p.array[id]
             new == [ts |-> (e.acc * e.ts + p.timestamp) \div (e.acc + 1), acc |-> e.acc + 1]
  <2>1. p.kind = "LFU" /\ e \in [ts : Int, acc : Nat] /\ p.timestamp \in Nat
    BY <1>3 DEF LFUPolicies
  <2>2. new \in [ts : Int, acc : Nat]
    <3> HIDE DEF e
    <3>1. e.acc \in Nat /\ e.ts \in Int /\ e.acc + 1 \in Nat \ {0}
      BY <2>1
    <3>2. e.acc * e.ts + p.timestamp \in Int
      BY <2>1, <3>1
    <3> QED
      BY <3>1, <3>2, DivNat
  <2> DEFINE arr == [p.array EXCEPT ![id] = new]
  <2> HIDE DEF new
  <2>3. arr \in [Slots(n) -> [ts : Int, acc : Nat]]
    BY <1>3, <2>2 DEF LFUPolicies
  <2> DEFINE now == p.timestamp + 1000
  <2>4. now \in Nat /\ Update(p, id) = [p EXCEPT !.array = arr, !.timestamp = now]
    BY <1>3, <2>1 DEF Update, LFUUpdate, new, LFUPolicies
  <2> HIDE DEF e, arr, now
  <2>5. Update(p, id) \in LFUPolicies(n)
    BY <1>3, <2>3, <2>4 DEF LFUPolicies
  <2> QED
    BY <2>1, <2>5 DEF PolicyOK, LFUPolicies
<1>4. CASE p = RandNew
  BY <1>4 DEF Update, PolicyOK, RandNew
<1>5. CASE p \in SRRIPPolicies(n)
  <2>1. p.kind = "SRRIP"
    BY <1>5 DEF SRRIPPolicies
  <2>2. SRRIPUpdate(p, id) \in SRRIPPolicies(n)
    <3> DEFINE old == [p.wasInserted EXCEPT ![id] = FALSE]
               near == [p.rrpv EXCEPT ![id] = 0]
    <3>1. old \in [Slots(n) -> BOOLEAN] /\ near \in [Slots(n) -> 0..RRPVMax]
      BY <1>5 DEF SRRIPPolicies, RRPVMax
    <3>2. \/ SRRIPUpdate(p, id) = [p EXCEPT !.wasInserted = old]
          \/ SRRIPUpdate(p, id) = [p EXCEPT !.rrpv = near]
      BY <1>5 DEF SRRIPUpdate, SRRIPPolicies
    <3> HIDE DEF old, near
    <3> QED
      BY <1>5, <3>1, <3>2 DEF SRRIPPolicies
  <2>3. Update(p, id) = SRRIPUpdate(p, id)
    BY <2>1 DEF Update
  <2> QED
    BY <2>1, <2>2, <2>3 DEF PolicyOK, SRRIPPolicies
<1>6. CASE p \in CarePolicies(n)
  <2>1. p.kind = "CARE"
    BY <1>6 DEF CarePolicies
  <2>2. Update(p, id) = CareUpdate(p, id)
    BY <2>1 DEF Update
  <2>3. CareUpdate(p, id) \in CarePolicies(n)
    BY <1>6, CareUpdateOK
  <2> QED
    BY <2>1, <2>2, <2>3 DEF PolicyOK, CarePolicies
<1> QED
  BY <1>1, <1>2, <1>3, <1>4, <1>5, <1>6 DEF PolicyOK

\* What giving line id to the incoming address does to the state of CARE.
CareGiven(p, id, sht, r, d) ==
    [p EXCEPT !.sht = sht,
              !.rc = [p.rc EXCEPT ![id] = r],
              !.pd = [p.pd EXCEPT ![id] = d],
              !.lineAddr = [p.lineAddr EXCEPT ![id] = p.incomingAddr],
              !.epv = [p.epv EXCEPT ![id] = ComputeEPV(r, d)],
              !.rBit = [p.rBit EXCEPT ![id] = FALSE],
              !.pmcs = [p.pmcs EXCEPT ![id] = 0]]

\* replaced() of CARE, field by field: the confidence of the entry of the line
\* that goes decays, every other entry keeps its own.
LEMMA CareReplacedIs ==
    ASSUME NEW n \in Nat \ {0}, NEW p \in CarePolicies(n), NEW id \in Slots(n)
    PROVE  \E sht \in [Slots(n) -> [rc : 0..CareMax, pd : 0..CareMax]], r \in 0..CareMax, d \in 0..CareMax :
              /\ CareReplaced(p, id) = CareGiven(p, id, sht, r, d)
              /\ \A h \in Slots(n) :
                    sht[h].rc = IF p.lineAddr[id] # 0 /\ h = HashAddr(p, p.lineAddr[id])
                                THEN Down(p.sht[h].rc) ELSE p.sht[h].rc
<1> DEFINE old == p.lineAddr[id]
           in == HashAddr(p, p.incomingAddr)
           out == HashAddr(p, old)
           sht == IF old = 0 THEN p.sht ELSE [p.sht EXCEPT ![out] = [p.sht[out] EXCEPT !.rc = Down(p.sht[out].rc)]]
           d == CASE p.pd[id] > sht[in].pd -> Up(sht[in].pd)
                  [] p.pd[id] < sht[in].pd -> Down(sht[in].pd)
                  [] OTHER -> sht[in].pd
           r == sht[in].rc
           fin == [sht EXCEPT ![in] = [sht[in] EXCEPT !.pd = d]]
<1>1. old \in Nat /\ p.incomingAddr \in Nat
  BY DEF CarePolicies
<1>2. in \in Slots(n) /\ out \in Slots(n)
  BY <1>1, HashOK
<1>3. CareReplaced(p, id) = CareGiven(p, id, fin, r, d)
  <2> HIDE DEF old, in, out
  <2>1. sht = IF old = 0 THEN p.sht ELSE [p.sht EXCEPT ![out].rc = Down(@)]
    BY SMT
  <2> HIDE DEF sht
  <2> DEFINE dd == d
  <2>2. dd = d
    BY SMT
  <2>3. CareReplaced(p, id)
        = [p EXCEPT !.sht = [sht EXCEPT ![in].pd = dd], !.rc[id] = sht[in].rc, !.pd[id] = dd,
                    !.lineAddr[id] = p.incomingAddr, !.epv[id] = ComputeEPV(sht[in].rc, dd),
                    !.rBit[id] = FALSE, !.pmcs[id] = 0]
    BY SMT DEF CareReplaced, sht, in, out, old
  <2> HIDE DEF dd
  <2>4. CareGiven(p, id, [sht EXCEPT ![in] = [sht[in] EXCEPT !.pd = dd]], r, dd)
        = [p EXCEPT !.sht = [sht EXCEPT ![in].pd = dd], !.rc[id] = sht[in].rc, !.pd[id] = dd,
                    !.lineAddr[id] = p.incomingAddr, !.epv[id] = ComputeEPV(sht[in].rc, dd),
                    !.rBit[id] = FALSE, !.pmcs[id] = 0]
    BY SMT DEF CareGiven
  <2> QED
    BY <2>2, <2>3, <2>4, SMT
<1> HIDE DEF old, in, out
<1>4. /\ sht \in [Slots(n) -> [rc : 0..CareMax, pd : 0..CareMax]]
      /\ \A h \in Slots(n) : sht[h].rc = IF old # 0 /\ h = out THEN Down(p.sht[h].rc) ELSE p.sht[h].rc
  <2>1. p.sht \in [Slots(n) -> [rc : 0..CareMax, pd : 0..CareMax]]
    BY DEF CarePolicies
  <2> DEFINE e == [p.sht[out] EXCEPT !.rc = Down(p.sht[out].rc)]
  <2>2. e \in [rc : 0..CareMax, pd : 0..CareMax] /\ e.rc = Down(p.sht[out].rc)
    BY <1>2, <2>1, UpDown
  <2>3. sht = IF old = 0 THEN p.sht ELSE [p.sht EXCEPT ![out] = e]
    OBVIOUS
  <2> HIDE DEF e, sht
  <2> QED
    BY <1>2, <2>1, <2>2, <2>3
<1> HIDE DEF sht
<1>5. r \in 0..CareMax /\ sht[in].pd \in 0..CareMax
  BY <1>2, <1>4
<1>6. d \in 0..CareMax
  BY <1>5, UpDown
<1> HIDE DEF d
<1>7. /\ fin \in [Slots(n) -> [rc : 0..CareMax, pd : 0..CareMax]]
      /\ \A h \in Slots(n) : fin[h].rc = sht[h].rc
  <2> DEFINE e == [sht[in] EXCEPT !.pd = d]
  <2>1. e \in [rc : 0..CareMax, pd : 0..CareMax] /\ e.rc = sht[in].rc
    BY <1>2, <1>4, <1>6
  <2> HIDE DEF e
  <2>2. fin = [sht EXCEPT ![in] = e]
    BY DEF e
  <2> QED
    BY <1>2, <1>4, <2>1, <2>2
<1> HIDE DEF fin, r
<1> QED
  BY <1>3, <1>4, <1>5, <1>6, <1>7 DEF old, out

\* replaced() keeps CARE's state well-formed.
LEMMA CareGivenOK ==
    ASSUME NEW n \in Nat \ {0}, NEW p \in CarePolicies(n), NEW id \in Slots(n),
           NEW sht \in [Slots(n) -> [rc : 0..CareMax, pd : 0..CareMax]],
           NEW r \in 0..CareMax, NEW d \in 0..CareMax
    PROVE  CareGiven(p, id, sht, r, d) \in CarePolicies(n)
<1> DEFINE rc == [p.rc EXCEPT ![id] = r]
           pd == [p.pd EXCEPT ![id] = d]
           lineAddr == [p.lineAddr EXCEPT ![id] = p.incomingAddr]
           epv == [p.epv EXCEPT ![id] = ComputeEPV(r, d)]
           rBit == [p.rBit EXCEPT ![id] = FALSE]
           pmcs == [p.pmcs EXCEPT ![id] = 0]
<1>1. /\ rc \in [Slots(n) -> 0..CareMax] /\ pd \in [Slots(n) -> 0..CareMax]
      /\ lineAddr \in [Slots(n) -> Nat] /\ rBit \in [Slots(n) -> BOOLEAN]
      /\ pmcs \in [Slots(n) -> Nat]
  BY DEF CarePolicies
<1>2. epv \in [Slots(n) -> Nat]
  BY EPVNat DEF CarePolicies
<1> DEFINE p1 == [p EXCEPT !.sht = sht, !.rc = rc, !.pd = pd]
           p2 == [p1 EXCEPT !.lineAddr = lineAddr, !.epv = epv]
           p3 == [p2 EXCEPT !.rBit = rBit, !.pmcs = pmcs]
<1>3. CareGiven(p, id, sht, r, d) = p3
  BY DEF CareGiven
<1> HIDE DEF rc, pd, lineAddr, epv, rBit, pmcs
<1>4. p1 \in CarePolicies(n)
  BY <1>1 DEF CarePolicies
<1> HIDE DEF p1
<1>5. p2 \in CarePolicies(n)
  BY <1>1, <1>2, <1>4 DEF CarePolicies
<1> HIDE DEF p2
<1>6. p3 \in CarePolicies(n)
  BY <1>1, <1>5 DEF CarePolicies
<1> QED
  BY <1>3, <1>6

\* Replacements keep the state of a policy well-formed, and its kind; NRU forgets
\* its candidate.
LEMMA ReplacedOK ==
    ASSUME NEW n \in Nat \ {0}, NEW p, PolicyOK(p, n), NEW id \in Slots(n)
    PROVE  PolicyOK(Replaced(p, id), n) /\ Replaced(p, id).kind = p.kind
           /\ (p.kind = "NRU" => Replaced(p, id).candVal = NoCandVal)
<1>1. CASE p \in LRUPolicies(n)
  <2> DEFINE new == [p.array EXCEPT ![id] = 0]
  <2>1. p.kind = "LRU" /\ new \in [Slots(n) -> Nat]
    BY <1>1 DEF LRUPolicies
  <2>2. Replaced(p, id) = [p EXCEPT !.array = new]
    BY <1>1, <2>1 DEF Replaced, LRUReplaced, LRUPolicies
  <2> HIDE DEF new
  <2>3. Replaced(p, id) \in LRUPolicies(n)
    BY <1>1, <2>1, <2>2 DEF LRUPolicies
  <2> QED
    BY <2>1, <2>3 DEF PolicyOK, LRUPolicies
<1>2. CASE p \in NRUPolicies(n)
  <2> DEFINE new == [p.array EXCEPT ![id] = 0]
  <2>1. p.kind = "NRU" /\ new \in [Slots(n) -> 0..3]
    BY <1>2 DEF NRUPolicies
  <2> DEFINE none == <<>>
  <2>2. /\ Replaced(p, id) = [p EXCEPT !.candVal = NoCandVal, !.candArray = none, !.array = new]
        /\ none \in Seq(Slots(n))
    BY <1>2, <2>1 DEF Replaced, NRUReplaced, NRUPolicies
  <2> HIDE DEF new, none
  <2>3. Replaced(p, id) \in NRUPolicies(n) /\ Replaced(p, id).candVal = NoCandVal
    BY <1>2, <2>1, <2>2, NoCandValNat DEF NRUPolicies
  <2> QED
    BY <2>1, <2>3 DEF PolicyOK, NRUPolicies
<1>3. CASE p \in LFUPolicies(n)
  <2> DEFINE e == [p.array[id] EXCEPT !.acc = 0]
             new == [p.array EXCEPT ![id] = e]
  <2>1. p.kind = "LFU" /\ p.array \in [Slots(n) -> [ts : Int, acc : Nat]]
    BY <1>3 DEF LFUPolicies
  <2>2. e \in [ts : Int, acc : Nat]
    BY <2>1
  <2>3. Replaced(p, id) = [p EXCEPT !.array = new]
    BY <1>3, <2>1 DEF Replaced, LFUReplaced, LFUPolicies
  <2> HIDE DEF e
  <2>4. new \in [Slots(n) -> [ts : Int, acc : Nat]]
    BY <2>1, <2>2
  <2> HIDE DEF new
  <2>5. Replaced(p, id) \in LFUPolicies(n)
    BY <1>3, <2>3, <2>4 DEF LFUPolicies
  <2> QED
    BY <2>1, <2>5 DEF PolicyOK, LFUPolicies
<1>4. CASE p = RandNew
  BY <1>4 DEF Replaced, PolicyOK, RandNew
<1>5. CASE p \in SRRIPPolicies(n)
  <2> DEFINE far == [p.rrpv EXCEPT ![id] = RRPVMax - 1]
             new == [p.wasInserted EXCEPT ![id] = TRUE]
  <2>1. p.kind = "SRRIP" /\ far \in [Slots(n) -> 0..RRPVMax] /\ new \in [Slots(n) -> BOOLEAN]
    BY <1>5 DEF SRRIPPolicies, RRPVMax
  <2>2. Replaced(p, id) = [p EXCEPT !.rrpv = far, !.wasInserted = new]
    BY <1>5, <2>1 DEF Replaced, SRRIPReplaced, SRRIPPolicies
  <2> HIDE DEF far, new
  <2>3. Replaced(p, id) \in SRRIPPolicies(n)
    BY <1>5, <2>1, <2>2 DEF SRRIPPolicies
  <2> QED
    BY <2>1, <2>3 DEF PolicyOK, SRRIPPolicies
<1>6. CASE p \in CarePolicies(n)
  <2>1. p.kind = "CARE"
    BY <1>6 DEF CarePolicies
  <2>2. Replaced(p, id) = CareReplaced(p, id)
    BY <2>1 DEF Replaced
  <2>3. CareReplaced(p, id) \in CarePolicies(n)
    BY <1>6, CareReplacedIs, CareGivenOK
  <2> QED
    BY <2>1, <2>2, <2>3 DEF PolicyOK, CarePolicies
<1> QED
  BY <1>1, <1>2, <1>3, <1>4, <1>5, <1>6 DEF PolicyOK

-----------------------------------------------------------------------------
(* Choices: what a policy ranks best is one of the candidates.             *)

\* NRU takes one of the candidates of the lowest age it has recorded.
LEMMA NRUChoice ==
    ASSUME NEW n \in Nat \ {0}, NEW p \in NRUPolicies(n), p.candVal = NoCandVal,
           NEW cands \in Seq(Slots(n)), Len(cands) >= 1
    PROVE  \A r \in NRURank(p, cands) : r.id \in Range(cands) /\ r.p \in NRUPolicies(n)
<1> DEFINE N == Len(cands)
           recorded[m \in 0..N] == IF m = 0 THEN p ELSE NRURecordCandidate(recorded[m - 1], cands[m])
           Ok(m, q) == /\ q \in NRUPolicies(n) /\ q.array = p.array
                       /\ \A j \in 1..Len(q.candArray) : q.candArray[j] \in Range(cands)
                       /\ m > 0 => Len(q.candArray) > 0
           V == [m \in 0..N |-> IF m = 0 THEN {p} ELSE {q \in NRUPolicies(n) : Ok(m, q)}]
           st == [m \in 1..N |-> [q \in V[m - 1] |-> NRURecordCandidate(q, cands[m])]]
<1>1. NRURank(p, cands)
      = {[p |-> recorded[N], id |-> recorded[N].candArray[(recorded[N].youngLines % Len(recorded[N].candArray)) + 1]]}
  BY DEF NRURank, Chosen
<1>2. N \in Nat \ {0} /\ \A m \in 1..N : cands[m] \in Range(cands) /\ cands[m] \in Slots(n)
  BY DEF Range
<1>3. ASSUME NEW m \in 1..N, NEW q \in V[m - 1] PROVE NRURecordCandidate(q, cands[m]) \in V[m]
  <2> DEFINE c == cands[m]
             v == q.array[c]
  <2>1. q \in NRUPolicies(n) /\ q.array = p.array
    BY <1>2
  <2>2. v \in 0..3 /\ c \in Range(cands) /\ c \in Slots(n)
    BY <1>2, <2>1 DEF NRUPolicies
  <2>3. V[m] = {x \in NRUPolicies(n) : Ok(m, x)} /\ m > 0
    BY <1>2
  <2> HIDE DEF c, v
  <2> DEFINE one == <<c>>
             more == Append(q.candArray, c)
  <2>4. \/ v < q.candVal /\ NRURecordCandidate(q, c) = [q EXCEPT !.candVal = v, !.candArray = one]
        \/ v = q.candVal /\ NRURecordCandidate(q, c) = [q EXCEPT !.candArray = more]
        \/ v > q.candVal /\ NRURecordCandidate(q, c) = q
    BY <2>1, <2>2 DEF NRURecordCandidate, v, NRUPolicies
  <2>5. CASE v < q.candVal /\ NRURecordCandidate(q, c) = [q EXCEPT !.candVal = v, !.candArray = one]
    <3>1. one \in Seq(Slots(n)) /\ Len(one) = 1 /\ \A j \in 1..Len(one) : one[j] = c
      BY <2>2
    <3>2. v \in Nat /\ p.array = q.array
      BY <2>1, <2>2
    <3> HIDE DEF one
    <3> DEFINE x == [q EXCEPT !.candVal = v, !.candArray = one]
    <3>3. x \in NRUPolicies(n) /\ x.array = q.array /\ x.candArray = one
      BY <2>1, <3>1, <3>2 DEF NRUPolicies
    <3> HIDE DEF x
    <3>4. \A j \in 1..Len(one) : one[j] \in Range(cands)
      BY <2>2, <3>1
    <3>5. \A j \in 1..Len(x.candArray) : x.candArray[j] \in Range(cands)
      BY <3>3, <3>4, Zenon
    <3>6. Len(x.candArray) > 0
      <4>1. Len(x.candArray) = Len(one)
        BY <3>3, Zenon
      <4>2. Len(x.candArray) = 1
        BY <3>1, <4>1, Zenon
      <4> QED
        BY <4>2
    <3>7. Ok(m, x)
      BY <3>3, <3>2, <3>5, <3>6, Zenon
    <3> QED
      BY <2>3, <2>5, <3>3, <3>7 DEF c, x
  <2>6. ASSUME q.candVal <= v PROVE m - 1 > 0 /\ Ok(m - 1, q)
    <3>1. m # 1
      <4>1. SUFFICES ASSUME m = 1 PROVE FALSE
        OBVIOUS
      <4>2. q = p
        BY <4>1, <1>2
      <4> QED
        BY <4>2, <2>2, <2>6, NoCandValNat
    <3> QED
      BY <3>1, <1>2
  <2>7. CASE v = q.candVal /\ NRURecordCandidate(q, c) = [q EXCEPT !.candArray = more]
    <3>1. Ok(m - 1, q)
      BY <2>6, <2>7, <2>2
    <3>2. q.candArray \in Seq(Slots(n))
      BY <2>1 DEF NRUPolicies
    <3>3. more \in Seq(Slots(n)) /\ Len(more) > 0 /\ \A j \in 1..Len(more) : more[j] \in Range(cands)
      BY <2>2, <3>1, <3>2
    <3> HIDE DEF more
    <3> DEFINE x == [q EXCEPT !.candArray = more]
    <3>4. x \in NRUPolicies(n) /\ x.array = q.array /\ x.candArray = more
      BY <2>1, <2>2, <3>3 DEF NRUPolicies
    <3> HIDE DEF x
    <3>5. Ok(m, x)
      BY <2>1, <2>2, <3>3, <3>4
    <3> QED
      BY <2>3, <2>7, <3>4, <3>5 DEF c, x
  <2>8. CASE v > q.candVal /\ NRURecordCandidate(q, c) = q
    <3>1. Ok(m - 1, q) /\ m - 1 > 0
      BY <2>6, <2>8, <2>1, <2>2 DEF NRUPolicies
    <3> QED
      BY <2>3, <2>8, <3>1 DEF c
  <2> QED
    BY <2>4, <2>5, <2>7, <2>8
<1>4. /\ V[0] = {p}
      /\ \A m \in 1..N : \A q \in V[m - 1] : st[m][q] = NRURecordCandidate(q, cands[m]) /\ st[m][q] \in V[m]
  <2>1. V[0] = {p}
    BY <1>2
  <2>2. \A m \in 1..N : st[m] = [q \in V[m - 1] |-> NRURecordCandidate(q, cands[m])]
    BY <1>2
  <2> HIDE DEF V, st, N
  <2> QED
    BY <1>2, <1>3, <2>1, <2>2
<1>5. \A q \in V[N] : Ok(N, q) /\ N > 0
  BY <1>2
<1> HIDE DEF V, st, N
<1>6. FoldSteps(N, V, p, st)
  BY <1>2, <1>4 DEF FoldSteps
<1>7. PICK f : FoldRun(f, N, V, p, st)
  BY <1>2, <1>6, Fold
<1>8. f = [m \in 0..N |-> IF m = 0 THEN p ELSE NRURecordCandidate(f[m - 1], cands[m])]
  <2>1. \A m \in 0..N : f[m] = IF m = 0 THEN p ELSE NRURecordCandidate(f[m - 1], cands[m])
    BY <1>2, <1>4, <1>7 DEF FoldRun
  <2>2. f = [m \in 0..N |-> f[m]]
    BY <1>7 DEF FoldRun, IsFun
  <2> QED
    BY <2>1, <2>2
<1>9. recorded = [m \in 0..N |-> IF m = 0 THEN p ELSE NRURecordCandidate(recorded[m - 1], cands[m])]
  BY <1>8
<1> HIDE DEF recorded
<1>10. recorded[0] \in V[0] /\ \A m \in 1..N : recorded[m - 1] \in V[m - 1] => recorded[m] \in V[m]
  <2>1. recorded[0] = p /\ \A m \in 1..N : recorded[m] = NRURecordCandidate(recorded[m - 1], cands[m])
    BY <1>2, <1>9
  <2> QED
    BY <2>1, <1>2, <1>4
<1>11. recorded[N] \in V[N]
  <2>1. \A m \in 0..N : recorded[m] \in V[m]
    BY <1>2, <1>10, FoldHanded
  <2> QED
    BY <1>2, <2>1
<1> DEFINE q == recorded[N]
           i == (q.youngLines % Len(q.candArray)) + 1
<1>12. Ok(N, q) /\ N > 0
  BY <1>5, <1>11
<1>13. i \in 1..Len(q.candArray)
  <2>1. q.youngLines \in Nat /\ Len(q.candArray) \in Nat \ {0}
    BY <1>12 DEF NRUPolicies
  <2> QED
    BY <2>1
<1> HIDE DEF q
<1>14. \A r \in {[p |-> q, id |-> q.candArray[i]]} : r.id \in Range(cands) /\ r.p \in NRUPolicies(n)
  BY <1>12, <1>13
<1> QED
  BY <1>1, <1>14 DEF q

\* Ageing stays in range, and after RRPVMax rounds some candidate is distant.
LEMMA SRRIPOlder ==
    ASSUME NEW n \in Nat \ {0}, NEW p \in SRRIPPolicies(n), NEW cands \in Seq(Slots(n)), Len(cands) >= 1,
           NEW r \in 0..RRPVMax
    PROVE  /\ Older(p.rrpv, cands, r) \in [Slots(n) -> 0..RRPVMax]
           /\ r = RRPVMax => Older(p.rrpv, cands, r)[cands[1]] = RRPVMax
<1> DEFINE Times(i) == Cardinality({m \in DOMAIN cands : cands[m] = i})
           Age(i) == p.rrpv[i] + r * Times(i)
<1>1. p.rrpv \in [Slots(n) -> 0..RRPVMax] /\ DOMAIN cands = 1..Len(cands)
  BY DEF SRRIPPolicies
<1>2. ASSUME NEW i \in Slots(n) PROVE Times(i) \in Nat /\ (i = cands[1] => Times(i) >= 1)
  <2> DEFINE T == {m \in DOMAIN cands : cands[m] = i}
  <2>1. IsFiniteSet(DOMAIN cands)
    BY <1>1, FS_Interval
  <2>2. IsFiniteSet(T)
    BY <2>1, FS_Subset
  <2>3. i = cands[1] => T # {}
    BY <1>1
  <2> HIDE DEF T
  <2>4. Cardinality(T) \in Nat /\ (T # {} => Cardinality(T) # 0)
    BY <2>2, FS_CardinalityType, FS_EmptySet
  <2> QED
    BY <2>3, <2>4 DEF T
<1>3. Older(p.rrpv, cands, r) = [i \in Slots(n) |-> IF Age(i) < RRPVMax THEN Age(i) ELSE RRPVMax]
  BY <1>1 DEF Older
<1>4. ASSUME NEW i \in Slots(n) PROVE Age(i) \in Nat /\ (r = RRPVMax /\ i = cands[1] => Age(i) >= RRPVMax)
  <2>1. Times(i) \in Nat /\ (i = cands[1] => Times(i) >= 1) /\ p.rrpv[i] \in 0..3 /\ r \in 0..3
    BY <1>1, <1>2 DEF RRPVMax
  <2> DEFINE t == Times(i)
             a == p.rrpv[i]
  <2>2. Age(i) = a + r * t /\ a \in 0..3 /\ t \in Nat /\ (i = cands[1] => t >= 1)
    BY <2>1
  <2>3. r * t \in Nat /\ (r = 3 => r * t = 3 * t)
    BY <2>1
  <2> HIDE DEF Times, Age, t, a
  <2> QED
    BY <2>2, <2>3 DEF RRPVMax
<1>5. cands[1] \in Slots(n)
  OBVIOUS
<1> HIDE DEF Age
<1> QED
  BY <1>3, <1>4, <1>5 DEF RRPVMax

\* The candidates age by the fewest rounds after which one is distant, and that one
\* is chosen (SRRIPReplPolicy::rank).
LEMMA SRRIPIs ==
    ASSUME NEW n \in Nat \ {0}, NEW p \in SRRIPPolicies(n), NEW cands \in Seq(Slots(n)), Len(cands) >= 1,
           NEW r \in SRRIPRank(p, cands)
    PROVE  \E rounds \in 0..RRPVMax :
              /\ r.p = [p EXCEPT !.rrpv = Older(p.rrpv, cands, rounds)]
              /\ r.id \in Range(cands) /\ Older(p.rrpv, cands, rounds)[r.id] = RRPVMax
              /\ \A q \in 0..(rounds - 1) : \A c \in Range(cands) : Older(p.rrpv, cands, q)[c] # RRPVMax
<1> DEFINE Distant(q) == {m \in DOMAIN cands : Older(p.rrpv, cands, q)[cands[m]] = RRPVMax}
           rounds == CHOOSE q \in 0..RRPVMax : Distant(q) # {} /\ \A t \in 0..(q - 1) : Distant(t) = {}
           first == CHOOSE m \in Distant(rounds) : \A l \in Distant(rounds) : m <= l
<1>1. r = [p |-> [p EXCEPT !.rrpv = Older(p.rrpv, cands, rounds)], id |-> cands[first]]
  BY DEF SRRIPRank, Chosen
<1>2. DOMAIN cands = 1..Len(cands)
  OBVIOUS
<1>5. Distant(RRPVMax) # {}
  <2>1. RRPVMax \in 0..RRPVMax /\ 1 \in DOMAIN cands
    BY <1>2 DEF RRPVMax
  <2>2. Older(p.rrpv, cands, RRPVMax)[cands[1]] = RRPVMax
    BY <2>1, SRRIPOlder
  <2> QED
    BY <2>1, <2>2
<1> HIDE DEF Distant
<1>7. \E s \in 0..RRPVMax : Distant(s) # {} /\ \A q \in 0..(s - 1) : Distant(q) = {}
  <2>1. \/ Distant(0) # {}
        \/ Distant(0) = {} /\ Distant(1) # {}
        \/ Distant(0) = {} /\ Distant(1) = {} /\ Distant(2) # {}
        \/ Distant(0) = {} /\ Distant(1) = {} /\ Distant(2) = {} /\ Distant(3) # {}
    BY <1>5 DEF RRPVMax
  <2>2. /\ 0..(0 - 1) = {} /\ 0..(1 - 1) = {0} /\ 0..(2 - 1) = {0, 1} /\ 0..(3 - 1) = {0, 1, 2}
        /\ 0 \in 0..RRPVMax /\ 1 \in 0..RRPVMax /\ 2 \in 0..RRPVMax /\ 3 \in 0..RRPVMax
    BY DEF RRPVMax
  <2> QED
    BY <2>1, <2>2
<1>8. rounds \in 0..RRPVMax /\ Distant(rounds) # {} /\ \A q \in 0..(rounds - 1) : Distant(q) = {}
  BY <1>7
<1> HIDE DEF rounds
<1>9. \E m \in Distant(rounds) : \A l \in Distant(rounds) : m <= l
  <2>1. Distant(rounds) \subseteq Nat
    BY <1>2 DEF Distant
  <2> QED
    BY <1>8, <2>1, NatLeast
<1>10. first \in Distant(rounds)
  BY <1>9
<1>11. cands[first] \in Range(cands) /\ Older(p.rrpv, cands, rounds)[cands[first]] = RRPVMax
  BY <1>10 DEF Distant, Range
<1>12. \A q \in 0..(rounds - 1) : \A c \in Range(cands) : Older(p.rrpv, cands, q)[c] # RRPVMax
  BY <1>8 DEF Distant, Range
<1> HIDE DEF first
<1> QED
  BY <1>1, <1>8, <1>11, <1>12

\* So SRRIP takes one of the candidates, and ages stay in range.
LEMMA SRRIPChoice ==
    ASSUME NEW n \in Nat \ {0}, NEW p \in SRRIPPolicies(n), NEW cands \in Seq(Slots(n)), Len(cands) >= 1
    PROVE  \A r \in SRRIPRank(p, cands) : r.id \in Range(cands) /\ r.p \in SRRIPPolicies(n)
<1> SUFFICES ASSUME NEW r \in SRRIPRank(p, cands)
             PROVE  r.id \in Range(cands) /\ r.p \in SRRIPPolicies(n)
  OBVIOUS
<1>1. PICK rounds \in 0..RRPVMax :
         r.p = [p EXCEPT !.rrpv = Older(p.rrpv, cands, rounds)] /\ r.id \in Range(cands)
  BY SRRIPIs
<1>2. Older(p.rrpv, cands, rounds) \in [Slots(n) -> 0..RRPVMax]
  BY SRRIPOlder
<1> QED
  BY <1>1, <1>2 DEF SRRIPPolicies

\* rank() takes one of the candidates it is given and keeps the state of the
\* policy well-formed, whatever the policy; CARE notes the incoming address.
THEOREM RankOK ==
    ASSUME NEW n \in Nat \ {0}, NEW p, PolicyOK(p, n), p.kind = "NRU" => p.candVal = NoCandVal,
           NEW addr \in Nat, NEW ln, NEW cands \in Seq(Slots(n)), Len(cands) >= 1,
           NEW r \in Rank(p, addr, cands, ln)
    PROVE  /\ r.id \in Range(cands) /\ PolicyOK(r.p, n) /\ r.p.kind = p.kind
           /\ p.kind = "CARE" => r.p = [p EXCEPT !.incomingAddr = addr]
<1>1. CASE p \in LRUPolicies(n)
  <2>1. p.kind = "LRU" /\ r \in LRURank(p, cands, ln)
    BY <1>1 DEF LRUPolicies, Rank
  <2> QED
    BY <1>1, <2>1, LRUChoice DEF PolicyOK
<1>2. CASE p \in NRUPolicies(n)
  <2>1. p.kind = "NRU" /\ r \in NRURank(p, cands)
    BY <1>2 DEF NRUPolicies, Rank
  <2>2. r.id \in Range(cands) /\ r.p \in NRUPolicies(n)
    BY <1>2, <2>1, NRUChoice
  <2> QED
    BY <2>1, <2>2 DEF PolicyOK, NRUPolicies
<1>3. CASE p \in LFUPolicies(n)
  <2>1. p.kind = "LFU" /\ r \in LFURank(p, cands, ln)
    BY <1>3 DEF LFUPolicies, Rank
  <2> QED
    BY <1>3, <2>1, LFUChoice DEF PolicyOK
<1>4. CASE p = RandNew
  <2>1. p.kind = "Rand" /\ r \in RandRank(p, cands)
    BY <1>4 DEF RandNew, Rank
  <2>2. r.id \in Range(cands) /\ r.p = p
    BY <2>1 DEF RandRank
  <2> QED
    BY <1>4, <2>1, <2>2 DEF PolicyOK
<1>5. CASE p \in SRRIPPolicies(n)
  <2>1. p.kind = "SRRIP" /\ r \in SRRIPRank(p, cands)
    BY <1>5 DEF SRRIPPolicies, Rank
  <2>2. r.id \in Range(cands) /\ r.p \in SRRIPPolicies(n)
    BY <1>5, <2>1, SRRIPChoice
  <2> QED
    BY <2>1, <2>2 DEF PolicyOK, SRRIPPolicies
<1>6. CASE p \in CarePolicies(n)
  <2>1. p.kind = "CARE" /\ r \in CareRank(p, addr, cands)
    BY <1>6 DEF CarePolicies, Rank
  <2>2. r.id \in Range(cands) /\ r.p = [p EXCEPT !.incomingAddr = addr]
    BY <2>1, CareChoice
  <2>3. r.p \in CarePolicies(n)
    BY <1>6, <2>2 DEF CarePolicies
  <2> QED
    BY <2>1, <2>2, <2>3 DEF PolicyOK, CarePolicies
<1> QED
  BY <1>1, <1>2, <1>3, <1>4, <1>5, <1>6 DEF PolicyOK

\* The thresholds move together, in steps of one to seven.
Thresholds(p) == p.low >= 10 /\ p.low % 10 = 0 /\ p.high = 7 * p.low

SameCounts(p, q, n) ==
    /\ q.rc = p.rc /\ q.pd = p.pd /\ q.lineAddr = p.lineAddr /\ q.epv = p.epv /\ q.rBit = p.rBit
    /\ q.incomingAddr = p.incomingAddr
    /\ \A h \in Slots(n) : q.sht[h].rc = p.sht[h].rc

\* DTRM() moves the thresholds together and changes no count of lines.
LEMMA DTRMOK ==
    ASSUME NEW n \in Nat \ {0}, NEW p \in CarePolicies(n), Thresholds(p), NEW pmc \in Nat
    PROVE  LET q == DTRM(p, pmc) IN q \in CarePolicies(n) /\ SameCounts(p, q, n) /\ Thresholds(q)
<1> DEFINE m == p.period + 1
           tmc == IF pmc >= p.high THEN p.TMC + 1 ELSE p.TMC
           step == CASE tmc * 20 >= m -> 1
                     [] tmc * 200 <= m /\ p.low > 10 -> -1
                     [] OTHER -> 0
           q == DTRM(p, pmc)
<1>1. p.period \in Nat /\ p.TMC \in Nat /\ p.low \in Int /\ p.high \in Int
  BY DEF CarePolicies
<1>2. m \in Nat /\ tmc \in Nat
  BY <1>1
<1>3. step \in {1, -1, 0} /\ (step = -1 => p.low > 10)
  <2> HIDE DEF m, tmc
  <2> QED
    BY <1>1, <1>2
<1>4. \/ q = [p EXCEPT !.period = m, !.TMC = tmc]
      \/ q = [p EXCEPT !.period = 0, !.TMC = 0, !.high = @ + 70 * step, !.low = @ + 10 * step]
  BY DEF DTRM
<1> HIDE DEF m, tmc, step, q
<1>5. CASE q = [p EXCEPT !.period = m, !.TMC = tmc]
  <2>1. q \in CarePolicies(n)
    BY <1>2, <1>5 DEF CarePolicies
  <2>2. SameCounts(p, q, n) /\ q.low = p.low /\ q.high = p.high
    BY <1>5 DEF CarePolicies, SameCounts
  <2> QED
    BY <2>1, <2>2 DEF Thresholds, q
<1>6. CASE q = [p EXCEPT !.period = 0, !.TMC = 0, !.high = @ + 70 * step, !.low = @ + 10 * step]
  <2> DEFINE hi == p.high + 70 * step
             lo == p.low + 10 * step
  <2>1. q = [p EXCEPT !.period = 0, !.TMC = 0, !.high = hi, !.low = lo]
    BY <1>6
  <2>2. hi \in Int /\ lo \in Int /\ lo >= 10 /\ lo % 10 = 0 /\ hi = 7 * lo
    BY <1>1, <1>3 DEF Thresholds
  <2> HIDE DEF hi, lo
  <2>3. q \in CarePolicies(n)
    BY <2>1, <2>2 DEF CarePolicies
  <2>4. SameCounts(p, q, n) /\ q.low = lo /\ q.high = hi
    BY <2>1 DEF CarePolicies, SameCounts
  <2> QED
    BY <2>2, <2>3, <2>4 DEF Thresholds, q
<1> QED
  BY <1>4, <1>5, <1>6

\* quantizePMC() changes neither thresholds nor counts of lines.
LEMMA QuantizeOK ==
    ASSUME NEW n \in Nat \ {0}, NEW p \in CarePolicies(n), NEW pmc \in Nat, NEW id \in Slots(n)
    PROVE  LET q == QuantizePMC(p, pmc, id)
           IN q \in CarePolicies(n) /\ SameCounts(p, q, n) /\ q.low = p.low /\ q.high = p.high
<1> DEFINE v == CASE pmc < p.low -> 0 [] pmc > p.high -> 3 [] OTHER -> 1
           new == [p.pmcs EXCEPT ![id] = v]
           q == QuantizePMC(p, pmc, id)
<1>1. v \in Nat
  OBVIOUS
<1>2. q = [p EXCEPT !.pmcs = new]
  BY DEF QuantizePMC
<1> HIDE DEF v
<1>3. new \in [Slots(n) -> Nat]
  BY <1>1 DEF CarePolicies
<1> HIDE DEF new, q
<1>4. q \in CarePolicies(n)
  BY <1>2, <1>3 DEF CarePolicies
<1>5. SameCounts(p, q, n) /\ q.low = p.low /\ q.high = p.high
  BY <1>2 DEF CarePolicies, SameCounts
<1> QED
  BY <1>4, <1>5 DEF q

\* shtPMCUpdate() changes neither thresholds nor counts of lines.
LEMMA ShtPMCOK ==
    ASSUME NEW n \in Nat \ {0}, NEW p \in CarePolicies(n), NEW addr \in Nat, NEW id \in Slots(n)
    PROVE  LET q == ShtPMCUpdate(p, addr, id)
           IN q \in CarePolicies(n) /\ SameCounts(p, q, n) /\ q.low = p.low /\ q.high = p.high
<1> DEFINE h == HashAddr(p, addr)
           e == p.sht[h]
           d == CASE p.pmcs[id] = 3 -> Up(e.pd) [] p.pmcs[id] = 0 -> Down(e.pd) [] OTHER -> e.pd
           f == [e EXCEPT !.pd = d]
           new == [p.sht EXCEPT ![h] = f]
           q == ShtPMCUpdate(p, addr, id)
<1>1. h \in Slots(n) /\ p.sht \in [Slots(n) -> [rc : 0..CareMax, pd : 0..CareMax]]
  BY HashOK DEF CarePolicies
<1>2. q = [p EXCEPT !.sht = new]
  BY DEF ShtPMCUpdate
<1> HIDE DEF h
<1>3. e \in [rc : 0..CareMax, pd : 0..CareMax] /\ e.pd \in 0..CareMax
  BY <1>1
<1> HIDE DEF e
<1>4. d \in 0..CareMax
  BY <1>3, UpDown
<1> HIDE DEF d
<1>5. f \in [rc : 0..CareMax, pd : 0..CareMax] /\ f.rc = p.sht[h].rc
  BY <1>3, <1>4 DEF e
<1> HIDE DEF f
<1>6. new \in [Slots(n) -> [rc : 0..CareMax, pd : 0..CareMax]]
  BY <1>1, <1>5
<1>7. \A g \in Slots(n) : new[g].rc = p.sht[g].rc
  BY <1>1, <1>5
<1> HIDE DEF new, q
<1>8. q \in CarePolicies(n)
  BY <1>2, <1>6 DEF CarePolicies
<1>9. SameCounts(p, q, n) /\ q.low = p.low /\ q.high = p.high
  BY <1>2, <1>7 DEF CarePolicies, SameCounts
<1> QED
  BY <1>8, <1>9 DEF q

\* Reports of the cost of a miss change no count of lines.
LEMMA ServedOK ==
    ASSUME NEW n \in Nat \ {0}, NEW p \in CarePolicies(n), Thresholds(p),
           NEW pmc \in Nat, NEW addr \in Nat, NEW id \in Slots(n)
    PROVE  LET q == ShtPMCUpdate(QuantizePMC(DTRM(p, pmc), pmc, id), addr, id)
           IN q \in CarePolicies(n) /\ SameCounts(p, q, n) /\ Thresholds(q)
<1> DEFINE d == DTRM(p, pmc)
           e == QuantizePMC(d, pmc, id)
           q == ShtPMCUpdate(e, addr, id)
<1>1. d \in CarePolicies(n) /\ SameCounts(p, d, n) /\ Thresholds(d)
  BY DTRMOK
<1> HIDE DEF d
<1>2. e \in CarePolicies(n) /\ SameCounts(d, e, n) /\ e.low = d.low /\ e.high = d.high
  BY <1>1, QuantizeOK
<1> HIDE DEF e
<1>3. q \in CarePolicies(n) /\ SameCounts(e, q, n) /\ q.low = e.low /\ q.high = e.high
  BY <1>2, ShtPMCOK
<1> HIDE DEF q
<1>4. SameCounts(p, q, n) /\ Thresholds(q)
  BY <1>1, <1>2, <1>3 DEF SameCounts, Thresholds
<1> QED
  BY <1>3, <1>4 DEF q, e, d

-----------------------------------------------------------------------------
(* Geometry.                                                               *)

\* Positions of one way, or lines of one set, come before those of the next.
LEMMA Times ==
    ASSUME NEW a \in Nat, NEW b \in Nat, NEW c \in Nat, a < b
    PROVE  a * c \in Nat /\ b * c \in Nat /\ a * c + c <= b * c
<1>1. b - a - 1 \in Nat /\ b = a + 1 + (b - a - 1)
  OBVIOUS
<1> DEFINE d == b - a - 1
<1>2. d \in Nat /\ d * c \in Nat /\ a * c \in Nat
  OBVIOUS
<1>3. b * c = a * c + c + d * c
  BY <1>1
<1> HIDE DEF d
<1> QED
  BY <1>2, <1>3

\* Division with remainder.
LEMMA DivMod ==
    ASSUME NEW a \in Nat, NEW w \in Nat \ {0}
    PROVE  /\ a \div w \in Nat /\ a % w \in 0..(w - 1)
           /\ a = (a \div w) * w + (a % w)
OBVIOUS

\* The sets fit in the array; those of a zcache fill it.
LEMMA SetsOK ==
    ASSUME ConfigOK(config)
    PROVE  /\ NumSets \in Nat \ {0} /\ config.ways \in Nat \ {0} /\ config.lines \in Nat \ {0}
           /\ NumSets * config.ways <= config.lines
           /\ config.array = "Z" => config.ways * NumSets = config.lines
<1> DEFINE l == config.lines
           w == config.ways
           s == l \div w
           m == l % w
<1>1. l \in Nat \ {0} /\ w \in Nat \ {0} /\ w <= l /\ (config.array = "Z" => m = 0)
  BY DEF ConfigOK
<1>2. s \in Nat /\ m \in 0..(w - 1) /\ l = s * w + m
  BY <1>1, DivMod
<1>3. s # 0
  BY <1>1, <1>2
<1> HIDE DEF m, s
<1>4. s * w = w * s /\ s * w \in Nat
  BY <1>1, <1>2
<1> QED
  BY <1>1, <1>2, <1>3, <1>4 DEF NumSets, s

\* The set of an address is within the array.
LEMMA FirstOK ==
    ASSUME ConfigOK(config), NEW a \in Addrs, NEW w \in Ways
    PROVE  First(a) \in Nat /\ First(a) + w \in Lines
<1> DEFINE h == config.hash[0][a] % NumSets
<1>1. config.hash[0][a] \in Nat
  BY DEF ConfigOK, Addrs
<1>2. h \in 0..(NumSets - 1)
  BY <1>1, SetsOK
<1>3. First(a) = h * config.ways /\ h \in Nat /\ h < NumSets /\ w \in 0..(config.ways - 1)
  BY <1>2, SetsOK DEF First, Ways
<1> HIDE DEF h
<1>4. h * config.ways \in Nat /\ h * config.ways + config.ways <= NumSets * config.ways
  BY <1>3, SetsOK, Times
<1> QED
  BY <1>3, <1>4, SetsOK DEF Lines

\* The positions of an address are within the array, one in each way.
LEMMA PosOK ==
    ASSUME ConfigOK(config), config.array = "Z", NEW a \in Addrs, NEW w \in Ways
    PROVE  /\ Pos(w, a) \in Lines
           /\ \A v \in Ways : v # w => Pos(v, a) # Pos(w, a)
<1> DEFINE h(v) == config.hash[v][a] % NumSets
<1>1. ASSUME NEW v \in Ways
      PROVE  v \in Nat /\ v < config.ways /\ h(v) \in 0..(NumSets - 1) /\ Pos(v, a) = v * NumSets + h(v)
  <2>1. config.hash[v] \in [Addrs -> Nat]
    BY DEF ConfigOK, Addrs, Ways
  <2>2. config.hash[v][a] \in Nat
    BY <2>1
  <2>3. h(v) \in 0..(NumSets - 1)
    BY <2>2, SetsOK
  <2> QED
    BY <2>3, SetsOK DEF Ways, Pos
<1> HIDE DEF h
<1>2. ASSUME NEW v \in Ways, NEW u \in Ways, v < u
      PROVE  Pos(v, a) # Pos(u, a)
  <2>1. v * NumSets \in Nat /\ u * NumSets \in Nat /\ v * NumSets + NumSets <= u * NumSets
    BY <1>1, <1>2, SetsOK, Times
  <2> QED
    BY <1>1, <2>1, SetsOK
<1>3. w * NumSets \in Nat /\ w * NumSets + NumSets <= config.ways * NumSets
  BY <1>1, SetsOK, Times
<1>4. Pos(w, a) \in Lines
  BY <1>1, <1>3, SetsOK DEF Lines
<1>5. \A v \in Ways : v # w => v < w \/ w < v
  BY <1>1
<1> QED
  BY <1>2, <1>4, <1>5

-----------------------------------------------------------------------------
(* The walk of a zcache.                                                   *)

Nodes == [pos : Lines, id : Lines, from : Nat]

\* The table of positions is a permutation of the lines.
LookupOK ==
    /\ lookupArray \in [Lines -> Lines]
    /\ \A i, j \in Lines : lookupArray[i] = lookupArray[j] => i = j
    /\ \A i \in Lines : \E q \in Lines : lookupArray[q] = i

TagsOK == array \in [Lines -> Addrs \cup {0}]

ZState == ConfigOK(config) /\ config.array = "Z" /\ LookupOK /\ TagsOK

\* A candidate is the line that the table has at a position of the address.
LEMMA CandidateOK ==
    ASSUME ZState, NEW a \in Addrs, NEW w \in Ways, NEW f \in Nat
    PROVE  LET c == Candidate(w, a, f)
           IN /\ c \in Nodes /\ c.pos = Pos(w, a) /\ c.id = lookupArray[c.pos] /\ c.from = f
<1>1. Pos(w, a) \in Lines /\ lookupArray[Pos(w, a)] \in Lines
  BY PosOK DEF ZState, LookupOK
<1> QED
  BY <1>1 DEF Candidate, Nodes

\* An expansion adds, for each position of the fringe line's address that holds
\* another line, one candidate; there is at least one.
Grown(walk, u, n, W) ==
    LET f == walk[n].id
        a == array[f]
    IN /\ u \in Seq(Nodes) /\ Len(u) >= Len(walk)
       /\ \A i \in 1..Len(walk) : u[i] = walk[i]
       /\ \A i \in (Len(walk) + 1)..Len(u) :
             /\ u[i].from = n /\ u[i].id # f /\ u[i].id = lookupArray[u[i].pos]
             /\ \E w \in Ways : u[i].pos = Pos(w, a)
       /\ \A w \in Ways : w < W /\ lookupArray[Pos(w, a)] # f =>
             \E i \in (Len(walk) + 1)..Len(u) : u[i].id = lookupArray[Pos(w, a)]

\* Expand() of a line with an address is such a growth.
LEMMA ExpandOK ==
    ASSUME ZState, NEW walk \in Seq(Nodes), NEW n \in 1..Len(walk), array[walk[n].id] # 0
    PROVE  Grown(walk, Expand(walk, n), n, config.ways) /\ Len(Expand(walk, n)) > Len(walk)
<1> DEFINE f == walk[n].id
           a == array[f]
           N == config.ways
           Step(w, u) == LET c == Candidate(w - 1, a, n)
                         IN IF c.id = f THEN u ELSE Append(u, c)
           grown[w \in 0..N] == IF w = 0 THEN walk ELSE Step(w, grown[w - 1])
           V == [w \in 0..N |-> {u \in Seq(Nodes) : Grown(walk, u, n, w)}]
           st == [w \in 1..N |-> [u \in V[w - 1] |-> Step(w, u)]]
<1>1. Expand(walk, n) = grown[N]
  BY DEF Expand
<1>2. N \in Nat \ {0} /\ Ways = 0..(N - 1)
  BY SetsOK DEF ZState, Ways
<1>3. walk[n] \in Nodes
  OBVIOUS
<1>4. f \in Lines /\ a \in Addrs
  BY <1>3 DEF Nodes, ZState, TagsOK
<1> HIDE DEF f, a, N
<1>5. Grown(walk, walk, n, 0)
  <2>1. \A w \in Ways : ~(w < 0)
    BY <1>2
  <2> QED
    BY <2>1 DEF Grown
<1>6. ASSUME NEW w \in 1..N, NEW u \in Seq(Nodes), Grown(walk, u, n, w - 1)
      PROVE  Step(w, u) \in Seq(Nodes) /\ Grown(walk, Step(w, u), n, w)
  <2> DEFINE c == Candidate(w - 1, a, n)
  <2>1. w - 1 \in Ways
    BY <1>2
  <2>2. c \in Nodes /\ c.pos = Pos(w - 1, a) /\ c.id = lookupArray[c.pos] /\ c.from = n
    BY <1>4, <2>1, CandidateOK
  <2> HIDE DEF c
  <2>3. /\ Len(u) \in Nat /\ Len(walk) \in Nat /\ Len(u) >= Len(walk)
        /\ \A i \in 1..Len(walk) : u[i] = walk[i]
        /\ \A i \in (Len(walk) + 1)..Len(u) :
              /\ u[i].from = n /\ u[i].id # f /\ u[i].id = lookupArray[u[i].pos]
              /\ \E x \in Ways : u[i].pos = Pos(x, a)
        /\ \A x \in Ways : x < w - 1 /\ lookupArray[Pos(x, a)] # f =>
              \E i \in (Len(walk) + 1)..Len(u) : u[i].id = lookupArray[Pos(x, a)]
    BY <1>6 DEF Grown, f, a
  <2>4. \A x \in Ways : x < w => x < w - 1 \/ x = w - 1
    BY <1>2
  <2>5. CASE c.id = f
    <3>1. Step(w, u) = u
      BY <2>5 DEF c
    <3>2. \A x \in Ways : x < w /\ lookupArray[Pos(x, a)] # f =>
              \E i \in (Len(walk) + 1)..Len(u) : u[i].id = lookupArray[Pos(x, a)]
      BY <2>2, <2>3, <2>4, <2>5
    <3>3. Grown(walk, u, n, w)
      BY <2>3, <3>2 DEF Grown, f, a
    <3> QED
      BY <3>1, <3>3
  <2>6. CASE c.id # f
    <3> DEFINE v == Append(u, c)
    <3>1. Step(w, u) = v
      BY <2>6 DEF c
    <3>2. v \in Seq(Nodes) /\ Len(v) = Len(u) + 1 /\ v[Len(u) + 1] = c /\ \A i \in 1..Len(u) : v[i] = u[i]
      BY <2>2
    <3> HIDE DEF v
    <3>3. \A i \in 1..Len(walk) : v[i] = walk[i]
      BY <2>3, <3>2
    <3>4. ASSUME NEW i \in (Len(walk) + 1)..Len(v)
          PROVE  /\ v[i].from = n /\ v[i].id # f /\ v[i].id = lookupArray[v[i].pos]
                 /\ \E x \in Ways : v[i].pos = Pos(x, a)
      <4>1. CASE i = Len(u) + 1
        <5>1. v[i] = c
          BY <4>1, <3>2
        <5>2. \E x \in Ways : c.pos = Pos(x, a)
          BY <2>1, <2>2
        <5> QED
          BY <5>1, <5>2, <2>2, <2>6
      <4>2. CASE i # Len(u) + 1
        <5>1. i \in (Len(walk) + 1)..Len(u) /\ i \in 1..Len(u)
          <6>1. Len(v) = Len(u) + 1 /\ Len(u) \in Nat /\ Len(walk) \in Nat
            BY <2>3, <3>2
          <6> QED
            BY <4>2, <6>1
        <5>2. v[i] = u[i]
          BY <5>1, <3>2
        <5> QED
          BY <5>1, <5>2, <2>3
      <4> QED
        BY <4>1, <4>2
    <3>5. ASSUME NEW x \in Ways, x < w, lookupArray[Pos(x, a)] # f
          PROVE  \E i \in (Len(walk) + 1)..Len(v) : v[i].id = lookupArray[Pos(x, a)]
      <4>1. CASE x = w - 1
        <5>1. Len(u) + 1 \in (Len(walk) + 1)..Len(v)
          BY <2>3, <3>2
        <5> QED
          BY <4>1, <5>1, <3>2, <2>2
      <4>2. CASE x < w - 1
        <5>1. PICK i \in (Len(walk) + 1)..Len(u) : u[i].id = lookupArray[Pos(x, a)]
          BY <4>2, <3>5, <2>3
        <5>2. i \in (Len(walk) + 1)..Len(v) /\ v[i] = u[i]
          BY <5>1, <2>3, <3>2
        <5> QED
          BY <5>1, <5>2
      <4> QED
        BY <4>1, <4>2, <3>5, <2>4
    <3>6. Len(v) >= Len(walk)
      BY <2>3, <3>2
    <3>7. Grown(walk, v, n, w)
      BY <3>2, <3>3, <3>4, <3>5, <3>6 DEF Grown, f, a
    <3> QED
      BY <3>1, <3>2, <3>7
  <2> QED
    BY <2>5, <2>6
<1> HIDE DEF Step
<1>7. /\ \A w \in 0..N : V[w] = {u \in Seq(Nodes) : Grown(walk, u, n, w)}
      /\ \A w \in 1..N : st[w] = [u \in V[w - 1] |-> Step(w, u)]
  BY <1>2
<1> HIDE DEF V, st
<1>8. walk \in V[0] /\ \A w \in 1..N : \A u \in V[w - 1] : st[w][u] = Step(w, u) /\ st[w][u] \in V[w]
  <2>1. walk \in V[0]
    BY <1>2, <1>5, <1>7
  <2>2. ASSUME NEW w \in 1..N, NEW u \in V[w - 1] PROVE st[w][u] = Step(w, u) /\ st[w][u] \in V[w]
    <3>1. w - 1 \in 0..N /\ w \in 0..N
      BY <1>2
    <3>2. st[w][u] = Step(w, u)
      BY <1>7
    <3>3. u \in Seq(Nodes) /\ Grown(walk, u, n, w - 1)
      BY <1>7, <3>1
    <3>4. Step(w, u) \in Seq(Nodes) /\ Grown(walk, Step(w, u), n, w)
      BY <1>6, <3>3
    <3> QED
      BY <1>7, <3>1, <3>2, <3>4
  <2> QED
    BY <2>1, <2>2
<1>9. FoldSteps(N, V, walk, st)
  BY <1>2, <1>8 DEF FoldSteps
<1>10. PICK g : FoldRun(g, N, V, walk, st)
  BY <1>2, <1>9, Fold
<1>11. g = [w \in 0..N |-> IF w = 0 THEN walk ELSE Step(w, g[w - 1])]
  <2>1. \A w \in 0..N : g[w] = IF w = 0 THEN walk ELSE Step(w, g[w - 1])
    BY <1>2, <1>8, <1>10 DEF FoldRun
  <2>2. g = [w \in 0..N |-> g[w]]
    BY <1>10 DEF FoldRun, IsFun
  <2> QED
    BY <2>1, <2>2
<1>12. grown = [w \in 0..N |-> IF w = 0 THEN walk ELSE Step(w, grown[w - 1])]
  BY <1>11
<1> HIDE DEF grown
<1>13. grown[0] \in V[0] /\ \A w \in 1..N : grown[w - 1] \in V[w - 1] => grown[w] \in V[w]
  <2>1. grown[0] = walk /\ \A w \in 1..N : grown[w] = Step(w, grown[w - 1])
    BY <1>2, <1>12
  <2> QED
    BY <2>1, <1>2, <1>8
<1>14. grown[N] \in V[N]
  <2>1. \A w \in 0..N : grown[w] \in V[w]
    BY <1>2, <1>13, FoldHanded
  <2> QED
    BY <1>2, <2>1
<1> DEFINE u == grown[N]
<1>15. Grown(walk, u, n, N)
  BY <1>2, <1>7, <1>14
<1> HIDE DEF u
<1>16. Len(u) > Len(walk)
  <2>1. 0 \in Ways /\ 1 \in Ways /\ 0 # 1
    BY <1>2 DEF ZState, ConfigOK, N
  <2>2. Pos(0, a) # Pos(1, a) /\ Pos(0, a) \in Lines /\ Pos(1, a) \in Lines
    BY <2>1, <1>4, PosOK DEF ZState
  <2>3. lookupArray[Pos(0, a)] # f \/ lookupArray[Pos(1, a)] # f
    BY <2>2 DEF ZState, LookupOK
  <2>4. PICK w \in Ways : lookupArray[Pos(w, a)] # f
    BY <2>1, <2>3
  <2>5. w < N
    BY <1>2
  <2>6. \E i \in (Len(walk) + 1)..Len(u) : u[i].id = lookupArray[Pos(w, a)]
    BY <1>15, <2>4, <2>5 DEF Grown, f, a
  <2>7. Len(u) \in Nat /\ Len(walk) \in Nat
    BY <1>15 DEF Grown
  <2> QED
    BY <2>6, <2>7
<1> QED
  BY <1>1, <1>15, <1>16 DEF u, N

\* A candidate is at a position of the new address, or of the address of an
\* earlier candidate, its parent.
RootedAt(a, v, i) ==
    LET f == v[i].from IN
    /\ v[i].id = lookupArray[v[i].pos]
    /\ \/ f = 0 /\ \E w \in Ways : v[i].pos = Pos(w, a)
       \/ /\ f > 0 /\ f + config.ways <= i
          /\ array[v[f].id] # 0 /\ v[i].id # v[f].id
          /\ \E w \in Ways : v[i].pos = Pos(w, array[v[f].id])

\* The walk after its first k candidates have been expanded.
WalkOK(a, v, k) ==
    /\ v \in Seq(Nodes) /\ Len(v) >= config.ways + k
    /\ \A i \in 1..Len(v) : RootedAt(a, v, i) /\ v[i].from <= k
    /\ \A i, j \in 1..Len(v) : i <= j => v[i].from <= v[j].from
    /\ \A f \in 1..k : \A w \in Ways :
          lookupArray[Pos(w, array[v[f].id])] # v[f].id =>
              \E m \in 1..Len(v) : v[m].from = f /\ v[m].id = lookupArray[Pos(w, array[v[f].id])]

\* The fields of a candidate.
LEMMA NodeOK ==
    ASSUME NEW v \in Seq(Nodes), NEW i \in 1..Len(v)
    PROVE  v[i].from \in Nat /\ v[i].id \in Lines /\ v[i].pos \in Lines
<1>1. v[i] \in Nodes
  OBVIOUS
<1> QED
  BY <1>1 DEF Nodes

\* The walk starts with one candidate for each way, none of them expanded.
LEMMA SeedsOK ==
    ASSUME ZState, NEW a \in Addrs
    PROVE  WalkOK(a, [w \in 1..config.ways |-> Candidate(w - 1, a, 0)], 0)
<1> DEFINE v == [w \in 1..config.ways |-> Candidate(w - 1, a, 0)]
<1>1. config.ways \in Nat \ {0} /\ \A w \in 1..config.ways : w - 1 \in Ways
  BY SetsOK DEF ZState, Ways
<1>2. \A w \in 1..config.ways :
         LET c == Candidate(w - 1, a, 0)
         IN c \in Nodes /\ c.pos = Pos(w - 1, a) /\ c.id = lookupArray[c.pos] /\ c.from = 0
  BY <1>1, CandidateOK
<1>3. v \in Seq(Nodes) /\ Len(v) = config.ways
  BY <1>1, <1>2
<1>4. \A i \in 1..Len(v) :
         v[i].pos = Pos(i - 1, a) /\ v[i].id = lookupArray[v[i].pos] /\ v[i].from = 0 /\ i - 1 \in Ways
  BY <1>1, <1>2, <1>3
<1> HIDE DEF v
<1>5. \A i \in 1..Len(v) : RootedAt(a, v, i) /\ v[i].from <= 0
  BY <1>4 DEF RootedAt
<1>6. \A i, j \in 1..Len(v) : i <= j => v[i].from <= v[j].from
  BY <1>4
<1>7. Len(v) >= config.ways + 0 /\ 1..0 = {}
  BY <1>1, <1>3
<1>8. WalkOK(a, v, 0)
  BY <1>3, <1>5, <1>6, <1>7 DEF WalkOK
<1> QED
  BY <1>8 DEF v

\* Expanding one more candidate keeps the walk so.
LEMMA StepOK ==
    ASSUME ZState, NEW a \in Addrs, NEW v, NEW n \in Nat \ {0}, WalkOK(a, v, n - 1), ~Enough(v)
    PROVE  WalkOK(a, Expand(v, n), n)
<1> DEFINE u == Expand(v, n)
           A == array[v[n].id]
<1>1. /\ v \in Seq(Nodes) /\ Len(v) \in Nat /\ config.ways \in Nat \ {0} /\ n \in 1..Len(v)
      /\ Len(v) >= config.ways + n - 1
  BY SetsOK DEF WalkOK, ZState
<1>2. A # 0
  BY <1>1 DEF Enough
<1>3. Grown(v, u, n, config.ways) /\ Len(u) > Len(v)
  BY <1>1, <1>2, ExpandOK
<1> HIDE DEF u
<1>4. /\ u \in Seq(Nodes) /\ Len(u) \in Nat /\ Len(u) > Len(v)
      /\ \A i \in 1..Len(v) : u[i] = v[i]
      /\ \A i \in (Len(v) + 1)..Len(u) :
             /\ u[i].from = n /\ u[i].id # v[n].id /\ u[i].id = lookupArray[u[i].pos]
             /\ \E w \in Ways : u[i].pos = Pos(w, A)
      /\ \A w \in Ways : lookupArray[Pos(w, A)] # v[n].id =>
             \E i \in (Len(v) + 1)..Len(u) : u[i].id = lookupArray[Pos(w, A)]
  <2>1. \A w \in Ways : w < config.ways
    BY <1>1 DEF Ways
  <2> QED
    BY <1>3, <2>1 DEF Grown
<1>5. \A i \in 1..Len(v) : RootedAt(a, v, i) /\ v[i].from <= n - 1 /\ v[i].from \in Nat
  BY <1>1, NodeOK DEF WalkOK
<1>6. u[n] = v[n]
  BY <1>1, <1>4
<1>7. \A i \in 1..Len(u) : i \in 1..Len(v) \/ i \in (Len(v) + 1)..Len(u)
  BY <1>1, <1>4
<1>8. ASSUME NEW i \in 1..Len(v) PROVE RootedAt(a, u, i) /\ u[i].from <= n - 1
  <2>1. u[i] = v[i] /\ RootedAt(a, v, i) /\ v[i].from <= n - 1 /\ v[i].from \in Nat
    BY <1>4, <1>5
  <2>2. v[i].from > 0 => u[v[i].from] = v[v[i].from]
    <3>1. v[i].from \in Nat /\ v[i].from <= n - 1
      BY <2>1
    <3>2. v[i].from > 0 => v[i].from \in 1..Len(v)
      BY <1>1, <3>1
    <3> QED
      BY <3>2, <1>4
  <2> QED
    BY <2>1, <2>2 DEF RootedAt
<1>9. ASSUME NEW i \in (Len(v) + 1)..Len(u) PROVE RootedAt(a, u, i) /\ u[i].from = n
  <2>1. /\ u[i].from = n /\ u[i].id # v[n].id /\ u[i].id = lookupArray[u[i].pos]
        /\ \E w \in Ways : u[i].pos = Pos(w, A)
    BY <1>4
  <2>2. n + config.ways <= i /\ n > 0
    BY <1>1
  <2> QED
    BY <2>1, <2>2, <1>2, <1>6 DEF RootedAt
<1>10. Len(u) >= config.ways + n
  BY <1>1, <1>4
<1>11. \A i \in 1..Len(u) : RootedAt(a, u, i) /\ u[i].from <= n
  <2> SUFFICES ASSUME NEW i \in 1..Len(u) PROVE RootedAt(a, u, i) /\ u[i].from <= n
    OBVIOUS
  <2>1. CASE i \in 1..Len(v)
    <3>1. u[i].from \in Nat
      BY <1>4, NodeOK
    <3> QED
      BY <2>1, <1>8, <3>1
  <2>2. CASE i \in (Len(v) + 1)..Len(u)
    BY <2>2, <1>9
  <2> QED
    BY <2>1, <2>2, <1>7
<1>12. ASSUME NEW i \in 1..Len(u), NEW j \in 1..Len(u), i <= j PROVE u[i].from <= u[j].from
  <2>1. CASE j \in 1..Len(v)
    <3>1. i \in 1..Len(v)
      BY <2>1, <1>12
    <3>2. v[i].from <= v[j].from
      BY <2>1, <3>1, <1>12 DEF WalkOK
    <3> QED
      BY <2>1, <3>1, <3>2, <1>4
  <2>2. CASE j \in (Len(v) + 1)..Len(u)
    BY <2>2, <1>9, <1>11
  <2> QED
    BY <2>1, <2>2, <1>7
<1>13. ASSUME NEW f \in 1..n, NEW w \in Ways, lookupArray[Pos(w, array[u[f].id])] # u[f].id
       PROVE  \E m \in 1..Len(u) : u[m].from = f /\ u[m].id = lookupArray[Pos(w, array[u[f].id])]
  <2>1. CASE f = n
    <3>1. PICK m \in (Len(v) + 1)..Len(u) : u[m].id = lookupArray[Pos(w, A)]
      BY <2>1, <1>4, <1>6, <1>13
    <3>2. m \in 1..Len(u) /\ u[m].from = n
      BY <3>1, <1>1, <1>9
    <3> QED
      BY <2>1, <3>1, <3>2, <1>6
  <2>2. CASE f # n
    <3>1. f \in 1..(n - 1) /\ f \in 1..Len(v)
      BY <2>2, <1>1
    <3>2. u[f] = v[f]
      BY <3>1, <1>4
    <3>3. PICK m \in 1..Len(v) : v[m].from = f /\ v[m].id = lookupArray[Pos(w, array[v[f].id])]
      BY <3>1, <3>2, <1>13 DEF WalkOK
    <3>4. m \in 1..Len(u) /\ u[m] = v[m]
      BY <3>3, <1>1, <1>4
    <3> QED
      BY <3>2, <3>3, <3>4
  <2> QED
    BY <2>1, <2>2
<1>14. WalkOK(a, u, n)
  BY <1>4, <1>10, <1>11, <1>12, <1>13 DEF WalkOK
<1> QED
  BY <1>14 DEF u

IsFirst(v, i) == \A j \in 1..(i - 1) : v[j].id # v[i].id

\* The parent of the first candidate with its line is the first one with its.
LEMMA FirstUp ==
    ASSUME ZState, NEW a \in Addrs, NEW v, NEW k \in Nat, WalkOK(a, v, k),
           NEW i \in 1..Len(v), IsFirst(v, i), v[i].from > 0
    PROVE  IsFirst(v, v[i].from)
<1> DEFINE f == v[i].from
<1>1. /\ v \in Seq(Nodes) /\ f \in Nat /\ f > 0 /\ f <= k /\ f + config.ways <= i /\ v[i].id # v[f].id
      /\ v[i].id = lookupArray[v[i].pos]
      /\ \E w \in Ways : v[i].pos = Pos(w, array[v[f].id])
  <2>1. v \in Seq(Nodes) /\ RootedAt(a, v, i) /\ f <= k
    BY DEF WalkOK
  <2>2. f \in Nat
    BY <2>1, NodeOK
  <2> HIDE DEF f
  <2> QED
    BY <2>1, <2>2 DEF RootedAt, f
<1> SUFFICES ASSUME NEW g \in 1..(f - 1), v[g].id = v[f].id PROVE FALSE
  BY DEF IsFirst
<1>2. PICK w \in Ways : v[i].pos = Pos(w, array[v[f].id])
  BY <1>1
<1>3. g \in 1..k /\ v[i].id = lookupArray[Pos(w, array[v[g].id])] /\ v[i].id # v[g].id
  BY <1>1, <1>2
<1>4. PICK m \in 1..Len(v) : v[m].from = g /\ v[m].id = v[i].id
  BY <1>3 DEF WalkOK
<1>5. v[m].from < v[i].from
  BY <1>1, <1>4
<1>6. v[m].from \in Nat /\ v[i].from \in Nat
  BY <1>1, <1>4
<1>7. ~(i <= m)
  BY <1>5, <1>6 DEF WalkOK
<1>8. m \in 1..(i - 1)
  BY <1>7
<1> QED
  BY <1>4, <1>8 DEF IsFirst

\* What a walk is used for: every candidate is rooted, and the first candidate
\* with a line comes from the first one with its parent's.
Walked(a, v) ==
    /\ v \in Seq(Nodes) /\ Len(v) \in 1..config.cands
    /\ \A i \in 1..Len(v) :
          RootedAt(a, v, i) /\ (IsFirst(v, i) /\ v[i].from > 0 => IsFirst(v, v[i].from))

\* Cutting the walk down to config.cands candidates keeps it useful.
LEMMA TrimmedOK ==
    ASSUME ZState, NEW a \in Addrs, NEW u, NEW k \in Nat, WalkOK(a, u, k),
           NEW v \in Seq(Nodes), Len(v) \in 1..config.cands, Len(v) <= Len(u),
           \A i \in 1..Len(v) : v[i] = u[i]
    PROVE  Walked(a, v)
<1>1. u \in Seq(Nodes) /\ Len(u) \in Nat /\ Len(v) \in Nat
  BY DEF WalkOK
<1> SUFFICES ASSUME NEW i \in 1..Len(v)
             PROVE  RootedAt(a, v, i) /\ (IsFirst(v, i) /\ v[i].from > 0 => IsFirst(v, v[i].from))
  BY DEF Walked
<1>2. i \in 1..Len(u) /\ v[i] = u[i] /\ u[i].from \in Nat
  BY <1>1, NodeOK
<1>3. RootedAt(a, u, i)
  BY <1>2 DEF WalkOK
<1>4. config.ways \in Nat \ {0}
  BY SetsOK DEF ZState
<1>5. u[i].from > 0 => u[i].from \in 1..(i - 1)
  BY <1>2, <1>3, <1>4 DEF RootedAt
<1>6. u[i].from > 0 => v[u[i].from] = u[u[i].from]
  BY <1>1, <1>5
<1>7. RootedAt(a, v, i)
  BY <1>2, <1>3, <1>6 DEF RootedAt
<1>8. ASSUME NEW j \in 1..Len(v) PROVE IsFirst(v, j) <=> IsFirst(u, j)
  <2>1. v[j] = u[j] /\ \A l \in 1..(j - 1) : l \in 1..Len(v) /\ v[l] = u[l]
    BY <1>1
  <2> QED
    BY <2>1 DEF IsFirst
<1>9. ASSUME IsFirst(v, i), v[i].from > 0 PROVE IsFirst(v, v[i].from)
  <2>1. IsFirst(u, i) /\ u[i].from > 0
    BY <1>2, <1>8, <1>9
  <2>2. IsFirst(u, u[i].from)
    BY <1>2, <2>1, FirstUp
  <2>3. u[i].from \in 1..Len(v)
    BY <1>1, <1>5, <2>1
  <2> QED
    BY <1>2, <1>8, <2>2, <2>3
<1> QED
  BY <1>7, <1>9

\* Every walk is useful.
LEMMA WalkedOK == ASSUME ZState, NEW a \in Addrs PROVE Walked(a, Walk(a))
<1> DEFINE N == config.cands
           seeds == [w \in 1..config.ways |-> Candidate(w - 1, a, 0)]
           Step(n, v) == IF Enough(v) THEN v ELSE Expand(v, n)
           grown[n \in 0..N] == IF n = 0 THEN seeds ELSE Step(n, grown[n - 1])
           all == grown[N]
           Ok(n, v) == \E k \in 0..n : (k = n \/ Enough(v)) /\ WalkOK(a, v, k)
           V == [n \in 0..N |-> {v \in Seq(Nodes) : Ok(n, v)}]
           st == [n \in 1..N |-> [v \in V[n - 1] |-> Step(n, v)]]
<1>1. Walk(a) = IF Len(all) > N THEN SubSeq(all, 1, N) ELSE all
  BY DEF Walk
<1>2. N \in Nat /\ config.ways \in Nat \ {0} /\ config.ways <= N
  BY SetsOK DEF ZState, ConfigOK
<1>3. seeds \in Seq(Nodes) /\ Ok(0, seeds)
  <2>1. WalkOK(a, seeds, 0)
    BY SeedsOK
  <2> HIDE DEF seeds
  <2> QED
    BY <2>1 DEF WalkOK
<1>4. ASSUME NEW n \in 1..N, NEW v \in Seq(Nodes), Ok(n - 1, v)
      PROVE  Step(n, v) \in Seq(Nodes) /\ Ok(n, Step(n, v))
  <2>1. PICK k \in 0..(n - 1) : (k = n - 1 \/ Enough(v)) /\ WalkOK(a, v, k)
    BY <1>4
  <2>2. CASE Enough(v)
    <3>1. Step(n, v) = v /\ k \in 0..n
      BY <2>2
    <3> QED
      BY <3>1, <2>1, <2>2
  <2>3. CASE ~Enough(v)
    <3>1. WalkOK(a, Expand(v, n), n)
      BY <2>1, <2>3, StepOK
    <3>2. Step(n, v) = Expand(v, n) /\ n \in 0..n
      BY <2>3
    <3>3. Expand(v, n) \in Seq(Nodes)
      BY <3>1 DEF WalkOK
    <3> QED
      BY <3>1, <3>2, <3>3
  <2> QED
    BY <2>2, <2>3
<1> HIDE DEF Step, seeds, N
<1>5. /\ \A n \in 0..N : V[n] = {v \in Seq(Nodes) : Ok(n, v)}
      /\ \A n \in 1..N : st[n] = [v \in V[n - 1] |-> Step(n, v)]
  BY <1>2
<1> HIDE DEF Ok
<1> HIDE DEF V, st
<1>6. seeds \in V[0] /\ \A n \in 1..N : \A v \in V[n - 1] : st[n][v] = Step(n, v) /\ st[n][v] \in V[n]
  <2>1. seeds \in V[0]
    BY <1>2, <1>3, <1>5
  <2>2. ASSUME NEW n \in 1..N, NEW v \in V[n - 1] PROVE st[n][v] = Step(n, v) /\ st[n][v] \in V[n]
    <3>1. n - 1 \in 0..N /\ n \in 0..N
      BY <1>2
    <3>2. st[n][v] = Step(n, v)
      BY <1>5
    <3>3. v \in Seq(Nodes) /\ Ok(n - 1, v)
      BY <1>5, <3>1
    <3>4. Step(n, v) \in Seq(Nodes) /\ Ok(n, Step(n, v))
      BY <1>4, <3>3
    <3> QED
      BY <1>5, <3>1, <3>2, <3>4
  <2> QED
    BY <2>1, <2>2
<1>7. FoldSteps(N, V, seeds, st)
  BY <1>2, <1>6 DEF FoldSteps
<1>8. PICK g : FoldRun(g, N, V, seeds, st)
  BY <1>2, <1>7, Fold
<1>9. g = [n \in 0..N |-> IF n = 0 THEN seeds ELSE Step(n, g[n - 1])]
  <2>1. \A n \in 0..N : g[n] = IF n = 0 THEN seeds ELSE Step(n, g[n - 1])
    BY <1>2, <1>6, <1>8 DEF FoldRun
  <2>2. g = [n \in 0..N |-> g[n]]
    BY <1>8 DEF FoldRun, IsFun
  <2> QED
    BY <2>1, <2>2
<1>10. grown = [n \in 0..N |-> IF n = 0 THEN seeds ELSE Step(n, grown[n - 1])]
  BY <1>9
<1> HIDE DEF grown
<1>11. grown[0] \in V[0] /\ \A n \in 1..N : grown[n - 1] \in V[n - 1] => grown[n] \in V[n]
  <2>1. grown[0] = seeds /\ \A n \in 1..N : grown[n] = Step(n, grown[n - 1])
    BY <1>2, <1>10
  <2> QED
    BY <2>1, <1>2, <1>6
<1>12. \A n \in 0..N : grown[n] \in V[n]
  BY <1>2, <1>11, FoldHanded
<1>13. all \in Seq(Nodes) /\ Ok(N, all)
  BY <1>2, <1>5, <1>12
<1>14. PICK k \in 0..N : WalkOK(a, all, k)
  BY <1>2, <1>13 DEF Ok
<1> HIDE DEF all
<1>15. Len(all) \in Nat /\ Len(all) >= 1
  BY <1>2, <1>13, <1>14 DEF WalkOK
<1>16. CASE Len(all) > N
  <2> DEFINE v == SubSeq(all, 1, N)
  <2>1. v \in Seq(Nodes) /\ Len(v) = N /\ \A i \in 1..N : v[i] = all[i]
    BY <1>2, <1>13, <1>15, <1>16
  <2> HIDE DEF v
  <2>2. Len(v) \in 1..config.cands /\ Len(v) <= Len(all) /\ \A i \in 1..Len(v) : v[i] = all[i]
    BY <1>2, <1>16, <2>1 DEF N
  <2>3. Walked(a, v)
    BY <1>14, <2>1, <2>2, TrimmedOK
  <2> QED
    BY <1>1, <1>16, <2>3 DEF v
<1>17. CASE ~(Len(all) > N)
  <2>1. Len(all) \in 1..config.cands
    BY <1>2, <1>15, <1>17 DEF N
  <2>2. Walked(a, all)
    BY <1>13, <1>14, <1>15, <2>1, TrimmedOK
  <2> QED
    BY <1>1, <1>17, <2>2
<1> QED
  BY <1>16, <1>17

-----------------------------------------------------------------------------
(* The path of a replacement.                                              *)

\* A bound on a quotient.
LEMMA DivBound ==
    ASSUME NEW l \in Nat, NEW w \in Nat \ {0}, NEW c \in Nat, l * w <= c
    PROVE  l <= c \div w
<1> DEFINE q == c \div w
           r == c % w
<1>1. q \in Nat /\ r \in 0..(w - 1) /\ c = q * w + r
  BY DivMod
<1> HIDE DEF q, r
<1>2. ASSUME q < l PROVE FALSE
  <2>1. q * w \in Nat /\ l * w \in Nat /\ q * w + w <= l * w
    BY <1>1, <1>2, Times
  <2> QED
    BY <1>1, <2>1
<1>3. l <= q
  BY <1>1, <1>2
<1> QED
  BY <1>3 DEF q

\* Each position is one of the address of the line at the next one, and the
\* last is one of the new address.
Linked(a, p) ==
    /\ \A i \in 1..(Len(p) - 1) :
          LET b == array[lookupArray[p[i + 1]]] IN b # 0 /\ \E w \in Ways : p[i] = Pos(w, b)
    /\ \E w \in Ways : p[Len(p)] = Pos(w, a)

Distinct(p) == \A i, j \in 1..Len(p) : p[i] = p[j] => i = j

\* The path that starts at the n-th candidate.
PathFrom(a, v, n, p) ==
    /\ p \in Seq(Lines) /\ Len(p) >= 1 /\ (Len(p) - 1) * config.ways <= n - 1
    /\ p[1] = v[n].pos /\ Distinct(p) /\ Linked(a, p)
    /\ \A i \in 1..Len(p) : \E m \in 1..n : IsFirst(v, m) /\ p[i] = v[m].pos

\* The path of a first candidate.
LEMMA SeedPath ==
    ASSUME ZState, NEW a \in Addrs, NEW v, Walked(a, v),
           NEW n \in 1..Len(v), v[n].from = 0, IsFirst(v, n)
    PROVE  PathFrom(a, v, n, <<v[n].pos>>)
<1> DEFINE p == <<v[n].pos>>
<1>1. v \in Seq(Nodes) /\ RootedAt(a, v, n) /\ n \in Nat
  BY DEF Walked
<1>2. v[n].pos \in Lines /\ \E w \in Ways : v[n].pos = Pos(w, a)
  BY <1>1, NodeOK DEF RootedAt
<1>3. p \in Seq(Lines) /\ Len(p) = 1 /\ p[1] = v[n].pos
  BY <1>2
<1>4. (1 - 1) * config.ways <= n - 1
  <2>1. config.ways \in Nat
    BY SetsOK DEF ZState
  <2>2. 0 * config.ways = 0
    BY <2>1
  <2> QED
    BY <2>2, <1>1
<1> HIDE DEF p
<1>5. Linked(a, p) /\ Distinct(p)
  BY <1>2, <1>3 DEF Linked, Distinct
<1>6. n \in 1..n
  BY <1>1
<1>7. PathFrom(a, v, n, p)
  BY <1>3, <1>4, <1>5, <1>6 DEF PathFrom
<1> QED
  BY <1>7 DEF p

\* The path of a candidate is its position and the path of its parent; it is no
\* longer than the rounds of the walk.
LEMMA NextPath ==
    ASSUME ZState, NEW a \in Addrs, NEW v, Walked(a, v),
           NEW n \in 1..Len(v), v[n].from > 0, IsFirst(v, n),
           NEW q, PathFrom(a, v, v[n].from, q)
    PROVE  PathFrom(a, v, n, <<v[n].pos>> \o q)
<1> DEFINE p == <<v[n].pos>> \o q
           f == v[n].from
           W == config.ways
<1>1. v \in Seq(Nodes) /\ Len(v) \in Nat /\ RootedAt(a, v, n) /\ n \in Nat
  BY DEF Walked
<1>2. v[n].pos \in Lines /\ f \in Nat
  BY <1>1, NodeOK
<1>3. /\ v[n].id = lookupArray[v[n].pos] /\ f > 0 /\ f + W <= n /\ array[v[f].id] # 0
      /\ \E w \in Ways : v[n].pos = Pos(w, array[v[f].id])
  BY <1>1, <1>2 DEF RootedAt
<1>4. W \in Nat \ {0}
  BY SetsOK DEF ZState
<1>5. f \in 1..(n - 1) /\ f \in 1..Len(v)
  BY <1>1, <1>2, <1>3, <1>4
<1>6. /\ q \in Seq(Lines) /\ Len(q) \in Nat /\ Len(q) >= 1 /\ (Len(q) - 1) * W <= f - 1
      /\ q[1] = v[f].pos /\ Distinct(q) /\ Linked(a, q)
      /\ \A i \in 1..Len(q) : \E m \in 1..f : IsFirst(v, m) /\ q[i] = v[m].pos
  BY DEF PathFrom
<1>7. lookupArray[q[1]] = v[f].id
  <2>1. RootedAt(a, v, f)
    BY <1>5 DEF Walked
  <2> QED
    BY <2>1, <1>6 DEF RootedAt
<1>8. /\ p \in Seq(Lines) /\ Len(p) = Len(q) + 1 /\ p[1] = v[n].pos
      /\ \A i \in 1..Len(q) : p[i + 1] = q[i]
      /\ \A i \in 2..Len(p) : p[i] = q[i - 1] /\ i - 1 \in 1..Len(q)
  BY <1>2, <1>6
<1> HIDE DEF p
<1>9. (Len(p) - 1) * W <= n - 1
  <2> DEFINE l == Len(q) - 1
             d == l * W
             e == (l + 1) * W
  <2>1. l \in Nat /\ d \in Nat /\ e = d + W
    BY <1>4, <1>6
  <2>2. d <= f - 1 /\ (Len(p) - 1) * W = e
    <3>1. Len(p) - 1 = l + 1
      BY <1>6, <1>8
    <3> QED
      BY <1>6, <3>1
  <2> HIDE DEF l, d, e
  <2> QED
    BY <2>1, <2>2, <1>1, <1>2, <1>3, <1>4
<1>10. \A i \in 2..Len(p) : \E m \in 1..f : IsFirst(v, m) /\ p[i] = v[m].pos
  BY <1>6, <1>8
<1>11. \A i \in 1..Len(p) : i = 1 \/ i \in 2..Len(p)
  OBVIOUS
<1>12. \A i \in 1..Len(p) : \E m \in 1..n : IsFirst(v, m) /\ p[i] = v[m].pos
  <2>1. n \in 1..n /\ \A m \in 1..f : m \in 1..n
    BY <1>1, <1>5
  <2> QED
    BY <2>1, <1>8, <1>10, <1>11
<1>13. ASSUME NEW i \in 2..Len(p) PROVE p[i] # p[1]
  <2>1. PICK m \in 1..f : IsFirst(v, m) /\ p[i] = v[m].pos
    BY <1>10
  <2>2. m \in 1..(n - 1) /\ m \in 1..Len(v)
    BY <1>1, <1>5
  <2>3. v[m].id = lookupArray[v[m].pos]
    BY <2>2 DEF Walked, RootedAt
  <2>4. v[m].id # v[n].id
    BY <2>2 DEF IsFirst
  <2> QED
    BY <2>1, <2>3, <2>4, <1>3, <1>8
<1>14. Distinct(p)
  <2> SUFFICES ASSUME NEW i \in 1..Len(p), NEW j \in 1..Len(p), p[i] = p[j] PROVE i = j
    BY DEF Distinct
  <2>1. CASE i = 1 \/ j = 1
    BY <2>1, <1>11, <1>13
  <2>2. CASE i \in 2..Len(p) /\ j \in 2..Len(p)
    <3>1. q[i - 1] = q[j - 1] /\ i - 1 \in 1..Len(q) /\ j - 1 \in 1..Len(q)
      BY <2>2, <1>8
    <3>2. i - 1 = j - 1
      BY <3>1, <1>6 DEF Distinct
    <3> QED
      BY <3>2
  <2> QED
    BY <2>1, <2>2, <1>11
<1>15. Linked(a, p)
  <2>1. ASSUME NEW i \in 1..(Len(p) - 1)
        PROVE  LET b == array[lookupArray[p[i + 1]]] IN b # 0 /\ \E w \in Ways : p[i] = Pos(w, b)
    <3>1. CASE i = 1
      <4>1. p[i + 1] = q[1]
        BY <3>1, <1>6, <1>8
      <4> QED
        BY <3>1, <4>1, <1>3, <1>7, <1>8
    <3>2. CASE i # 1
      <4>1. i - 1 \in 1..(Len(q) - 1) /\ i \in 2..Len(p) /\ i \in 1..Len(q) /\ (i - 1) + 1 = i
        BY <3>2, <1>6, <1>8
      <4>2. p[i] = q[i - 1] /\ p[i + 1] = q[i]
        BY <4>1, <1>8
      <4>3. LET b == array[lookupArray[q[(i - 1) + 1]]] IN b # 0 /\ \E w \in Ways : q[i - 1] = Pos(w, b)
        BY <4>1, <1>6 DEF Linked
      <4> QED
        BY <4>1, <4>2, <4>3
    <3> QED
      BY <3>1, <3>2
  <2>2. p[Len(p)] = q[Len(q)]
    <3>1. Len(q) \in 1..Len(q)
      BY <1>6
    <3> QED
      BY <3>1, <1>8
  <2> QED
    BY <2>1, <2>2, <1>6 DEF Linked
<1>16. Len(p) >= 1
  BY <1>6, <1>8
<1>17. PathFrom(a, v, n, p)
  BY <1>8, <1>9, <1>12, <1>14, <1>15, <1>16 DEF PathFrom
<1> QED
  BY <1>17 DEF p

\* What postinsert() gets: a path from the victim's position to one of the new
\* address's, which fits in swapArray.
PathOK(a, id, p) ==
    /\ p \in Seq(Lines) /\ Len(p) >= 1 /\ Len(p) <= (config.cands \div config.ways) + 2
    /\ lookupArray[p[1]] = id /\ Distinct(p) /\ Linked(a, p)

\* preinsert() hands postinsert() such a path in swapArray, whichever candidate
\* the policy took, although a walk may meet a line several times.
THEOREM SwapsOK ==
    ASSUME ZState, NEW a \in Addrs, NEW id \in Range(Cands(a))
    PROVE  id \in Lines /\ PathOK(a, id, Swaps(a, id))
<1> DEFINE v == Walk(a)
           N == Len(v)
           at == CHOOSE i \in DOMAIN v : v[i].id = id /\ \A j \in DOMAIN v : v[j].id = id => i <= j
           Step(n, p) == <<v[n].pos>> \o p
           path[n \in 0..N] == IF n = 0 THEN <<>> ELSE <<v[n].pos>> \o path[v[n].from]
           Ok(n, p) == IF n = 0 THEN p = <<>> ELSE IsFirst(v, n) => PathFrom(a, v, n, p)
           V == [n \in 0..N |-> {p \in Seq(Lines) : Ok(n, p)}]
           fr == [n \in 1..N |-> v[n].from]
           st == [n \in 1..N |-> [p \in Seq(Lines) |-> Step(n, p)]]
<1>1. Swaps(a, id) = path[at] /\ Cands(a) = [i \in DOMAIN v |-> v[i].id]
  BY DEF Swaps, Cands, ZState
<1>2. Walked(a, v)
  BY WalkedOK
<1> HIDE DEF v
<1>3. v \in Seq(Nodes) /\ N \in Nat /\ DOMAIN v = 1..N /\ N <= config.cands /\ config.cands \in Nat
  BY <1>2 DEF Walked, ZState, ConfigOK
<1>4. \E i \in 1..N : v[i].id = id
  BY <1>1, <1>3 DEF Range
<1>5. at \in 1..N /\ v[at].id = id /\ IsFirst(v, at)
  <2> DEFINE S == {i \in 1..N : v[i].id = id}
  <2>1. S \in SUBSET Nat /\ S # {}
    BY <1>4
  <2>2. PICK i \in S : \A j \in S : i <= j
    BY <2>1, NatLeast
  <2>3. \E x \in DOMAIN v : v[x].id = id /\ \A j \in DOMAIN v : v[j].id = id => x <= j
    BY <2>2, <1>3
  <2>4. at \in DOMAIN v /\ v[at].id = id /\ \A j \in DOMAIN v : v[j].id = id => at <= j
    BY <2>3
  <2> HIDE DEF at, S
  <2>5. ASSUME NEW j \in 1..(at - 1) PROVE v[j].id # v[at].id
    <3>1. j \in DOMAIN v /\ ~(at <= j)
      BY <1>3, <2>4
    <3> QED
      BY <2>4, <3>1
  <2> QED
    BY <1>3, <2>4, <2>5 DEF IsFirst
<1>6. id \in Lines
  BY <1>3, <1>5, NodeOK
<1> HIDE DEF at, N
<1>7. ASSUME NEW n \in 1..N
      PROVE  /\ v[n].from \in 0..(n - 1) /\ v[n].pos \in Lines
             /\ RootedAt(a, v, n) /\ (IsFirst(v, n) /\ v[n].from > 0 => IsFirst(v, v[n].from))
  <2>1. v[n].from \in Nat /\ v[n].pos \in Lines
    BY <1>3, NodeOK DEF N
  <2>2. RootedAt(a, v, n) /\ (IsFirst(v, n) /\ v[n].from > 0 => IsFirst(v, v[n].from))
    BY <1>2 DEF Walked, N
  <2>3. config.ways \in Nat \ {0}
    BY SetsOK DEF ZState
  <2> QED
    BY <2>1, <2>2, <2>3 DEF RootedAt
<1>8. ASSUME NEW n \in 1..N, NEW p \in Seq(Lines), Ok(v[n].from, p)
      PROVE  Step(n, p) \in Seq(Lines) /\ Ok(n, Step(n, p))
  <2>1. Step(n, p) \in Seq(Lines)
    BY <1>7
  <2>2. n \in 1..Len(v) /\ n # 0
    BY <1>3 DEF N
  <2>3. ASSUME IsFirst(v, n), v[n].from = 0 PROVE PathFrom(a, v, n, Step(n, p))
    <3>1. p = <<>> /\ Step(n, p) = <<v[n].pos>>
      BY <1>8, <2>3
    <3> QED
      BY <3>1, <2>2, <2>3, <1>2, SeedPath
  <2>4. ASSUME IsFirst(v, n), v[n].from > 0 PROVE PathFrom(a, v, n, Step(n, p))
    <3>1. PathFrom(a, v, v[n].from, p)
      BY <1>7, <1>8, <2>4
    <3> QED
      BY <3>1, <2>2, <2>4, <1>2, NextPath
  <2>5. v[n].from = 0 \/ v[n].from > 0
    BY <1>7
  <2> HIDE DEF Step
  <2> QED
    BY <2>1, <2>2, <2>3, <2>4, <2>5
<1> HIDE DEF Ok
<1>9. /\ \A n \in 0..N : V[n] = {p \in Seq(Lines) : Ok(n, p)}
      /\ \A n \in 1..N : fr[n] = v[n].from /\ fr[n] \in 0..(n - 1) /\ fr[n] \in 0..N
      /\ \A n \in 1..N : \A p \in Seq(Lines) : st[n][p] = Step(n, p)
  <2> HIDE DEF Step
  <2> QED
    BY <1>3, <1>7 DEF N
<1> HIDE DEF V, fr, st
<1>10. <<>> \in V[0]
  <2>1. 0 \in 0..N
    BY <1>3 DEF N
  <2>2. <<>> \in Seq(Lines) /\ Ok(0, <<>>)
    BY DEF Ok
  <2> QED
    BY <1>9, <2>1, <2>2
<1>11. ASSUME NEW n \in 1..N, NEW p \in V[fr[n]]
       PROVE  Step(n, p) \in V[n] /\ st[n][p] = Step(n, p)
  <2>1. p \in Seq(Lines) /\ Ok(v[n].from, p) /\ n \in 0..N
    BY <1>9
  <2>2. Step(n, p) \in Seq(Lines) /\ Ok(n, Step(n, p))
    BY <1>8, <2>1
  <2> HIDE DEF Step
  <2> QED
    BY <1>9, <2>1, <2>2
<1>12. Steps(N, V, <<>>, fr, st)
  <2> HIDE DEF Step
  <2> QED
    BY <1>9, <1>10, <1>11 DEF Steps
<1>13. PICK g : Run(g, N, V, <<>>, fr, st)
  <2>1. N \in Nat
    BY <1>3 DEF N
  <2> QED
    BY <2>1, <1>12, Recursion
<1>14. g = [n \in 0..N |-> IF n = 0 THEN <<>> ELSE <<v[n].pos>> \o g[v[n].from]]
  <2>1. ASSUME NEW n \in 1..N PROVE g[n] = <<v[n].pos>> \o g[v[n].from]
    <3>1. g[n] = st[n][g[fr[n]]] /\ g[fr[n]] \in V[fr[n]]
      BY <1>9, <1>13 DEF Run
    <3>2. g[n] = Step(n, g[fr[n]])
      BY <1>11, <3>1
    <3> QED
      BY <1>9, <3>2
  <2>2. g[0] = <<>>
    BY <1>13 DEF Run
  <2>3. \A n \in 0..N : n = 0 \/ n \in 1..N
    BY <1>3 DEF N
  <2>4. g = [n \in 0..N |-> g[n]]
    BY <1>13 DEF Run, IsFun
  <2> QED
    BY <2>1, <2>2, <2>3, <2>4
<1>15. path = [n \in 0..N |-> IF n = 0 THEN <<>> ELSE <<v[n].pos>> \o path[v[n].from]]
  BY <1>14
<1> HIDE DEF path
<1>16. path[0] = <<>> /\ \A n \in 1..N : path[n] = Step(n, path[fr[n]])
  <2>1. 0 \in 0..N /\ \A n \in 1..N : n \in 0..N /\ n # 0
    BY <1>3 DEF N
  <2>2. path[0] = <<>>
    BY <2>1, <1>15
  <2>3. ASSUME NEW n \in 1..N PROVE path[n] = Step(n, path[fr[n]])
    <3>1. path[n] = IF n = 0 THEN <<>> ELSE <<v[n].pos>> \o path[v[n].from]
      BY <2>1, <1>15, Zenon
    <3>2. path[n] = <<v[n].pos>> \o path[v[n].from]
      BY <2>1, <3>1, Zenon
    <3>3. fr[n] = v[n].from
      BY <1>9, Zenon
    <3> QED
      BY <3>2, <3>3, Zenon
  <2> QED
    BY <2>2, <2>3, Zenon
<1>17. Hands(N, V, path, fr)
  <2> HIDE DEF Step
  <2> QED
    BY <1>9, <1>10, <1>11, <1>16 DEF Hands
<1>18. path[at] \in V[at]
  <2>1. N \in Nat /\ at \in 0..N
    BY <1>3, <1>5 DEF N
  <2>2. \A n \in 0..N : path[n] \in V[n]
    BY <2>1, <1>17, Handed
  <2> QED
    BY <2>1, <2>2
<1>19. PathFrom(a, v, at, path[at]) /\ at \in Nat /\ at <= config.cands
  <2>1. at \in 0..N /\ at # 0 /\ at \in Nat /\ N \in Nat /\ N <= config.cands
    BY <1>3, <1>5 DEF N
  <2>2. Ok(at, path[at])
    BY <1>9, <1>18, <2>1
  <2> QED
    BY <2>1, <2>2, <1>3, <1>5 DEF Ok
<1> DEFINE p == path[at]
           l == Len(p) - 1
<1>20. p \in Seq(Lines) /\ Len(p) \in Nat /\ Len(p) >= 1 /\ l * config.ways <= at - 1
  BY <1>19 DEF PathFrom
<1>21. l <= config.cands \div config.ways
  <2>1. config.ways \in Nat \ {0}
    BY SetsOK DEF ZState
  <2> HIDE DEF p
  <2>2. l \in Nat /\ l * config.ways \in Nat
    BY <1>20, <2>1
  <2>3. l * config.ways <= config.cands
    BY <1>3, <1>19, <1>20, <2>2
  <2> HIDE DEF l
  <2> QED
    BY <2>1, <2>2, <2>3, <1>3, DivBound
<1>22. Len(p) <= (config.cands \div config.ways) + 2
  <2>1. config.cands \div config.ways \in Nat
    BY <1>3, SetsOK, DivMod DEF ZState
  <2> HIDE DEF p
  <2> QED
    BY <2>1, <1>20, <1>21
<1>23. lookupArray[p[1]] = id
  <2>1. p[1] = v[at].pos
    BY <1>19 DEF PathFrom
  <2>2. RootedAt(a, v, at)
    BY <1>5, <1>7
  <2> QED
    BY <2>1, <2>2, <1>5 DEF RootedAt
<1>24. PathOK(a, id, p)
  <2>1. Distinct(p) /\ Linked(a, p)
    BY <1>19 DEF PathFrom
  <2> HIDE DEF p
  <2> QED
    BY <2>1, <1>20, <1>22, <1>23 DEF PathOK
<1> QED
  BY <1>1, <1>6, <1>24

-----------------------------------------------------------------------------
(* The moves of a replacement.                                             *)

\* The line of each position of the path moves one position towards the victim,
\* whose line goes to the last position; the other positions keep theirs.
Moved(l, p, id) ==
    /\ l \in [Lines -> Lines]
    /\ \A i \in 1..Len(p) : l[p[i]] = IF i = Len(p) THEN id ELSE lookupArray[p[i + 1]]
    /\ \A x \in Lines : (\A i \in 1..Len(p) : x # p[i]) => l[x] = lookupArray[x]

\* The loop of postinsert() moves the lines so.
LEMMA SwappedOK ==
    ASSUME LookupOK, NEW p \in Seq(Lines), Distinct(p), NEW id \in Lines
    PROVE  Moved(Swapped(lookupArray, p, id), p, id)
<1> DEFINE N == Len(p)
           to(i) == IF i = N THEN id ELSE lookupArray[p[i + 1]]
           Step(n, l) == [l EXCEPT ![p[n]] = IF n = N THEN id ELSE l[p[n + 1]]]
           moved[n \in 0..N] == IF n = 0 THEN lookupArray ELSE Step(n, moved[n - 1])
           Ok(n, l) == /\ \A i \in 1..n : l[p[i]] = to(i)
                       /\ \A x \in Lines : (\A i \in 1..n : x # p[i]) => l[x] = lookupArray[x]
           V == [n \in 0..N |-> {l \in [Lines -> Lines] : Ok(n, l)}]
           st == [n \in 1..N |-> [l \in V[n - 1] |-> Step(n, l)]]
<1>1. Swapped(lookupArray, p, id) = moved[N]
  BY DEF Swapped
<1>2. N \in Nat /\ \A i \in 1..N : p[i] \in Lines
  OBVIOUS
<1>3. lookupArray \in [Lines -> Lines] /\ Ok(0, lookupArray)
  BY DEF LookupOK
<1>4. \A i, j \in 1..N : p[i] = p[j] => i = j
  BY DEF Distinct
<1> HIDE DEF N
<1>5. ASSUME NEW n \in 1..N, NEW l \in [Lines -> Lines], Ok(n - 1, l)
      PROVE  Step(n, l) \in [Lines -> Lines] /\ Ok(n, Step(n, l))
  <2> DEFINE u == Step(n, l)
  <2>1. n # N => l[p[n + 1]] = lookupArray[p[n + 1]] /\ p[n + 1] \in Lines
    <3> SUFFICES ASSUME n # N PROVE l[p[n + 1]] = lookupArray[p[n + 1]] /\ p[n + 1] \in Lines
      OBVIOUS
    <3>1. n + 1 \in 1..N /\ \A i \in 1..(n - 1) : i \in 1..N /\ i # n + 1
      BY <1>2
    <3>2. \A i \in 1..(n - 1) : p[n + 1] # p[i]
      BY <3>1, <1>4
    <3> QED
      BY <3>1, <3>2, <1>2, <1>5
  <2>2. u \in [Lines -> Lines] /\ u[p[n]] = to(n) /\ \A x \in Lines : x # p[n] => u[x] = l[x]
    BY <1>2, <2>1
  <2> HIDE DEF u, Step, to
  <2>3. \A i \in 1..n : i = n \/ (i \in 1..(n - 1) /\ i # n /\ i \in 1..N)
    BY <1>2
  <2>4. \A i \in 1..n : u[p[i]] = to(i)
    <3> TAKE i \in 1..n
    <3>1. CASE i = n
      BY <3>1, <2>2
    <3>2. CASE i \in 1..(n - 1) /\ i # n /\ i \in 1..N
      <4>1. p[i] # p[n] /\ p[i] \in Lines
        BY <3>2, <1>2, <1>4
      <4>2. l[p[i]] = to(i)
        BY <3>2, <1>5
      <4> QED
        BY <4>1, <4>2, <2>2
    <3> QED
      BY <3>1, <3>2, <2>3
  <2>5. ASSUME NEW x \in Lines, \A i \in 1..n : x # p[i] PROVE u[x] = lookupArray[x]
    <3>1. n \in 1..n /\ \A i \in 1..(n - 1) : i \in 1..n
      BY <1>2
    <3>2. x # p[n] /\ \A i \in 1..(n - 1) : x # p[i]
      BY <2>5, <3>1
    <3> QED
      BY <3>2, <2>2, <1>5
  <2> QED
    BY <2>2, <2>4, <2>5 DEF u
<1>6. \A n \in 1..N : n \in 0..N /\ n # 0 /\ n - 1 \in 0..N
  BY <1>2
<1> HIDE DEF Step, Ok
<1>9. /\ \A n \in 0..N : V[n] = {l \in [Lines -> Lines] : Ok(n, l)}
      /\ \A n \in 1..N : st[n] = [l \in V[n - 1] |-> Step(n, l)]
  BY <1>2
<1> HIDE DEF V, st
<1>10. lookupArray \in V[0]
  BY <1>2, <1>3, <1>9
<1>11. ASSUME NEW n \in 1..N, NEW l \in V[n - 1] PROVE st[n][l] = Step(n, l) /\ Step(n, l) \in V[n]
  <2>1. l \in [Lines -> Lines] /\ Ok(n - 1, l)
    BY <1>6, <1>9
  <2> QED
    BY <2>1, <1>5, <1>6, <1>9
<1>12. FoldSteps(N, V, lookupArray, st)
  BY <1>10, <1>11 DEF FoldSteps
<1>13. PICK f : FoldRun(f, N, V, lookupArray, st)
  BY <1>2, <1>12, Fold
<1>14. f = [n \in 0..N |-> IF n = 0 THEN lookupArray ELSE Step(n, f[n - 1])]
  <2>1. \A n \in 0..N : f[n] = IF n = 0 THEN lookupArray ELSE Step(n, f[n - 1])
    <3>1. f[0] = lookupArray
      BY <1>13 DEF FoldRun
    <3>2. ASSUME NEW n \in 1..N PROVE f[n] = Step(n, f[n - 1])
      BY <1>6, <1>11, <1>13 DEF FoldRun
    <3> QED
      BY <3>1, <3>2, <1>2
  <2>2. f = [n \in 0..N |-> f[n]]
    BY <1>13 DEF FoldRun, IsFun
  <2> QED
    BY <2>1, <2>2
<1>16. moved = [n \in 0..N |-> IF n = 0 THEN lookupArray ELSE Step(n, moved[n - 1])]
  BY <1>14
<1> HIDE DEF moved
<1>17. moved[0] \in V[0] /\ \A n \in 1..N : moved[n - 1] \in V[n - 1] => moved[n] \in V[n]
  <2>1. moved[0] = lookupArray
    BY <1>2, <1>16
  <2>2. \A n \in 1..N : moved[n] = Step(n, moved[n - 1])
    BY <1>6, <1>16
  <2> QED
    BY <2>1, <2>2, <1>10, <1>11
<1>18. moved[N] \in V[N]
  <2>1. \A n \in 0..N : moved[n] \in V[n]
    BY <1>2, <1>17, FoldHanded
  <2> QED
    BY <1>2, <2>1
<1>19. moved[N] \in [Lines -> Lines] /\ Ok(N, moved[N])
  BY <1>2, <1>9, <1>18
<1>20. Moved(moved[N], p, id)
  BY <1>19 DEF Moved, Ok, N
<1> QED
  BY <1>1, <1>20

Permutation(l) ==
    /\ l \in [Lines -> Lines]
    /\ \A i, j \in Lines : l[i] = l[j] => i = j
    /\ \A i \in Lines : \E q \in Lines : l[q] = i

\* The table stays a permutation.
LEMMA MovedPermutes ==
    ASSUME LookupOK, NEW p \in Seq(Lines), Len(p) >= 1, Distinct(p), NEW l, Moved(l, p, lookupArray[p[1]])
    PROVE  Permutation(l)
<1> DEFINE N == Len(p)
           next(i) == IF i = N THEN 1 ELSE i + 1
<1>1. N \in Nat \ {0} /\ \A i \in 1..N : p[i] \in Lines
  OBVIOUS
<1>2. \A i, j \in 1..N : p[i] = p[j] => i = j
  BY DEF Distinct
<1>3. l \in [Lines -> Lines] /\ \A i \in 1..N : l[p[i]] = lookupArray[p[next(i)]]
  BY DEF Moved
<1>4. \A x \in Lines : (\A i \in 1..N : x # p[i]) => l[x] = lookupArray[x]
  BY DEF Moved
<1>5. /\ \A i \in 1..N : next(i) \in 1..N
      /\ \A i, j \in 1..N : next(i) = next(j) => i = j
      /\ \A k \in 1..N : \E i \in 1..N : next(i) = k
  <2> HIDE DEF N
  <2>1. ASSUME NEW k \in 1..N PROVE \E i \in 1..N : next(i) = k
    <3>1. CASE k = 1
      BY <3>1, <1>1
    <3>2. CASE k # 1
      <4>1. k - 1 \in 1..N /\ next(k - 1) = k
        BY <3>2, <1>1
      <4> QED
        BY <4>1
    <3> QED
      BY <3>1, <3>2
  <2> QED
    BY <2>1, <1>1
<1> HIDE DEF N, next
<1> DEFINE Same(x, y) == lookupArray[x] = lookupArray[y] => x = y
<1>8. \A x, y \in Lines : Same(x, y)
  BY DEF LookupOK
<1>9. \A i \in 1..N : p[next(i)] \in Lines
  BY <1>1, <1>5
<1> HIDE DEF Same
<1>6. ASSUME NEW x \in Lines, NEW y \in Lines, l[x] = l[y] PROVE x = y
  <2>1. CASE (\E i \in 1..N : x = p[i]) /\ (\E j \in 1..N : y = p[j])
    <3>1. PICK i \in 1..N : x = p[i]
      BY <2>1
    <3>2. PICK j \in 1..N : y = p[j]
      BY <2>1
    <3>3. lookupArray[p[next(i)]] = lookupArray[p[next(j)]] /\ Same(p[next(i)], p[next(j)])
      BY <3>1, <3>2, <1>3, <1>6, <1>8, <1>9
    <3>4. p[next(i)] = p[next(j)]
      BY <3>3 DEF Same
    <3> QED
      BY <3>1, <3>2, <3>4, <1>2, <1>5
  <2>2. CASE (\E i \in 1..N : x = p[i]) /\ (\A j \in 1..N : y # p[j])
    <3>1. PICK i \in 1..N : x = p[i]
      BY <2>2
    <3>2. lookupArray[p[next(i)]] = lookupArray[y] /\ Same(p[next(i)], y)
      BY <2>2, <3>1, <1>3, <1>4, <1>6, <1>8, <1>9
    <3>3. p[next(i)] = y
      BY <3>2 DEF Same
    <3> QED
      BY <2>2, <3>1, <3>3, <1>5
  <2>3. CASE (\A i \in 1..N : x # p[i]) /\ (\E j \in 1..N : y = p[j])
    <3>1. PICK j \in 1..N : y = p[j]
      BY <2>3
    <3>2. lookupArray[p[next(j)]] = lookupArray[x] /\ Same(p[next(j)], x)
      BY <2>3, <3>1, <1>3, <1>4, <1>6, <1>8, <1>9
    <3>3. p[next(j)] = x
      BY <3>2 DEF Same
    <3> QED
      BY <2>3, <3>1, <3>3, <1>5
  <2>4. CASE (\A i \in 1..N : x # p[i]) /\ (\A j \in 1..N : y # p[j])
    BY <2>4, <1>4, <1>6, <1>8 DEF Same
  <2> QED
    BY <2>1, <2>2, <2>3, <2>4
<1>7. ASSUME NEW i \in Lines PROVE \E q \in Lines : l[q] = i
  <2>1. PICK q \in Lines : lookupArray[q] = i
    BY DEF LookupOK
  <2>2. CASE \E k \in 1..N : q = p[k]
    <3>1. PICK k \in 1..N : q = p[k]
      BY <2>2
    <3>2. PICK j \in 1..N : next(j) = k
      BY <1>5
    <3> QED
      BY <2>1, <3>1, <3>2, <1>1, <1>3
  <2>3. CASE \A k \in 1..N : q # p[k]
    BY <2>1, <2>3, <1>4
  <2> QED
    BY <2>2, <2>3
<1> QED
  BY <1>3, <1>6, <1>7 DEF Permutation

\* Every line with a tag is at a position of its address.
InPlace(l, tags) == \A i \in Lines : tags[i] # 0 => \E w \in Ways : l[Pos(w, tags[i])] = i

\* After the moves every line is still at a position of its address, and the new
\* one is too.
LEMMA MovedInPlace ==
    ASSUME ZState, NEW a \in Addrs, NEW id \in Lines, NEW p, PathOK(a, id, p),
           InPlace(lookupArray, array), NEW l, Moved(l, p, id)
    PROVE  InPlace(l, [array EXCEPT ![id] = a])
<1> DEFINE N == Len(p)
           tags == [array EXCEPT ![id] = a]
<1>1. /\ p \in Seq(Lines) /\ N \in Nat /\ N >= 1 /\ lookupArray[p[1]] = id
      /\ \A i \in 1..N : p[i] \in Lines
  BY DEF PathOK
<1>2. /\ \A i \in 1..N : l[p[i]] = IF i = N THEN id ELSE lookupArray[p[i + 1]]
      /\ \A x \in Lines : (\A i \in 1..N : x # p[i]) => l[x] = lookupArray[x]
  BY DEF Moved
<1>3. array \in [Lines -> Addrs \cup {0}]
  BY DEF ZState, TagsOK
<1> SUFFICES ASSUME NEW i \in Lines, tags[i] # 0 PROVE \E w \in Ways : l[Pos(w, tags[i])] = i
  BY DEF InPlace
<1>4. CASE i = id
  <2>1. PICK w \in Ways : p[N] = Pos(w, a)
    BY DEF PathOK, Linked
  <2>2. l[p[N]] = id /\ tags[i] = a
    BY <1>1, <1>2, <1>3, <1>4
  <2> QED
    BY <2>1, <2>2, <1>4
<1>5. CASE i # id
  <2>1. tags[i] = array[i] /\ array[i] # 0 /\ array[i] \in Addrs
    BY <1>3, <1>5
  <2>2. PICK w \in Ways : lookupArray[Pos(w, array[i])] = i
    BY <2>1 DEF InPlace
  <2> DEFINE x == Pos(w, array[i])
  <2>3. x \in Lines /\ lookupArray[x] = i
    BY <2>1, <2>2, PosOK DEF ZState
  <2> HIDE DEF x
  <2>4. CASE \A k \in 1..N : x # p[k]
    BY <1>2, <2>1, <2>3, <2>4 DEF x
  <2>5. CASE \E k \in 1..N : x = p[k]
    <3>1. PICK k \in 1..N : x = p[k]
      BY <2>5
    <3>2. k # 1
      BY <1>1, <1>5, <2>3, <3>1
    <3>3. k - 1 \in 1..(N - 1) /\ k - 1 \in 1..N /\ k - 1 # N /\ (k - 1) + 1 = k
      BY <1>1, <3>2
    <3> DEFINE j == k - 1
    <3>4. p[j + 1] = x
      BY <3>1, <3>3
    <3> HIDE DEF j
    <3>5. PICK u \in Ways : p[j] = Pos(u, array[i])
      <4>1. j \in 1..(Len(p) - 1)
        BY <3>3 DEF j
      <4>2. LET b == array[lookupArray[p[j + 1]]] IN b # 0 /\ \E u \in Ways : p[j] = Pos(u, b)
        BY <4>1 DEF PathOK, Linked
      <4> QED
        BY <4>2, <3>4, <2>3
    <3>6. l[p[j]] = lookupArray[p[j + 1]]
      <4>1. j \in 1..N /\ j # N
        BY <3>3 DEF j
      <4> QED
        BY <4>1, <1>2
    <3> QED
      BY <3>4, <3>5, <3>6, <2>1, <2>3
  <2> QED
    BY <2>4, <2>5
<1> QED
  BY <1>4, <1>5

-----------------------------------------------------------------------------
(* The list of an ideal LRU array.                                         *)

\* It has every line.
ListOK(list) ==
    list \in Seq(Lines) /\ Len(list) >= 1 /\ \A i \in Lines : \E n \in DOMAIN list : list[n] = i

\* RemoveAt drops one element.
LEMMA RemovedOK ==
    ASSUME NEW S, NEW list \in Seq(S), NEW n \in 1..Len(list)
    PROVE  LET rest == RemoveAt(list, n)
           IN /\ rest \in Seq(S) /\ Len(rest) = Len(list) - 1
              /\ \A m \in 1..(n - 1) : rest[m] = list[m]
              /\ \A m \in n..(Len(list) - 1) : rest[m] = list[m + 1]
<1> DEFINE s == SubSeq(list, 1, n - 1)
           t == SubSeq(list, n + 1, Len(list))
           rest == s \o t
<1>1. Len(list) \in Nat /\ n \in Nat /\ n >= 1 /\ n <= Len(list)
  OBVIOUS
<1>2. s \in Seq(S) /\ Len(s) = n - 1 /\ \A m \in 1..(n - 1) : s[m] = list[m]
  <2>1. \A i \in 1..(n - 1) : i \in DOMAIN list
    BY <1>1
  <2>2. s \in Seq(S) /\ Len(s) = IF 1 <= n - 1 THEN (n - 1) - 1 + 1 ELSE 0
    BY <1>1, <2>1, SubSeqProperties
  <2>3. \A m \in 1..(n - 1) : s[m] = list[1 + m - 1]
    BY <1>1, <2>1, SubSeqProperties
  <2> HIDE DEF s
  <2> QED
    BY <1>1, <2>2, <2>3
<1>3. t \in Seq(S) /\ Len(t) = Len(list) - n /\ \A m \in 1..(Len(list) - n) : t[m] = list[m + n]
  <2>1. \A i \in (n + 1)..Len(list) : i \in DOMAIN list
    BY <1>1
  <2>2. t \in Seq(S) /\ Len(t) = IF n + 1 <= Len(list) THEN Len(list) - (n + 1) + 1 ELSE 0
    BY <1>1, <2>1, SubSeqProperties
  <2>3. \A m \in 1..(Len(list) - (n + 1) + 1) : t[m] = list[(n + 1) + m - 1]
    BY <1>1, <2>1, SubSeqProperties
  <2> HIDE DEF t
  <2>4. \A m \in 1..(Len(list) - n) : m \in 1..(Len(list) - (n + 1) + 1) /\ (n + 1) + m - 1 = m + n
    BY <1>1
  <2> QED
    BY <1>1, <2>2, <2>3, <2>4
<1>4. RemoveAt(list, n) = rest
  BY DEF RemoveAt
<1> HIDE DEF s, t
<1>5. rest \in Seq(S) /\ Len(rest) = Len(list) - 1 /\ \A m \in 1..(n - 1) : rest[m] = list[m]
  BY <1>1, <1>2, <1>3
<1>6. ASSUME NEW m \in n..(Len(list) - 1) PROVE rest[m] = list[m + 1]
  <2>1. m \in Nat /\ m - (n - 1) \in 1..(Len(list) - n) /\ (m - (n - 1)) + n = m + 1
    BY <1>1
  <2>2. rest[m] = t[m - Len(s)]
    BY <1>1, <1>2, <1>3
  <2>3. t[m - (n - 1)] = list[(m - (n - 1)) + n]
    BY <2>1, <1>3
  <2> QED
    BY <2>1, <2>2, <2>3, <1>2
<1> HIDE DEF rest
<1> QED
  BY <1>4, <1>5, <1>6

\* The line goes to the front, and the others keep their order.
LEMMA MoveToFrontIs ==
    ASSUME NEW list, ListOK(list), NEW i \in Lines
    PROVE  LET new == MoveToFront(list, i)
           IN /\ new \in Seq(Lines) /\ Len(new) = Len(list) /\ new[1] = i
              /\ \E n \in 1..Len(list) :
                    /\ list[n] = i
                    /\ \A m \in 1..(n - 1) : new[m + 1] = list[m]
                    /\ \A m \in (n + 1)..Len(list) : new[m] = list[m]
<1> DEFINE n == CHOOSE m \in DOMAIN list : list[m] = i
           rest == RemoveAt(list, n)
           new == <<i>> \o rest
<1>1. list \in Seq(Lines) /\ Len(list) \in Nat /\ DOMAIN list = 1..Len(list)
  BY DEF ListOK
<1>2. n \in 1..Len(list) /\ list[n] = i
  BY <1>1 DEF ListOK
<1>3. MoveToFront(list, i) = new
  BY DEF MoveToFront
<1> HIDE DEF n
<1>4. /\ rest \in Seq(Lines) /\ Len(rest) = Len(list) - 1
      /\ \A m \in 1..(n - 1) : rest[m] = list[m]
      /\ \A m \in n..(Len(list) - 1) : rest[m] = list[m + 1]
  BY <1>1, <1>2, RemovedOK
<1> HIDE DEF rest
<1>5. /\ new \in Seq(Lines) /\ Len(new) = Len(list) /\ new[1] = i
      /\ \A m \in 1..(Len(list) - 1) : new[m + 1] = rest[m]
  <2> DEFINE one == <<i>>
  <2>1. one \in Seq(Lines) /\ Len(one) = 1 /\ one[1] = i /\ new = one \o rest
    OBVIOUS
  <2> HIDE DEF one, new
  <2>2. /\ new \in Seq(Lines) /\ Len(new) = 1 + Len(rest)
        /\ \A m \in 1..(1 + Len(rest)) : new[m] = IF m <= 1 THEN one[m] ELSE rest[m - 1]
    <3>1. /\ one \o rest \in Seq(Lines) /\ Len(one \o rest) = Len(one) + Len(rest)
          /\ \A m \in 1..(Len(one) + Len(rest)) :
                (one \o rest)[m] = IF m <= Len(one) THEN one[m] ELSE rest[m - Len(one)]
      <4>1. one \in Seq(Lines) /\ rest \in Seq(Lines)
        BY <1>4, <2>1, Zenon
      <4> QED
        BY ONLY <4>1, ConcatProperties
    <3> QED
      BY <2>1, <3>1, Zenon
  <2>3. Len(rest) \in Nat
    BY <1>4
  <2>4. new[1] = i
    BY <2>1, <2>2, <2>3
  <2>5. ASSUME NEW m \in 1..(Len(list) - 1) PROVE new[m + 1] = rest[m]
    <3>1. m + 1 \in 1..(1 + Len(rest)) /\ ~(m + 1 <= 1) /\ (m + 1) - 1 = m
      BY <1>1, <1>4
    <3> QED
      BY <2>2, <3>1
  <2> QED
    BY <1>1, <1>4, <2>2, <2>4, <2>5
<1> HIDE DEF new
<1>6. \A m \in 1..(n - 1) : new[m + 1] = list[m]
  <2>1. \A m \in 1..(n - 1) : m \in 1..(Len(list) - 1)
    BY <1>1, <1>2
  <2> QED
    BY <2>1, <1>4, <1>5
<1>7. ASSUME NEW m \in (n + 1)..Len(list) PROVE new[m] = list[m]
  <2>1. m - 1 \in n..(Len(list) - 1) /\ m - 1 \in 1..(Len(list) - 1) /\ (m - 1) + 1 = m
    BY <1>1, <1>2
  <2>2. new[(m - 1) + 1] = rest[m - 1] /\ rest[m - 1] = list[(m - 1) + 1]
    BY <2>1, <1>4, <1>5
  <2> QED
    BY <2>1, <2>2
<1> QED
  BY <1>2, <1>3, <1>5, <1>6, <1>7

\* The list of an ideal array has every line once, before and after.
LEMMA MoveToFrontOK ==
    ASSUME NEW list, ListOK(list), NEW i \in Lines
    PROVE  ListOK(MoveToFront(list, i))
<1> DEFINE new == MoveToFront(list, i)
<1>1. list \in Seq(Lines) /\ Len(list) \in Nat /\ Len(list) >= 1 /\ DOMAIN list = 1..Len(list)
  BY DEF ListOK
<1>2. new \in Seq(Lines) /\ Len(new) = Len(list) /\ new[1] = i
  BY MoveToFrontIs
<1>3. PICK n \in 1..Len(list) :
         /\ list[n] = i
         /\ \A m \in 1..(n - 1) : new[m + 1] = list[m]
         /\ \A m \in (n + 1)..Len(list) : new[m] = list[m]
  BY MoveToFrontIs
<1> HIDE DEF new
<1>4. ASSUME NEW j \in Lines PROVE \E m \in DOMAIN new : new[m] = j
  <2>1. DOMAIN new = 1..Len(list)
    BY <1>2
  <2>2. PICK m \in 1..Len(list) : list[m] = j
    BY <1>1 DEF ListOK
  <2>3. CASE m = n
    BY <1>1, <1>2, <1>3, <2>1, <2>2, <2>3
  <2>4. CASE m \in 1..(n - 1)
    <3>1. m + 1 \in DOMAIN new
      BY <1>1, <2>1, <2>4
    <3> QED
      BY <1>3, <2>2, <2>4, <3>1
  <2>5. CASE m \in (n + 1)..Len(list)
    BY <1>3, <2>1, <2>2, <2>5
  <2> QED
    BY <1>1, <2>3, <2>4, <2>5
<1> QED
  BY <1>1, <1>2, <1>4 DEF ListOK, new

-----------------------------------------------------------------------------
(* The inductive invariant of the arrays.                                  *)

\* No address has two lines, and every line with a tag is where lookups look.
Unique == \A i, j \in Lines : array[i] # 0 /\ array[i] = array[j] => i = j
Placed == \A i \in Lines : array[i] # 0 => i \in Probed(array[i])

Insertions == [addr : Addrs, id : Lines, swaps : Seq(Lines), evicted : BOOLEAN]

\* An insertion under way: of an address that no line has, into a line where it
\* will be found.
PendOK ==
    \/ pend = NoInsertion
    \/ /\ pend \in Insertions /\ \A i \in Lines : array[i] # pend.addr
       /\ config.array = "SetAssoc" => pend.id \in Probed(pend.addr)
       /\ IF config.array = "Z" THEN PathOK(pend.addr, pend.id, pend.swaps) ELSE pend.swaps = <<>>

\* Geometry, table of positions, tags and insertion.
TablesInv == ConfigOK(config) /\ LookupOK /\ TagsOK /\ Unique /\ Placed /\ PendOK

\* NRU starts every replacement without a candidate; only CARE waits for costs.
PolicyInv ==
    /\ PolicyOK(rp, config.lines) /\ rp.kind = KindOf(config.repl)
    /\ pend = NoInsertion /\ rp.kind = "NRU" => rp.candVal = NoCandVal
    /\ (\A m \in misses : m.addr \in Addrs /\ m.id \in Lines)
    /\ misses # {} => config.repl = "CARE"
    /\ config.repl = "CARE" => rp \in CarePolicies(config.lines) /\ Thresholds(rp)

ArraysInv == TablesInv /\ PolicyInv /\ ListOK(lruList)

\* The geometry, which no step changes.
SameGeometry ==
    /\ config'.array = config.array /\ config'.repl = config.repl /\ config'.lines = config.lines
    /\ config'.ways = config.ways /\ config'.cands = config.cands /\ config'.hash = config.hash
    /\ config'.children = config.children

\* Every step keeps the geometry.
LEMMA GeometryOK ==
    ASSUME ConfigOK(config), Counted \/ UNCHANGED config
    PROVE  SameGeometry /\ ConfigOK(config')
<1>1. CASE UNCHANGED config
  BY <1>1 DEF SameGeometry
<1>2. CASE Counted
  <2> DEFINE left == config.accesses - 1
             K == [array : {"SetAssoc", "Z", "IdealLRU"},
                   repl : {"LRU", "LRUNoSh", "NRU", "LFU", "Rand", "SRRIP", "CARE"},
                   lines : Nat \ {0}, ways : Nat \ {0}, cands : Nat, hash : {config.hash},
                   children : {config.children}, accesses : Nat, costs : SUBSET Nat]
  <2>1. config \in K /\ left \in Nat /\ config' = [config EXCEPT !.accesses = left]
    BY <1>2 DEF ConfigOK, Counted
  <2> HIDE DEF left
  <2>2. config' \in K /\ config'.children = config.children
    BY <2>1
  <2>3. SameGeometry
    BY <2>1 DEF SameGeometry
  <2> QED
    BY <2>2, <2>3 DEF SameGeometry, ConfigOK
<1> QED
  BY <1>1, <1>2

\* With the geometry, the positions of an address stay the same.
LEMMA PlacesKept ==
    ASSUME SameGeometry
    PROVE  /\ Lines' = Lines /\ Addrs' = Addrs /\ Ways' = Ways
           /\ \A w, a : Pos(w, a)' = Pos(w, a)
           /\ \A a : First(a)' = First(a)
           /\ lookupArray' = lookupArray => \A a : Probed(a)' = Probed(a)
<1>1. Lines' = Lines /\ Addrs' = Addrs /\ Ways' = Ways /\ NumSets' = NumSets
  BY DEF SameGeometry, Lines, Addrs, Ways, NumSets
<1>2. \A w, a : Pos(w, a)' = Pos(w, a)
  BY <1>1 DEF SameGeometry, Pos
<1>3. \A a : First(a)' = First(a)
  BY <1>1 DEF SameGeometry, First
<1>4. ASSUME lookupArray' = lookupArray, NEW a PROVE Probed(a)' = Probed(a)
  BY <1>1, <1>2, <1>3, <1>4 DEF SameGeometry, Probed
<1> QED
  BY <1>1, <1>2, <1>3, <1>4

\* What leaves the table and the tags alone leaves a path alone.
LEMMA PathKept ==
    ASSUME SameGeometry, UNCHANGED <<array, lookupArray>>, NEW a, NEW id, NEW p, PathOK(a, id, p)
    PROVE  PathOK(a, id, p)'
<1>1. Lines' = Lines /\ Ways' = Ways /\ \A w, b : Pos(w, b)' = Pos(w, b)
  BY PlacesKept
<1>2. Linked(a, p)'
  BY <1>1 DEF PathOK, Linked
<1> QED
  BY <1>1, <1>2 DEF PathOK, SameGeometry

\* What does not change the tables and the insertion keeps their invariant.
LEMMA TablesKept ==
    ASSUME TablesInv, Counted \/ UNCHANGED config, UNCHANGED <<array, lookupArray, pend>>
    PROVE  TablesInv'
<1>1. SameGeometry /\ ConfigOK(config)'
  BY GeometryOK DEF TablesInv
<1>2. Lines' = Lines /\ Addrs' = Addrs /\ \A a : Probed(a)' = Probed(a)
  BY <1>1, PlacesKept
<1>3. LookupOK' /\ TagsOK' /\ Unique' /\ Placed'
  BY <1>2 DEF TablesInv, LookupOK, TagsOK, Unique, Placed
<1>4. PendOK'
  <2>1. CASE pend = NoInsertion
    BY <2>1 DEF PendOK, NoInsertion
  <2>2. CASE pend # NoInsertion
    <3>1. /\ pend \in Insertions /\ (\A i \in Lines : array[i] # pend.addr)
          /\ config.array = "SetAssoc" => pend.id \in Probed(pend.addr)
          /\ IF config.array = "Z" THEN PathOK(pend.addr, pend.id, pend.swaps) ELSE pend.swaps = <<>>
      BY <2>2 DEF TablesInv, PendOK
    <3>2. config'.array = "Z" => PathOK(pend.addr, pend.id, pend.swaps)'
      BY <1>1, <3>1, PathKept DEF SameGeometry
    <3>3. pend' \in Insertions'
      BY <1>2, <3>1 DEF Insertions
    <3> QED
      BY <1>1, <1>2, <3>1, <3>2, <3>3 DEF PendOK, SameGeometry
  <2> QED
    BY <2>1, <2>2
<1> QED
  BY <1>1, <1>3, <1>4 DEF TablesInv

\* What leaves the geometry alone leaves the list alone.
LEMMA ListKept ==
    ASSUME SameGeometry, NEW list, ListOK(list)
    PROVE  ListOK(list)'
<1>1. Lines' = Lines
  BY PlacesKept
<1> QED
  BY <1>1 DEF ListOK

\* Lines found are lines.
LEMMA ProbedLines ==
    ASSUME ConfigOK(config), LookupOK, NEW a \in Addrs
    PROVE  Probed(a) \subseteq Lines
<1>1. CASE config.array = "SetAssoc"
  BY <1>1, FirstOK DEF Probed
<1>2. CASE config.array = "Z"
  <2>1. \A w \in Ways : lookupArray[Pos(w, a)] \in Lines
    BY <1>2, PosOK DEF LookupOK
  <2> QED
    BY <1>2, <2>1 DEF Probed
<1>3. CASE config.array # "SetAssoc" /\ config.array # "Z"
  BY <1>3 DEF Probed
<1> QED
  BY <1>1, <1>2, <1>3

\* The policy of CARE.
LEMMA CareKind ==
    ASSUME PolicyInv, rp.kind = "CARE"
    PROVE  config.repl = "CARE" /\ rp \in CarePolicies(config.lines) /\ Thresholds(rp)
BY DEF PolicyInv, KindOf

\* There are candidates, all lines; those of a set-associative array are where
\* the address is looked up.
LEMMA CandsOK ==
    ASSUME ConfigOK(config), LookupOK, TagsOK, ListOK(lruList), NEW a \in Addrs
    PROVE  /\ Cands(a) \in Seq(Lines) /\ Len(Cands(a)) >= 1
           /\ config.array = "SetAssoc" => Range(Cands(a)) \subseteq Probed(a)
<1>1. CASE config.array = "SetAssoc"
  <2> DEFINE c == [i \in 1..config.ways |-> First(a) + i - 1]
  <2>1. Cands(a) = c
    BY <1>1 DEF Cands
  <2>2. config.ways \in Nat \ {0}
    BY SetsOK
  <2>3. ASSUME NEW i \in 1..config.ways
        PROVE  First(a) + i - 1 \in Lines /\ First(a) + i - 1 \in Probed(a)
    <3>1. i - 1 \in Ways
      BY <2>2 DEF Ways
    <3>2. First(a) \in Nat /\ First(a) + (i - 1) \in Lines
      BY <3>1, FirstOK
    <3>3. First(a) + i - 1 = First(a) + (i - 1)
      BY <2>2, <3>2
    <3> QED
      BY <1>1, <3>1, <3>2, <3>3 DEF Probed
  <2>4. c \in Seq(Lines) /\ Len(c) = config.ways
    BY <2>2, <2>3
  <2>5. Range(c) \subseteq Probed(a)
    BY <2>3 DEF Range
  <2> HIDE DEF c
  <2> QED
    BY <2>1, <2>2, <2>4, <2>5
<1>2. CASE config.array = "Z"
  <2> DEFINE v == Walk(a)
             c == [i \in DOMAIN v |-> v[i].id]
  <2>1. Cands(a) = c
    BY <1>2 DEF Cands
  <2>2. Walked(a, v)
    BY <1>2, WalkedOK DEF ZState
  <2> HIDE DEF v
  <2>3. v \in Seq(Nodes) /\ DOMAIN v = 1..Len(v) /\ Len(v) \in Nat /\ Len(v) >= 1
    BY <2>2 DEF Walked
  <2>4. \A i \in 1..Len(v) : v[i].id \in Lines
    BY <2>3, NodeOK
  <2>5. c \in Seq(Lines) /\ Len(c) = Len(v)
    BY <2>3, <2>4
  <2> HIDE DEF c
  <2> QED
    BY <1>2, <2>1, <2>3, <2>5
<1>3. CASE config.array # "SetAssoc" /\ config.array # "Z"
  <2>1. Cands(a) = <<Last(lruList)>>
    BY <1>3 DEF Cands
  <2>2. Last(lruList) \in Lines
    BY DEF Last, ListOK
  <2> QED
    BY <1>3, <2>1, <2>2
<1> QED
  BY <1>1, <1>2, <1>3

\* No address is 0, the tag of an empty line.
LEMMA AddrsNat == ASSUME ConfigOK(config) PROVE Addrs \subseteq Nat \ {0}
BY DEF ConfigOK, Addrs

\* Lines are slots of the policies' tables.
LEMMA SlotsLines == Slots(config.lines) = Lines
BY DEF Slots, Lines

\* A lookup that updates the policy keeps it well-formed.
LEMMA TouchOK ==
    ASSUME ConfigOK(config), PolicyOK(rp, config.lines), NEW i \in Lines
    PROVE  LET q == Touch(rp, i) IN
           PolicyOK(q, config.lines) /\ q.kind = rp.kind /\ (rp.kind = "NRU" => q.candVal = rp.candVal)
<1>1. config.lines \in Nat \ {0} /\ i \in Slots(config.lines)
  BY SetsOK, SlotsLines
<1> QED
  BY <1>1, UpdateOK DEF Touch

\* Uses and insertions leave the thresholds of CARE alone.
LEMMA CareTouched ==
    ASSUME NEW n \in Nat \ {0}, NEW p \in CarePolicies(n), NEW id \in Slots(n)
    PROVE  LET q == Update(p, id)
           IN /\ q \in CarePolicies(n) /\ q.low = p.low /\ q.high = p.high
              /\ q.lineAddr = p.lineAddr /\ q.incomingAddr = p.incomingAddr
              /\ q = CareUpdate(p, id)
<1> DEFINE q == CareUpdate(p, id)
           h == HashAddr(p, p.lineAddr[id])
<1>1. Update(p, id) = q
  BY DEF Update, CarePolicies
<1>2. q \in CarePolicies(n)
  BY CareUpdateOK
<1>3. q = p \/ q = CareUsed(p, id, h)
  BY CareUpdateIs DEF CareUpdate
<1>4. LET u == CareUsed(p, id, h)
      IN u.low = p.low /\ u.high = p.high /\ u.lineAddr = p.lineAddr /\ u.incomingAddr = p.incomingAddr
  BY DEF CareUsed, CarePolicies
<1> HIDE DEF q
<1> QED
  BY <1>1, <1>2, <1>3, <1>4 DEF q

\* Replacements leave the thresholds of CARE alone.
LEMMA CareReplacedKeeps ==
    ASSUME NEW n \in Nat \ {0}, NEW p \in CarePolicies(n), NEW id \in Slots(n)
    PROVE  LET q == Replaced(p, id)
           IN /\ q \in CarePolicies(n) /\ q.low = p.low /\ q.high = p.high
              /\ q = CareReplaced(p, id)
<1> DEFINE q == CareReplaced(p, id)
<1>1. Replaced(p, id) = q
  BY DEF Replaced, CarePolicies
<1>2. PICK sht \in [Slots(n) -> [rc : 0..CareMax, pd : 0..CareMax]], r \in 0..CareMax, d \in 0..CareMax :
         q = CareGiven(p, id, sht, r, d)
  BY CareReplacedIs
<1>3. CareGiven(p, id, sht, r, d) \in CarePolicies(n)
  BY CareGivenOK
<1>4. LET u == CareGiven(p, id, sht, r, d) IN u.low = p.low /\ u.high = p.high
  BY DEF CareGiven, CarePolicies
<1> HIDE DEF q
<1> QED
  BY <1>1, <1>2, <1>3, <1>4 DEF q

\* An insertion keeps the policy well-formed.
LEMMA InsertedOK ==
    ASSUME ConfigOK(config), PolicyInv, NEW i \in Lines, config.array = "IdealLRU" => config.repl = "LRU"
    PROVE  LET q == Inserted(rp, i) IN
           /\ PolicyOK(q, config.lines) /\ q.kind = rp.kind
           /\ rp.kind = "NRU" => q.candVal = NoCandVal
           /\ config.repl = "CARE" => q \in CarePolicies(config.lines) /\ Thresholds(q)
<1> DEFINE p == Replaced(rp, i)
           q == Update(p, i)
           n == config.lines
<1>1. n \in Nat \ {0} /\ i \in Slots(n) /\ PolicyOK(rp, n) /\ rp.kind = KindOf(config.repl)
  BY SetsOK, SlotsLines DEF PolicyInv
<1>2. CASE config.array = "IdealLRU"
  <2>1. Inserted(rp, i) = rp /\ rp.kind = "LRU" /\ config.repl = "LRU"
    BY <1>1, <1>2 DEF Inserted, KindOf
  <2> QED
    BY <1>1, <2>1
<1>3. CASE config.array # "IdealLRU"
  <2>1. Inserted(rp, i) = q
    BY <1>3 DEF Inserted
  <2>2. PolicyOK(p, n) /\ p.kind = rp.kind /\ (rp.kind = "NRU" => p.candVal = NoCandVal)
    BY <1>1, ReplacedOK
  <2>3. PolicyOK(q, n) /\ q.kind = p.kind /\ (p.kind = "NRU" => q.candVal = p.candVal)
    BY <1>1, <2>2, UpdateOK
  <2>4. ASSUME config.repl = "CARE" PROVE q \in CarePolicies(n) /\ Thresholds(q)
    <3>1. rp \in CarePolicies(n) /\ Thresholds(rp)
      BY <2>4 DEF PolicyInv
    <3>2. p \in CarePolicies(n) /\ p.low = rp.low /\ p.high = rp.high
      BY <1>1, <3>1, CareReplacedKeeps
    <3> HIDE DEF p
    <3>3. q \in CarePolicies(n) /\ q.low = p.low /\ q.high = p.high
      BY <1>1, <3>2, CareTouched
    <3> QED
      BY <3>1, <3>2, <3>3 DEF Thresholds
  <2> HIDE DEF p, q
  <2> QED
    BY <2>1, <2>2, <2>3, <2>4
<1> QED
  BY <1>2, <1>3

\* What leaves the policy, its misses and the insertion alone.
LEMMA PolicyKept ==
    ASSUME PolicyInv, SameGeometry, UNCHANGED <<rp, pend, misses>>
    PROVE  PolicyInv'
<1>1. Lines' = Lines /\ Addrs' = Addrs
  BY PlacesKept
<1> QED
  BY <1>1 DEF PolicyInv, SameGeometry

\* It holds at the start.
LEMMA InitInv == ArraysInit => ArraysInv
<1> SUFFICES ASSUME ArraysInit PROVE ArraysInv
  OBVIOUS
<1>1. ConfigOK(config) /\ config.lines \in Nat \ {0} /\ config.repl \in Repls
  BY CacheArraysAssumption, SetsOK DEF ArraysInit, ConfigOK, Repls
<1>2. LookupOK /\ TagsOK /\ Unique /\ Placed /\ PendOK
  BY DEF ArraysInit, LookupOK, TagsOK, Unique, Placed, PendOK
<1>3. PolicyInv
  <2>1. PolicyOK(rp, config.lines) /\ rp.kind = KindOf(config.repl)
    BY <1>1, NewPolicyOK DEF ArraysInit
  <2>2. rp.kind = "NRU" => rp.candVal = NoCandVal
    <3>1. rp.kind = "NRU" => config.repl = "NRU"
      BY <2>1 DEF KindOf
    <3>2. config.repl = "NRU" => rp = NRUNew(config.lines)
      BY DEF ArraysInit, NewPolicy
    <3>3. NRUNew(config.lines).candVal = NoCandVal
      BY DEF NRUNew
    <3> QED
      BY <3>1, <3>2, <3>3
  <2>3. ASSUME config.repl = "CARE" PROVE rp \in CarePolicies(config.lines) /\ Thresholds(rp)
    <3>1. rp = CareNew(config.lines)
      BY <2>3 DEF ArraysInit, NewPolicy
    <3>2. CareNew(config.lines) \in CarePolicies(config.lines)
      BY <1>1 DEF CareNew, CareMax, CarePolicies, Slots
    <3>3. CareNew(config.lines).low = 50 /\ CareNew(config.lines).high = 350
      BY DEF CareNew
    <3> QED
      BY <3>1, <3>2, <3>3 DEF Thresholds
  <2>4. misses = {}
    BY DEF ArraysInit
  <2> QED
    BY <2>1, <2>2, <2>3, <2>4 DEF PolicyInv
<1>4. ListOK(lruList)
  <2> DEFINE n == config.lines
  <2>1. lruList = [i \in 1..n |-> n - i] /\ Lines = 0..(n - 1)
    BY DEF ArraysInit, Lines
  <2> HIDE DEF n
  <2>2. n \in Nat \ {0}
    BY <1>1 DEF n
  <2>3. \A i \in 1..n : n - i \in Lines
    BY <2>1, <2>2
  <2>4. lruList \in Seq(Lines) /\ Len(lruList) = n /\ DOMAIN lruList = 1..n
    BY <2>1, <2>2, <2>3
  <2>5. ASSUME NEW i \in Lines PROVE n - i \in 1..n /\ lruList[n - i] = i
    <3>1. n - i \in 1..n /\ n - (n - i) = i
      BY <2>1, <2>2
    <3> QED
      BY <2>1, <3>1
  <2> QED
    BY <2>2, <2>4, <2>5 DEF ListOK
<1> QED
  BY <1>1, <1>2, <1>3, <1>4 DEF ArraysInv, TablesInv

\* What a lookup finds is a line with that tag.
LEMMA FoundLine ==
    ASSUME ArraysInv, NEW a \in Addrs, NEW i \in Found(a)
    PROVE  i \in Lines /\ array[i] = a /\ a # 0
<1>1. Probed(a) \subseteq Lines /\ a \in Nat \ {0}
  BY ProbedLines, AddrsNat DEF ArraysInv, TablesInv
<1> QED
  BY <1>1 DEF Found

\* Cache::access on a line that is there.
LEMMA HitKeeps ==
    ASSUME ArraysInv, NEW k, NEW a \in Addrs, NEW excl, Hit(k, a, excl)
    PROVE  ArraysInv'
<1>1. Counted /\ UNCHANGED <<array, lookupArray, pend>>
  BY DEF Hit
<1>2. SameGeometry /\ ConfigOK(config)
  BY <1>1, GeometryOK DEF ArraysInv, TablesInv
<1>3. TablesInv'
  BY <1>1, TablesKept DEF ArraysInv
<1>4. PICK i \in Found(a) : /\ rp' = Touch(rp, i) /\ lruList' = MoveToFront(lruList, i)
                           /\ misses' \in {misses, Missed(a, i, config'.accesses)}
  BY DEF Hit
<1>5. i \in Lines
  BY FoundLine
<1>6. ListOK(lruList)'
  <2>1. ListOK(MoveToFront(lruList, i))
    BY <1>5, MoveToFrontOK DEF ArraysInv
  <2>2. ListOK(lruList')
    BY <1>4, <2>1
  <2>3. Lines' = Lines
    BY <1>2, PlacesKept
  <2> QED
    BY <2>2, <2>3 DEF ListOK
<1>7. PolicyInv'
  <2>1. /\ PolicyOK(rp', config.lines) /\ rp'.kind = rp.kind
        /\ rp.kind = "NRU" => rp'.candVal = rp.candVal
    BY <1>2, <1>4, <1>5, TouchOK DEF ArraysInv, PolicyInv
  <2>2. ASSUME config.repl = "CARE" PROVE rp' \in CarePolicies(config.lines) /\ Thresholds(rp')
    <3>1. rp \in CarePolicies(config.lines) /\ Thresholds(rp)
      BY <2>2 DEF ArraysInv, PolicyInv
    <3>2. rp' = rp \/ rp' = Update(rp, i)
      BY <1>4 DEF Touch
    <3>3. config.lines \in Nat \ {0} /\ i \in Slots(config.lines)
      BY <1>2, <1>5, SetsOK, SlotsLines
    <3>4. LET q == Update(rp, i) IN q \in CarePolicies(config.lines) /\ q.low = rp.low /\ q.high = rp.high
      BY <3>1, <3>3, CareTouched
    <3> QED
      BY <3>1, <3>2, <3>4 DEF Thresholds
  <2>3. Lines' = Lines /\ Addrs' = Addrs
    BY <1>2, PlacesKept
  <2>4. (\A m \in misses' : m.addr \in Addrs /\ m.id \in Lines) /\ (misses' # {} => config.repl = "CARE")
    BY <1>4, <1>5 DEF ArraysInv, PolicyInv, Missed
  <2> QED
    BY <1>1, <1>2, <2>1, <2>2, <2>3, <2>4 DEF ArraysInv, PolicyInv, SameGeometry
<1> QED
  BY <1>3, <1>6, <1>7 DEF ArraysInv

\* PUTs, invalidations and what changes none of the arrays.
LEMMA QuietKeeps ==
    ASSUME ArraysInv, Counted \/ UNCHANGED config, UNCHANGED <<array, lookupArray, lruList, rp, pend, misses>>
    PROVE  ArraysInv'
<1>1. SameGeometry
  BY GeometryOK DEF ArraysInv, TablesInv
<1>2. TablesInv' /\ PolicyInv'
  BY <1>1, TablesKept, PolicyKept DEF ArraysInv
<1>3. ListOK(lruList)'
  <2>1. Lines' = Lines
    BY <1>1, PlacesKept
  <2> QED
    BY <2>1 DEF ArraysInv, ListOK
<1> QED
  BY <1>2, <1>3 DEF ArraysInv

\* preinsert(): the victim is a candidate, and the new address will be found in it.
LEMMA PreinsertKeeps ==
    ASSUME ArraysInv, NEW a \in Addrs, Preinsert(a)
    PROVE  ArraysInv'
<1>1. /\ pend = NoInsertion /\ Counted /\ Found(a) = {}
      /\ UNCHANGED <<array, lookupArray, lruList, line, misses>>
  BY DEF Preinsert
<1>2. SameGeometry /\ ConfigOK(config) /\ ConfigOK(config)' /\ LookupOK /\ TagsOK /\ Unique /\ Placed
  BY <1>1, GeometryOK DEF ArraysInv, TablesInv
<1>3. PICK r \in Rank(rp, a, Cands(a), line) :
         /\ pend' = [addr |-> a, id |-> r.id, swaps |-> Swaps(a, r.id), evicted |-> FALSE]
         /\ rp' = r.p
  BY DEF Preinsert
<1>4. Lines' = Lines /\ Addrs' = Addrs /\ \A b : Probed(b)' = Probed(b)
  BY <1>1, <1>2, PlacesKept
<1>5. /\ Cands(a) \in Seq(Lines) /\ Len(Cands(a)) >= 1
      /\ config.array = "SetAssoc" => Range(Cands(a)) \subseteq Probed(a)
  BY <1>2, CandsOK DEF ArraysInv
<1>6. /\ r.id \in Range(Cands(a)) /\ PolicyOK(r.p, config.lines) /\ r.p.kind = rp.kind
      /\ rp.kind = "CARE" => r.p = [rp EXCEPT !.incomingAddr = a]
  <2>1. config.lines \in Nat \ {0} /\ Slots(config.lines) = Lines /\ a \in Nat
    BY <1>2, SetsOK, SlotsLines, AddrsNat
  <2>2. PolicyOK(rp, config.lines) /\ (rp.kind = "NRU" => rp.candVal = NoCandVal)
    BY <1>1 DEF ArraysInv, PolicyInv
  <2> QED
    BY <1>3, <1>5, <2>1, <2>2, RankOK
<1>7. r.id \in Lines
  BY <1>5, <1>6 DEF Range
<1>8. \A i \in Lines : array[i] # a
  <2> SUFFICES ASSUME NEW i \in Lines, array[i] = a PROVE FALSE
    OBVIOUS
  <2>1. a # 0
    BY <1>2, AddrsNat
  <2>2. i \in Probed(a)
    BY <2>1, <1>2 DEF Placed
  <2> QED
    BY <2>2, <1>1 DEF Found
<1>9. IF config.array = "Z" THEN PathOK(a, r.id, Swaps(a, r.id)) ELSE Swaps(a, r.id) = <<>>
  <2>1. CASE config.array = "Z"
    BY <2>1, <1>2, <1>6, SwapsOK DEF ZState
  <2>2. CASE config.array # "Z"
    BY <2>2 DEF Swaps
  <2> QED
    BY <2>1, <2>2
<1>10. PICK s : s = Swaps(a, r.id)
  OBVIOUS
<1>11. PendOK'
  <2>1. /\ pend' = [addr |-> a, id |-> r.id, swaps |-> s, evicted |-> FALSE] /\ s \in Seq(Lines)
        /\ IF config.array = "Z" THEN PathOK(a, r.id, s) ELSE s = <<>>
    <3>1. IF config.array = "Z" THEN PathOK(a, r.id, s) ELSE s = <<>>
      BY <1>9, <1>10
    <3>2. s \in Seq(Lines)
      <4>1. PathOK(a, r.id, s) => s \in Seq(Lines)
        BY DEF PathOK
      <4>2. <<>> \in Seq(Lines)
        OBVIOUS
      <4> QED
        BY <3>1, <4>1, <4>2, Zenon
    <3> QED
      BY <1>3, <1>10, <3>1, <3>2
  <2>2. pend'.addr = a /\ pend'.id = r.id /\ pend'.swaps = s /\ pend' \in Insertions
    BY <1>7, <2>1 DEF Insertions
  <2>3. config'.array = "Z" => PathOK(pend.addr, pend.id, pend.swaps)'
    <3>1. config.array = "Z" => PathOK(a, r.id, s)'
      BY <1>1, <1>2, <2>1, PathKept
    <3>2. PathOK(a, r.id, s)' => PathOK(pend.addr, pend.id, pend.swaps)'
      BY <2>2 DEF PathOK, Linked, Distinct, Pos
    <3> QED
      BY <3>1, <3>2, <1>2 DEF SameGeometry
  <2>4. pend' \in Insertions'
    BY <1>4, <2>2 DEF Insertions
  <2>5. config'.array = "SetAssoc" => pend'.id \in Probed(pend.addr)'
    <3>1. config'.array = "SetAssoc" => r.id \in Probed(a)'
      BY <1>2, <1>4, <1>5, <1>6 DEF SameGeometry
    <3>2. Probed(pend.addr)' = Probed(a)'
      BY <2>2 DEF Probed, First, Pos
    <3> QED
      BY <3>1, <3>2, <2>2
  <2>6. \A i \in Lines' : array'[i] # pend'.addr
    BY <1>1, <1>4, <1>8, <2>2
  <2>7. config'.array # "Z" => pend'.swaps = <<>>
    BY <1>2, <2>1, <2>2 DEF SameGeometry
  <2> QED
    BY <2>3, <2>4, <2>5, <2>6, <2>7 DEF PendOK
<1>12. TablesInv'
  <2>1. LookupOK' /\ TagsOK' /\ Unique' /\ Placed'
    BY <1>1, <1>2, <1>4 DEF LookupOK, TagsOK, Unique, Placed
  <2> QED
    BY <1>2, <1>11, <2>1 DEF TablesInv
<1>13. PolicyInv'
  <2>1. ASSUME config.repl = "CARE" PROVE rp' \in CarePolicies(config.lines) /\ Thresholds(rp')
    <3>1. rp \in CarePolicies(config.lines) /\ Thresholds(rp) /\ rp.kind = "CARE"
      BY <2>1 DEF ArraysInv, PolicyInv, KindOf
    <3>2. rp' = [rp EXCEPT !.incomingAddr = a] /\ a \in Nat
      BY <1>2, <1>3, <1>6, <3>1, AddrsNat
    <3>3. rp' \in CarePolicies(config.lines) /\ rp'.low = rp.low /\ rp'.high = rp.high
      BY <3>1, <3>2 DEF CarePolicies
    <3> QED
      BY <3>1, <3>3 DEF Thresholds
  <2>2. pend' # NoInsertion
    <3>1. pend'.id \in Lines /\ \A x \in Lines : x # -1
      BY <1>2, <1>3, <1>7, SetsOK DEF Lines
    <3>2. NoInsertion.id = -1
      BY DEF NoInsertion
    <3> QED
      BY <3>1, <3>2
  <2>3. PolicyOK(rp', config.lines) /\ rp'.kind = KindOf(config.repl)
    BY <1>3, <1>6 DEF ArraysInv, PolicyInv
  <2>4. (\A m \in misses' : m.addr \in Addrs /\ m.id \in Lines) /\ (misses' # {} => config.repl = "CARE")
    BY <1>1 DEF ArraysInv, PolicyInv
  <2> QED
    BY <1>2, <1>4, <2>1, <2>2, <2>3, <2>4 DEF PolicyInv, SameGeometry
<1>14. ListOK(lruList)'
  BY <1>1, <1>4 DEF ArraysInv, ListOK
<1> QED
  BY <1>12, <1>13, <1>14 DEF ArraysInv

\* processEviction() between preinsert() and postinsert().
LEMMA EvictKeeps ==
    ASSUME ArraysInv, Evict
    PROVE  ArraysInv'
<1>1. /\ pend # NoInsertion /\ pend' = [pend EXCEPT !.evicted = TRUE]
      /\ UNCHANGED <<config, array, lookupArray, lruList, rp, misses>>
  BY DEF Evict
<1>2. SameGeometry /\ ConfigOK(config)'
  BY <1>1, GeometryOK DEF ArraysInv, TablesInv
<1>3. Lines' = Lines /\ Addrs' = Addrs /\ \A b : Probed(b)' = Probed(b)
  BY <1>1, <1>2, PlacesKept
<1>4. /\ pend \in Insertions /\ (\A i \in Lines : array[i] # pend.addr)
      /\ config.array = "SetAssoc" => pend.id \in Probed(pend.addr)
      /\ IF config.array = "Z" THEN PathOK(pend.addr, pend.id, pend.swaps) ELSE pend.swaps = <<>>
  BY <1>1 DEF ArraysInv, TablesInv, PendOK
<1>5. pend' \in Insertions /\ pend'.addr = pend.addr /\ pend'.id = pend.id /\ pend'.swaps = pend.swaps
  BY <1>1, <1>4 DEF Insertions
<1>6. PendOK'
  <2>1. config.array = "Z" => PathOK(pend.addr, pend.id, pend.swaps)'
    <3>1. config.array = "Z" => PathOK(pend.addr, pend.id, pend.swaps)
      BY <1>4
    <3>2. PICK b, id, p : b = pend.addr /\ id = pend.id /\ p = pend.swaps
      OBVIOUS
    <3>3. PathOK(b, id, p) => PathOK(b, id, p)'
      BY <1>1, <1>2, PathKept
    <3>4. PathOK(b, id, p)' => PathOK(pend.addr, pend.id, pend.swaps)'
      <4>1. pend'.addr = b /\ pend'.id = id /\ pend'.swaps = p
        BY <1>5, <3>2
      <4> QED
        BY <4>1 DEF PathOK, Linked, Distinct, Pos
    <3> QED
      BY <3>1, <3>2, <3>3, <3>4
  <2>2. pend' \in Insertions'
    BY <1>3, <1>5 DEF Insertions
  <2>3. Probed(pend.addr)' = Probed(pend.addr)
    BY <1>1, <1>5 DEF Probed, First, Pos, Lines, Ways, NumSets
  <2> QED
    BY <1>1, <1>3, <1>4, <1>5, <2>1, <2>2, <2>3 DEF PendOK
<1>7. TablesInv'
  <2>1. LookupOK' /\ TagsOK' /\ Unique' /\ Placed'
    BY <1>1, <1>3 DEF ArraysInv, TablesInv, LookupOK, TagsOK, Unique, Placed
  <2> QED
    BY <1>2, <1>6, <2>1 DEF TablesInv
<1>8. PolicyInv'
  <2>1. pend' # NoInsertion
    <3>1. pend'.evicted = TRUE
      BY <1>1, <1>4 DEF Insertions
    <3>2. NoInsertion.evicted = FALSE
      BY DEF NoInsertion
    <3> QED
      BY <3>1, <3>2
  <2> QED
    BY <1>1, <1>3, <2>1 DEF ArraysInv, PolicyInv
<1>9. ListOK(lruList)'
  BY <1>1, <1>3 DEF ArraysInv, ListOK
<1> QED
  BY <1>7, <1>8, <1>9 DEF ArraysInv

\* postinsert(): the moves, the new tag and the insertion in the policy.
LEMMA PostinsertKeeps ==
    ASSUME ArraysInv, NEW k, Postinsert(k)
    PROVE  ArraysInv'
<1> DEFINE a == pend.addr
           id == pend.id
           p == pend.swaps
<1>1. /\ pend.evicted /\ pend' = NoInsertion /\ UNCHANGED config
      /\ lookupArray' = Swapped(lookupArray, p, id) /\ array' = [array EXCEPT ![id] = a]
      /\ rp' = Inserted(rp, id) /\ lruList' = MoveToFront(lruList, id)
      /\ misses' = IF config.repl = "CARE" THEN misses \cup {[addr |-> a, id |-> id, at |-> config.accesses]} ELSE misses
  BY DEF Postinsert, Missed
<1>2. SameGeometry /\ ConfigOK(config) /\ ConfigOK(config)' /\ LookupOK /\ TagsOK /\ Unique /\ Placed
  BY <1>1, GeometryOK DEF ArraysInv, TablesInv
<1>3. /\ pend \in Insertions /\ (\A i \in Lines : array[i] # a)
      /\ config.array = "SetAssoc" => id \in Probed(a)
      /\ IF config.array = "Z" THEN PathOK(a, id, p) ELSE p = <<>>
  <2>1. pend # NoInsertion
    BY <1>1 DEF NoInsertion
  <2> QED
    BY <2>1 DEF ArraysInv, TablesInv, PendOK
<1>4. a \in Addrs /\ id \in Lines /\ p \in Seq(Lines)
  BY <1>3 DEF Insertions
<1> HIDE DEF a, id, p
<1>5. Lines' = Lines /\ Addrs' = Addrs /\ Ways' = Ways
      /\ (\A w, b : Pos(w, b)' = Pos(w, b)) /\ (\A b : First(b)' = First(b))
  BY <1>2, PlacesKept
<1>6. Moved(lookupArray', p, id) /\ Distinct(p)
  <2>1. Distinct(p)
    <3>1. CASE config.array = "Z"
      BY <1>3, <3>1 DEF PathOK
    <3>2. CASE config.array # "Z"
      BY <1>3, <3>2 DEF Distinct
    <3> QED
      BY <3>1, <3>2
  <2> QED
    BY <2>1, <1>1, <1>2, <1>4, SwappedOK
<1>7. LookupOK'
  <2>1. CASE config.array = "Z"
    <3>1. Len(p) >= 1 /\ id = lookupArray[p[1]]
      BY <1>3, <2>1 DEF PathOK
    <3>2. Permutation(lookupArray')
      BY <1>2, <1>4, <1>6, <3>1, MovedPermutes
    <3> QED
      BY <3>2, <1>5 DEF Permutation, LookupOK
  <2>2. CASE config.array # "Z"
    <3>1. p = <<>>
      BY <1>3, <2>2
    <3>2. lookupArray' \in [Lines -> Lines] /\ \A x \in Lines : lookupArray'[x] = lookupArray[x]
      BY <1>6, <3>1 DEF Moved
    <3> QED
      BY <3>2, <1>2, <1>5 DEF LookupOK
  <2> QED
    BY <2>1, <2>2
<1>8. array' \in [Lines -> Addrs \cup {0}] /\ array'[id] = a /\ \A i \in Lines : i # id => array'[i] = array[i]
  BY <1>1, <1>2, <1>4 DEF TagsOK
<1>9. TagsOK'
  BY <1>5, <1>8 DEF TagsOK
<1>10. Unique'
  <2>1. \A i, j \in Lines : array'[i] # 0 /\ array'[i] = array'[j] => i = j
    BY <1>2, <1>3, <1>4, <1>8 DEF Unique
  <2> QED
    BY <2>1, <1>5 DEF Unique
<1>11. Placed'
  <2>1. CASE config.array = "Z"
    <3>1. ZState /\ PathOK(a, id, p)
      BY <1>2, <1>3, <2>1 DEF ZState
    <3>2. InPlace(lookupArray, array)
      <4> SUFFICES ASSUME NEW i \in Lines, array[i] # 0
                   PROVE  \E w \in Ways : lookupArray[Pos(w, array[i])] = i
        BY DEF InPlace
      <4>1. i \in Probed(array[i])
        BY <1>2 DEF Placed
      <4> QED
        BY <4>1, <2>1 DEF Probed
    <3>3. InPlace(lookupArray', array')
      BY <1>1, <1>4, <1>6, <3>1, <3>2, MovedInPlace
    <3> SUFFICES ASSUME NEW i \in Lines, array'[i] # 0 PROVE i \in Probed(array[i])'
      BY <1>5 DEF Placed
    <3>4. PICK w \in Ways : lookupArray'[Pos(w, array'[i])] = i
      BY <3>3 DEF InPlace
    <3>5. Probed(array[i])' = {lookupArray'[Pos(u, array'[i])] : u \in Ways}
      <4>1. Probed(array[i])' = {lookupArray'[Pos(u, array[i])'] : u \in Ways'}
        BY <1>1, <2>1 DEF Probed
      <4>2. \A u : Pos(u, array[i])' = Pos(u, array'[i])
        BY <1>1 DEF Pos, NumSets
      <4> QED
        BY <4>1, <4>2, <1>5
    <3> QED
      BY <3>4, <3>5
  <2>2. CASE config.array = "SetAssoc"
    <3> SUFFICES ASSUME NEW i \in Lines, array'[i] # 0 PROVE i \in Probed(array[i])'
      BY <1>5 DEF Placed
    <3>1. Probed(array[i])' = {First(array'[i]) + w : w \in Ways}
      BY <1>1, <2>2 DEF Probed, First, Ways, NumSets
    <3>2. i = id => i \in {First(a) + w : w \in Ways}
      BY <1>3, <2>2 DEF Probed
    <3>3. array[i] # 0 => i \in {First(array[i]) + w : w \in Ways}
      BY <1>2, <2>2 DEF Probed, Placed
    <3> QED
      BY <3>1, <3>2, <3>3, <1>8
  <2>3. CASE config.array # "Z" /\ config.array # "SetAssoc"
    BY <1>1, <1>5, <2>3 DEF Placed, Probed
  <2> QED
    BY <2>1, <2>2, <2>3
<1>12. TablesInv'
  <2>1. PendOK'
    BY <1>1 DEF PendOK, NoInsertion
  <2> QED
    BY <2>1, <1>2, <1>7, <1>9, <1>10, <1>11 DEF TablesInv
<1>13. PolicyInv'
  <2>1. config.array = "IdealLRU" => config.repl = "LRU"
    BY <1>2 DEF ConfigOK
  <2>2. /\ PolicyOK(rp', config.lines) /\ rp'.kind = rp.kind
        /\ rp.kind = "NRU" => rp'.candVal = NoCandVal
        /\ config.repl = "CARE" => rp' \in CarePolicies(config.lines) /\ Thresholds(rp')
    BY <1>1, <1>2, <1>4, <2>1, InsertedOK DEF ArraysInv
  <2>3. (\A m \in misses' : m.addr \in Addrs /\ m.id \in Lines) /\ (misses' # {} => config.repl = "CARE")
    BY <1>1, <1>4 DEF ArraysInv, PolicyInv
  <2> QED
    BY <1>1, <1>5, <2>2, <2>3 DEF ArraysInv, PolicyInv
<1>14. ListOK(lruList)'
  <2>1. ListOK(lruList')
    BY <1>1, <1>4, MoveToFrontOK DEF ArraysInv
  <2> QED
    BY <2>1, <1>5 DEF ListOK
<1> QED
  BY <1>12, <1>13, <1>14 DEF ArraysInv

\* The timing cache reports the cost of a miss to CARE.
LEMMA MissServedKeeps ==
    ASSUME ArraysInv, NEW m \in misses, NEW pmc \in config.costs, MissServed(m, pmc)
    PROVE  ArraysInv'
<1>1. /\ rp' = ShtPMCUpdate(QuantizePMC(DTRM(rp, pmc), pmc, m.id), m.addr, m.id)
      /\ misses' = misses \ {m} /\ UNCHANGED <<config, array, lookupArray, lruList, pend>>
  BY DEF MissServed
<1>2. ConfigOK(config) /\ PolicyInv
  BY DEF ArraysInv, TablesInv
<1>3. /\ config.repl = "CARE" /\ rp \in CarePolicies(config.lines) /\ Thresholds(rp)
      /\ pmc \in Nat /\ m.addr \in Nat /\ m.id \in Slots(config.lines) /\ config.lines \in Nat \ {0}
  <2>1. m.addr \in Addrs /\ m.id \in Lines /\ config.repl = "CARE"
    BY <1>2 DEF PolicyInv
  <2>2. pmc \in Nat
    BY <1>2 DEF ConfigOK
  <2> QED
    BY <1>2, <2>1, <2>2, AddrsNat, SlotsLines, SetsOK DEF PolicyInv
<1>4. rp' \in CarePolicies(config.lines) /\ Thresholds(rp')
  BY <1>1, <1>3, ServedOK
<1>5. TablesInv'
  BY <1>1, TablesKept DEF ArraysInv
<1>6. PolicyInv'
  <2>1. rp'.kind = "CARE"
    BY <1>4 DEF CarePolicies
  <2> QED
    BY <1>1, <1>2, <1>3, <1>4, <2>1 DEF PolicyInv, PolicyOK, KindOf, Addrs, Lines
<1>7. ListOK(lruList)'
  BY <1>1 DEF ArraysInv, ListOK, Lines
<1> QED
  BY <1>5, <1>6, <1>7 DEF ArraysInv

\* Every step keeps the invariant.
LEMMA NextInv == ArraysInv /\ [ArraysNext]_arrayVars => ArraysInv'
<1> SUFFICES ASSUME ArraysInv, [ArraysNext]_arrayVars PROVE ArraysInv'
  OBVIOUS
<1>1. CASE \E k \in config.children, a \in Addrs, excl \in BOOLEAN : Hit(k, a, excl)
  BY <1>1, HitKeeps
<1>2. CASE \E k \in config.children, a \in Addrs : Put(k, a)
  BY <1>2, QuietKeeps DEF Put
<1>3. CASE \E i \in Lines : Invalidate(i)
  BY <1>3, QuietKeeps DEF Invalidate
<1>4. CASE \E a \in Addrs : Preinsert(a)
  BY <1>4, PreinsertKeeps
<1>5. CASE Evict
  BY <1>5, EvictKeeps
<1>6. CASE \E k \in config.children : Postinsert(k)
  BY <1>6, PostinsertKeeps
<1>7. CASE \E m \in misses, pmc \in config.costs : MissServed(m, pmc)
  BY <1>7, MissServedKeeps
<1>8. CASE UNCHANGED arrayVars
  BY <1>8, QuietKeeps DEF arrayVars
<1> QED
  BY <1>1, <1>2, <1>3, <1>4, <1>5, <1>6, <1>7, <1>8 DEF ArraysNext

\* LinesFound follows from it.
LEMMA InvFound == ArraysInv => LinesFound
<1> SUFFICES ASSUME ArraysInv PROVE LinesFound
  OBVIOUS
<1>1. ConfigOK(config) /\ LookupOK /\ TagsOK /\ Unique /\ Placed /\ PendOK
  BY DEF ArraysInv, TablesInv
<1>2. ASSUME NEW i \in Lines, array[i] # 0 PROVE Found(array[i]) = {i}
  <2>1. array[i] \in Addrs
    BY <1>1, <1>2 DEF TagsOK
  <2>2. Probed(array[i]) \subseteq Lines /\ i \in Probed(array[i])
    BY <1>1, <1>2, <2>1, ProbedLines DEF Placed
  <2> QED
    BY <1>1, <1>2, <2>2 DEF Found, Unique
<1>3. Range(lookupArray) = Lines
  BY <1>1 DEF Range, LookupOK
<1>4. config.cands \div config.ways \in Nat
  BY <1>1, SetsOK, DivMod DEF ConfigOK
<1>5. /\ pend.swaps # <<>> => lookupArray[Head(pend.swaps)] = pend.id
      /\ Len(pend.swaps) <= (config.cands \div config.ways) + 2
  <2>1. CASE pend.swaps = <<>>
    BY <1>4, <2>1
  <2>2. CASE pend.swaps # <<>>
    <3>1. PathOK(pend.addr, pend.id, pend.swaps)
      BY <1>1, <2>2 DEF PendOK, NoInsertion
    <3> QED
      BY <3>1 DEF PathOK
  <2> QED
    BY <2>1, <2>2
<1> QED
  BY <1>2, <1>3, <1>5 DEF LinesFound

\* The arrays keep their invariant through any sequence of lookups, insertions
\* and invalidations: the table of a zcache stays a permutation of its lines, no
\* address has two lines, every line with a tag is where lookups look, and an
\* insertion under way has a victim and a path that lead there; the policy and
\* the list of an ideal array stay well-formed.
THEOREM ArraysInvariant == ArraysSpec => []ArraysInv
BY InitInv, NextInv, PTL DEF ArraysSpec

\* LinesFound: a tagged line is found by lookup(), and alone; the zcache's table
\* stays a permutation; and the path that preinsert() leaves for postinsert() in
\* swapArray starts at the victim and fits, whatever hash functions, policy,
\* invalidations and candidates.
THEOREM FoundSafety == ArraysSpec => []LinesFound
BY ArraysInvariant, InvFound, PTL

-----------------------------------------------------------------------------
(* CARE's counts of lines.                                                 *)

\* The confidence of entry h after one of the lines that share it may have gone
\* and another may have come.
Decayed(p, id, h) ==
    IF p.lineAddr[id] # 0 /\ h = HashAddr(p, p.lineAddr[id]) THEN Down(p.sht[h].rc) ELSE p.sht[h].rc
Confident(p, id, h) ==
    IF h = HashAddr(p, p.incomingAddr) THEN Up(Decayed(p, id, h)) ELSE Decayed(p, id, h)

EPVOK(p, n) == \A i \in Slots(n) : p.epv[i] = ComputeEPV(p.rc[i], p.pd[i])

\* What replaced() makes of p.
LEMMA CareGivenIs ==
    ASSUME NEW n \in Nat \ {0}, NEW p \in CarePolicies(n), NEW id \in Slots(n)
    PROVE  LET q == Replaced(p, id)
           IN /\ q \in CarePolicies(n)
              /\ q.lineAddr = [p.lineAddr EXCEPT ![id] = p.incomingAddr]
              /\ q.rBit = [p.rBit EXCEPT ![id] = FALSE]
              /\ \A i \in Slots(n) : i # id => q.rc[i] = p.rc[i]
              /\ EPVOK(p, n) => EPVOK(q, n)
              /\ \A h \in Slots(n) : q.sht[h].rc = Decayed(p, id, h)
<1> DEFINE q == Replaced(p, id)
<1>1. q \in CarePolicies(n) /\ q = CareReplaced(p, id)
  BY CareReplacedKeeps
<1>2. PICK sht \in [Slots(n) -> [rc : 0..CareMax, pd : 0..CareMax]], r \in 0..CareMax, d \in 0..CareMax :
         /\ q = CareGiven(p, id, sht, r, d)
         /\ \A h \in Slots(n) : sht[h].rc = Decayed(p, id, h)
  BY <1>1, CareReplacedIs DEF Decayed
<1> HIDE DEF q
<1>3. /\ q.sht = sht /\ q.lineAddr = [p.lineAddr EXCEPT ![id] = p.incomingAddr]
      /\ q.rBit = [p.rBit EXCEPT ![id] = FALSE]
      /\ q.rc = [p.rc EXCEPT ![id] = r] /\ q.pd = [p.pd EXCEPT ![id] = d]
      /\ q.epv = [p.epv EXCEPT ![id] = ComputeEPV(r, d)]
  BY <1>2 DEF CareGiven, CarePolicies
<1>4. ASSUME EPVOK(p, n), NEW i \in Slots(n) PROVE q.epv[i] = ComputeEPV(q.rc[i], q.pd[i])
  <2>1. DOMAIN p.rc = Slots(n) /\ DOMAIN p.pd = Slots(n) /\ DOMAIN p.epv = Slots(n)
    BY DEF CarePolicies
  <2>2. CASE i = id
    BY <2>1, <2>2, <1>3
  <2>3. CASE i # id
    <3>1. q.rc[i] = p.rc[i] /\ q.pd[i] = p.pd[i] /\ q.epv[i] = p.epv[i]
      BY <2>1, <2>3, <1>3
    <3> QED
      BY <3>1, <1>4 DEF EPVOK
  <2> QED
    BY <2>2, <2>3
<1>5. EPVOK(p, n) => EPVOK(q, n)
  BY <1>4 DEF EPVOK
<1>6. \A i \in Slots(n) : i # id => q.rc[i] = p.rc[i]
  BY <1>3 DEF CarePolicies
<1> QED
  BY <1>1, <1>2, <1>3, <1>5, <1>6 DEF q

\* What a use of line id, which was just inserted, makes of p.
FirstUse(p, q, id, n) ==
    /\ q.lineAddr = p.lineAddr /\ q.rBit = [p.rBit EXCEPT ![id] = TRUE]
    /\ \A i \in Slots(n) : q.rc[i] = IF i = id THEN Up(p.rc[i]) ELSE p.rc[i]
    /\ EPVOK(p, n) => EPVOK(q, n)
    /\ \A h \in Slots(n) :
          q.sht[h].rc = IF h = HashAddr(p, p.lineAddr[id]) THEN Up(p.sht[h].rc) ELSE p.sht[h].rc

\* update() makes that of p.
LEMMA CareUsedIs ==
    ASSUME NEW n \in Nat \ {0}, NEW p \in CarePolicies(n), NEW id \in Slots(n), ~p.rBit[id]
    PROVE  FirstUse(p, Update(p, id), id, n)
<1> DEFINE q == Update(p, id)
           g == HashAddr(p, p.lineAddr[id])
<1>1. q \in CarePolicies(n) /\ q = CareUsed(p, id, g) /\ q.lineAddr = p.lineAddr
  BY CareTouched, CareUpdateIs
<1>2. p.lineAddr[id] \in Nat
  BY DEF CarePolicies
<1>3. g \in Slots(n)
  BY <1>2, HashOK
<1> HIDE DEF q, g
<1> DEFINE e == [p.sht[g] EXCEPT !.rc = Up(p.sht[g].rc)]
<1>4. /\ q.sht = [p.sht EXCEPT ![g] = e]
      /\ q.rBit = [p.rBit EXCEPT ![id] = TRUE]
      /\ q.rc = [p.rc EXCEPT ![id] = Up(p.rc[id])] /\ q.pd = p.pd
      /\ q.epv = [p.epv EXCEPT ![id] = ComputeEPV(Up(p.rc[id]), p.pd[id])]
  BY <1>1 DEF CareUsed, CarePolicies
<1>5. p.sht \in [Slots(n) -> [rc : 0..CareMax, pd : 0..CareMax]]
  BY DEF CarePolicies
<1>6. e.rc = Up(p.sht[g].rc)
  BY <1>3, <1>5
<1> HIDE DEF e
<1>7. \A h \in Slots(n) : q.sht[h].rc = IF h = g THEN Up(p.sht[h].rc) ELSE p.sht[h].rc
  BY <1>3, <1>4, <1>5, <1>6
<1>8. ASSUME EPVOK(p, n), NEW i \in Slots(n) PROVE q.epv[i] = ComputeEPV(q.rc[i], q.pd[i])
  <2>1. DOMAIN p.rc = Slots(n) /\ DOMAIN p.epv = Slots(n)
    BY DEF CarePolicies
  <2>2. CASE i = id
    BY <2>1, <2>2, <1>4
  <2>3. CASE i # id
    <3>1. q.rc[i] = p.rc[i] /\ q.pd[i] = p.pd[i] /\ q.epv[i] = p.epv[i]
      BY <2>1, <2>3, <1>4
    <3> QED
      BY <3>1, <1>8 DEF EPVOK
  <2> QED
    BY <2>2, <2>3
<1>9. EPVOK(p, n) => EPVOK(q, n)
  BY <1>8 DEF EPVOK
<1>10. \A i \in Slots(n) : q.rc[i] = IF i = id THEN Up(p.rc[i]) ELSE p.rc[i]
  BY <1>4 DEF CarePolicies
<1> QED
  BY <1>1, <1>4, <1>7, <1>9, <1>10 DEF q, g, FirstUse

\* What giving line id to the incoming address makes of p.
Given(p, q, id, n) ==
    /\ q.lineAddr = [p.lineAddr EXCEPT ![id] = p.incomingAddr]
    /\ \A i \in Slots(n) : q.rBit[i] = (i = id \/ p.rBit[i])
    /\ q.rc[id] # 0 /\ \A i \in Slots(n) : i # id => q.rc[i] = p.rc[i]
    /\ EPVOK(p, n) => EPVOK(q, n)
    /\ \A h \in Slots(n) : q.sht[h].rc = Confident(p, id, h)

\* replaced() and then update(), which is how a line comes in, make that of p.
LEMMA CareInsertedIs ==
    ASSUME NEW n \in Nat \ {0}, NEW p \in CarePolicies(n), NEW id \in Slots(n)
    PROVE  Given(p, Update(Replaced(p, id), id), id, n)
<1> DEFINE r == Replaced(p, id)
           q == Update(r, id)
<1>1. p.rBit \in [Slots(n) -> BOOLEAN] /\ p.lineAddr \in [Slots(n) -> Nat] /\ p.incomingAddr \in Nat
  BY DEF CarePolicies
<1>2. /\ r \in CarePolicies(n)
      /\ r.lineAddr = [p.lineAddr EXCEPT ![id] = p.incomingAddr]
      /\ r.rBit = [p.rBit EXCEPT ![id] = FALSE]
      /\ \A i \in Slots(n) : i # id => r.rc[i] = p.rc[i]
      /\ EPVOK(p, n) => EPVOK(r, n)
      /\ \A h \in Slots(n) : r.sht[h].rc = Decayed(p, id, h)
  BY CareGivenIs
<1> HIDE DEF r
<1>3. ~r.rBit[id] /\ r.lineAddr[id] = p.incomingAddr
  BY <1>1, <1>2
<1>4. /\ q.lineAddr = r.lineAddr /\ q.rBit = [r.rBit EXCEPT ![id] = TRUE]
      /\ \A i \in Slots(n) : q.rc[i] = IF i = id THEN Up(r.rc[i]) ELSE r.rc[i]
      /\ EPVOK(r, n) => EPVOK(q, n)
      /\ \A h \in Slots(n) :
            q.sht[h].rc = IF h = HashAddr(r, r.lineAddr[id]) THEN Up(r.sht[h].rc) ELSE r.sht[h].rc
  <2>1. FirstUse(r, q, id, n)
    BY <1>2, <1>3, CareUsedIs
  <2> HIDE DEF q
  <2> QED
    BY <2>1 DEF FirstUse
<1> HIDE DEF q
<1>5. HashAddr(r, p.incomingAddr) = HashAddr(p, p.incomingAddr)
  BY <1>1, <1>2, HashOK
<1>6. \A h \in Slots(n) : q.sht[h].rc = Confident(p, id, h)
  BY <1>2, <1>3, <1>4, <1>5 DEF Confident
<1>7. \A i \in Slots(n) : q.rBit[i] = (i = id \/ p.rBit[i])
  BY <1>1, <1>2, <1>4
<1>8. q.rc[id] # 0 /\ \A i \in Slots(n) : i # id => q.rc[i] = p.rc[i]
  <2>1. r.rc[id] \in 0..CareMax
    BY <1>2 DEF CarePolicies
  <2>2. Up(r.rc[id]) # 0
    BY <2>1 DEF Up, CareMax
  <2> QED
    BY <1>2, <1>4, <2>2
<1> QED
  BY <1>2, <1>4, <1>6, <1>7, <1>8 DEF q, r, Given

\* Sets of lines that differ in one line.
LEMMA Recount ==
    ASSUME NEW n \in Nat \ {0}, NEW S \in SUBSET Slots(n), NEW T \in SUBSET Slots(n), NEW x,
           S \ {x} = T \ {x}
    PROVE  /\ Cardinality(S) \in 0..n /\ Cardinality(T) \in 0..n /\ (x \in S => Cardinality(S) > 0)
           /\ Cardinality(S) + (IF x \in T THEN 1 ELSE 0) = Cardinality(T) + (IF x \in S THEN 1 ELSE 0)
<1>1. IsFiniteSet(Slots(n)) /\ Cardinality(Slots(n)) = n
  BY FS_Interval DEF Slots
<1>2. IsFiniteSet(S) /\ IsFiniteSet(T) /\ Cardinality(S) <= n /\ Cardinality(T) <= n
  BY <1>1, FS_Subset
<1>3. Cardinality(S) \in Nat /\ Cardinality(T) \in Nat
  BY <1>2, FS_CardinalityType
<1>4. Cardinality(S) = Cardinality(S \ {x}) + (IF x \in S THEN 1 ELSE 0)
  <2>1. CASE x \in S
    <3>1. Cardinality(S \ {x}) = Cardinality(S) - 1
      BY <1>2, <2>1, FS_RemoveElement
    <3> QED
      BY <1>3, <2>1, <3>1
  <2>2. CASE x \notin S
    <3>1. S \ {x} = S
      BY <2>2
    <3>2. Cardinality(S \ {x}) = Cardinality(S)
      BY <3>1
    <3> QED
      BY <1>3, <2>2, <3>2
  <2> QED
    BY <2>1, <2>2
<1>5. Cardinality(T) = Cardinality(T \ {x}) + (IF x \in T THEN 1 ELSE 0)
  <2>1. CASE x \in T
    <3>1. Cardinality(T \ {x}) = Cardinality(T) - 1
      BY <1>2, <2>1, FS_RemoveElement
    <3> QED
      BY <1>3, <2>1, <3>1
  <2>2. CASE x \notin T
    <3>1. T \ {x} = T
      BY <2>2
    <3>2. Cardinality(T \ {x}) = Cardinality(T)
      BY <3>1
    <3> QED
      BY <1>3, <2>2, <3>2
  <2> QED
    BY <2>1, <2>2
<1>6. Cardinality(S \ {x}) \in Nat /\ Cardinality(S \ {x}) = Cardinality(T \ {x})
  <2>1. IsFiniteSet(S \ {x})
    BY <1>2, FS_Subset
  <2> QED
    BY <2>1, FS_CardinalityType
<1> QED
  BY <1>2, <1>3, <1>4, <1>5, <1>6

\* The lines whose address shares entry h.
Sharing(tags, n, h) == {i \in Slots(n) : tags[i] # 0 /\ tags[i] % n = h}

\* rc counts the lines of S, as far as it can.
Counts(rc, S, n) == rc \in 0..CareMax /\ rc <= Cardinality(S) /\ (n <= CareMax => rc = Cardinality(S))

\* CARE has the tags of the array; a resident line has been used once, when it
\* came in, and only such a line has any confidence; each entry counts the lines
\* that share it.
CareInv ==
    config.repl = "CARE" =>
        /\ rp.lineAddr = array
        /\ \A i \in Lines : array[i] # 0 => rp.rBit[i]
        /\ \A i \in Lines : array[i] = 0 <=> rp.rc[i] = 0
        /\ EPVOK(rp, config.lines)
        /\ \A h \in Lines : Counts(rp.sht[h].rc, Sharing(array, config.lines, h), config.lines)
        /\ pend # NoInsertion => rp.incomingAddr = pend.addr

\* An insertion keeps the count of every entry: the line that goes leaves one
\* entry, the line that comes joins one, perhaps the same.
LEMMA CountsKept ==
    ASSUME NEW n \in Nat \ {0}, NEW p \in CarePolicies(n), NEW id \in Slots(n), p.incomingAddr # 0,
           NEW h \in Slots(n), Counts(p.sht[h].rc, Sharing(p.lineAddr, n, h), n)
    PROVE  Counts(Confident(p, id, h), Sharing([p.lineAddr EXCEPT ![id] = p.incomingAddr], n, h), n)
<1> DEFINE tags == p.lineAddr
           new == [tags EXCEPT ![id] = p.incomingAddr]
           S == Sharing(tags, n, h)
           T == Sharing(new, n, h)
           r == p.sht[h].rc
           d == Decayed(p, id, h)
           c == Confident(p, id, h)
<1>1. tags \in [Slots(n) -> Nat] /\ p.incomingAddr \in Nat
  BY DEF CarePolicies
<1>2. new[id] = p.incomingAddr /\ \A i \in Slots(n) : i # id => new[i] = tags[i]
  BY <1>1
<1> HIDE DEF new, tags
<1>3. S \in SUBSET Slots(n) /\ T \in SUBSET Slots(n) /\ S \ {id} = T \ {id}
  BY <1>2 DEF Sharing
<1>4. /\ id \in S <=> tags[id] # 0 /\ HashAddr(p, tags[id]) = h
      /\ id \in T <=> HashAddr(p, p.incomingAddr) = h
  <2>1. HashAddr(p, tags[id]) = tags[id] % n /\ HashAddr(p, p.incomingAddr) = p.incomingAddr % n
    BY <1>1, HashOK
  <2> QED
    BY <1>2, <2>1 DEF Sharing
<1> HIDE DEF S, T
<1>5. /\ Cardinality(S) \in 0..n /\ Cardinality(T) \in 0..n /\ (id \in S => Cardinality(S) > 0)
      /\ Cardinality(S) + (IF id \in T THEN 1 ELSE 0) = Cardinality(T) + (IF id \in S THEN 1 ELSE 0)
  BY <1>3, Recount
<1>6. r \in 0..CareMax /\ r <= Cardinality(S) /\ (n <= CareMax => r = Cardinality(S))
  BY DEF Counts, S, tags
<1>7. d = (IF id \in S THEN Down(r) ELSE r) /\ c = (IF id \in T THEN Up(d) ELSE d)
  BY <1>4 DEF Decayed, Confident, tags
<1> HIDE DEF r, d, c
<1>8. d \in 0..CareMax /\ d = (IF id \in S /\ r > 0 THEN r - 1 ELSE r)
  <2>1. Down(r) \in 0..CareMax /\ (r > 0 => Down(r) = r - 1) /\ (r = 0 => Down(r) = 0)
    BY <1>6, UpDown
  <2>2. r \in Nat
    BY <1>6 DEF CareMax
  <2> QED
    BY <1>6, <1>7, <2>1, <2>2
<1>9. c \in 0..CareMax /\ c = (IF id \in T /\ d < CareMax THEN d + 1 ELSE d)
  <2>1. Up(d) \in 0..CareMax /\ (d < CareMax => Up(d) = d + 1) /\ (d = CareMax => Up(d) = d)
    BY <1>8, UpDown
  <2>2. d < CareMax \/ d = CareMax
    BY <1>8 DEF CareMax
  <2> QED
    BY <1>7, <1>8, <2>1, <2>2
<1>10. c <= Cardinality(T) /\ (n <= CareMax => c = Cardinality(T))
  <2> DEFINE s == Cardinality(S)
             t == Cardinality(T)
             g == IF id \in S THEN 1 ELSE 0
             l == IF id \in T THEN 1 ELSE 0
  <2>1. s \in 0..n /\ t \in 0..n /\ s + l = t + g /\ (g = 1 => s > 0) /\ r \in 0..7 /\ r <= s /\ (n <= 7 => r = s)
    BY <1>5, <1>6 DEF CareMax
  <2>2. /\ g \in {0, 1} /\ d = (IF g = 1 /\ r > 0 THEN r - 1 ELSE r)
        /\ l \in {0, 1} /\ c = (IF l = 1 /\ d < 7 THEN d + 1 ELSE d)
    BY <1>8, <1>9 DEF CareMax
  <2> HIDE DEF s, t, g, l
  <2>3. c <= t /\ (n <= 7 => c = t)
    BY <2>1, <2>2
  <2> QED
    BY <2>3 DEF CareMax, t
<1> QED
  BY <1>9, <1>10 DEF Counts, T, c, new, tags

\* What leaves the tags and the policy alone.
LEMMA CareQuiet ==
    ASSUME CareInv, SameGeometry, UNCHANGED <<array, rp>>, pend' = NoInsertion \/ UNCHANGED pend
    PROVE  CareInv'
<1>1. Lines' = Lines
  BY PlacesKept
<1> SUFFICES ASSUME config.repl = "CARE"
             PROVE  /\ rp' = rp /\ array' = array
                    /\ pend' # NoInsertion => rp.incomingAddr = pend'.addr
  BY <1>1 DEF CareInv, SameGeometry
<1> QED
  BY DEF CareInv

\* The state of CARE, where it is used.
LEMMA CareState ==
    ASSUME ArraysInv, config.repl = "CARE"
    PROVE  /\ config.lines \in Nat \ {0} /\ Slots(config.lines) = Lines /\ config.array # "IdealLRU"
           /\ rp \in CarePolicies(config.lines) /\ rp.kind = "CARE" /\ Thresholds(rp)
<1>1. ConfigOK(config) /\ PolicyInv
  BY DEF ArraysInv, TablesInv
<1>2. config.array # "IdealLRU"
  BY <1>1 DEF ConfigOK
<1> QED
  BY <1>1, <1>2, SetsOK, SlotsLines DEF PolicyInv, KindOf

\* A hit finds the used bit set, and changes nothing.
LEMMA CareHit ==
    ASSUME ArraysInv, CareInv, NEW k, NEW a \in Addrs, NEW excl, Hit(k, a, excl)
    PROVE  CareInv'
<1>1. Counted /\ UNCHANGED <<array, lookupArray, pend>>
  BY DEF Hit
<1>2. SameGeometry
  BY <1>1, GeometryOK DEF ArraysInv, TablesInv
<1>3. PICK i \in Found(a) : rp' = Touch(rp, i)
  BY DEF Hit
<1>4. i \in Lines /\ array[i] # 0
  BY FoundLine
<1>5. CASE config.repl = "CARE"
  <2>1. rp.rBit[i] /\ rp.kind = "CARE" /\ config.array # "IdealLRU"
    BY <1>4, <1>5, CareState DEF CareInv
  <2>2. rp' = rp
    BY <1>3, <2>1 DEF Touch, Update, CareUpdate
  <2> QED
    BY <1>1, <1>2, <2>2, CareQuiet
<1>6. CASE config.repl # "CARE"
  BY <1>2, <1>6 DEF CareInv, SameGeometry
<1> QED
  BY <1>5, <1>6

\* rank() notes the address that comes in.
LEMMA CarePreinsert ==
    ASSUME ArraysInv, CareInv, NEW a \in Addrs, Preinsert(a)
    PROVE  CareInv'
<1>1. pend = NoInsertion /\ Counted /\ UNCHANGED <<array, lookupArray, lruList, line, misses>>
  BY DEF Preinsert
<1>2. SameGeometry /\ ConfigOK(config) /\ Lines' = Lines
  BY <1>1, GeometryOK, PlacesKept DEF ArraysInv, TablesInv
<1>3. PICK r \in Rank(rp, a, Cands(a), line) :
         /\ pend' = [addr |-> a, id |-> r.id, swaps |-> Swaps(a, r.id), evicted |-> FALSE]
         /\ rp' = r.p
  BY DEF Preinsert
<1>4. CASE config.repl = "CARE"
  <2>1. /\ config.lines \in Nat \ {0} /\ Slots(config.lines) = Lines
        /\ rp \in CarePolicies(config.lines) /\ rp.kind = "CARE"
    BY <1>4, CareState
  <2>2. Cands(a) \in Seq(Slots(config.lines)) /\ Len(Cands(a)) >= 1 /\ a \in Nat
    BY <1>2, <2>1, CandsOK, AddrsNat DEF ArraysInv, TablesInv
  <2>3. r.p = [rp EXCEPT !.incomingAddr = a]
    BY <2>1, <2>2, RankOK DEF PolicyOK
  <2>4. /\ rp'.incomingAddr = a /\ rp'.lineAddr = rp.lineAddr /\ rp'.rBit = rp.rBit /\ rp'.sht = rp.sht
        /\ rp'.epv = rp.epv /\ rp'.rc = rp.rc /\ rp'.pd = rp.pd
    BY <1>3, <2>1, <2>3 DEF CarePolicies
  <2>5. pend'.addr = a
    BY <1>3
  <2>6. config'.lines = config.lines /\ array' = array
    BY <1>1, <1>2 DEF SameGeometry
  <2>7. EPVOK(rp', config.lines)
    BY <1>4, <2>4 DEF CareInv, EPVOK
  <2> QED
    BY <1>2, <1>4, <2>4, <2>5, <2>6, <2>7 DEF CareInv
<1>5. CASE config.repl # "CARE"
  BY <1>2, <1>5 DEF CareInv, SameGeometry
<1> QED
  BY <1>4, <1>5

\* The eviction changes neither tags nor policy.
LEMMA CareEvict ==
    ASSUME ArraysInv, CareInv, Evict
    PROVE  CareInv'
<1>1. /\ pend # NoInsertion /\ pend' = [pend EXCEPT !.evicted = TRUE]
      /\ UNCHANGED <<config, array, lookupArray, lruList, rp, misses>>
  BY DEF Evict
<1>2. pend \in Insertions
  BY <1>1 DEF ArraysInv, TablesInv, PendOK
<1>3. pend'.addr = pend.addr
  BY <1>1, <1>2 DEF Insertions
<1> QED
  BY <1>1, <1>3 DEF CareInv, Lines

\* The line goes, the new one comes.
LEMMA CarePostinsert ==
    ASSUME ArraysInv, CareInv, NEW k, Postinsert(k)
    PROVE  CareInv'
<1> DEFINE n == config.lines
           id == pend.id
<1>1. /\ pend.evicted /\ pend' = NoInsertion /\ UNCHANGED config
      /\ array' = [array EXCEPT ![id] = pend.addr] /\ rp' = Inserted(rp, id)
  BY DEF Postinsert
<1>2. pend # NoInsertion
  BY <1>1 DEF NoInsertion
<1>3. pend.addr \in Addrs /\ id \in Lines
  BY <1>2 DEF ArraysInv, TablesInv, PendOK, Insertions
<1>4. pend.addr # 0
  BY <1>3, AddrsNat DEF ArraysInv, TablesInv
<1> SUFFICES ASSUME config.repl = "CARE" PROVE CareInv'
  BY <1>1 DEF CareInv
<1>5. n \in Nat \ {0} /\ Slots(n) = Lines /\ rp \in CarePolicies(n) /\ config.array # "IdealLRU"
  BY CareState
<1>6. rp' = Update(Replaced(rp, id), id)
  BY <1>1, <1>5 DEF Inserted
<1>7. /\ rp.lineAddr = array /\ rp.incomingAddr = pend.addr /\ EPVOK(rp, n)
      /\ \A i \in Lines : array[i] # 0 => rp.rBit[i]
      /\ \A i \in Lines : array[i] = 0 <=> rp.rc[i] = 0
      /\ \A h \in Lines : Counts(rp.sht[h].rc, Sharing(array, n, h), n)
  BY <1>2 DEF CareInv
<1>8. /\ rp'.lineAddr = [rp.lineAddr EXCEPT ![id] = rp.incomingAddr]
      /\ \A i \in Lines : rp'.rBit[i] = (i = id \/ rp.rBit[i])
      /\ rp'.rc[id] # 0 /\ \A i \in Lines : i # id => rp'.rc[i] = rp.rc[i]
      /\ EPVOK(rp', n)
      /\ \A h \in Lines : rp'.sht[h].rc = Confident(rp, id, h)
  <2>1. Given(rp, rp', id, n)
    BY <1>3, <1>5, <1>6, CareInsertedIs
  <2> QED
    BY <2>1, <1>5, <1>7 DEF Given
<1>9. rp'.lineAddr = array'
  BY <1>1, <1>7, <1>8
<1>10. \A i \in Lines : (array'[i] # 0 => rp'.rBit[i]) /\ (array'[i] = 0 <=> rp'.rc[i] = 0)
  <2> SUFFICES ASSUME NEW i \in Lines
               PROVE  (array'[i] # 0 => rp'.rBit[i]) /\ (array'[i] = 0 <=> rp'.rc[i] = 0)
    OBVIOUS
  <2>1. array'[i] = IF i = id THEN pend.addr ELSE array[i]
    BY <1>1 DEF ArraysInv, TablesInv, TagsOK
  <2> QED
    BY <2>1, <1>4, <1>7, <1>8
<1>11. \A h \in Lines : Counts(rp'.sht[h].rc, Sharing(array', n, h), n)
  <2> SUFFICES ASSUME NEW h \in Lines PROVE Counts(rp'.sht[h].rc, Sharing(array', n, h), n)
    OBVIOUS
  <2>1. Counts(rp.sht[h].rc, Sharing(rp.lineAddr, n, h), n)
    BY <1>7
  <2>2. Counts(Confident(rp, id, h), Sharing([rp.lineAddr EXCEPT ![id] = rp.incomingAddr], n, h), n)
    BY <1>3, <1>4, <1>5, <1>7, <2>1, CountsKept
  <2> QED
    BY <2>2, <1>8, <1>9
<1> QED
  BY <1>1, <1>8, <1>9, <1>10, <1>11 DEF CareInv, Lines

\* A report of the cost of a miss changes no count.
LEMMA CareServed ==
    ASSUME ArraysInv, CareInv, NEW m \in misses, NEW pmc \in config.costs, MissServed(m, pmc)
    PROVE  CareInv'
<1>1. /\ rp' = ShtPMCUpdate(QuantizePMC(DTRM(rp, pmc), pmc, m.id), m.addr, m.id)
      /\ UNCHANGED <<config, array, lookupArray, lruList, pend>>
  BY DEF MissServed
<1>2. m.addr \in Addrs /\ m.id \in Lines /\ config.repl = "CARE" /\ pmc \in Nat /\ Addrs \subseteq Nat
  BY AddrsNat DEF ArraysInv, PolicyInv, TablesInv, ConfigOK
<1>3. /\ config.lines \in Nat \ {0} /\ Slots(config.lines) = Lines
      /\ rp \in CarePolicies(config.lines) /\ Thresholds(rp)
  BY <1>2, CareState
<1>4. SameCounts(rp, rp', config.lines)
  BY <1>1, <1>2, <1>3, ServedOK
<1>5. EPVOK(rp', config.lines)
  BY <1>2, <1>4 DEF SameCounts, EPVOK, CareInv
<1> QED
  BY <1>1, <1>3, <1>4, <1>5 DEF SameCounts, CareInv, Lines

\* Nothing is counted at the start.
LEMMA CareInit == ArraysInit => CareInv
<1> SUFFICES ASSUME ArraysInit, config.repl = "CARE" PROVE CareInv
  BY DEF CareInv
<1> DEFINE n == config.lines
<1>1. n \in Nat \ {0} /\ Slots(n) = Lines
  <2>1. ArraysInv
    BY InitInv
  <2> QED
    BY <2>1, CareState
<1>2. rp = CareNew(n) /\ array = [i \in Lines |-> 0] /\ pend = NoInsertion
  BY DEF ArraysInit, NewPolicy
<1>3. /\ rp.lineAddr = [i \in Slots(n) |-> 0] /\ rp.sht = [i \in Slots(n) |-> [rc |-> 0, pd |-> 0]]
      /\ rp.epv = [i \in Slots(n) |-> 3] /\ rp.rc = [i \in Slots(n) |-> 0] /\ rp.pd = [i \in Slots(n) |-> 0]
  BY <1>2 DEF CareNew, Slots
<1>4. EPVOK(rp, n)
  <2>1. ComputeEPV(0, 0) = 3
    BY DEF ComputeEPV, CareMax
  <2> HIDE DEF n
  <2>2. ASSUME NEW i \in Slots(n) PROVE rp.epv[i] = ComputeEPV(rp.rc[i], rp.pd[i])
    <3>1. rp.epv[i] = 3 /\ rp.rc[i] = 0 /\ rp.pd[i] = 0
      BY <1>3
    <3> QED
      BY <2>1, <3>1
  <2> QED
    BY <2>2 DEF EPVOK
<1>5. ASSUME NEW h \in Lines PROVE Counts(rp.sht[h].rc, Sharing(array, n, h), n)
  <2>1. rp.sht[h].rc = 0
    BY <1>1, <1>3
  <2>2. Sharing(array, n, h) = {}
    BY <1>1, <1>2 DEF Sharing
  <2>3. Cardinality({}) = 0
    BY FS_EmptySet
  <2> QED
    BY <2>1, <2>2, <2>3 DEF Counts, CareMax
<1>6. \A i \in Lines : array[i] = 0 /\ rp.rc[i] = 0
  BY <1>1, <1>2, <1>3
<1> QED
  BY <1>1, <1>2, <1>3, <1>4, <1>5, <1>6 DEF CareInv

\* Every step keeps CARE's invariant.
LEMMA CareNext == ArraysInv /\ CareInv /\ [ArraysNext]_arrayVars => CareInv'
<1> SUFFICES ASSUME ArraysInv, CareInv, [ArraysNext]_arrayVars PROVE CareInv'
  OBVIOUS
<1>1. CASE \E k \in config.children, a \in Addrs, excl \in BOOLEAN : Hit(k, a, excl)
  BY <1>1, CareHit
<1>2. ASSUME Counted \/ UNCHANGED config, UNCHANGED <<array, rp, pend>> PROVE CareInv'
  <2>1. SameGeometry
    BY <1>2, GeometryOK DEF ArraysInv, TablesInv
  <2> QED
    BY <1>2, <2>1, CareQuiet
<1>3. CASE \E k \in config.children, a \in Addrs : Put(k, a)
  BY <1>2, <1>3 DEF Put
<1>4. CASE \E i \in Lines : Invalidate(i)
  BY <1>2, <1>4 DEF Invalidate
<1>5. CASE \E a \in Addrs : Preinsert(a)
  BY <1>5, CarePreinsert
<1>6. CASE Evict
  BY <1>6, CareEvict
<1>7. CASE \E k \in config.children : Postinsert(k)
  BY <1>7, CarePostinsert
<1>8. CASE \E m \in misses, pmc \in config.costs : MissServed(m, pmc)
  BY <1>8, CareServed
<1>9. CASE UNCHANGED arrayVars
  BY <1>2, <1>9 DEF arrayVars
<1> QED
  BY <1>1, <1>3, <1>4, <1>5, <1>6, <1>7, <1>8, <1>9 DEF ArraysNext

\* CareCountsLines follows from the two invariants.
LEMMA InvCounts == ArraysInv /\ CareInv => CareCountsLines
<1> SUFFICES ASSUME ArraysInv, CareInv, config.repl = "CARE" PROVE CareCountsLines
  BY DEF CareCountsLines
<1> DEFINE n == config.lines
<1>1. n \in Nat \ {0} /\ Slots(n) = Lines /\ rp \in CarePolicies(n) /\ Thresholds(rp)
  BY CareState
<1>2. /\ rp.lineAddr = array /\ EPVOK(rp, n)
      /\ \A h \in Lines : Counts(rp.sht[h].rc, Sharing(array, n, h), n)
  BY DEF CareInv
<1>3. DOMAIN rp.sht = Lines /\ array \in [Lines -> Nat]
  BY <1>1, <1>2 DEF CarePolicies
<1>4. ASSUME NEW h \in Lines
      PROVE  LET count == Cardinality({i \in Lines : array[i] # 0 /\ HashAddr(rp, array[i]) = h})
             IN rp.sht[h].rc <= count /\ (n <= CareMax => rp.sht[h].rc = count)
  <2>1. \A i \in Lines : HashAddr(rp, array[i]) = array[i] % n
    BY <1>1, <1>3, HashOK
  <2>2. {i \in Lines : array[i] # 0 /\ HashAddr(rp, array[i]) = h} = Sharing(array, n, h)
    BY <1>1, <2>1 DEF Sharing
  <2>3. Counts(rp.sht[h].rc, Sharing(array, n, h), n)
    BY <1>2
  <2> QED
    BY <2>2, <2>3 DEF Counts
<1> QED
  BY <1>1, <1>2, <1>3, <1>4 DEF CareCountsLines, EPVOK, Thresholds

\* CareCountsLines: the confidence of an entry of CARE's table is the number of
\* lines that share it, or less where more than CareMax may, after any sequence
\* of insertions, hits, evictions and reports of miss costs; priorities are those
\* of the lines' counters, and DTRM() keeps the thresholds in ratio.
THEOREM CareSafety == ArraysSpec => []CareCountsLines
<1>1. ArraysInit => CareInv
  BY CareInit
<1>2. ArraysInv /\ CareInv /\ [ArraysNext]_arrayVars => CareInv'
  BY CareNext
<1> QED
  BY <1>1, <1>2, ArraysInvariant, InvCounts, PTL DEF ArraysSpec

-----------------------------------------------------------------------------
(* The victims.                                                            *)

\* A line that has no address or is not valid has no sharers.
LinesOK ==
    /\ line \in [Lines -> [valid : BOOLEAN, sharers : SUBSET config.children]]
    /\ \A i \in Lines : array[i] = 0 \/ ~line[i].valid => line[i] = Empty

\* The accesses that were left when the last one started that may be a use.
Now == config.accesses + (IF pend = NoInsertion THEN 0 ELSE 1)

\* Uses are in the past.
UsesOK == recent \in [Addrs -> Nat] /\ \A a \in Addrs : recent[a] >= Now

\* Time goes by, and the uses of line i for address a come after all others.
Passes == config'.accesses \in Nat /\ Now' \in Nat /\ Now' <= Now
Used(i, a) ==
    /\ i \in Lines /\ a \in Addrs /\ Now' + 1 <= Now
    /\ array' = [array EXCEPT ![i] = a] /\ \A j \in Lines : array[j] = a => j = i
    /\ recent' = IF config.repl \in {"LRU", "LRUNoSh"} THEN [recent EXCEPT ![a] = Now'] ELSE recent

\* The state of a line that child k gets.
Shared(e, k, excl) == [valid |-> TRUE, sharers |-> IF excl THEN {k} ELSE e.sharers \cup {k}]

\* A lookup finds a line and uses it.
LEMMA HitUses ==
    ASSUME ArraysInv, NEW k, NEW a \in Addrs, NEW excl, Hit(k, a, excl)
    PROVE  /\ SameGeometry /\ Passes
           /\ \E i \in Lines : /\ Used(i, a) /\ array[i] = a /\ rp' = Touch(rp, i)
                               /\ lruList' = MoveToFront(lruList, i)
                               /\ line' = [line EXCEPT ![i] = Shared(line[i], k, excl)]
<1>1. /\ pend = NoInsertion /\ Counted /\ Uses(a) /\ UNCHANGED <<array, lookupArray, pend>>
  BY DEF Hit
<1>2. SameGeometry /\ config.accesses \in Nat
  BY <1>1, GeometryOK DEF ArraysInv, TablesInv, ConfigOK
<1>3. config'.accesses = config.accesses - 1 /\ config.accesses > 0
  <2>1. config' = [config EXCEPT !.accesses = config.accesses - 1] /\ config.accesses > 0
    BY <1>1 DEF Counted
  <2>2. "accesses" \in DOMAIN config
    BY DEF ArraysInv, TablesInv, ConfigOK
  <2> QED
    BY <2>1, <2>2
<1>4. Now = config.accesses /\ Now' = config'.accesses
  BY <1>1, <1>2, <1>3 DEF Now
<1>5. PICK i \in Found(a) :
         /\ rp' = Touch(rp, i) /\ lruList' = MoveToFront(lruList, i)
         /\ line' = [line EXCEPT ![i] = [valid |-> TRUE, sharers |-> IF excl THEN {k} ELSE @.sharers \cup {k}]]
  BY DEF Hit
<1>6. i \in Lines /\ array[i] = a /\ a # 0
  BY FoundLine
<1>7. Used(i, a)
  <2>1. array' = [array EXCEPT ![i] = a]
    BY <1>1, <1>6 DEF ArraysInv, TablesInv, TagsOK
  <2>2. \A j \in Lines : array[j] = a => j = i
    BY <1>6 DEF ArraysInv, TablesInv, Unique
  <2>3. recent' = IF config.repl \in {"LRU", "LRUNoSh"} THEN [recent EXCEPT ![a] = Now'] ELSE recent
    BY <1>1, <1>4 DEF Uses
  <2> QED
    BY <1>2, <1>3, <1>4, <1>6, <2>1, <2>2, <2>3 DEF Used
<1>8. Passes
  BY <1>2, <1>3, <1>4 DEF Passes
<1>9. line' = [line EXCEPT ![i] = Shared(line[i], k, excl)]
  BY <1>5 DEF Shared
<1> QED
  BY <1>2, <1>5, <1>6, <1>7, <1>8, <1>9, Zenon

\* A line comes in.
LEMMA PostinsertUses ==
    ASSUME ArraysInv, NEW k, Postinsert(k)
    PROVE  /\ SameGeometry /\ Passes /\ pend # NoInsertion /\ pend' = NoInsertion
           /\ Used(pend.id, pend.addr) /\ rp' = Inserted(rp, pend.id)
           /\ lruList' = MoveToFront(lruList, pend.id)
           /\ line' = [line EXCEPT ![pend.id] = [valid |-> TRUE, sharers |-> {k}]]
<1>1. /\ pend.evicted /\ pend' = NoInsertion /\ UNCHANGED config /\ Uses(pend.addr)
      /\ array' = [array EXCEPT ![pend.id] = pend.addr] /\ rp' = Inserted(rp, pend.id)
      /\ lruList' = MoveToFront(lruList, pend.id)
      /\ line' = [line EXCEPT ![pend.id] = [valid |-> TRUE, sharers |-> {k}]]
  BY DEF Postinsert
<1>2. pend # NoInsertion
  BY <1>1 DEF NoInsertion
<1>3. pend.id \in Lines /\ pend.addr \in Addrs /\ \A j \in Lines : array[j] # pend.addr
  BY <1>2 DEF ArraysInv, TablesInv, PendOK, Insertions
<1>4. SameGeometry /\ config.accesses \in Nat
  BY <1>1, GeometryOK DEF ArraysInv, TablesInv, ConfigOK
<1>5. Now = config.accesses + 1 /\ Now' = config.accesses /\ config'.accesses = config.accesses
  BY <1>1, <1>2, <1>4 DEF Now
<1>6. Used(pend.id, pend.addr)
  BY <1>1, <1>3, <1>4, <1>5 DEF Used, Uses
<1> QED
  BY <1>1, <1>2, <1>4, <1>5, <1>6 DEF Passes

\* What does not use a line.
LEMMA OthersPass ==
    ASSUME ArraysInv, Counted \/ UNCHANGED config,
           pend # NoInsertion \/ pend' = NoInsertion \/ Counted
    PROVE  SameGeometry /\ Passes
<1>1. SameGeometry /\ config.accesses \in Nat
  BY GeometryOK DEF ArraysInv, TablesInv, ConfigOK
<1>2. config' = config \/ (config'.accesses = config.accesses - 1 /\ config.accesses > 0)
  <2>1. "accesses" \in DOMAIN config
    BY DEF ArraysInv, TablesInv, ConfigOK
  <2>2. CASE Counted
    <3>1. config' = [config EXCEPT !.accesses = config.accesses - 1] /\ config.accesses > 0
      BY <2>2 DEF Counted
    <3> QED
      BY <2>1, <3>1
  <2> QED
    BY <2>2
<1>3. Now \in Nat /\ (pend = NoInsertion => Now = config.accesses) /\ (pend # NoInsertion => Now = config.accesses + 1)
  BY <1>1 DEF Now
<1>4. config'.accesses \in Nat /\ config'.accesses <= config.accesses
      /\ (Counted => config'.accesses + 1 = config.accesses)
  <2>1. Counted => config'.accesses # config.accesses
    <3>1. "accesses" \in DOMAIN config
      BY DEF ArraysInv, TablesInv, ConfigOK
    <3>2. ASSUME Counted PROVE config'.accesses = config.accesses - 1
      <4>1. config' = [config EXCEPT !.accesses = config.accesses - 1]
        BY <3>2 DEF Counted
      <4> QED
        BY <3>1, <4>1
    <3> QED
      BY <1>1, <3>2
  <2> QED
    BY <1>1, <1>2, <2>1
<1>5. Now' \in Nat /\ (pend' = NoInsertion => Now' = config'.accesses) /\ (pend' # NoInsertion => Now' = config'.accesses + 1)
  BY <1>4 DEF Now
<1> QED
  BY <1>1, <1>3, <1>4, <1>5 DEF Passes

-----------------------------------------------------------------------------
(* What a use does to lines and history.                                   *)

\* Uses stay in the past.
LEMMA UsesKept ==
    ASSUME ConfigOK(config), UsesOK, SameGeometry, Passes,
           recent' = recent \/ \E i, a : Used(i, a)
    PROVE  UsesOK'
<1>1. Addrs' = Addrs
  BY PlacesKept
<1>2. Now \in Nat
  BY DEF Now, ConfigOK
<1>3. recent' \in [Addrs -> Nat] /\ \A a \in Addrs : recent'[a] >= Now'
  <2>1. CASE recent' = recent
    BY <1>2, <2>1 DEF UsesOK, Passes
  <2>2. CASE \E i, a : Used(i, a)
    <3>1. PICK a \in Addrs : recent' = [recent EXCEPT ![a] = Now'] \/ recent' = recent
      BY <2>2 DEF Used
    <3>2. CASE recent' = recent
      BY <3>2, <2>1
    <3>3. CASE recent' = [recent EXCEPT ![a] = Now']
      BY <1>2, <3>3 DEF UsesOK, Passes
    <3> QED
      BY <3>1, <3>2, <3>3
  <2> QED
    BY <2>1, <2>2
<1> QED
  BY <1>1, <1>3 DEF UsesOK

\* What the controller may say of a line.
States == [valid : BOOLEAN, sharers : SUBSET config.children]

\* A line that gets the state of a valid line, or of an empty one.
LEMMA LineSet ==
    ASSUME LinesOK, TagsOK, SameGeometry, NEW i \in Lines, NEW e \in States,
           line' = [line EXCEPT ![i] = e],
           \A j \in Lines : j # i => array'[j] = array[j],
           e = Empty \/ (e.valid /\ array'[i] # 0)
    PROVE  LinesOK'
<1>1. Lines' = Lines /\ config'.children = config.children
  BY PlacesKept DEF SameGeometry
<1>2. line \in [Lines -> States] /\ \A j \in Lines : array[j] = 0 \/ ~line[j].valid => line[j] = Empty
  BY DEF LinesOK, States
<1>3. line' \in [Lines -> States] /\ line'[i] = e /\ \A j \in Lines : j # i => line'[j] = line[j]
  BY <1>2
<1>4. \A j \in Lines : array'[j] = 0 \/ ~line'[j].valid => line'[j] = Empty
  BY <1>2, <1>3
<1> QED
  BY <1>1, <1>3, <1>4 DEF LinesOK, States

\* What leaves tags and states alone.
LEMMA LinesKept ==
    ASSUME LinesOK, SameGeometry, UNCHANGED <<array, line>>
    PROVE  LinesOK'
<1>1. Lines' = Lines /\ config'.children = config.children
  BY PlacesKept DEF SameGeometry
<1> QED
  BY <1>1 DEF LinesOK

\* Invalidations leave the state of an empty line.
LEMMA EmptyState == Empty \in States
BY DEF Empty, States

\* Every step keeps LinesOK.
LEMMA LinesNext ==
    ASSUME ArraysInv, LinesOK, [ArraysNext]_arrayVars
    PROVE  LinesOK'
<1>1. ConfigOK(config) /\ TagsOK /\ (Addrs \subseteq Nat \ {0})
  BY AddrsNat DEF ArraysInv, TablesInv
<1>2. ASSUME NEW k \in config.children, NEW a \in Addrs, NEW excl \in BOOLEAN, Hit(k, a, excl) PROVE LinesOK'
  <2>1. SameGeometry
    BY <1>2, HitUses
  <2>2. PICK i \in Lines : /\ Used(i, a) /\ array[i] = a
                           /\ line' = [line EXCEPT ![i] = Shared(line[i], k, excl)]
    BY <1>2, HitUses
  <2> DEFINE e == Shared(line[i], k, excl)
  <2>3. e \in States /\ e.valid
    <3>1. line[i] \in States
      BY DEF LinesOK, States
    <3> QED
      BY <3>1 DEF States, Shared
  <2>4. array' = array
    BY <1>2 DEF Hit
  <2> HIDE DEF e
  <2>5. line' = [line EXCEPT ![i] = e]
    BY <2>2 DEF e
  <2>6. array'[i] # 0
    BY <1>1, <2>2, <2>4
  <2> QED
    BY <1>1, <2>1, <2>3, <2>4, <2>5, <2>6, LineSet
<1>3. ASSUME NEW k \in config.children, NEW a \in Addrs, Put(k, a) PROVE LinesOK'
  <2>1. Counted /\ array' = array
    BY <1>3 DEF Put
  <2>2. SameGeometry
    BY <1>1, <2>1, GeometryOK
  <2>3. PICK i \in Found(a) : k \in line[i].sharers /\ line' = [line EXCEPT ![i].sharers = @ \ {k}]
    BY <1>3 DEF Put
  <2>4. i \in Lines /\ array[i] # 0
    BY FoundLine
  <2>5. line \in [Lines -> States] /\ line[i] \in States /\ (~line[i].valid => line[i] = Empty)
    BY <2>4 DEF LinesOK, States
  <2>6. line[i].valid
    BY <2>3, <2>5 DEF Empty
  <2> DEFINE e == [line[i] EXCEPT !.sharers = line[i].sharers \ {k}]
  <2>7. e \in States /\ e.valid
    BY <2>5, <2>6 DEF States
  <2>8. line' = [line EXCEPT ![i] = e]
    BY <2>3, Zenon
  <2> HIDE DEF e
  <2> QED
    BY <1>1, <2>1, <2>2, <2>4, <2>7, <2>8, LineSet
<1>4. ASSUME NEW i \in Lines, Invalidate(i) PROVE LinesOK'
  <2>1. Counted /\ array' = array /\ line' = [line EXCEPT ![i] = Empty]
    BY <1>4 DEF Invalidate
  <2>2. SameGeometry
    BY <1>1, <2>1, GeometryOK
  <2> QED
    BY <1>1, <2>1, <2>2, EmptyState, LineSet
<1>5. ASSUME NEW a \in Addrs, Preinsert(a) PROVE LinesOK'
  <2>1. Counted /\ UNCHANGED <<array, line>>
    BY <1>5 DEF Preinsert
  <2> QED
    BY <1>1, <2>1, GeometryOK, LinesKept
<1>6. ASSUME Evict PROVE LinesOK'
  <2>1. UNCHANGED config /\ array' = array /\ line' = [line EXCEPT ![pend.id] = Empty] /\ pend # NoInsertion
    BY <1>6 DEF Evict
  <2>2. SameGeometry
    BY <1>1, <2>1, GeometryOK
  <2>3. pend.id \in Lines
    BY <2>1 DEF ArraysInv, TablesInv, PendOK, Insertions
  <2> QED
    BY <1>1, <2>1, <2>2, <2>3, EmptyState, LineSet
<1>7. ASSUME NEW k \in config.children, Postinsert(k) PROVE LinesOK'
  <2>1. SameGeometry /\ Used(pend.id, pend.addr) /\ line' = [line EXCEPT ![pend.id] = [valid |-> TRUE, sharers |-> {k}]]
    BY <1>7, PostinsertUses
  <2> DEFINE e == [valid |-> TRUE, sharers |-> {k}]
  <2>2. e \in States /\ e.valid
    BY DEF States
  <2>3. pend.id \in Lines /\ array'[pend.id] # 0 /\ \A j \in Lines : j # pend.id => array'[j] = array[j]
    BY <1>1, <2>1 DEF Used, TagsOK
  <2> HIDE DEF e
  <2>4. line' = [line EXCEPT ![pend.id] = e]
    BY <2>1 DEF e
  <2> QED
    BY <1>1, <2>1, <2>2, <2>3, <2>4, LineSet
<1>8. ASSUME NEW m \in misses, NEW pmc \in config.costs, MissServed(m, pmc) PROVE LinesOK'
  <2>1. UNCHANGED <<config, array, line>>
    BY <1>8 DEF MissServed
  <2> QED
    BY <1>1, <2>1, GeometryOK, LinesKept
<1>9. CASE UNCHANGED arrayVars
  BY <1>1, <1>9, GeometryOK, LinesKept DEF arrayVars
<1> QED
  BY <1>2, <1>3, <1>4, <1>5, <1>6, <1>7, <1>8, <1>9 DEF ArraysNext

-----------------------------------------------------------------------------
(* LRU: ages, scores and uses.                                             *)

\* LRU: its ages order the lines by their last uses, and its scores fit.
LRUOK ==
    config.array # "IdealLRU" /\ config.repl \in {"LRU", "LRUNoSh"} =>
        /\ rp.sharersAware = (config.repl = "LRU") /\ rp.timestamp >= 1
        /\ \A i \in Lines : array[i] # 0 => rp.array[i] \in 1..(rp.timestamp - 1)
        /\ \A i, j \in Lines : array[i] # 0 /\ array[j] # 0 /\ recent[array[i]] < recent[array[j]]
                                  => rp.array[j] < rp.array[i]
        /\ (Cardinality(config.children) + 1) * (rp.timestamp + Now) <= ScoreValues

\* Multiplication is monotone.
LEMMA Monotone ==
    ASSUME NEW c \in Nat, NEW x \in Nat, NEW y \in Nat, x <= y
    PROVE  c * x \in Nat /\ c * y \in Nat /\ c * x <= c * y
<1>1. y - x \in Nat /\ y = x + (y - x)
  OBVIOUS
<1> DEFINE d == y - x
<1>2. c * d \in Nat /\ c * x \in Nat
  BY <1>1
<1>3. c * y = c * x + c * d
  BY <1>1
<1> HIDE DEF d
<1> QED
  BY <1>2, <1>3

\* Sharers can be counted.
LEMMA ChildrenFinite ==
    ASSUME ConfigOK(config)
    PROVE  Cardinality(config.children) \in Nat
BY FS_CardinalityType DEF ConfigOK

\* The state of LRU, with or without sharers.
LEMMA LRUState ==
    ASSUME ArraysInv, config.repl \in {"LRU", "LRUNoSh"}
    PROVE  /\ config.lines \in Nat \ {0} /\ Slots(config.lines) = Lines
           /\ rp \in LRUPolicies(config.lines) /\ rp.kind = "LRU"
<1>1. rp.kind = "LRU" /\ PolicyOK(rp, config.lines)
  BY DEF ArraysInv, PolicyInv, KindOf
<1>2. rp \in LRUPolicies(config.lines)
  BY <1>1 DEF PolicyOK, NRUPolicies, LFUPolicies, SRRIPPolicies, CarePolicies, RandNew
<1> QED
  BY <1>1, <1>2, SetsOK, SlotsLines DEF ArraysInv, TablesInv

\* From p to q, line i becomes the youngest.
Aged(p, q, i) ==
    /\ q.array = [p.array EXCEPT ![i] = p.timestamp] /\ q.timestamp = p.timestamp + 1
    /\ q.sharersAware = p.sharersAware

\* A hit does that, and so does an insertion, which first forgets the old line.
LEMMA LRUAged ==
    ASSUME NEW n \in Nat \ {0}, NEW p \in LRUPolicies(n), NEW i \in Slots(n)
    PROVE  Aged(p, Update(p, i), i) /\ Aged(p, Update(Replaced(p, i), i), i)
<1>1. ASSUME NEW q \in LRUPolicies(n) PROVE Aged(q, Update(q, i), i)
  <2>1. Update(q, i) = [q EXCEPT !.array = [q.array EXCEPT ![i] = q.timestamp], !.timestamp = q.timestamp + 1]
    BY DEF Update, LRUUpdate, LRUPolicies
  <2> QED
    BY <2>1 DEF Aged, LRUPolicies
<1> DEFINE r == Replaced(p, i)
           z == [p.array EXCEPT ![i] = 0]
<1>2. r = [p EXCEPT !.array = z]
  BY DEF Replaced, LRUReplaced, LRUPolicies
<1>3. z \in [Slots(n) -> Nat] /\ [z EXCEPT ![i] = p.timestamp] = [p.array EXCEPT ![i] = p.timestamp]
  BY DEF LRUPolicies
<1> HIDE DEF z
<1>4. r \in LRUPolicies(n) /\ r.array = z /\ r.timestamp = p.timestamp /\ r.sharersAware = p.sharersAware
  BY <1>2, <1>3 DEF LRUPolicies
<1> HIDE DEF r
<1>5. Aged(p, Update(r, i), i)
  BY <1>1, <1>3, <1>4 DEF Aged
<1> QED
  BY <1>1, <1>5 DEF r

\* The line used last is the youngest; the timestamp advances by one for it, and
\* the accesses left go down by one.
LEMMA LRUUse ==
    ASSUME ArraysInv, UsesOK, LRUOK, SameGeometry, Passes, NEW i, NEW a, Used(i, a),
           config.array # "IdealLRU", config.repl \in {"LRU", "LRUNoSh"}, Aged(rp, rp', i)
    PROVE  LRUOK'
<1> DEFINE c == Cardinality(config.children) + 1
<1>1. /\ Slots(config.lines) = Lines /\ rp \in LRUPolicies(config.lines)
      /\ c \in Nat /\ (Addrs \subseteq Nat \ {0}) /\ TagsOK /\ ConfigOK(config)
  BY LRUState, ChildrenFinite, AddrsNat DEF ArraysInv, TablesInv
<1>2. /\ rp.array \in [Lines -> Nat] /\ rp.timestamp \in Nat
      /\ rp.sharersAware = (config.repl = "LRU") /\ rp.timestamp >= 1
      /\ \A j \in Lines : array[j] # 0 => rp.array[j] \in 1..(rp.timestamp - 1)
      /\ \A j, k \in Lines : array[j] # 0 /\ array[k] # 0 /\ recent[array[j]] < recent[array[k]]
                                => rp.array[k] < rp.array[j]
      /\ c * (rp.timestamp + Now) <= ScoreValues
  BY <1>1 DEF LRUOK, LRUPolicies
<1> HIDE DEF c
<1>3. i \in Lines /\ a \in Addrs /\ array' = [array EXCEPT ![i] = a] /\ \A j \in Lines : array[j] = a => j = i
  BY DEF Used
<1>13. PICK t \in Nat, u \in Nat : t = Now /\ u = Now' /\ u + 1 <= t
  <2>1. Now \in Nat
    BY <1>1 DEF Now, ConfigOK
  <2> QED
    BY <2>1 DEF Used, Passes
<1>14. u + 1 <= t
  BY <1>13
<1>4. /\ rp'.array \in [Lines -> Nat] /\ rp'.timestamp = rp.timestamp + 1 /\ rp'.array[i] = rp.timestamp
      /\ \A j \in Lines : j # i => rp'.array[j] = rp.array[j]
  BY <1>2, <1>3 DEF Aged
<1>5. /\ array'[i] = a /\ \A j \in Lines : j # i => array'[j] = array[j] /\ array[j] # a
      /\ a # 0
  BY <1>1, <1>3 DEF TagsOK
<1>6. ASSUME NEW j \in Lines, array'[j] # 0 PROVE rp'.array[j] \in 1..(rp'.timestamp - 1)
  BY <1>2, <1>4, <1>5, <1>6
<1>7. /\ recent'[a] = u /\ recent \in [Addrs -> Nat]
      /\ \A b \in Addrs : b # a => recent'[b] = recent[b] /\ recent'[b] > u
  <2>1. recent \in [Addrs -> Nat] /\ (\A b \in Addrs : recent[b] >= t) /\ recent' = [recent EXCEPT ![a] = u]
    BY <1>13 DEF Used, UsesOK
  <2> QED
    BY <2>1, <1>3, <1>14
<1>8. ASSUME NEW j \in Lines, NEW k \in Lines, array'[j] # 0, array'[k] # 0, recent'[array'[j]] < recent'[array'[k]]
      PROVE  rp'.array[k] < rp'.array[j]
  <2>1. \A l \in Lines : l # i /\ array'[l] # 0 => /\ array'[l] = array[l] /\ array[l] \in Addrs /\ array[l] # a
                                                   /\ recent'[array'[l]] = recent[array[l]]
                                                   /\ recent'[array'[l]] > u
                                                   /\ rp'.array[l] = rp.array[l] /\ rp.array[l] < rp.timestamp
    <3>1. \A l \in Lines : array[l] # 0 => array[l] \in Addrs
      BY <1>1 DEF TagsOK
    <3>2. \A l \in Lines : l # i /\ array'[l] # 0 => array'[l] = array[l] /\ array[l] \in Addrs /\ array[l] # a
      BY <3>1, <1>5
    <3>3. \A l \in Lines : l # i /\ array'[l] # 0 => rp'.array[l] = rp.array[l] /\ rp.array[l] < rp.timestamp
      BY <3>2, <1>2, <1>4
    <3> QED
      BY <3>2, <3>3, <1>7
  <2>2. CASE j = i /\ k = i
    BY <2>2, <1>8, <1>13, <1>5, <1>7
  <2>3. CASE j = i /\ k # i
    BY <2>1, <2>3, <1>4, <1>8
  <2>4. CASE j # i /\ k = i
    <3>1. recent'[array'[k]] = u /\ recent'[array'[j]] > u /\ recent'[array'[j]] \in Nat
      BY <2>1, <2>4, <1>5, <1>7, <1>8
    <3> QED
      BY <3>1, <1>13, <1>8
  <2>5. CASE j # i /\ k # i
    BY <2>1, <2>5, <1>2, <1>8
  <2> QED
    BY <2>2, <2>3, <2>4, <2>5
<1>9. c * (rp'.timestamp + u) <= ScoreValues
  <2>1. rp'.timestamp + u \in Nat /\ rp.timestamp + t \in Nat /\ rp'.timestamp + u <= rp.timestamp + t
    BY <1>2, <1>14, <1>4
  <2>2. c * (rp'.timestamp + u) <= c * (rp.timestamp + t) /\ c * (rp'.timestamp + u) \in Nat
        /\ c * (rp.timestamp + t) \in Nat
    BY <2>1, <1>1, Monotone
  <2>3. ScoreValues \in Nat
    BY ReplacementAssumption
  <2> QED
    BY <2>2, <2>3, <1>2, <1>13
<1>10. Lines' = Lines /\ config'.repl = config.repl /\ config'.children = config.children
  BY PlacesKept DEF SameGeometry
<1>11. rp'.sharersAware = (config'.repl = "LRU") /\ rp'.timestamp >= 1
  BY <1>2, <1>4, <1>10 DEF Aged
<1>12. (Cardinality(config'.children) + 1) * (rp'.timestamp + Now') <= ScoreValues
  BY <1>9, <1>10, <1>13 DEF c
<1> QED
  BY <1>6, <1>8, <1>10, <1>11, <1>12 DEF LRUOK

\* Nothing else changes the order.
LEMMA LRUKept ==
    ASSUME ArraysInv, LRUOK, SameGeometry, Passes, UNCHANGED <<array, recent>>,
           config.repl \in {"LRU", "LRUNoSh"} => rp' = rp
    PROVE  LRUOK'
<1> SUFFICES ASSUME config.array # "IdealLRU", config.repl \in {"LRU", "LRUNoSh"} PROVE LRUOK'
  BY DEF LRUOK, SameGeometry
<1> DEFINE c == Cardinality(config.children) + 1
<1>1. c \in Nat /\ Now \in Nat /\ Now' \in Nat /\ Now' <= Now /\ rp.timestamp \in Nat /\ ScoreValues \in Nat
  BY ChildrenFinite, LRUState, ReplacementAssumption DEF ArraysInv, TablesInv, Passes, Now, ConfigOK, LRUPolicies
<1>2. c * (rp.timestamp + Now) <= ScoreValues
  BY DEF LRUOK
<1> HIDE DEF c
<1>3. /\ c * (rp.timestamp + Now') <= c * (rp.timestamp + Now) /\ c * (rp.timestamp + Now') \in Nat
      /\ c * (rp.timestamp + Now) \in Nat
  BY <1>1, Monotone
<1>4. c * (rp.timestamp + Now') <= ScoreValues
  BY <1>1, <1>2, <1>3
<1>5. Lines' = Lines /\ config'.repl = config.repl /\ config'.children = config.children
  BY PlacesKept DEF SameGeometry
<1>6. rp' = rp /\ array' = array /\ recent' = recent
  OBVIOUS
<1> QED
  BY <1>4, <1>5, <1>6 DEF c, LRUOK

-----------------------------------------------------------------------------
(* The list of an ideal LRU array and uses.                                *)

\* Ideal LRU: the list has no line twice, and its lines are in the order of their
\* last uses, those without an address at the end.
Sorted(list) ==
    /\ Distinct(list)
    /\ \A m, n \in 1..Len(list) :
          m < n => \/ array[list[n]] = 0
                   \/ array[list[m]] # 0 /\ recent[array[list[m]]] < recent[array[list[n]]]
ListSorted == config.array = "IdealLRU" => Sorted(lruList)

\* The line used last goes to the front.
LEMMA ListUse ==
    ASSUME ArraysInv, UsesOK, ListSorted, SameGeometry, Passes, NEW i, NEW a, Used(i, a),
           lruList' = MoveToFront(lruList, i)
    PROVE  ListSorted'
<1> SUFFICES ASSUME config.array = "IdealLRU" PROVE Sorted(lruList)'
  BY DEF ListSorted, SameGeometry
<1> DEFINE old == lruList
           new == MoveToFront(lruList, i)
<1>1. /\ ConfigOK(config) /\ TagsOK /\ (Addrs \subseteq Nat \ {0}) /\ ListOK(old) /\ Sorted(old)
      /\ config.repl = "LRU"
  BY AddrsNat DEF ArraysInv, TablesInv, ListSorted, ConfigOK
<1>2. old \in Seq(Lines) /\ Len(old) \in Nat
  BY <1>1 DEF ListOK
<1>3. i \in Lines /\ a \in Addrs /\ array' = [array EXCEPT ![i] = a] /\ \A j \in Lines : array[j] = a => j = i
  BY DEF Used
<1>4. new \in Seq(Lines) /\ Len(new) = Len(old) /\ new[1] = i
  BY <1>1, <1>3, MoveToFrontIs
<1>5. PICK n \in 1..Len(old) :
         /\ old[n] = i
         /\ \A m \in 1..(n - 1) : new[m + 1] = old[m]
         /\ \A m \in (n + 1)..Len(old) : new[m] = old[m]
  BY <1>1, <1>3, MoveToFrontIs
<1> HIDE DEF new
\* Behind its first line, the list keeps the old order.
<1>6. ASSUME NEW x \in 2..Len(new)
      PROVE  \E y \in 1..Len(old) : y # n /\ new[x] = old[y] /\ (y < n => x = y + 1) /\ (y > n => x = y)
  <2>1. CASE x <= n
    <3>1. x - 1 \in 1..(n - 1) /\ x - 1 \in 1..Len(old) /\ (x - 1) + 1 = x /\ x - 1 < n
      BY <1>2, <1>4, <2>1
    <3>2. new[(x - 1) + 1] = old[x - 1]
      BY <1>5, <3>1
    <3> QED
      BY <3>1, <3>2
  <2>2. CASE x > n
    <3>1. x \in (n + 1)..Len(old) /\ x \in 1..Len(old) /\ x # n /\ ~(x < n)
      BY <1>2, <1>4, <2>2
    <3> QED
      BY <1>5, <3>1
  <2> QED
    BY <2>1, <2>2
<1>7. PICK t \in Nat, u \in Nat : t = Now /\ u = Now' /\ u + 1 <= t
  <2>1. Now \in Nat
    BY <1>1 DEF Now, ConfigOK
  <2> QED
    BY <2>1 DEF Used, Passes
<1>8. u + 1 <= t
  BY <1>7
<1>9. recent \in [Addrs -> Nat] /\ (\A b \in Addrs : recent[b] >= t) /\ recent' = [recent EXCEPT ![a] = u]
  BY <1>1, <1>7 DEF Used, UsesOK
<1>10. recent'[a] = u /\ \A b \in Addrs : b # a => recent'[b] = recent[b] /\ u < recent'[b]
  BY <1>3, <1>8, <1>9
<1>11. \A j \in Lines : array[j] # 0 => array[j] \in Addrs
  BY <1>1 DEF TagsOK
<1>12. array'[i] = a /\ a # 0 /\ \A j \in Lines : j # i => array'[j] = array[j] /\ array[j] # a
  BY <1>1, <1>3 DEF TagsOK
\* Every other line keeps its address and the time of its last use.
<1>13. ASSUME NEW y \in 1..Len(old), y # n
       PROVE  /\ old[y] \in Lines /\ old[y] # i /\ array'[old[y]] = array[old[y]]
              /\ array[old[y]] # 0 => /\ recent'[array[old[y]]] = recent[array[old[y]]]
                                      /\ u < recent[array[old[y]]]
  <2>1. old[y] \in Lines /\ old[y] # i
    BY <1>1, <1>2, <1>5, <1>13 DEF Sorted, Distinct
  <2> QED
    BY <2>1, <1>10, <1>11, <1>12
<1>14. Distinct(new)
  <2> SUFFICES ASSUME NEW x \in 1..Len(new), NEW z \in 1..Len(new), new[x] = new[z] PROVE x = z
    BY DEF Distinct
  <2>1. CASE x = 1 /\ z = 1
    BY <2>1
  <2>2. CASE x = 1 /\ z # 1
    <3>1. z \in 2..Len(new)
      BY <2>2, <1>2, <1>4
    <3> QED
      BY <3>1, <2>2, <1>4, <1>6, <1>13
  <2>3. CASE x # 1 /\ z = 1
    <3>1. x \in 2..Len(new)
      BY <2>3, <1>2, <1>4
    <3> QED
      BY <3>1, <2>3, <1>4, <1>6, <1>13
  <2>4. CASE x # 1 /\ z # 1
    <3>1. x \in 2..Len(new) /\ z \in 2..Len(new)
      BY <2>4, <1>2, <1>4
    <3>2. PICK y \in 1..Len(old) : y # n /\ new[x] = old[y] /\ (y < n => x = y + 1) /\ (y > n => x = y)
      BY <3>1, <1>6
    <3>3. PICK v \in 1..Len(old) : v # n /\ new[z] = old[v] /\ (v < n => z = v + 1) /\ (v > n => z = v)
      BY <3>1, <1>6
    <3>4. y = v
      BY <3>2, <3>3, <1>1 DEF Sorted, Distinct
    <3> QED
      BY <3>2, <3>3, <3>4, <1>2, <1>5
  <2> QED
    BY <2>1, <2>2, <2>3, <2>4
<1>15. ASSUME NEW x \in 1..Len(new), NEW z \in 1..Len(new), x < z, array'[new[z]] # 0
       PROVE  array'[new[x]] # 0 /\ recent'[array'[new[x]]] < recent'[array'[new[z]]]
  <2>1. z \in 2..Len(new)
    BY <1>2, <1>4, <1>15
  <2>2. PICK v \in 1..Len(old) : v # n /\ new[z] = old[v] /\ (v < n => z = v + 1) /\ (v > n => z = v)
    BY <2>1, <1>6
  <2>3. array'[old[v]] = array[old[v]] /\ array[old[v]] # 0 /\ recent'[array[old[v]]] = recent[array[old[v]]]
        /\ u < recent[array[old[v]]]
    BY <2>2, <1>13, <1>15
  <2>4. CASE x = 1
    BY <2>2, <2>3, <2>4, <1>4, <1>10, <1>12
  <2>5. CASE x # 1
    <3>1. x \in 2..Len(new)
      BY <2>5, <1>2, <1>4
    <3>2. PICK y \in 1..Len(old) : y # n /\ new[x] = old[y] /\ (y < n => x = y + 1) /\ (y > n => x = y)
      BY <3>1, <1>6
    <3>3. y < v
      BY <3>2, <2>2, <1>2, <1>5, <1>15
    <3>4. array[old[y]] # 0 /\ recent[array[old[y]]] < recent[array[old[v]]]
      BY <3>3, <2>3, <1>1 DEF Sorted
    <3>5. array'[old[y]] = array[old[y]] /\ recent'[array[old[y]]] = recent[array[old[y]]]
      BY <3>2, <3>4, <1>13
    <3> QED
      BY <2>2, <2>3, <3>2, <3>4, <3>5
  <2> QED
    BY <2>4, <2>5
<1>16. lruList' = new
  BY DEF new
<1> QED
  BY <1>14, <1>15, <1>16 DEF Sorted, Distinct

\* Nothing else changes the list or the history.
LEMMA SortedKept ==
    ASSUME ListSorted, SameGeometry, UNCHANGED <<array, lruList, recent>>
    PROVE  ListSorted'
BY DEF ListSorted, SameGeometry, Sorted, Distinct

-----------------------------------------------------------------------------
(* LFU: accessed lines.                                                    *)

\* LFU: the lines that have been accessed are those with an address.
LFUOK == config.repl = "LFU" => \A i \in Lines : array[i] = 0 <=> rp.array[i].acc = 0

\* The state of LFU.
LEMMA LFUState ==
    ASSUME ArraysInv, config.repl = "LFU"
    PROVE  /\ config.lines \in Nat \ {0} /\ Slots(config.lines) = Lines
           /\ rp \in LFUPolicies(config.lines) /\ rp.kind = "LFU" /\ config.array # "IdealLRU"
<1>1. rp.kind = "LFU" /\ PolicyOK(rp, config.lines)
  BY DEF ArraysInv, PolicyInv, KindOf
<1>2. rp \in LFUPolicies(config.lines)
  BY <1>1 DEF PolicyOK, NRUPolicies, LRUPolicies, SRRIPPolicies, CarePolicies, RandNew
<1> QED
  BY <1>1, <1>2, SetsOK, SlotsLines DEF ArraysInv, TablesInv, ConfigOK

\* From p to q, line i has been accessed.
Accessed(p, q, i, n) == q.array[i].acc # 0 /\ \A j \in Slots(n) : j # i => q.array[j].acc = p.array[j].acc

\* A hit does that, and so does an insertion, which first forgets the old line.
LEMMA LFUAccessed ==
    ASSUME NEW n \in Nat \ {0}, NEW p \in LFUPolicies(n), NEW i \in Slots(n)
    PROVE  Accessed(p, Update(p, i), i, n) /\ Accessed(p, Update(Replaced(p, i), i), i, n)
<1>1. ASSUME NEW q \in LFUPolicies(n) PROVE Accessed(q, Update(q, i), i, n)
  <2> DEFINE e == q.array[i]
             t == (e.acc * e.ts + q.timestamp) \div (e.acc + 1)
             f == [ts |-> t, acc |-> e.acc + 1]
             z == [q.array EXCEPT ![i] = f]
  <2>1. Update(q, i) = [q EXCEPT !.array = z, !.timestamp = q.timestamp + 1000]
    BY DEF Update, LFUUpdate, LFUPolicies
  <2>2. e.acc \in Nat /\ f.acc = e.acc + 1
    BY DEF LFUPolicies
  <2>3. f.acc # 0
    BY <2>2
  <2> HIDE DEF f
  <2>4. z[i] = f /\ \A j \in Slots(n) : j # i => z[j] = q.array[j]
    BY DEF LFUPolicies
  <2> HIDE DEF z
  <2>5. Update(q, i).array = z
    BY <2>1 DEF LFUPolicies
  <2> QED
    BY <2>3, <2>4, <2>5 DEF Accessed
<1> DEFINE r == Replaced(p, i)
           y == [p.array EXCEPT ![i] = [p.array[i] EXCEPT !.acc = 0]]
<1>2. r = [p EXCEPT !.array = y]
  BY DEF Replaced, LFUReplaced, LFUPolicies
<1>3. y \in [Slots(n) -> [ts : Int, acc : Nat]] /\ \A j \in Slots(n) : j # i => y[j] = p.array[j]
  BY DEF LFUPolicies
<1> HIDE DEF y
<1>4. r \in LFUPolicies(n) /\ r.array = y
  BY <1>2, <1>3 DEF LFUPolicies
<1> HIDE DEF r
<1>5. Accessed(p, Update(r, i), i, n)
  BY <1>1, <1>3, <1>4 DEF Accessed
<1> QED
  BY <1>1, <1>5 DEF r

\* The line used has an address and has been accessed.
LEMMA LFUUse ==
    ASSUME ArraysInv, LFUOK, SameGeometry, NEW i, NEW a, Used(i, a),
           config.repl = "LFU" => Accessed(rp, rp', i, config.lines)
    PROVE  LFUOK'
<1> SUFFICES ASSUME config.repl = "LFU" PROVE LFUOK'
  BY DEF LFUOK, SameGeometry
<1>1. Slots(config.lines) = Lines /\ TagsOK /\ (Addrs \subseteq Nat \ {0})
  BY LFUState, AddrsNat DEF ArraysInv, TablesInv
<1>2. i \in Lines /\ array'[i] # 0 /\ \A j \in Lines : j # i => array'[j] = array[j]
  BY <1>1 DEF Used, TagsOK
<1>3. rp'.array[i].acc # 0 /\ \A j \in Lines : j # i => rp'.array[j].acc = rp.array[j].acc
  BY <1>1 DEF Accessed
<1>4. Lines' = Lines
  BY PlacesKept
<1> QED
  BY <1>2, <1>3, <1>4 DEF LFUOK

\* Nothing else accesses lines.
LEMMA LFUKept ==
    ASSUME LFUOK, SameGeometry, array' = array, config.repl = "LFU" => rp' = rp
    PROVE  LFUOK'
<1>1. Lines' = Lines
  BY PlacesKept
<1> QED
  BY <1>1 DEF LFUOK, SameGeometry

-----------------------------------------------------------------------------
(* SRRIP: the ages of a set.                                               *)

\* SRRIP: the lines of a set that have no address are equally old, older than those
\* that have one, and would be distant in the next round; the victim is distant.
RRPVOK ==
    config.array = "SetAssoc" /\ config.repl = "SRRIP" =>
        /\ \A a \in Addrs : \A i, j \in Probed(a) :
              array[i] = 0 => /\ rp.rrpv[i] >= RRPVMax - 1
                              /\ array[j] = 0 => rp.rrpv[j] = rp.rrpv[i]
                              /\ array[j] # 0 => rp.rrpv[j] < rp.rrpv[i]
        /\ pend # NoInsertion => rp.rrpv[pend.id] = RRPVMax

\* The state of SRRIP.
LEMMA SRRIPState ==
    ASSUME ArraysInv, config.repl = "SRRIP"
    PROVE  /\ config.lines \in Nat \ {0} /\ Slots(config.lines) = Lines
           /\ rp \in SRRIPPolicies(config.lines) /\ rp.kind = "SRRIP"
           /\ rp.rrpv \in [Lines -> 0..RRPVMax]
<1>1. rp.kind = "SRRIP" /\ PolicyOK(rp, config.lines)
  BY DEF ArraysInv, PolicyInv, KindOf
<1>2. rp \in SRRIPPolicies(config.lines)
  BY <1>1 DEF PolicyOK, NRUPolicies, LRUPolicies, LFUPolicies, CarePolicies, RandNew
<1>3. Slots(config.lines) = Lines
  BY SlotsLines
<1> QED
  BY <1>1, <1>2, <1>3, SetsOK DEF ArraysInv, TablesInv, SRRIPPolicies

\* Two addresses have the same set or sets with no line in common.
LEMMA SetsApart ==
    ASSUME ConfigOK(config), config.array = "SetAssoc", NEW a \in Addrs, NEW b \in Addrs,
           NEW i \in Probed(a), i \in Probed(b)
    PROVE  Probed(a) = Probed(b)
<1> DEFINE x == config.hash[0][a] % NumSets
           y == config.hash[0][b] % NumSets
           W == config.ways
<1>1. W \in Nat \ {0} /\ NumSets \in Nat \ {0}
  BY SetsOK
<1>2. x \in Nat /\ y \in Nat
  <2>1. config.hash[0] \in [Addrs -> Nat]
    <3>1. 0 \in 0..(IF config.array = "Z" THEN config.ways - 1 ELSE 0)
      BY <1>1
    <3> QED
      BY <3>1 DEF ConfigOK, Addrs
  <2> QED
    BY <1>1, <2>1
<1>3. First(a) = x * W /\ First(b) = y * W
  BY DEF First
<1>4. Probed(a) = {First(a) + w : w \in Ways} /\ Probed(b) = {First(b) + w : w \in Ways}
  BY DEF Probed
<1>5. PICK v \in Ways, w \in Ways : x * W + v = y * W + w
  BY <1>3, <1>4
<1> HIDE DEF x, y
<1>6. v \in 0..(W - 1) /\ w \in 0..(W - 1)
  BY DEF Ways
<1> HIDE DEF W
<1>7. ~(x < y)
  <2> SUFFICES ASSUME x < y PROVE FALSE
    OBVIOUS
  <2>1. x * W \in Nat /\ y * W \in Nat /\ x * W + W <= y * W
    BY <1>1, <1>2, Times
  <2> QED
    BY <1>1, <1>5, <1>6, <2>1
<1>8. ~(y < x)
  <2> SUFFICES ASSUME y < x PROVE FALSE
    OBVIOUS
  <2>1. x * W \in Nat /\ y * W \in Nat /\ y * W + W <= x * W
    BY <1>1, <1>2, Times
  <2> QED
    BY <1>1, <1>5, <1>6, <2>1
<1>9. x = y
  BY <1>2, <1>7, <1>8
<1> QED
  BY <1>3, <1>4, <1>9

\* The candidates of a set-associative array are the lines of the set, each once.
LEMMA SetCands ==
    ASSUME ConfigOK(config), config.array = "SetAssoc", NEW a \in Addrs
    PROVE  Range(Cands(a)) = Probed(a) /\ Distinct(Cands(a))
<1> DEFINE c == Cands(a)
           F == First(a)
<1>1. config.ways \in Nat \ {0} /\ F \in Nat
  <2>1. config.ways \in Nat \ {0} /\ 0 \in Ways
    BY SetsOK DEF Ways
  <2> QED
    BY <2>1, FirstOK
<1>2. c = [i \in 1..config.ways |-> F + i - 1] /\ Probed(a) = {F + w : w \in 0..(config.ways - 1)}
  BY DEF Cands, Probed, Ways
<1> HIDE DEF c, F
<1>3. DOMAIN c = 1..config.ways /\ Len(c) = config.ways /\ \A i \in 1..config.ways : c[i] = F + (i - 1)
  BY <1>1, <1>2
<1>4. Distinct(c)
  BY <1>1, <1>3 DEF Distinct
<1>5. ASSUME NEW i \in Range(c) PROVE i \in Probed(a)
  <2>1. PICK m \in 1..config.ways : i = c[m]
    BY <1>3, <1>5 DEF Range
  <2>2. m - 1 \in 0..(config.ways - 1)
    BY <1>1
  <2> QED
    BY <1>2, <1>3, <2>1, <2>2
<1>6. ASSUME NEW i \in Probed(a) PROVE i \in Range(c)
  <2>1. PICK w \in 0..(config.ways - 1) : i = F + w
    BY <1>2
  <2>2. w + 1 \in 1..config.ways /\ (w + 1) - 1 = w
    BY <1>1
  <2>3. c[w + 1] = F + w
    BY <1>3, <2>2
  <2> QED
    BY <1>3, <2>1, <2>2, <2>3 DEF Range
<1>7. Range(c) = Probed(a)
  BY <1>5, <1>6
<1> QED
  BY <1>4, <1>7 DEF c

\* Of candidates that are all different, each ages by one in a round.
LEMMA OlderIs ==
    ASSUME NEW n \in Nat \ {0}, NEW p \in SRRIPPolicies(n), NEW cands \in Seq(Slots(n)), Distinct(cands),
           NEW q \in 0..RRPVMax, NEW i \in Slots(n)
    PROVE  Older(p.rrpv, cands, q)[i] =
              IF i \in Range(cands)
              THEN IF p.rrpv[i] + q < RRPVMax THEN p.rrpv[i] + q ELSE RRPVMax
              ELSE p.rrpv[i]
<1> DEFINE T == {m \in DOMAIN cands : cands[m] = i}
           t == Cardinality(T)
<1>1. p.rrpv \in [Slots(n) -> 0..RRPVMax] /\ DOMAIN cands = 1..Len(cands) /\ q \in Nat /\ RRPVMax \in Nat
  BY DEF SRRIPPolicies, RRPVMax
<1>2. Older(p.rrpv, cands, q)[i] = IF p.rrpv[i] + q * t < RRPVMax THEN p.rrpv[i] + q * t ELSE RRPVMax
  BY <1>1 DEF Older
<1>3. CASE i \in Range(cands)
  <2>1. PICK m \in DOMAIN cands : cands[m] = i
    BY <1>3 DEF Range
  <2>2. T = {m}
    BY <1>1, <2>1 DEF Distinct
  <2> HIDE DEF T
  <2>3. t = 1
    BY <2>2, FS_Singleton
  <2>4. q * t = q
    BY <1>1, <2>3
  <2> QED
    BY <1>2, <1>3, <2>4
<1>4. CASE i \notin Range(cands)
  <2>1. T = {}
    BY <1>4 DEF Range
  <2> HIDE DEF T
  <2>2. t = 0
    BY <2>1, FS_EmptySet
  <2>3. p.rrpv[i] + q * t = p.rrpv[i] /\ p.rrpv[i] <= RRPVMax
    BY <1>1, <2>2
  <2> QED
    BY <1>1, <1>2, <1>4, <2>3
<1> QED
  BY <1>3, <1>4

\* So all of them age by the same, until one is distant.
AgedBy(old, new, C, t, id, n) ==
    /\ id \in C /\ new[id] = RRPVMax
    /\ \A i \in Slots(n) : new[i] = IF i \in C THEN old[i] + t ELSE old[i]

\* Those of a set are all different, and that is what the ageing of SRRIP does.
LEMMA SRRIPAges ==
    ASSUME NEW n \in Nat \ {0}, NEW p \in SRRIPPolicies(n), NEW cands \in Seq(Slots(n)), Len(cands) >= 1,
           Distinct(cands), NEW r \in SRRIPRank(p, cands)
    PROVE  \E t \in Nat : AgedBy(p.rrpv, r.p.rrpv, Range(cands), t, r.id, n)
<1>1. PICK t \in 0..RRPVMax :
         /\ r.p = [p EXCEPT !.rrpv = Older(p.rrpv, cands, t)]
         /\ r.id \in Range(cands) /\ Older(p.rrpv, cands, t)[r.id] = RRPVMax
         /\ \A q \in 0..(t - 1) : \A c \in Range(cands) : Older(p.rrpv, cands, q)[c] # RRPVMax
  BY SRRIPIs
<1>2. r.p.rrpv = Older(p.rrpv, cands, t) /\ p.rrpv \in [Slots(n) -> 0..RRPVMax]
  BY <1>1 DEF SRRIPPolicies
<1>3. RRPVMax \in Nat
  BY DEF RRPVMax
<1>4. ASSUME NEW c \in Range(cands) PROVE p.rrpv[c] + t <= RRPVMax
  <2>1. c \in Slots(n)
    BY DEF Range
  <2>2. p.rrpv[c] \in 0..RRPVMax
    BY <1>2, <2>1
  <2>3. CASE t = 0
    BY <1>3, <2>2, <2>3
  <2>4. CASE t > 0
    <3>1. t - 1 \in 0..(t - 1) /\ t - 1 \in 0..RRPVMax
      BY <1>3, <2>4
    <3>2. Older(p.rrpv, cands, t - 1)[c] # RRPVMax
      BY <1>1, <3>1
    <3>3. p.rrpv[c] + (t - 1) < RRPVMax
      BY <2>1, <3>1, <3>2, OlderIs
    <3> QED
      BY <1>3, <2>2, <3>1, <3>3
  <2> QED
    BY <2>3, <2>4, <1>3
<1>5. ASSUME NEW i \in Slots(n)
      PROVE  r.p.rrpv[i] = IF i \in Range(cands) THEN p.rrpv[i] + t ELSE p.rrpv[i]
  <2>1. Older(p.rrpv, cands, t)[i] =
           IF i \in Range(cands)
           THEN IF p.rrpv[i] + t < RRPVMax THEN p.rrpv[i] + t ELSE RRPVMax
           ELSE p.rrpv[i]
    BY OlderIs
  <2>2. p.rrpv[i] \in Nat
    BY <1>2, <1>3
  <2>3. CASE i \in Range(cands)
    <3>1. p.rrpv[i] + t <= RRPVMax
      BY <1>4, <2>3
    <3> DEFINE v == p.rrpv[i] + t
    <3>2. v \in Nat /\ v <= RRPVMax
      BY <2>2, <3>1
    <3>3. r.p.rrpv[i] = IF v < RRPVMax THEN v ELSE RRPVMax
      BY <1>2, <2>1, <2>3
    <3> HIDE DEF v
    <3>4. r.p.rrpv[i] = v
      BY <1>3, <3>2, <3>3
    <3> QED
      BY <2>3, <3>4 DEF v
  <2>4. CASE i \notin Range(cands)
    BY <1>2, <2>1, <2>4
  <2> QED
    BY <2>3, <2>4
<1>6. t \in Nat
  BY <1>3
<1> QED
  BY <1>1, <1>2, <1>5, <1>6 DEF AgedBy

\* With the geometry, the sets stay the same.
LEMMA SetKept ==
    ASSUME SameGeometry, config.array = "SetAssoc"
    PROVE  Addrs' = Addrs /\ \A a \in Addrs : Probed(a)' = Probed(a)
<1>1. Addrs' = Addrs /\ Ways' = Ways /\ \A a : First(a)' = First(a)
  BY PlacesKept
<1>2. ASSUME NEW a \in Addrs PROVE Probed(a)' = Probed(a)
  <2>1. Probed(a) = {First(a) + w : w \in Ways} /\ Probed(a)' = {First(a)' + w : w \in Ways'}
    BY DEF Probed, SameGeometry
  <2> QED
    BY <1>1, <2>1
<1> QED
  BY <1>1, <1>2

\* A use makes a line younger; one that comes in would be distant in the next round.
Younger(p, q, i, n) ==
    /\ q.rrpv[i] = p.rrpv[i] \/ q.rrpv[i] = 0
    /\ \A j \in Slots(n) : j # i => q.rrpv[j] = p.rrpv[j]
Long(p, q, i, n) ==
    /\ q.rrpv[i] = RRPVMax - 1
    /\ \A j \in Slots(n) : j # i => q.rrpv[j] = p.rrpv[j]

\* update() does the one, replaced() and update() the other.
LEMMA SRRIPUses ==
    ASSUME NEW n \in Nat \ {0}, NEW p \in SRRIPPolicies(n), NEW i \in Slots(n)
    PROVE  Younger(p, Update(p, i), i, n) /\ Long(p, Update(Replaced(p, i), i), i, n)
<1>1. /\ p.kind = "SRRIP" /\ p.rrpv \in [Slots(n) -> 0..RRPVMax] /\ p.wasInserted \in [Slots(n) -> BOOLEAN]
      /\ RRPVMax - 1 \in 0..RRPVMax /\ 0 \in 0..RRPVMax
  BY DEF SRRIPPolicies, RRPVMax
<1>2. Younger(p, Update(p, i), i, n)
  <2> DEFINE w == [p.wasInserted EXCEPT ![i] = FALSE]
             z == [p.rrpv EXCEPT ![i] = 0]
  <2>1. Update(p, i) = IF p.wasInserted[i] THEN [p EXCEPT !.wasInserted = w] ELSE [p EXCEPT !.rrpv = z]
    BY <1>1 DEF Update, SRRIPUpdate
  <2>2. z[i] = 0 /\ \A j \in Slots(n) : j # i => z[j] = p.rrpv[j]
    BY <1>1
  <2> HIDE DEF w, z
  <2>3. Update(p, i).rrpv = IF p.wasInserted[i] THEN p.rrpv ELSE z
    BY <2>1 DEF SRRIPPolicies
  <2> QED
    BY <2>2, <2>3 DEF Younger
<1>3. Long(p, Update(Replaced(p, i), i), i, n)
  <2> DEFINE w == [p.wasInserted EXCEPT ![i] = TRUE]
             z == [p.rrpv EXCEPT ![i] = RRPVMax - 1]
             r == Replaced(p, i)
  <2>1. r = [p EXCEPT !.rrpv = z, !.wasInserted = w]
    BY <1>1 DEF Replaced, SRRIPReplaced
  <2>2. /\ z[i] = RRPVMax - 1 /\ (\A j \in Slots(n) : j # i => z[j] = p.rrpv[j])
        /\ w[i] = TRUE /\ z \in [Slots(n) -> 0..RRPVMax] /\ w \in [Slots(n) -> BOOLEAN]
    BY <1>1
  <2> HIDE DEF w, z
  <2>3. r \in SRRIPPolicies(n) /\ r.kind = "SRRIP" /\ r.rrpv = z /\ r.wasInserted = w
    BY <1>1, <2>1, <2>2 DEF SRRIPPolicies
  <2> HIDE DEF r
  <2> DEFINE y == [w EXCEPT ![i] = FALSE]
  <2>4. Update(r, i) = [r EXCEPT !.wasInserted = y]
    BY <2>2, <2>3 DEF Update, SRRIPUpdate
  <2> HIDE DEF y
  <2>5. Update(r, i).rrpv = z
    BY <2>3, <2>4 DEF SRRIPPolicies
  <2> QED
    BY <2>2, <2>5 DEF Long, r
<1> QED
  BY <1>2, <1>3

\* A hit makes a line with an address younger than it was.
LEMMA RRPVHit ==
    ASSUME ArraysInv, RRPVOK, SameGeometry, NEW i \in Lines, array[i] # 0, array' = array, pend' = NoInsertion,
           config.repl = "SRRIP" => Younger(rp, rp', i, config.lines)
    PROVE  RRPVOK'
<1> SUFFICES ASSUME config.array = "SetAssoc", config.repl = "SRRIP" PROVE RRPVOK'
  BY DEF RRPVOK, SameGeometry
<1>1. /\ Addrs' = Addrs /\ (\A a \in Addrs : Probed(a)' = Probed(a)) /\ ConfigOK(config)
      /\ \A a \in Addrs : Probed(a) \subseteq Lines
  BY SetKept, ProbedLines DEF ArraysInv, TablesInv
<1>2. /\ rp.rrpv \in [Lines -> 0..RRPVMax]
      /\ rp'.rrpv[i] = rp.rrpv[i] \/ rp'.rrpv[i] = 0
      /\ \A j \in Lines : j # i => rp'.rrpv[j] = rp.rrpv[j]
  BY SRRIPState DEF Younger
<1>3. RRPVMax - 1 > 0 /\ RRPVMax \in Nat
  BY DEF RRPVMax
<1>4. ASSUME NEW a \in Addrs, NEW j \in Probed(a), NEW k \in Probed(a), array[j] = 0
      PROVE  /\ rp'.rrpv[j] >= RRPVMax - 1
             /\ array[k] = 0 => rp'.rrpv[k] = rp'.rrpv[j]
             /\ array[k] # 0 => rp'.rrpv[k] < rp'.rrpv[j]
  <2>1. /\ rp.rrpv[j] >= RRPVMax - 1
        /\ array[k] = 0 => rp.rrpv[k] = rp.rrpv[j]
        /\ array[k] # 0 => rp.rrpv[k] < rp.rrpv[j]
    BY <1>4 DEF RRPVOK
  <2>2. j \in Lines /\ k \in Lines /\ j # i
    BY <1>1, <1>4
  <2>3. rp'.rrpv[j] = rp.rrpv[j] /\ rp.rrpv[j] \in Nat /\ rp.rrpv[k] \in Nat
    BY <1>2, <1>3, <2>2
  <2>4. CASE k # i
    BY <1>2, <2>1, <2>2, <2>3, <2>4
  <2>5. CASE k = i
    BY <1>2, <1>3, <2>1, <2>3, <2>5
  <2> QED
    BY <2>4, <2>5
<1> QED
  BY <1>1, <1>4 DEF RRPVOK

\* The victim was distant, so if lines without an address are left in its set, they
\* are distant, older than the line that comes in.
LEMMA RRPVPostinsert ==
    ASSUME ArraysInv, RRPVOK, SameGeometry, pend # NoInsertion, pend' = NoInsertion,
           array' = [array EXCEPT ![pend.id] = pend.addr],
           config.repl = "SRRIP" => Long(rp, rp', pend.id, config.lines)
    PROVE  RRPVOK'
<1> SUFFICES ASSUME config.array = "SetAssoc", config.repl = "SRRIP" PROVE RRPVOK'
  BY DEF RRPVOK, SameGeometry
<1> DEFINE i == pend.id
<1>1. /\ Addrs' = Addrs /\ (\A a \in Addrs : Probed(a)' = Probed(a)) /\ ConfigOK(config) /\ TagsOK
      /\ (\A a \in Addrs : Probed(a) \subseteq Lines) /\ (Addrs \subseteq Nat \ {0})
  BY SetKept, ProbedLines, AddrsNat DEF ArraysInv, TablesInv
<1>2. i \in Lines /\ pend.addr \in Addrs
  BY DEF ArraysInv, TablesInv, PendOK, Insertions
<1>3. /\ rp.rrpv \in [Lines -> 0..RRPVMax] /\ rp'.rrpv[i] = RRPVMax - 1
      /\ \A j \in Lines : j # i => rp'.rrpv[j] = rp.rrpv[j]
  BY SRRIPState DEF Long
<1>4. array'[i] # 0 /\ \A j \in Lines : j # i => array'[j] = array[j]
  BY <1>1, <1>2 DEF TagsOK
<1>5. RRPVMax - 1 > 0 /\ RRPVMax \in Nat /\ rp.rrpv[i] = RRPVMax
  BY DEF RRPVMax, RRPVOK
<1> HIDE DEF i
<1>6. ASSUME NEW a \in Addrs, NEW j \in Probed(a), NEW k \in Probed(a), array'[j] = 0
      PROVE  /\ rp'.rrpv[j] >= RRPVMax - 1
             /\ array'[k] = 0 => rp'.rrpv[k] = rp'.rrpv[j]
             /\ array'[k] # 0 => rp'.rrpv[k] < rp'.rrpv[j]
  <2>1. j \in Lines /\ k \in Lines /\ j # i
    BY <1>1, <1>4, <1>6
  <2>2. array'[j] = array[j] /\ rp'.rrpv[j] = rp.rrpv[j] /\ rp.rrpv[j] \in 0..RRPVMax /\ rp.rrpv[k] \in 0..RRPVMax
    BY <1>3, <1>4, <2>1
  <2>3. /\ rp.rrpv[j] >= RRPVMax - 1
        /\ array[k] = 0 => rp.rrpv[k] = rp.rrpv[j]
        /\ array[k] # 0 => rp.rrpv[k] < rp.rrpv[j]
    BY <1>6, <2>2 DEF RRPVOK
  <2>4. CASE k # i
    BY <1>3, <1>4, <2>1, <2>2, <2>3, <2>4
  <2>5. CASE k = i
    <3>1. rp.rrpv[j] = RRPVMax
      BY <1>5, <2>2, <2>3, <2>5
    <3> QED
      BY <1>3, <1>4, <1>5, <2>2, <2>5, <3>1
  <2> QED
    BY <2>4, <2>5
<1> QED
  BY <1>1, <1>6 DEF RRPVOK

\* Between preinsert() and postinsert() the victim stays distant.
LEMMA RRPVKept ==
    ASSUME RRPVOK, SameGeometry, array' = array, config.repl = "SRRIP" => rp' = rp,
           pend' = NoInsertion \/ (pend # NoInsertion /\ pend'.id = pend.id)
    PROVE  RRPVOK'
<1> SUFFICES ASSUME config.array = "SetAssoc", config.repl = "SRRIP" PROVE RRPVOK'
  BY DEF RRPVOK, SameGeometry
<1>1. Addrs' = Addrs /\ \A a \in Addrs : Probed(a)' = Probed(a)
  BY SetKept
<1> QED
  BY <1>1 DEF RRPVOK

\* The lines of the set age, and the victim has no address if there is such a line.
LEMMA RRPVPreinsert ==
    ASSUME ArraysInv, RRPVOK, SameGeometry, array' = array, config.array = "SetAssoc", config.repl = "SRRIP",
           NEW a \in Addrs, NEW r \in Rank(rp, a, Cands(a), line), rp' = r.p, pend'.id = r.id
    PROVE  /\ RRPVOK'
           /\ array[r.id] # 0 => \A i \in Range(Cands(a)) : array[i] # 0
<1> DEFINE P == Probed(a)
<1>1. /\ Addrs' = Addrs /\ (\A b \in Addrs : Probed(b)' = Probed(b)) /\ ConfigOK(config)
      /\ \A b \in Addrs : Probed(b) \subseteq Lines
  BY SetKept, ProbedLines DEF ArraysInv, TablesInv
<1>2. /\ config.lines \in Nat \ {0} /\ Slots(config.lines) = Lines
      /\ rp \in SRRIPPolicies(config.lines) /\ rp.kind = "SRRIP" /\ rp.rrpv \in [Lines -> 0..RRPVMax]
  BY SRRIPState
<1>3. Cands(a) \in Seq(Slots(config.lines)) /\ Len(Cands(a)) >= 1 /\ Distinct(Cands(a)) /\ Range(Cands(a)) = P
  BY <1>2, CandsOK, SetCands DEF ArraysInv, TablesInv
<1>4. r \in SRRIPRank(rp, Cands(a))
  BY <1>2 DEF Rank
<1>5. PICK t \in Nat : AgedBy(rp.rrpv, r.p.rrpv, P, t, r.id, config.lines)
  BY <1>2, <1>3, <1>4, SRRIPAges
<1>6. r.id \in P /\ rp'.rrpv[r.id] = RRPVMax /\ \A i \in Lines : rp'.rrpv[i] = IF i \in P THEN rp.rrpv[i] + t ELSE rp.rrpv[i]
  BY <1>2, <1>5 DEF AgedBy
<1>7. P \subseteq Lines /\ RRPVMax \in Nat /\ RRPVMax - 1 \in Nat
  BY <1>1 DEF RRPVMax
<1>8. ASSUME NEW b \in Addrs, NEW j \in Probed(b), NEW k \in Probed(b), array[j] = 0
      PROVE  /\ rp'.rrpv[j] >= RRPVMax - 1
             /\ array[k] = 0 => rp'.rrpv[k] = rp'.rrpv[j]
             /\ array[k] # 0 => rp'.rrpv[k] < rp'.rrpv[j]
  <2>1. j \in Lines /\ k \in Lines
    BY <1>1
  <2>2. /\ rp.rrpv[j] >= RRPVMax - 1
        /\ array[k] = 0 => rp.rrpv[k] = rp.rrpv[j]
        /\ array[k] # 0 => rp.rrpv[k] < rp.rrpv[j]
    BY <1>8 DEF RRPVOK
  <2>3. j \in P <=> k \in P
    BY <1>1, SetsApart
  <2>4. rp.rrpv[j] \in Nat /\ rp.rrpv[k] \in Nat
    BY <1>2, <1>7, <2>1
  <2>5. CASE j \in P
    <3>1. rp'.rrpv[j] = rp.rrpv[j] + t /\ rp'.rrpv[k] = rp.rrpv[k] + t
      BY <1>6, <2>1, <2>3, <2>5
    <3> QED
      BY <1>7, <2>2, <2>4, <3>1
  <2>6. CASE j \notin P
    <3>1. rp'.rrpv[j] = rp.rrpv[j] /\ rp'.rrpv[k] = rp.rrpv[k]
      BY <1>6, <2>1, <2>3, <2>6
    <3> QED
      BY <2>2, <3>1
  <2> QED
    BY <2>5, <2>6
<1>9. RRPVOK'
  BY <1>1, <1>6, <1>8 DEF RRPVOK
<1>10. ASSUME array[r.id] # 0, NEW i \in P, array[i] = 0 PROVE FALSE
  <2>1. rp.rrpv[r.id] < rp.rrpv[i]
    BY <1>6, <1>10 DEF RRPVOK
  <2>2. r.id \in Lines /\ i \in Lines
    BY <1>6, <1>7
  <2>3. rp'.rrpv[r.id] = rp.rrpv[r.id] + t /\ rp'.rrpv[i] = rp.rrpv[i] + t
    BY <1>6, <2>2
  <2>4. rp'.rrpv[i] <= RRPVMax
    <3>1. r.p \in SRRIPPolicies(config.lines)
      BY <1>2, <1>3, <1>4, SRRIPChoice
    <3>2. rp'.rrpv \in [Lines -> 0..RRPVMax]
      BY <1>2, <3>1 DEF SRRIPPolicies
    <3> QED
      BY <1>7, <2>2, <3>2
  <2>5. rp.rrpv[r.id] \in Nat /\ rp.rrpv[i] \in Nat
    BY <1>2, <1>7, <2>2
  <2> QED
    BY <1>6, <1>7, <2>1, <2>3, <2>4, <2>5
<1> QED
  BY <1>3, <1>9, <1>10

-----------------------------------------------------------------------------
(* What each policy chooses.                                               *)

\* The line with the smallest score is chosen, if scores are compared as they are.
LEMMA LRUSmallest ==
    ASSUME NEW p, NEW ln, NEW L, NEW cands \in Seq(L), Len(cands) >= 1, NEW r \in LRURank(p, cands, ln),
           \A c \in Range(cands) : Score(p, c, ln) \in Nat
    PROVE  r.id \in Range(cands) /\ \A c \in Range(cands) : Score(p, r.id, ln) <= Score(p, c, ln)
<1> DEFINE C == Range(cands)
           R == LRUBefore(p, cands, ln)
           Sc(c) == Score(p, c, ln)
           G == {b \in C : \A c \in C : Sc(b) <= Sc(c)}
           S == {Sc(c) : c \in C}
<1>1. r.id = Pick(cands, R)
  BY DEF LRURank, Chosen
<1>2. \A c, b \in C : <<c, b>> \in R <=> Sc(c) < Sc(b)
  BY DEF LRUBefore
<1>3. S \in SUBSET Nat /\ S # {}
  BY DEF Range
<1>4. PICK x \in S : \A y \in S : x <= y
  <2> HIDE DEF S
  <2> QED
    BY <1>3, NatLeast
<1>5. PICK u \in C : Sc(u) = x
  BY <1>4
<1>6. u \in G
  BY <1>4, <1>5
<1>7. \A c \in C : Sc(c) \in Nat
  OBVIOUS
<1> HIDE DEF Sc, R, S
<1>8. ASSUME NEW c \in C, NEW b \in C
      PROVE  (b \in G /\ <<c, b>> \in R => c \in G) /\ (c \in G /\ <<c, b>> \notin R => b \in G)
  <2>1. Sc(c) \in Nat /\ Sc(b) \in Nat /\ (<<c, b>> \in R <=> Sc(c) < Sc(b))
    BY <1>2, <1>7
  <2>2. b \in G => ~(Sc(c) < Sc(b))
    BY <2>1
  <2>3. ASSUME c \in G, Sc(b) <= Sc(c) PROVE b \in G
    <3>1. ASSUME NEW d \in C PROVE Sc(b) <= Sc(d)
      <4>1. Sc(c) <= Sc(d) /\ Sc(d) \in Nat
        BY <1>7, <2>3
      <4> QED
        BY <2>1, <2>3, <4>1
    <3> QED
      BY <3>1
  <2> QED
    BY <2>1, <2>2, <2>3
<1> HIDE DEF G
<1>9. Pick(cands, R) \in G
  BY <1>5, <1>6, <1>8, PickBest
<1> QED
  BY <1>1, <1>9 DEF G, Sc

\* What multiplies the timestamp in a score.
Weight(x) == IF config.repl = "LRU" THEN Cardinality(line[x].sharers) ELSE 0

\* No score is too large to be compared as it is; that of a line which is not
\* valid is 0.
LEMMA ScoreIs ==
    ASSUME ArraysInv, LinesOK, LRUOK, config.array # "IdealLRU", config.repl \in {"LRU", "LRUNoSh"}, NEW x \in Lines
    PROVE  /\ Weight(x) \in Nat /\ rp.timestamp \in Nat \ {0} /\ rp.array[x] \in Nat
           /\ ~line[x].valid => Score(rp, x, line) = 0
           /\ line[x].valid => /\ array[x] # 0 /\ rp.array[x] \in 1..(rp.timestamp - 1)
                               /\ Score(rp, x, line) = Weight(x) * rp.timestamp + rp.array[x]
<1> DEFINE K == Cardinality(config.children)
           T == rp.timestamp
           A == IF line[x].valid THEN rp.array[x] ELSE 0
<1>1. /\ rp \in LRUPolicies(config.lines) /\ Slots(config.lines) = Lines /\ ConfigOK(config) /\ K \in Nat
      /\ IsFiniteSet(config.children)
  BY LRUState, ChildrenFinite DEF ArraysInv, TablesInv, ConfigOK
<1>2. T \in Nat \ {0} /\ rp.array[x] \in Nat /\ rp.sharersAware = (config.repl = "LRU")
  BY <1>1 DEF LRUOK, LRUPolicies
<1>3. line[x].valid => array[x] # 0 /\ rp.array[x] \in 1..(T - 1)
  BY DEF LinesOK, LRUOK, Empty
<1>4. Weight(x) \in 0..K
  <2>1. line[x].sharers \in SUBSET config.children
    BY DEF LinesOK
  <2>2. Cardinality(line[x].sharers) \in 0..K
    <3>1. IsFiniteSet(line[x].sharers) /\ Cardinality(line[x].sharers) <= K
      BY <1>1, <2>1, FS_Subset
    <3>2. Cardinality(line[x].sharers) \in Nat
      BY <3>1, FS_CardinalityType
    <3> QED
      BY <1>1, <3>1, <3>2
  <2> QED
    BY <1>1, <2>2 DEF Weight
<1>5. Score(rp, x, line) = (Weight(x) * T + A) % ScoreValues
  BY <1>2 DEF Score, Weight
<1>6. ~line[x].valid => Weight(x) = 0
  <2> SUFFICES ASSUME ~line[x].valid PROVE Weight(x) = 0
    OBVIOUS
  <2>1. line[x].sharers = {}
    BY DEF LinesOK, Empty
  <2>2. Cardinality(line[x].sharers) = 0
    BY <2>1, FS_EmptySet
  <2> QED
    BY <2>2 DEF Weight
<1> DEFINE w == Weight(x)
<1>7. A \in 0..(T - 1)
  BY <1>2, <1>3
<1>8. ScoreValues \in Nat \ {0} /\ Now \in Nat /\ (K + 1) * (T + Now) <= ScoreValues
  BY <1>1, ReplacementAssumption DEF LRUOK, Now, ConfigOK
<1> HIDE DEF T, K, A, w
<1>9. w * T + A \in 0..(ScoreValues - 1)
  <2>1. w \in Nat /\ w < K + 1 /\ K + 1 \in Nat
    BY <1>1, <1>4 DEF w
  <2>2. w * T \in Nat /\ (K + 1) * T \in Nat /\ w * T + T <= (K + 1) * T
    BY <1>2, <2>1, Times
  <2>3. T \in Nat /\ T + Now \in Nat /\ T <= T + Now
    BY <1>2, <1>8
  <2>4. (K + 1) * T <= (K + 1) * (T + Now) /\ (K + 1) * (T + Now) \in Nat
    BY <2>1, <2>3, Monotone
  <2> DEFINE a == w * T
             b == (K + 1) * T
             d == (K + 1) * (T + Now)
  <2>5. a \in Nat /\ b \in Nat /\ d \in Nat /\ a + T <= b /\ b <= d /\ d <= ScoreValues
    BY <1>8, <2>2, <2>4
  <2> HIDE DEF a, b, d
  <2>6. a + A \in 0..(ScoreValues - 1)
    BY <1>2, <1>7, <1>8, <2>5
  <2> QED
    BY <2>6 DEF a
<1>10. Score(rp, x, line) = w * T + A
  <2> DEFINE s == w * T + A
  <2>1. s \in 0..(ScoreValues - 1) /\ Score(rp, x, line) = s % ScoreValues
    BY <1>5, <1>9 DEF w
  <2> HIDE DEF s
  <2>2. s % ScoreValues = s
    BY <1>8, <2>1
  <2> QED
    BY <2>1, <2>2 DEF s
<1>11. ~line[x].valid => Score(rp, x, line) = 0
  <2> SUFFICES ASSUME ~line[x].valid PROVE Score(rp, x, line) = 0
    OBVIOUS
  <2>1. w = 0 /\ A = 0
    BY <1>6 DEF w, A
  <2> QED
    BY <1>2, <1>10, <2>1
<1> QED
  BY <1>2, <1>3, <1>4, <1>10, <1>11, <1>1 DEF w, T, A, K

\* A smaller score means that a line should go sooner.
LEMMA SmallerSooner ==
    ASSUME ArraysInv, LinesOK, UsesOK, LRUOK, config.array # "IdealLRU", config.repl \in {"LRU", "LRUNoSh"},
           NEW i \in Lines, NEW j \in Lines, Score(rp, i, line) <= Score(rp, j, line)
    PROVE  Sooner(i, j)
<1> DEFINE T == rp.timestamp
           si == Weight(i)
           sj == Weight(j)
           ai == rp.array[i]
           aj == rp.array[j]
<1> SUFFICES ASSUME line[i].valid PROVE Sooner(i, j)
  BY DEF Sooner
<1>1. /\ si \in Nat /\ T \in Nat \ {0} /\ array[i] # 0 /\ ai \in 1..(T - 1) /\ Score(rp, i, line) = si * T + ai
  BY ScoreIs
<1>2. /\ sj \in Nat /\ (~line[j].valid => Score(rp, j, line) = 0)
      /\ line[j].valid => array[j] # 0 /\ aj \in 1..(T - 1) /\ Score(rp, j, line) = sj * T + aj
  BY ScoreIs
<1> HIDE DEF T, si, sj, ai, aj
<1>3. si * T \in Nat /\ sj * T \in Nat
  BY <1>1, <1>2
<1>4. line[j].valid
  BY <1>1, <1>2, <1>3
<1>5. ~(sj < si)
  <2> SUFFICES ASSUME sj < si PROVE FALSE
    OBVIOUS
  <2>1. sj * T + T <= si * T
    BY <1>1, <1>2, Times
  <2> DEFINE a == si * T
             b == sj * T
  <2>2. a \in Nat /\ b \in Nat /\ b + T <= a /\ a + ai <= b + aj /\ ai \in 1..(T - 1) /\ aj \in 1..(T - 1)
    BY <1>1, <1>2, <1>3, <1>4, <2>1
  <2> HIDE DEF a, b
  <2> QED
    BY <1>1, <2>2
<1>6. si < sj \/ (si = sj /\ ai <= aj)
  <2>1. CASE si = sj
    <3> DEFINE a == si * T
    <3>1. a \in Nat /\ a + ai <= a + aj /\ ai \in Nat /\ aj \in Nat
      BY <1>1, <1>2, <1>3, <1>4, <2>1
    <3> HIDE DEF a
    <3> QED
      BY <2>1, <3>1
  <2> QED
    BY <1>1, <1>2, <1>5, <2>1
<1>7. si = sj /\ ai <= aj => recent[array[i]] >= recent[array[j]]
  <2> SUFFICES ASSUME ai <= aj PROVE recent[array[i]] >= recent[array[j]]
    OBVIOUS
  <2>1. array[i] \in Addrs /\ array[j] \in Addrs
    BY <1>1, <1>2, <1>4 DEF ArraysInv, TablesInv, TagsOK
  <2>2. recent[array[i]] \in Nat /\ recent[array[j]] \in Nat
    BY <2>1 DEF UsesOK
  <2>3. ~(recent[array[i]] < recent[array[j]])
    <3> SUFFICES ASSUME recent[array[i]] < recent[array[j]] PROVE FALSE
      OBVIOUS
    <3>1. aj < ai
      BY <1>1, <1>2, <1>4 DEF LRUOK, ai, aj
    <3>2. ai \in Nat /\ aj \in Nat
      BY <1>1, <1>2, <1>4
    <3> QED
      BY <3>1, <3>2
  <2> QED
    BY <2>2, <2>3
<1> QED
  BY <1>4, <1>6, <1>7 DEF Sooner, Weight, si, sj

\* So LRU chooses the line that should go soonest.
LEMMA LRUVictim ==
    ASSUME ArraysInv, LinesOK, UsesOK, LRUOK, config.array # "IdealLRU", config.repl \in {"LRU", "LRUNoSh"},
           NEW a \in Addrs, NEW r \in Rank(rp, a, Cands(a), line)
    PROVE  r.p = rp /\ \A i \in Range(Cands(a)) : Sooner(r.id, i)
<1>1. rp.kind = "LRU" /\ Cands(a) \in Seq(Lines) /\ Len(Cands(a)) >= 1
  BY LRUState, CandsOK DEF ArraysInv, TablesInv
<1>2. r \in LRURank(rp, Cands(a), line)
  BY <1>1 DEF Rank
<1>3. Range(Cands(a)) \subseteq Lines
  BY <1>1 DEF Range
<1>4. \A c \in Range(Cands(a)) : Score(rp, c, line) \in Nat
  <2> TAKE c \in Range(Cands(a))
  <2>1. /\ Weight(c) \in Nat /\ rp.timestamp \in Nat \ {0} /\ rp.array[c] \in Nat
        /\ Score(rp, c, line) = 0 \/ Score(rp, c, line) = Weight(c) * rp.timestamp + rp.array[c]
    BY <1>3, ScoreIs
  <2>2. Weight(c) * rp.timestamp \in Nat
    BY <2>1
  <2> QED
    BY <2>1, <2>2
<1>5. r.id \in Range(Cands(a)) /\ \A c \in Range(Cands(a)) : Score(rp, r.id, line) <= Score(rp, c, line)
  BY <1>1, <1>2, <1>4, LRUSmallest
<1>6. \A i \in Range(Cands(a)) : Sooner(r.id, i)
  BY <1>3, <1>5, SmallerSooner
<1>7. r.p = rp
  BY <1>1, <1>2, LRUChoice
<1> QED
  BY <1>6, <1>7

\* The ideal array takes the end of its list.
LEMMA IdealVictim ==
    ASSUME ArraysInv, UsesOK, ListSorted, config.array = "IdealLRU",
           NEW a \in Addrs, NEW r \in Rank(rp, a, Cands(a), line)
    PROVE  /\ r.p = rp
           /\ \A i \in Lines :
                 array[r.id] = 0 \/ (array[i] # 0 /\ recent[array[r.id]] >= recent[array[i]])
<1> DEFINE e == lruList[Len(lruList)]
<1>1. /\ ConfigOK(config) /\ config.repl = "LRU" /\ TagsOK /\ ListOK(lruList) /\ Sorted(lruList)
      /\ (Addrs \subseteq Nat \ {0})
  BY AddrsNat DEF ArraysInv, TablesInv, ConfigOK, ListSorted
<1>2. lruList \in Seq(Lines) /\ Len(lruList) \in Nat /\ Len(lruList) >= 1 /\ e \in Lines
  BY <1>1 DEF ListOK
<1>3. Cands(a) = <<e>>
  BY <1>1 DEF Cands, Last
<1>4. rp.kind = "LRU"
  BY <1>1, LRUState
<1>5. Cands(a) \in Seq(Lines) /\ Len(Cands(a)) >= 1 /\ r \in LRURank(rp, Cands(a), line)
  BY <1>2, <1>3, <1>4 DEF Rank
<1>6. r.p = rp /\ r.id = e
  <2>1. r.id \in Range(Cands(a)) /\ r.p = rp
    BY <1>5, LRUChoice
  <2> QED
    BY <1>3, <2>1 DEF Range
<1>7. ASSUME NEW i \in Lines, array[e] # 0 PROVE array[i] # 0 /\ recent[array[e]] >= recent[array[i]]
  <2>1. PICK m \in 1..Len(lruList) : lruList[m] = i
    BY <1>1, <1>2 DEF ListOK
  <2>2. \A j \in Lines : array[j] # 0 => recent[array[j]] \in Nat
    BY <1>1 DEF TagsOK, UsesOK
  <2>3. CASE m = Len(lruList)
    BY <1>2, <1>7, <2>1, <2>2, <2>3
  <2>4. CASE m # Len(lruList)
    <3>1. m < Len(lruList) /\ Len(lruList) \in 1..Len(lruList)
      BY <1>2, <2>4
    <3>2. array[i] # 0 /\ recent[array[i]] < recent[array[e]]
      BY <1>1, <1>7, <2>1, <3>1 DEF Sorted
    <3>3. recent[array[i]] \in Nat /\ recent[array[e]] \in Nat
      BY <1>2, <1>7, <2>2, <3>2
    <3> QED
      BY <3>2, <3>3
  <2> QED
    BY <2>3, <2>4
<1> HIDE DEF e
<1> QED
  BY <1>6, <1>7

\* A line without an address is not valid, has no sharers, and was never accessed.
LEMMA LFUVictim ==
    ASSUME ArraysInv, LinesOK, LFUOK, config.repl = "LFU",
           NEW a \in Addrs, NEW r \in Rank(rp, a, Cands(a), line)
    PROVE  r.p = rp /\ (array[r.id] # 0 => \A i \in Range(Cands(a)) : array[i] # 0)
<1> DEFINE cands == Cands(a)
           G == {i \in Range(cands) : array[i] = 0}
           R == LFUBefore(rp, cands, line)
<1>1. rp.kind = "LFU" /\ cands \in Seq(Lines) /\ Len(cands) >= 1
  BY LFUState, CandsOK DEF ArraysInv, TablesInv
<1>2. r \in LFURank(rp, cands, line)
  BY <1>1 DEF Rank
<1>3. r.id = Pick(cands, R) /\ r.p = rp
  BY <1>2 DEF LFURank, Chosen
<1>4. Range(cands) \subseteq Lines
  BY <1>1 DEF Range
<1>5. \A i \in Range(cands) : /\ line[i].valid \in BOOLEAN /\ (array[i] = 0 <=> rp.array[i].acc = 0)
                              /\ array[i] = 0 \/ ~line[i].valid => ~line[i].valid /\ line[i].sharers = {}
  BY <1>4 DEF LinesOK, LFUOK, Empty
<1>6. ASSUME NEW c \in Range(cands), NEW b \in Range(cands)
      PROVE  (b \in G /\ <<c, b>> \in R => c \in G) /\ (c \in G /\ <<c, b>> \notin R => b \in G)
  <2> DEFINE shared == [i \in {b, c} |-> line[i].sharers # {}]
  <2>1. (shared[c] <=> line[c].sharers # {}) /\ (shared[b] <=> line[b].sharers # {})
    OBVIOUS
  <2>2. <<c, b>> \in R <=> LessUsed(rp, c, b, line)
    BY DEF LFUBefore
  <2>3. LessUsed(rp, c, b, line) <=>
           \/ ~line[c].valid /\ line[b].valid
           \/ /\ line[c].valid = line[b].valid
              /\ \/ ~shared[c] /\ shared[b]
                 \/ /\ shared[c] = shared[b]
                    /\ \/ rp.array[c].acc = 0
                       \/ rp.array[b].acc # 0 /\ InvFreq(rp, c) > InvFreq(rp, b)
    BY DEF LessUsed
  <2> HIDE DEF shared, R
  <2>4. shared[c] \in BOOLEAN /\ shared[b] \in BOOLEAN
    BY DEF shared
  <2>5. ASSUME b \in G, <<c, b>> \in R PROVE c \in G
    <3>1. ~line[b].valid /\ ~shared[b] /\ rp.array[b].acc = 0
      BY <1>5, <2>1, <2>5
    <3>2. rp.array[c].acc = 0
      BY <2>2, <2>3, <2>5, <3>1
    <3> QED
      BY <1>5, <3>2
  <2>6. ASSUME c \in G PROVE <<c, b>> \in R
    <3>1. ~line[c].valid /\ ~shared[c] /\ rp.array[c].acc = 0
      BY <1>5, <2>1, <2>6
    <3>2. line[b].valid \/ (~line[b].valid /\ ~shared[b])
      BY <1>5, <2>1
    <3>3. LessUsed(rp, c, b, line)
      <4>1. CASE line[b].valid
        BY <2>3, <3>1, <4>1
      <4>2. CASE ~line[b].valid /\ ~shared[b]
        <5>1. line[c].valid = line[b].valid /\ shared[c] = shared[b]
          BY <1>5, <2>4, <3>1, <4>2
        <5> QED
          BY <2>3, <3>1, <5>1
      <4> QED
        BY <3>2, <4>1, <4>2
    <3> QED
      BY <2>2, <3>3
  <2> QED
    BY <2>5, <2>6
<1>7. ASSUME NEW u \in Range(cands), array[u] = 0 PROVE array[r.id] = 0
  <2> HIDE DEF R
  <2>1. u \in G
    BY <1>7
  <2> HIDE DEF G, cands
  <2>2. Pick(cands, R) \in G
    BY <1>1, <1>6, <2>1, PickBest
  <2> QED
    BY <1>3, <2>2 DEF G
<1> QED
  BY <1>3, <1>7

\* CARE trusts no line less than one without an address.
LEMMA CareVictim ==
    ASSUME ArraysInv, CareInv, config.repl = "CARE",
           NEW a \in Addrs, NEW r \in Rank(rp, a, Cands(a), line)
    PROVE  array[r.id] # 0 => \A i \in Range(Cands(a)) : array[i] # 0
<1> DEFINE cands == Cands(a)
           G == {i \in Range(cands) : rp.rc[i] = 0}
           R == CareBefore(rp, cands)
<1>1. /\ rp.kind = "CARE" /\ cands \in Seq(Lines) /\ Len(cands) >= 1 /\ Slots(config.lines) = Lines
      /\ rp \in CarePolicies(config.lines)
  BY CareState, CandsOK DEF ArraysInv, TablesInv
<1>2. r \in CareRank(rp, a, cands)
  BY <1>1 DEF Rank
<1>3. r.id = Pick(cands, R)
  BY <1>2 DEF CareRank, Chosen
<1>4. Range(cands) \subseteq Lines
  BY <1>1 DEF Range
<1>5. \A i \in Range(cands) : rp.epv[i] = ComputeEPV(rp.rc[i], rp.pd[i]) /\ (array[i] = 0 <=> rp.rc[i] = 0)
                              /\ rp.rc[i] \in Nat
  BY <1>1, <1>4 DEF CareInv, EPVOK, CarePolicies
<1>6. \A i \in Range(cands) : /\ rp.epv[i] \in 0..3 /\ (rp.rc[i] = 0 => rp.epv[i] = 3)
                              /\ rp.rc[i] # 0 => rp.epv[i] <= 2
  BY <1>5 DEF ComputeEPV, CareMax
<1>7. ASSUME NEW c \in Range(cands), NEW b \in Range(cands)
      PROVE  (b \in G /\ <<c, b>> \in R => c \in G) /\ (c \in G /\ <<c, b>> \notin R => b \in G)
  <2>1. <<c, b>> \in R <=> CareBetter(rp, c, b)
    BY DEF CareBefore
  <2> HIDE DEF R
  <2>2. ASSUME b \in G, <<c, b>> \in R PROVE c \in G
    BY <1>5, <1>6, <2>1, <2>2 DEF CareBetter
  <2>3. ASSUME c \in G, <<c, b>> \notin R PROVE b \in G
    BY <1>5, <1>6, <2>1, <2>3 DEF CareBetter
  <2> QED
    BY <2>2, <2>3
<1>8. ASSUME NEW u \in Range(cands), array[u] = 0 PROVE array[r.id] = 0
  <2> HIDE DEF R
  <2>1. u \in G
    BY <1>5, <1>8
  <2> HIDE DEF G, cands
  <2>2. Pick(cands, R) \in G
    BY <1>1, <1>7, <2>1, PickBest
  <2> QED
    BY <1>3, <1>5, <2>2 DEF G
<1> QED
  BY <1>8

-----------------------------------------------------------------------------
(* The invariant of the victims.                                           *)

\* What the victims depend on: states of lines, history, and each policy's order.
VictimInv == LinesOK /\ UsesOK /\ ListSorted /\ LRUOK /\ LFUOK /\ RRPVOK

\* It holds at the start, if scores are going to fit.
LEMMA VictimInit == ASSUME ScoresFit, ArraysInit PROVE VictimInv
<1> DEFINE n == config.lines
<1>1. /\ config \in Configs /\ array = [i \in Lines |-> 0] /\ lruList = [i \in 1..n |-> n - i]
      /\ rp = NewPolicy(config.repl, n) /\ line = [i \in Lines |-> Empty] /\ pend = NoInsertion
      /\ recent = [a \in Addrs |-> config.accesses]
  BY DEF ArraysInit
<1>2. ArraysInv /\ ConfigOK(config)
  BY <1>1, InitInv, CacheArraysAssumption
<1>3. n \in Nat \ {0} /\ Slots(n) = Lines /\ config.accesses \in Nat /\ Now = config.accesses
  BY <1>1, <1>2, SetsOK, SlotsLines DEF ConfigOK, Now
<1>4. \A i \in Lines : array[i] = 0
  BY <1>1
<1>5. LinesOK
  <2>1. Empty \in [valid : BOOLEAN, sharers : SUBSET config.children]
    BY EmptyState DEF States
  <2> QED
    BY <1>1, <2>1 DEF LinesOK
<1>6. UsesOK
  BY <1>1, <1>3 DEF UsesOK
<1>7. ListSorted
  <2>1. Len(lruList) = n /\ \A m \in 1..n : lruList[m] = n - m /\ lruList[m] \in Lines
    BY <1>1, <1>3 DEF Lines
  <2>2. Distinct(lruList)
    BY <1>3, <2>1 DEF Distinct
  <2> QED
    BY <1>4, <2>1, <2>2 DEF ListSorted, Sorted
<1>8. LRUOK
  <2> SUFFICES ASSUME config.repl \in {"LRU", "LRUNoSh"} PROVE LRUOK
    BY DEF LRUOK
  <2>1. rp = LRUNew(n, config.repl = "LRU")
    BY <1>1 DEF NewPolicy
  <2>2. rp.sharersAware = (config.repl = "LRU") /\ rp.timestamp = 1
    BY <2>1 DEF LRUNew
  <2>3. (Cardinality(config.children) + 1) * (1 + config.accesses) <= ScoreValues
    <3>1. (Cardinality(config.children) + 1) * (config.accesses + 1) <= ScoreValues
      BY <1>1 DEF ScoresFit
    <3>2. config.accesses + 1 = 1 + config.accesses
      BY <1>3
    <3> QED
      BY <3>1, <3>2
  <2>4. (Cardinality(config.children) + 1) * (rp.timestamp + Now) <= ScoreValues
    BY <1>3, <2>2, <2>3
  <2>5. rp.timestamp >= 1
    BY <2>2
  <2> QED
    BY <1>4, <2>2, <2>4, <2>5 DEF LRUOK
<1>9. LFUOK
  <2> SUFFICES ASSUME config.repl = "LFU" PROVE LFUOK
    BY DEF LFUOK
  <2>1. rp.array = [i \in Slots(n) |-> [ts |-> 0, acc |-> 0]]
    BY <1>1 DEF NewPolicy, LFUNew, Slots
  <2>2. \A i \in Lines : rp.array[i].acc = 0
    BY <1>3, <2>1
  <2> QED
    BY <1>4, <2>2 DEF LFUOK
<1>10. RRPVOK
  <2> SUFFICES ASSUME config.repl = "SRRIP" PROVE RRPVOK
    BY DEF RRPVOK
  <2>1. rp.rrpv = [i \in Slots(n) |-> RRPVMax - 1]
    BY <1>1 DEF NewPolicy, SRRIPNew, Slots
  <2>2. \A i \in Lines : rp.rrpv[i] = RRPVMax - 1
    BY <1>3, <2>1
  <2>3. \A a \in Addrs : Probed(a) \subseteq Lines
    BY <1>2, ProbedLines DEF ArraysInv, TablesInv
  <2>4. RRPVMax - 1 >= RRPVMax - 1
    BY DEF RRPVMax
  <2>5. \A a \in Addrs : \A i \in Probed(a) : array[i] = 0 /\ rp.rrpv[i] = RRPVMax - 1
    BY <1>4, <2>2, <2>3
  <2> QED
    BY <1>1, <2>4, <2>5 DEF RRPVOK
<1> QED
  BY <1>5, <1>6, <1>7, <1>8, <1>9, <1>10 DEF VictimInv

\* What uses no line and chooses none.
LEMMA VictimOthers ==
    ASSUME ArraysInv, VictimInv, LinesOK', Counted \/ UNCHANGED config,
           pend # NoInsertion \/ pend' = NoInsertion \/ Counted,
           pend' = NoInsertion \/ (pend # NoInsertion /\ pend'.id = pend.id),
           UNCHANGED <<array, lruList, recent>>, config.repl # "CARE" => rp' = rp
    PROVE  VictimInv'
<1>1. SameGeometry /\ Passes /\ ConfigOK(config)
  BY OthersPass DEF ArraysInv, TablesInv
<1>2. LinesOK /\ UsesOK /\ ListSorted /\ LRUOK /\ LFUOK /\ RRPVOK
  BY DEF VictimInv
<1>3. /\ config.repl \in {"LRU", "LRUNoSh"} => rp' = rp
      /\ config.repl = "LFU" => rp' = rp
      /\ config.repl = "SRRIP" => rp' = rp
  OBVIOUS
<1>4. UsesOK'
  BY <1>1, <1>2, UsesKept
<1>5. ListSorted'
  BY <1>1, <1>2, SortedKept
<1>6. LRUOK'
  BY <1>1, <1>2, <1>3, LRUKept
<1>7. LFUOK'
  BY <1>1, <1>2, <1>3, LFUKept
<1>8. RRPVOK'
  BY <1>1, <1>2, <1>3, RRPVKept
<1> QED
  BY <1>4, <1>5, <1>6, <1>7, <1>8 DEF VictimInv

\* A lookup that finds a line.
LEMMA VictimHit ==
    ASSUME ArraysInv, VictimInv, LinesOK', NEW k, NEW a \in Addrs, NEW excl, Hit(k, a, excl)
    PROVE  VictimInv'
<1> USE DEF VictimInv
<1>1. SameGeometry /\ Passes /\ ConfigOK(config) /\ config.lines \in Nat \ {0} /\ Slots(config.lines) = Lines
  BY HitUses, SetsOK, SlotsLines DEF ArraysInv, TablesInv
<1>2. PICK i \in Lines : Used(i, a) /\ array[i] = a /\ rp' = Touch(rp, i) /\ lruList' = MoveToFront(lruList, i)
  BY HitUses
<1>3. array' = array /\ pend' = NoInsertion
  BY DEF Hit
<1>4. array[i] # 0
  BY <1>1, <1>2, AddrsNat
<1>5. UsesOK'
  BY <1>1, <1>2, UsesKept
<1>6. ListSorted'
  BY <1>1, <1>2, ListUse
<1>7. config.array # "IdealLRU" => rp' = Update(rp, i)
  BY <1>2 DEF Touch
<1>8. LRUOK'
  <2> SUFFICES ASSUME config.array # "IdealLRU", config.repl \in {"LRU", "LRUNoSh"} PROVE LRUOK'
    BY <1>1 DEF LRUOK, SameGeometry
  <2>1. Aged(rp, rp', i)
    BY <1>1, <1>2, <1>7, LRUState, LRUAged
  <2> QED
    BY <1>1, <1>2, <2>1, LRUUse
<1>9. LFUOK'
  <2>1. config.repl = "LFU" => Accessed(rp, rp', i, config.lines)
    BY <1>1, <1>7, LFUState, LFUAccessed
  <2> QED
    BY <1>1, <1>2, <2>1, LFUUse
<1>10. RRPVOK'
  <2>1. config.repl = "SRRIP" => Younger(rp, rp', i, config.lines)
    <3> SUFFICES ASSUME config.repl = "SRRIP" PROVE Younger(rp, rp', i, config.lines)
      OBVIOUS
    <3>1. config.array # "IdealLRU"
      BY <1>1 DEF ConfigOK
    <3>2. rp \in SRRIPPolicies(config.lines)
      BY SRRIPState
    <3>3. Younger(rp, Update(rp, i), i, config.lines)
      BY <1>1, <3>2, SRRIPUses
    <3> QED
      BY <1>7, <3>1, <3>3
  <2> QED
    BY <1>1, <1>3, <1>4, <2>1, RRPVHit
<1> QED
  BY <1>5, <1>6, <1>8, <1>9, <1>10

\* A line comes in.
LEMMA VictimPostinsert ==
    ASSUME ArraysInv, VictimInv, LinesOK', NEW k, Postinsert(k)
    PROVE  VictimInv'
<1> USE DEF VictimInv
<1> DEFINE i == pend.id
           a == pend.addr
<1>1. SameGeometry /\ Passes /\ ConfigOK(config) /\ config.lines \in Nat \ {0} /\ Slots(config.lines) = Lines
  BY PostinsertUses, SetsOK, SlotsLines DEF ArraysInv, TablesInv
<1>2. /\ pend # NoInsertion /\ pend' = NoInsertion /\ Used(i, a) /\ rp' = Inserted(rp, i)
      /\ lruList' = MoveToFront(lruList, i)
  BY PostinsertUses
<1>3. i \in Lines /\ array' = [array EXCEPT ![i] = a]
  BY <1>2 DEF Used
<1>4. RRPVOK'
  <2>1. config.repl = "SRRIP" => Long(rp, rp', i, config.lines)
    <3> SUFFICES ASSUME config.repl = "SRRIP" PROVE Long(rp, rp', i, config.lines)
      OBVIOUS
    <3>1. config.array # "IdealLRU"
      BY <1>1 DEF ConfigOK
    <3>2. rp \in SRRIPPolicies(config.lines)
      BY SRRIPState
    <3>3. Long(rp, Update(Replaced(rp, i), i), i, config.lines)
      BY <1>1, <1>3, <3>2, SRRIPUses
    <3> QED
      BY <1>2, <3>1, <3>3 DEF Inserted
  <2> QED
    BY <1>1, <1>2, <1>3, <2>1, RRPVPostinsert
<1> HIDE DEF i, a
<1>5. UsesOK'
  BY <1>1, <1>2, UsesKept
<1>6. ListSorted'
  BY <1>1, <1>2, ListUse
<1>7. config.array # "IdealLRU" => rp' = Update(Replaced(rp, i), i)
  BY <1>2 DEF Inserted
<1>8. LRUOK'
  <2> SUFFICES ASSUME config.array # "IdealLRU", config.repl \in {"LRU", "LRUNoSh"} PROVE LRUOK'
    BY <1>1 DEF LRUOK, SameGeometry
  <2>1. Aged(rp, rp', i)
    BY <1>1, <1>3, <1>7, LRUState, LRUAged
  <2> QED
    BY <1>1, <1>2, <2>1, LRUUse
<1>9. LFUOK'
  <2>1. config.repl = "LFU" => Accessed(rp, rp', i, config.lines)
    BY <1>1, <1>3, <1>7, LFUState, LFUAccessed
  <2> QED
    BY <1>1, <1>2, <2>1, LFUUse
<1> QED
  BY <1>4, <1>5, <1>6, <1>8, <1>9

\* What preinsert() leaves of the policy, and the line that it chooses.
LEMMA VictimChosen ==
    ASSUME ArraysInv, CareInv, VictimInv, SameGeometry, array' = array,
           NEW a \in Addrs, NEW r \in Rank(rp, a, Cands(a), line), rp' = r.p,
           pend = NoInsertion, pend'.id = r.id, pend'.addr = a
    PROVE  GoodChoice /\ RRPVOK' /\ (config.repl \in {"LRU", "LRUNoSh", "LFU"} => rp' = rp)
<1> USE DEF VictimInv
<1>1. config.array = "IdealLRU" => config.repl = "LRU"
  BY DEF ArraysInv, TablesInv, ConfigOK
<1>2. ASSUME config.array = "IdealLRU"
      PROVE  /\ rp' = rp
             /\ \A i \in Lines : array[r.id] = 0 \/ (array[i] # 0 /\ recent[array[r.id]] >= recent[array[i]])
  BY <1>2, IdealVictim
<1>3. ASSUME config.array # "IdealLRU", config.repl \in {"LRU", "LRUNoSh"}
      PROVE  rp' = rp /\ \A i \in Range(Cands(a)) : Sooner(r.id, i)
  BY <1>3, LRUVictim
<1>4. ASSUME config.repl = "LFU"
      PROVE  rp' = rp /\ (array[r.id] # 0 => \A i \in Range(Cands(a)) : array[i] # 0)
  BY <1>4, LFUVictim
<1>5. ASSUME config.array = "SetAssoc", config.repl = "SRRIP"
      PROVE  RRPVOK' /\ (array[r.id] # 0 => \A i \in Range(Cands(a)) : array[i] # 0)
  BY <1>5, RRPVPreinsert
<1>6. ASSUME config.repl = "CARE"
      PROVE  array[r.id] # 0 => \A i \in Range(Cands(a)) : array[i] # 0
  BY <1>6, CareVictim
<1>7. GoodChoice
  <2>1. pend'.id = r.id /\ pend'.addr = a
    OBVIOUS
  <2>2. CASE config.array = "IdealLRU"
    BY <1>2, <2>1, <2>2 DEF GoodChoice
  <2>3. CASE config.array # "IdealLRU" /\ config.repl \in {"LRU", "LRUNoSh"}
    BY <1>3, <2>1, <2>3 DEF GoodChoice
  <2>4. CASE config.array = "SetAssoc" /\ config.repl \in {"LFU", "SRRIP", "CARE"}
    <3>1. array[r.id] # 0 => \A i \in Range(Cands(a)) : array[i] # 0
      BY <1>4, <1>5, <1>6, <2>4
    <3> QED
      BY <2>1, <2>4, <3>1 DEF GoodChoice
  <2>5. CASE /\ config.array # "IdealLRU" /\ config.repl \notin {"LRU", "LRUNoSh"}
             /\ ~(config.array = "SetAssoc" /\ config.repl \in {"LFU", "SRRIP", "CARE"})
    BY <2>5 DEF GoodChoice
  <2> QED
    BY <2>2, <2>3, <2>4, <2>5
<1>8. RRPVOK'
  <2>1. ~(config.array = "SetAssoc" /\ config.repl = "SRRIP") => RRPVOK'
    BY DEF RRPVOK, SameGeometry
  <2> QED
    BY <1>5, <2>1
<1> QED
  BY <1>1, <1>2, <1>3, <1>4, <1>7, <1>8

\* A victim is chosen.
LEMMA VictimPreinsert ==
    ASSUME ArraysInv, CareInv, VictimInv, LinesOK', NEW a \in Addrs, Preinsert(a)
    PROVE  GoodChoice /\ VictimInv'
<1> USE DEF VictimInv
<1>1. Counted /\ pend = NoInsertion /\ UNCHANGED <<array, lookupArray, lruList, line, misses, recent>>
  BY DEF Preinsert
<1>2. SameGeometry /\ Passes /\ ConfigOK(config)
  BY <1>1, OthersPass DEF ArraysInv, TablesInv
<1>3. PICK r \in Rank(rp, a, Cands(a), line) :
         rp' = r.p /\ pend' = [addr |-> a, id |-> r.id, swaps |-> Swaps(a, r.id), evicted |-> FALSE]
  BY DEF Preinsert
<1>4. pend'.id = r.id /\ pend'.addr = a
  BY <1>3
<1>5. GoodChoice /\ RRPVOK' /\ (config.repl \in {"LRU", "LRUNoSh", "LFU"} => rp' = rp)
  BY <1>1, <1>2, <1>3, <1>4, VictimChosen
<1>6. UsesOK'
  BY <1>1, <1>2, UsesKept
<1>7. ListSorted'
  BY <1>1, <1>2, SortedKept
<1>8. LRUOK'
  BY <1>1, <1>2, <1>5, LRUKept
<1>9. LFUOK'
  BY <1>1, <1>2, <1>5, LFUKept
<1> QED
  BY <1>5, <1>6, <1>7, <1>8, <1>9

\* Every step keeps the invariant, and chooses as it should.
LEMMA VictimNext ==
    ASSUME ArraysInv, CareInv, VictimInv, [ArraysNext]_arrayVars
    PROVE  VictimInv' /\ [GoodChoice]_arrayVars
<1>1. LinesOK'
  BY LinesNext DEF VictimInv
<1>2. ASSUME pend # NoInsertion \/ pend' = NoInsertion PROVE GoodChoice
  BY <1>2 DEF GoodChoice
<1>3. CASE \E k \in config.children, a \in Addrs, excl \in BOOLEAN : Hit(k, a, excl)
  <2>1. pend' = NoInsertion
    BY <1>3 DEF Hit
  <2> QED
    BY <1>1, <1>2, <1>3, <2>1, VictimHit
<1>4. CASE \E k \in config.children, a \in Addrs : Put(k, a)
  <2>1. Counted /\ pend = NoInsertion /\ UNCHANGED <<array, lruList, rp, pend, recent>>
    BY <1>4 DEF Put
  <2> QED
    BY <1>1, <1>2, <2>1, VictimOthers
<1>5. CASE \E i \in Lines : Invalidate(i)
  <2>1. Counted /\ UNCHANGED <<array, lruList, rp, pend, recent>>
    BY <1>5 DEF Invalidate
  <2> QED
    BY <1>1, <1>2, <2>1, VictimOthers
<1>6. CASE \E a \in Addrs : Preinsert(a)
  BY <1>1, <1>6, VictimPreinsert
<1>7. CASE Evict
  <2>1. /\ pend # NoInsertion /\ UNCHANGED <<config, array, lruList, rp, recent>>
        /\ pend' = [pend EXCEPT !.evicted = TRUE]
    BY <1>7 DEF Evict
  <2>2. pend'.id = pend.id
    <3>1. pend \in Insertions
      BY <2>1 DEF ArraysInv, TablesInv, PendOK
    <3> QED
      BY <2>1, <3>1 DEF Insertions
  <2> QED
    BY <1>1, <1>2, <2>1, <2>2, VictimOthers
<1>8. CASE \E k \in config.children : Postinsert(k)
  <2>1. pend' = NoInsertion
    BY <1>8 DEF Postinsert
  <2> QED
    BY <1>1, <1>2, <1>8, <2>1, VictimPostinsert
<1>9. CASE \E m \in misses, pmc \in config.costs : MissServed(m, pmc)
  <2>1. UNCHANGED <<config, array, lruList, pend, recent>> /\ misses # {}
    BY <1>9 DEF MissServed
  <2>2. config.repl = "CARE"
    BY <2>1 DEF ArraysInv, PolicyInv
  <2>3. pend # NoInsertion \/ pend' = NoInsertion
    BY <2>1
  <2> QED
    BY <1>1, <1>2, <2>1, <2>2, <2>3, VictimOthers
<1>10. CASE UNCHANGED arrayVars
  <2>1. UNCHANGED <<config, array, lruList, rp, pend, recent>>
    BY <1>10 DEF arrayVars
  <2>2. pend # NoInsertion \/ pend' = NoInsertion
    BY <2>1
  <2> QED
    BY <1>1, <1>2, <2>1, <2>2, VictimOthers
<1> QED
  BY <1>3, <1>4, <1>5, <1>6, <1>7, <1>8, <1>9, <1>10 DEF ArraysNext

\* GoodVictim: after any sequence of lookups, insertions, invalidations and
\* evictions, LRU chooses an invalid candidate, or one with the fewest sharers and of
\* those the one not used for longest, the ideal array the line not used for longest
\* of all, and LFU, SRRIP and CARE no line with an address while the set has one
\* without; provided that the scores of LRU fit in their 32 bits.
THEOREM VictimSafety ==
    ASSUME ScoresFit
    PROVE  ArraysSpec => GoodVictim
<1>1. ArraysInit => CareInv /\ VictimInv
  BY CareInit, VictimInit
<1>2. ArraysInv /\ CareInv /\ VictimInv /\ [ArraysNext]_arrayVars =>
         CareInv' /\ VictimInv' /\ [GoodChoice]_arrayVars
  BY CareNext, VictimNext
<1> QED
  BY <1>1, <1>2, ArraysInvariant, PTL DEF ArraysSpec, GoodVictim

=============================================================================
