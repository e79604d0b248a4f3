-------------------------- MODULE SchedulerProofs ---------------------------
(***************************************************************************)
(* Scheduler keeps its inductive invariant, in three layers, and with it   *)
(* the properties that the runs check on small instances: for every set of *)
(* threads, number of contexts, processor mask, barrier width and quantum. *)
(* First the invariant and what each of the state changes the handlers are *)
(* made of does to it, then the handlers, then the theorems.               *)
(***************************************************************************)
EXTENDS Scheduler, FiniteSetTheorems, SequenceTheorems, WellFoundedInduction, TLAPS

-----------------------------------------------------------------------------
(* Every set of natural numbers that is not empty has a least element: the *)
(* proofs take it where others go by induction.                            *)

Less == {ss \in Nat \X Nat : ss[1] < ss[2]}

\* There is no infinite descent in the natural numbers.
LEMMA LessWellFounded == IsWellFoundedOn(Less, Nat)
BY NatLessThanWellFounded, Zenon DEF OpToRel, Less

\* Min is the least element, which the arguments about the first entry of some
\* kind need.
LEMMA NatMin ==
    ASSUME NEW S \in SUBSET Nat, S # {}
    PROVE  Min(S) \in S /\ \A y \in S : Min(S) <= y
<1>1. PICK x \in S : \A y \in S : <<y, x>> \notin Less
  BY LessWellFounded, WFMin
<1>2. \A y \in S : x <= y
  <2> TAKE y \in S
  <2>1. <<y, x>> \in Nat \X Nat
    OBVIOUS
  <2>2. ~ (y < x)
    BY <1>1, <2>1 DEF Less
  <2> QED
    BY <2>2
<1> QED
  BY <1>2 DEF Min

-----------------------------------------------------------------------------
(* The inductive invariant, in three layers.  The first two are about a    *)
(* record s of scheduler fields, not about sch, because a handler passes   *)
(* through several records before it assigns sch'.                         *)

States == {"none", "STARTED", "RUNNING", "OUT", "BLOCKED", "SLEEPING", "QUEUED"}
Places == {"off", "ready", "sim", "marked", "asleep", "joining", "syncing",
           "handoff", "queued", "leaving", "finishing", "finished", "dead"}

Pids == {Pid[g] : g \in Gids}

SchType ==
    [state : [Gids -> States], cid : [Gids -> Cids],
     handoff : [Gids -> Gids \cup {None}], futexWord : [Gids -> {0, 1}],
     marked : [Gids -> BOOLEAN], sleep : [Gids -> Int],
     fakePc : [Gids -> Pcs \cup {None}],
     curThread : [Cids -> Gids \cup {None}],
     freeList : Seq(Cids), runQueue : Seq(Gids), outQueue : Seq(Gids),
     sleepQueue : Seq(Gids), fakeLeaves : Seq(Gids),
     blacklist : SUBSET (Pids \X Pcs), phase : Nat]

\* A context is used by exactly the RUNNING or OUT thread that holds its cid.
CtxInv(s) ==
    \A c \in Cids, g \in Gids :
        s.curThread[c] = g <=> s.state[g] \in {"RUNNING", "OUT"} /\ s.cid[g] = c

\* The free list has exactly the idle contexts.
FreeInv(s) ==
    /\ ToSet(s.freeList) = {c \in Cids : s.curThread[c] = None}
    /\ IsInjective(s.freeList)

OutInv(s) == ToSet(s.outQueue) = {g \in Gids : s.state[g] = "OUT"}

\* A thread waits in the run queue only while each context it may use is RUNNING.
RunInv(s) ==
    \A g \in ToSet(s.runQueue) :
        /\ s.state[g] = "QUEUED"
        /\ \A c \in Mask[g] : s.curThread[c] # None /\ s.state[s.curThread[c]] = "RUNNING"

SleepInv(s) == \A g \in ToSet(s.sleepQueue) : s.state[g] = "SLEEPING"

\* The thread a handoff is promised to is QUEUED, has left the run queue, and
\* is promised one context only.
HandInv(s) ==
    \A g \in Gids : s.handoff[g] # None =>
        /\ s.state[s.handoff[g]] = "QUEUED" /\ s.handoff[g] \notin ToSet(s.runQueue)
        /\ \A h \in Gids : s.handoff[h] = s.handoff[g] => h = g

SchInv(s) ==
    /\ s \in SchType
    /\ CtxInv(s) /\ FreeInv(s) /\ OutInv(s) /\ RunInv(s) /\ SleepInv(s) /\ HandInv(s)

\* What the place of a host thread says about its state.
InSim == {"sim", "marked", "joining", "syncing", "handoff"}
PlaceInv(s, a) ==
    \A g \in Gids :
        /\ a[g] \in InSim => s.state[g] = "RUNNING"
        /\ a[g] = "handoff" => s.handoff[g] # None
        /\ a[g] = "marked" => s.marked[g]
        /\ a[g] = "asleep" => s.state[g] \in {"SLEEPING", "BLOCKED"}
        /\ a[g] = "off" => s.state[g] = "none"
        /\ a[g] = "queued" => s.state[g] \in {"QUEUED", "RUNNING"}
        /\ a[g] = "queued" /\ s.futexWord[g] = 0 => s.state[g] = "RUNNING"
        /\ s.fakePc[g] # None => s.state[g] = "RUNNING" /\ a[g] \in {"ready", "dead"}

FakeInv(s) == \A g \in ToSet(s.fakeLeaves) : s.fakePc[g] # None

\* While the watchdog is about to leave for a thread, nobody else touches it.
WdType == [pc : {"idle", "leave", "next", "cleanup"}, th : Gids \cup {None},
           pid : Pids \cup {None}, at : Pcs \cup {None}]
WdInv(s, a, w) ==
    /\ w \in WdType
    /\ w.pc = "leave" =>
         /\ w.th \in Gids /\ s.state[w.th] = "RUNNING"
         /\ a[w.th] \in {"ready", "dead"} /\ s.fakePc[w.th] = None
    /\ w.pc \in {"leave", "next"} => w.pid \in Pids /\ "stall" \in Features

RestInv(s, a, w) == FakeInv(s) /\ PlaceInv(s, a) /\ WdInv(s, a, w)

Inv1 ==
    /\ SchInv(sch) /\ RestInv(sch, at, wd)
    /\ bar \in [Cids -> {"out", "waiting", "running", "done"}]
    /\ at \in [Gids -> Places]

BarInv(s, b) ==
    \A c \in Cids : b[c] = "out" <=> s.curThread[c] = None \/ s.state[s.curThread[c]] = "OUT"
RunningInv(s, b, a) ==
    \A g \in Gids : s.state[g] = "RUNNING" /\ a[g] \notin {"joining", "syncing"}
                      => b[s.cid[g]] = "running"
JoiningInv(s, b, a) ==
    \A g \in Gids : a[g] = "joining" => b[s.cid[g]] \in {"waiting", "running"}

Inv2 == BarInv(sch, bar) /\ RunningInv(sch, bar, at) /\ JoiningInv(sch, bar, at)

NoRepeats(s) == /\ IsInjective(s.runQueue) /\ IsInjective(s.outQueue)
                /\ IsInjective(s.sleepQueue) /\ IsInjective(s.fakeLeaves)

Sorted(s) == \A i, j \in DOMAIN s.sleepQueue :
                 i < j => s.sleep[s.sleepQueue[i]] <= s.sleep[s.sleepQueue[j]]

\* What the third layer says about thread g: as a sleeper, while it is QUEUED,
\* as one that will hand its context over, and when it calls join or finish.
SleeperInv(s, a, g) ==
    /\ s.sleep[g] \in 0 .. MaxSleep
    /\ s.state[g] = "SLEEPING" =>
         g \in ToSet(s.sleepQueue) /\ s.sleep[g] > 0 /\ s.futexWord[g] = 1 /\ a[g] = "asleep"
    /\ s.marked[g] <=> a[g] = "marked"
    /\ s.marked[g] => s.sleep[g] > 0 /\ s.futexWord[g] = 1

QueuedInv(s, a, g) ==
    s.state[g] = "QUEUED" =>
        /\ g \in ToSet(s.runQueue) \/ \E h \in Gids : s.handoff[h] = g
        /\ a[g] = "queued" /\ s.futexWord[g] = 1

PromiseInv(s, b, a, g) ==
    s.handoff[g] # None => \/ a[g] = "handoff"
                           \/ a[g] = "syncing" /\ b[s.cid[g]] \in {"waiting", "running"}

ReadyInv(s, a, g) ==
    /\ s.fakePc[g] # None => g \in ToSet(s.fakeLeaves)
    /\ a[g] \in {"ready", "leaving", "finished"} =>
         s.state[g] \in {"STARTED", "RUNNING", "OUT", "BLOCKED"}
    /\ a[g] \in {"leaving", "finished"} => s.state[g] # "RUNNING"
    /\ a[g] = "ready" /\ s.state[g] = "RUNNING" => s.fakePc[g] # None
    /\ a[g] # "dead"

ThreadInv(s, b, a, g) ==
    SleeperInv(s, a, g) /\ QueuedInv(s, a, g) /\ PromiseInv(s, b, a, g) /\ ReadyInv(s, a, g)

Inv3 == NoRepeats(sch) /\ Sorted(sch) /\ \A g \in Gids : ThreadInv(sch, bar, at, g)

\* What a thread is in when it calls join or finish, whoever is killed, left or
\* woken meanwhile; it stands on the first layer alone.
CallInv(s, a, w, g) ==
    /\ s.state[g] = "none" => a[g] = "off"
    /\ s.state[g] = "QUEUED" => \/ a[g] \in {"queued", "dead"}
                                \/ a[g] = "finished" /\ Cleaned(w, g)
    /\ s.state[g] = "SLEEPING" => s.futexWord[g] = 1
    /\ s.marked[g] => /\ s.state[g] = "RUNNING" /\ s.futexWord[g] = 1
                      /\ a[g] \in {"marked", "dead"} \/ (a[g] = "finishing" /\ Cleaned(w, g))
    /\ a[g] = "ready" => \/ Rests(s, g)
                         \/ s.state[g] = "RUNNING" /\ (s.fakePc[g] # None \/ LeftFor(w, g))
    /\ a[g] = "leaving" => Rests(s, g)
    /\ a[g] = "finishing" => s.state[g] = "RUNNING"
    /\ a[g] = "finished" => Rests(s, g) \/ Cleaned(w, g)

-----------------------------------------------------------------------------
(* Lemmas about queues.                                                    *)

LEMMA FirstInSpec ==
    ASSUME NEW T, NEW q \in Seq(T), NEW S, None \notin T
    PROVE  /\ FirstIn(q, S) = None <=> ToSet(q) \cap S = {}
           /\ FirstIn(q, S) # None => FirstIn(q, S) \in ToSet(q) \cap S
<1> DEFINE At == {i \in DOMAIN q : q[i] \in S}
<1>1. At \in SUBSET Nat
  OBVIOUS
<1>2. CASE At = {}
  BY <1>2 DEF FirstIn, ToSet
<1>3. CASE At # {}
  <2>1. Min(At) \in At
    BY <1>1, <1>3, NatMin
  <2>2. FirstIn(q, S) = q[Min(At)]
    BY <1>3 DEF FirstIn
  <2> HIDE DEF At
  <2>3. PICK i \in At : FirstIn(q, S) = q[i]
    BY <2>1, <2>2
  <2> QED
    BY <2>3 DEF At, ToSet
<1> QED
  BY <1>2, <1>3

\* Only keeps the elements of S, in their order.
LEMMA OnlySpec ==
    ASSUME NEW T, NEW q \in Seq(T), NEW S
    PROVE  /\ Only(q, S) \in Seq(T)
           /\ ToSet(Only(q, S)) = ToSet(q) \cap S
           /\ \A k, l \in DOMAIN Only(q, S) : k < l =>
                \E i, j \in DOMAIN q : i < j /\ q[i] = Only(q, S)[k] /\ q[j] = Only(q, S)[l]
<1> DEFINE Keep == {i \in DOMAIN q : q[i] \in S}
           n == Cardinality(Keep)
           Upto(i) == {j \in Keep : j <= i}
           Rank(i) == Cardinality(Upto(i))
           rank == [i \in Keep |-> Rank(i)]
           nth(k) == CHOOSE i \in Keep : Rank(i) = k
           o == Only(q, S)
<1>1. IsFiniteSet(Keep) /\ n \in Nat /\ Keep \in SUBSET Nat
  <2>1. DOMAIN q = 1 .. Len(q) /\ Len(q) \in Nat
    OBVIOUS
  <2>2. IsFiniteSet(1 .. Len(q))
    BY <2>1, FS_Interval
  <2> QED
    BY <2>1, <2>2, FS_Subset, FS_CardinalityType
<1>a. \A i \in Keep : i \in Nat
  BY <1>1
<1>2. ASSUME NEW i \in Keep
      PROVE  IsFiniteSet(Upto(i)) /\ Rank(i) \in 1 .. n /\ Rank(i) \in Nat
  <2> HIDE DEF Keep
  <2>1. Upto(i) \in SUBSET Keep /\ i \in Upto(i)
    BY <1>1
  <2>2. IsFiniteSet(Upto(i)) /\ Rank(i) <= n /\ Rank(i) \in Nat
    BY <1>1, <2>1, FS_Subset, FS_CardinalityType
  <2>3. Rank(i) # 0
    BY <2>1, <2>2, FS_EmptySet
  <2> QED
    BY <1>1, <2>2, <2>3
<1>3. ASSUME NEW i \in Keep, NEW j \in Keep, i < j
      PROVE  Rank(i) < Rank(j)
  <2> HIDE DEF Keep
  <2>1. Upto(i) \in SUBSET Upto(j) /\ j \in Upto(j) /\ j \notin Upto(i)
    BY <1>a, <1>3
  <2>2. Rank(i) <= Rank(j) /\ Rank(i) # Rank(j)
    BY <1>2, <2>1, FS_Subset
  <2>3. Rank(i) \in Nat /\ Rank(j) \in Nat
    BY <1>2, Zenon
  <2> QED
    BY <2>2, <2>3
<1> HIDE DEF Rank
<1>4. rank \in Injection(Keep, 1 .. n)
  <2>1. rank \in [Keep -> 1 .. n]
    BY <1>2
  <2>2. \A i, j \in Keep : rank[i] = rank[j] => i = j
    <3> SUFFICES ASSUME NEW i \in Keep, NEW j \in Keep, Rank(i) = Rank(j)
                 PROVE  i = j
      OBVIOUS
    <3>1. i \in Nat /\ j \in Nat /\ Rank(i) \in Nat /\ Rank(j) \in Nat
      BY <1>a, <1>2
    <3> HIDE DEF Keep
    <3> QED
      BY <1>3, <3>1
  <2> HIDE DEF Keep, n, rank
  <2> QED
    BY <2>1, <2>2 DEF Injection, IsInjective
<1>5. rank \in Surjection(Keep, 1 .. n)
  <2>1. IsFiniteSet(1 .. n) /\ Cardinality(1 .. n) = n
    BY <1>1, FS_Interval
  <2> HIDE DEF rank, Keep
  <2> QED
    BY <1>4, <2>1, FS_Injection
<1>6. ASSUME NEW k \in 1 .. n
      PROVE  nth(k) \in Keep /\ Rank(nth(k)) = k
  <2>1. \E i \in Keep : rank[i] = k
    <3> HIDE DEF Keep, rank
    <3> QED
      BY <1>5 DEF Surjection
  <2> HIDE DEF Keep
  <2>2. \E i \in Keep : Rank(i) = k
    BY <2>1
  <2> QED
    BY <2>2
<1>7. o = [k \in 1 .. n |-> q[nth(k)]]
  BY DEF Only, Rank
<1> HIDE DEF o, nth, n, rank
<1>8. o \in Seq(T)
  <2>1. \A k \in 1 .. n : q[nth(k)] \in T
    BY <1>6 DEF Keep
  <2> QED
    BY <1>1, <1>7, <2>1, IsASeq
<1>9. DOMAIN o = 1 .. n /\ \A k \in 1 .. n : o[k] = q[nth(k)]
  BY <1>7
<1>10. ToSet(o) = ToSet(q) \cap S
  <2>1. ASSUME NEW x \in ToSet(o)
        PROVE  x \in ToSet(q) \cap S
    <3>1. PICK k \in 1 .. n : x = q[nth(k)]
      BY <1>9 DEF ToSet
    <3> QED
      BY <3>1, <1>6 DEF ToSet, Keep
  <2>2. ASSUME NEW x \in ToSet(q) \cap S
        PROVE  x \in ToSet(o)
    <3>1. PICK i \in Keep : q[i] = x
      BY DEF ToSet, Keep
    <3>2. PICK k \in 1 .. n : k = Rank(i)
      BY <1>2
    <3>3. nth(k) \in Keep /\ Rank(nth(k)) = k
      BY <1>6
    <3>4. i \in Nat /\ nth(k) \in Nat
      BY <1>1, <3>3
    <3>5. nth(k) = i
      <4> HIDE DEF Keep
      <4> QED
        BY <1>3, <3>2, <3>3, <3>4
    <3> QED
      BY <1>9, <3>1, <3>5 DEF ToSet
  <2> QED
    BY <2>1, <2>2
<1>11. ASSUME NEW k \in DOMAIN o, NEW l \in DOMAIN o, k < l
       PROVE  \E i, j \in DOMAIN q : i < j /\ q[i] = o[k] /\ q[j] = o[l]
  <2>1. k \in 1 .. n /\ l \in 1 .. n
    BY <1>9
  <2>2. nth(k) \in Keep /\ Rank(nth(k)) = k /\ nth(l) \in Keep /\ Rank(nth(l)) = l
    BY <1>6, <2>1
  <2>3. nth(k) \in Nat /\ nth(l) \in Nat
    BY <1>1, <2>2
  <2>4. nth(k) < nth(l)
    <3> HIDE DEF Keep
    <3> QED
      BY <1>3, <1>11, <2>1, <2>2, <2>3
  <2> QED
    BY <1>9, <2>1, <2>2, <2>4 DEF Keep
<1> QED
  BY <1>8, <1>10, <1>11 DEF o

LEMMA OnlyInjective ==
    ASSUME NEW T, NEW q \in Seq(T), NEW S, IsInjective(q)
    PROVE  IsInjective(Only(q, S))
<1> DEFINE o == Only(q, S)
<1>1. o \in Seq(T)
  BY OnlySpec
<1>2. ASSUME NEW k \in DOMAIN o, NEW l \in DOMAIN o, k < l
      PROVE  o[k] # o[l]
  <2>1. PICK i, j \in DOMAIN q : i < j /\ q[i] = o[k] /\ q[j] = o[l]
    BY <1>2, OnlySpec
  <2> QED
    BY <2>1 DEF IsInjective
<1>3. \A k, l \in DOMAIN o : k \in Int /\ l \in Int
  BY <1>1
<1> HIDE DEF o
<1>4. \A k, l \in DOMAIN o : o[k] = o[l] => k = l
  BY <1>2, <1>3
<1> QED
  BY <1>4 DEF o, IsInjective

LEMMA WithoutSpec ==
    ASSUME NEW T, NEW q \in Seq(T), NEW x
    PROVE  /\ Without(q, x) \in Seq(T)
           /\ ToSet(Without(q, x)) = ToSet(q) \ {x}
           /\ IsInjective(q) => IsInjective(Without(q, x))
<1>1. /\ Without(q, x) \in Seq(T)
      /\ ToSet(Without(q, x)) = ToSet(q) \cap (ToSet(q) \ {x})
  BY OnlySpec DEF Without
<1>2. IsInjective(q) => IsInjective(Without(q, x))
  BY OnlyInjective DEF Without
<1> QED
  BY <1>1, <1>2

LEMMA AppendSpec ==
    ASSUME NEW T, NEW q \in Seq(T), NEW x \in T
    PROVE  /\ Append(q, x) \in Seq(T)
           /\ ToSet(Append(q, x)) = ToSet(q) \cup {x}
           /\ IsInjective(q) /\ x \notin ToSet(q) => IsInjective(Append(q, x))
<1>1. /\ Append(q, x) \in Seq(T) /\ Len(q) \in Nat /\ DOMAIN q = 1 .. Len(q)
      /\ DOMAIN Append(q, x) = 1 .. Len(q) + 1
      /\ \A i \in 1 .. Len(q) : Append(q, x)[i] = q[i]
      /\ Append(q, x)[Len(q) + 1] = x
  OBVIOUS
<1> QED
  BY <1>1 DEF ToSet, IsInjective

-----------------------------------------------------------------------------
(* What each state change does to the fields.                              *)

LEMMA Constants == None \notin Gids /\ None \notin Cids /\ None \notin Pcs
BY SchedulerAssumption

LEMMA FieldTypes ==
    ASSUME NEW s \in SchType
    PROVE  /\ s.state \in [Gids -> States] /\ s.cid \in [Gids -> Cids]
           /\ s.handoff \in [Gids -> Gids \cup {None}]
           /\ s.futexWord \in [Gids -> {0, 1}] /\ s.marked \in [Gids -> BOOLEAN]
           /\ s.sleep \in [Gids -> Int] /\ s.fakePc \in [Gids -> Pcs \cup {None}]
           /\ s.curThread \in [Cids -> Gids \cup {None}]
           /\ s.freeList \in Seq(Cids) /\ s.runQueue \in Seq(Gids)
           /\ s.outQueue \in Seq(Gids) /\ s.sleepQueue \in Seq(Gids)
           /\ s.fakeLeaves \in Seq(Gids) /\ s.blacklist \in SUBSET (Pids \X Pcs)
           /\ s.phase \in Nat
BY DEF SchType

LEMMA DescheduleFields ==
    ASSUME NEW s \in SchType, NEW g \in Gids, NEW to \in States
    PROVE  LET t == Deschedule(s, g, to) IN
           /\ t \in SchType
           /\ t = [s EXCEPT !.state = [s.state EXCEPT ![g] = to],
                            !.curThread = [s.curThread EXCEPT ![s.cid[g]] = None]]
<1>1. s.cid[g] \in Cids
  BY FieldTypes
<1> QED
  BY <1>1 DEF Deschedule, SchType

LEMMA ScheduleFields ==
    ASSUME NEW s \in SchType, NEW g \in Gids, NEW c \in Cids,
           s.curThread[c] # None => s.cid[s.curThread[c]] = c
    PROVE  LET t == Schedule(s, g, c)
               out == s.curThread[c] IN
           /\ t \in SchType
           /\ t = [s EXCEPT !.freeList = Without(s.freeList, c),
                            !.runQueue = Without(s.runQueue, g),
                            !.outQueue = IF out = None THEN s.outQueue ELSE Without(s.outQueue, out),
                            !.state = IF out = None THEN [s.state EXCEPT ![g] = "RUNNING"]
                                      ELSE [s.state EXCEPT ![out] = "BLOCKED", ![g] = "RUNNING"],
                            !.cid = [s.cid EXCEPT ![g] = c],
                            !.curThread = [s.curThread EXCEPT ![c] = g]]
<1> DEFINE out == s.curThread[c]
<1>1. out \in Gids \cup {None}
  BY FieldTypes
<1>2. /\ Without(s.freeList, c) \in Seq(Cids) /\ Without(s.runQueue, g) \in Seq(Gids)
      /\ Without(s.outQueue, out) \in Seq(Gids)
  BY WithoutSpec, FieldTypes
<1>3. CASE out = None
  BY <1>1, <1>2, <1>3 DEF Schedule, SchType, States
<1>4. CASE out # None
  <2> DEFINE free == Without(s.freeList, c)
             run == Without(s.runQueue, g)
             outs == Without(s.outQueue, out)
             u == [s EXCEPT !.freeList = free, !.runQueue = run]
             v == [u EXCEPT !.state = [s.state EXCEPT ![out] = "BLOCKED"],
                            !.curThread = [s.curThread EXCEPT ![c] = None]]
             w == [v EXCEPT !.outQueue = outs]
  <2> HIDE DEF free, run, outs
  <2>1. u \in SchType /\ u.cid = s.cid /\ u.state = s.state /\ u.curThread = s.curThread
    BY <1>2 DEF free, run, SchType
  <2>2. v = Deschedule(u, out, "BLOCKED") /\ v \in SchType /\ v.outQueue = s.outQueue
    <3> HIDE DEF u
    <3>0. out \in Gids /\ u.cid[out] = c
      BY <1>1, <1>4, <2>1
    <3>1. Deschedule(u, out, "BLOCKED") = v /\ Deschedule(u, out, "BLOCKED") \in SchType
      <4>1. LET t == Deschedule(u, out, "BLOCKED") IN
              /\ t \in SchType
              /\ t = [u EXCEPT !.state = [u.state EXCEPT ![out] = "BLOCKED"],
                               !.curThread = [u.curThread EXCEPT ![u.cid[out]] = None]]
        <5> HIDE DEF out
        <5> QED
          BY <3>0, <2>1, DescheduleFields, Zenon DEF States
      <4> QED
        BY <4>1, <3>0, <2>1
    <3> QED
      BY <3>1 DEF u
  <2>3. Schedule(s, g, c) = [w EXCEPT !.state[g] = "RUNNING", !.cid[g] = c, !.curThread[c] = g]
    BY <1>4, <2>2 DEF Schedule, free, run, outs
  <2>4. w \in SchType
    <3> HIDE DEF v
    <3> QED
      BY <1>2, <2>2 DEF outs, SchType
  <2>5. [w.curThread EXCEPT ![c] = g] = [s.curThread EXCEPT ![c] = g]
    BY FieldTypes
  <2>6. Schedule(s, g, c) =
          [w EXCEPT !.state = [w.state EXCEPT ![g] = "RUNNING"], !.cid = [w.cid EXCEPT ![g] = c],
                    !.curThread = [s.curThread EXCEPT ![c] = g]]
    BY <2>3, <2>5
  <2>7. Schedule(s, g, c) \in SchType
    <3> HIDE DEF w
    <3> QED
      <4>1. /\ [w.state EXCEPT ![g] = "RUNNING"] \in [Gids -> States]
            /\ [w.cid EXCEPT ![g] = c] \in [Gids -> Cids]
            /\ [s.curThread EXCEPT ![c] = g] \in [Cids -> Gids \cup {None}]
        BY <2>4, FieldTypes DEF States
      <4> QED
        BY <2>4, <2>6, <4>1 DEF SchType
  <2>8. /\ w.state = [s.state EXCEPT ![out] = "BLOCKED"] /\ w.cid = s.cid
    BY DEF SchType
  <2> QED
    BY <1>4, <2>6, <2>7, <2>8 DEF free, run, outs, SchType
<1> QED
  BY <1>3, <1>4

\* t is s after thread g has been scheduled on context c, as far as the
\* invariants can see.
Scheduled(s, g, c, t) ==
    /\ t \in SchType
    /\ \A x \in Gids : /\ t.state[x] = IF x = g THEN "RUNNING"
                                       ELSE IF x = s.curThread[c] THEN "BLOCKED" ELSE s.state[x]
                       /\ t.cid[x] = IF x = g THEN c ELSE s.cid[x]
    /\ \A d \in Cids : t.curThread[d] = IF d = c THEN g ELSE s.curThread[d]
    /\ ToSet(t.freeList) = ToSet(s.freeList) \ {c}
    /\ IsInjective(s.freeList) => IsInjective(t.freeList)
    /\ ToSet(t.runQueue) = ToSet(s.runQueue) \ {g}
    /\ ToSet(t.outQueue) = IF s.curThread[c] = None THEN ToSet(s.outQueue)
                           ELSE ToSet(s.outQueue) \ {s.curThread[c]}
    /\ t.sleepQueue = s.sleepQueue /\ t.handoff = s.handoff
    /\ t.futexWord = s.futexWord /\ t.marked = s.marked /\ t.sleep = s.sleep
    /\ t.fakePc = s.fakePc /\ t.fakeLeaves = s.fakeLeaves
    /\ IsInjective(s.runQueue) => IsInjective(t.runQueue)
    /\ IsInjective(s.outQueue) => IsInjective(t.outQueue)

LEMMA ScheduleView ==
    ASSUME NEW s \in SchType, NEW g \in Gids, NEW c \in Cids,
           s.curThread[c] # None => s.cid[s.curThread[c]] = c
    PROVE  Scheduled(s, g, c, Schedule(s, g, c))
<1> DEFINE out == s.curThread[c]
           free == Without(s.freeList, c)
           run == Without(s.runQueue, g)
           outs == IF out = None THEN s.outQueue ELSE Without(s.outQueue, out)
           states == IF out = None THEN [s.state EXCEPT ![g] = "RUNNING"]
                     ELSE [s.state EXCEPT ![out] = "BLOCKED", ![g] = "RUNNING"]
           cids == [s.cid EXCEPT ![g] = c]
           curs == [s.curThread EXCEPT ![c] = g]
           t == Schedule(s, g, c)
<1>1. /\ t \in SchType
      /\ t = [s EXCEPT !.freeList = free, !.runQueue = run, !.outQueue = outs,
                       !.state = states, !.cid = cids, !.curThread = curs]
  BY ScheduleFields
<1>2. /\ free \in Seq(Cids) /\ ToSet(free) = ToSet(s.freeList) \ {c}
      /\ IsInjective(s.freeList) => IsInjective(free)
      /\ run \in Seq(Gids) /\ ToSet(run) = ToSet(s.runQueue) \ {g}
      /\ IsInjective(s.runQueue) => IsInjective(run)
      /\ ToSet(outs) = IF out = None THEN ToSet(s.outQueue) ELSE ToSet(s.outQueue) \ {out}
      /\ IsInjective(s.outQueue) => IsInjective(outs)
  <2>1. /\ free \in Seq(Cids) /\ ToSet(free) = ToSet(s.freeList) \ {c}
        /\ IsInjective(s.freeList) => IsInjective(free)
    BY WithoutSpec, FieldTypes
  <2>2. /\ run \in Seq(Gids) /\ ToSet(run) = ToSet(s.runQueue) \ {g}
        /\ IsInjective(s.runQueue) => IsInjective(run)
    BY WithoutSpec, FieldTypes
  <2>3. CASE out = None
    <3>1. outs = s.outQueue
      BY <2>3
    <3> QED
      BY <2>1, <2>2, <2>3, <3>1
  <2>4. CASE out # None
    <3>1. /\ ToSet(Without(s.outQueue, out)) = ToSet(s.outQueue) \ {out}
          /\ IsInjective(s.outQueue) => IsInjective(Without(s.outQueue, out))
      BY WithoutSpec, FieldTypes
    <3>2. outs = Without(s.outQueue, out)
      BY <2>4
    <3> HIDE DEF outs
    <3> QED
      BY <2>1, <2>2, <2>4, <3>1, <3>2
  <2> QED
    BY <2>3, <2>4
<1>3. \A x \in Gids : /\ states[x] = IF x = g THEN "RUNNING" ELSE IF x = out THEN "BLOCKED" ELSE s.state[x]
                      /\ cids[x] = IF x = g THEN c ELSE s.cid[x]
  BY FieldTypes, Constants
<1>4. \A d \in Cids : curs[d] = IF d = c THEN g ELSE s.curThread[d]
  BY FieldTypes
<1> HIDE DEF free, run, outs, states, cids, curs, t
<1>5. /\ t.freeList = free /\ t.runQueue = run /\ t.outQueue = outs
      /\ t.state = states /\ t.cid = cids /\ t.curThread = curs
      /\ t.sleepQueue = s.sleepQueue /\ t.handoff = s.handoff
      /\ t.futexWord = s.futexWord /\ t.marked = s.marked /\ t.sleep = s.sleep
      /\ t.fakePc = s.fakePc /\ t.fakeLeaves = s.fakeLeaves
  BY <1>1 DEF SchType
<1>6. Scheduled(s, g, c, t)
  BY <1>1, <1>2, <1>3, <1>4, <1>5 DEF Scheduled
<1> QED
  BY <1>6 DEF t

\* schedule on a context that is idle or only held by an OUT thread.
LEMMA ScheduleKeeps ==
    ASSUME NEW s, SchInv(s), NEW g \in Gids, NEW c \in Cids,
           s.state[g] \notin {"RUNNING", "OUT", "SLEEPING"},
           \A h \in Gids : s.handoff[h] # g,
           s.curThread[c] # None => s.state[s.curThread[c]] = "OUT"
    PROVE  SchInv(Schedule(s, g, c)) /\ Scheduled(s, g, c, Schedule(s, g, c))
<1> DEFINE out == s.curThread[c]
           t == Schedule(s, g, c)
<1>1. /\ s \in SchType /\ out \in Gids \cup {None}
      /\ out # None => s.cid[out] = c /\ s.state[out] = "OUT"
      /\ None \notin Gids
  BY FieldTypes, Constants DEF SchInv, CtxInv
<1>t. /\ s.state \in [Gids -> States] /\ s.cid \in [Gids -> Cids]
      /\ s.handoff \in [Gids -> Gids \cup {None}] /\ s.curThread \in [Cids -> Gids \cup {None}]
  BY <1>1, FieldTypes
<1>a. Scheduled(s, g, c, t)
  <2>1. s.curThread[c] # None => s.cid[s.curThread[c]] = c
    BY <1>1
  <2> QED
    BY <1>1, <2>1, ScheduleView
<1> HIDE DEF t
<1>2. /\ t \in SchType
      /\ \A x \in Gids : /\ t.state[x] = IF x = g THEN "RUNNING"
                                         ELSE IF x = out THEN "BLOCKED" ELSE s.state[x]
                         /\ t.cid[x] = IF x = g THEN c ELSE s.cid[x]
      /\ \A d \in Cids : t.curThread[d] = IF d = c THEN g ELSE s.curThread[d]
      /\ ToSet(t.freeList) = ToSet(s.freeList) \ {c}
      /\ IsInjective(s.freeList) => IsInjective(t.freeList)
      /\ ToSet(t.runQueue) = ToSet(s.runQueue) \ {g}
      /\ ToSet(t.outQueue) = IF out = None THEN ToSet(s.outQueue) ELSE ToSet(s.outQueue) \ {out}
      /\ t.sleepQueue = s.sleepQueue /\ t.handoff = s.handoff
  BY <1>a DEF Scheduled
<1>3. /\ ToSet(s.runQueue) \in SUBSET Gids /\ ToSet(s.sleepQueue) \in SUBSET Gids
      /\ ToSet(s.outQueue) \in SUBSET Gids
  BY <1>1, FieldTypes DEF ToSet
<1> HIDE DEF out
<1>4. CtxInv(t)
  BY <1>1, <1>t, <1>2 DEF CtxInv, SchInv, out
<1>5. FreeInv(t)
  BY <1>1, <1>t, <1>2 DEF FreeInv, SchInv
<1>6. OutInv(t)
  BY <1>1, <1>t, <1>2, <1>3 DEF OutInv, SchInv
<1>7. RunInv(t)
  <2> SUFFICES ASSUME NEW x \in ToSet(s.runQueue) \ {g}, NEW d \in Mask[x]
               PROVE  t.state[x] = "QUEUED" /\ t.curThread[d] # None /\ t.state[t.curThread[d]] = "RUNNING"
    <3>1. \A x \in ToSet(t.runQueue) : \E d \in Cids : d \in Mask[x]
      BY <1>2, <1>3, SchedulerAssumption
    <3> QED
      BY <1>2, <3>1 DEF RunInv
  <2>1. d \in Cids /\ x \in Gids
    BY <1>3, SchedulerAssumption
  <2>2. s.state[x] = "QUEUED" /\ s.curThread[d] # None /\ s.state[s.curThread[d]] = "RUNNING"
    BY DEF SchInv, RunInv
  <2> QED
    BY <1>1, <1>t, <1>2, <2>1, <2>2
<1>8. SleepInv(t)
  BY <1>1, <1>t, <1>2, <1>3 DEF SleepInv, SchInv
<1>9. HandInv(t)
  <2> SUFFICES ASSUME NEW x \in Gids, s.handoff[x] # None
               PROVE  /\ t.state[s.handoff[x]] = "QUEUED" /\ s.handoff[x] \notin ToSet(t.runQueue)
                      /\ \A h \in Gids : s.handoff[h] = s.handoff[x] => h = x
    BY <1>2 DEF HandInv
  <2>1. /\ s.handoff[x] \in Gids
        /\ s.state[s.handoff[x]] = "QUEUED" /\ s.handoff[x] \notin ToSet(s.runQueue)
        /\ \A h \in Gids : s.handoff[h] = s.handoff[x] => h = x
    BY <1>t DEF SchInv, HandInv
  <2> QED
    BY <1>1, <1>2, <2>1
<1> QED
  BY <1>a, <1>2, <1>4, <1>5, <1>6, <1>7, <1>8, <1>9 DEF SchInv, t

Inserted(T, q, n, x, z) ==
    /\ z \in Seq(T) /\ Len(z) = Len(q) + 1
    /\ \A i \in 1 .. Len(q) + 1 : z[i] = IF i < n THEN q[i] ELSE IF i = n THEN x ELSE q[i - 1]

LEMMA InsertSpec ==
    ASSUME NEW T, NEW q \in Seq(T), NEW n \in 1 .. Len(q), NEW x \in T
    PROVE  Inserted(T, q, n, x, InsertAt(q, n, x))
<1> DEFINE a == SubSeq(q, 1, n - 1)
           b == SubSeq(q, n, Len(q))
           m == a \o <<x>>
<1>0. Len(q) \in Nat /\ n - 1 \in Int /\ n \in Int /\ 1 \in Int /\ \A i \in 1 .. Len(q) : q[i] \in T
  OBVIOUS
<1>1. /\ a \in Seq(T) /\ Len(a) = n - 1
      /\ \A i \in 1 .. n - 1 : a[i] = q[i]
  <2>1. \A i \in 1 .. n - 1 : q[i] \in T
    BY <1>0
  <2>2. /\ a \in Seq(T) /\ Len(a) = IF 1 <= n - 1 THEN (n - 1) - 1 + 1 ELSE 0
        /\ \A i \in 1 .. (n - 1) - 1 + 1 : a[i] = q[1 + i - 1]
    BY <1>0, <2>1, SubSeqProperties
  <2> HIDE DEF a
  <2> QED
    BY <2>2, <1>0
<1>2. /\ b \in Seq(T) /\ Len(b) = Len(q) - n + 1
      /\ \A i \in 1 .. Len(q) - n + 1 : b[i] = q[n + i - 1]
  <2>1. \A i \in n .. Len(q) : q[i] \in T
    BY <1>0
  <2>2. /\ b \in Seq(T) /\ Len(b) = IF n <= Len(q) THEN Len(q) - n + 1 ELSE 0
        /\ \A i \in 1 .. Len(q) - n + 1 : b[i] = q[n + i - 1]
    BY <1>0, <2>1, SubSeqProperties
  <2> HIDE DEF b
  <2> QED
    BY <2>2, <1>0
<1> HIDE DEF a, b
<1>3. /\ m \in Seq(T) /\ Len(m) = n
      /\ \A i \in 1 .. n : m[i] = IF i < n THEN q[i] ELSE x
  <2>1. <<x>> \in Seq(T) /\ Len(<<x>>) = 1 /\ <<x>>[1] = x
    OBVIOUS
  <2>2. /\ m \in Seq(T) /\ Len(m) = Len(a) + 1
        /\ \A i \in 1 .. Len(a) + 1 : m[i] = IF i <= Len(a) THEN a[i] ELSE <<x>>[i - Len(a)]
    BY <1>1, <2>1, ConcatProperties
  <2> HIDE DEF m
  <2>3. \A i \in 1 .. n : i < n \/ i - Len(a) = 1
    BY <1>0, <1>1
  <2> QED
    BY <1>0, <1>1, <2>1, <2>2, <2>3
<1> HIDE DEF m
<1>4. InsertAt(q, n, x) = m \o b
  BY DEF InsertAt, a, b, m
<1>5. /\ m \o b \in Seq(T) /\ Len(m \o b) = Len(m) + Len(b)
      /\ \A i \in 1 .. Len(m) + Len(b) : (m \o b)[i] = IF i <= Len(m) THEN m[i] ELSE b[i - Len(m)]
  BY <1>2, <1>3, ConcatProperties
<1>6. PICK z : z = m \o b
  OBVIOUS
<1>7. /\ z \in Seq(T) /\ Len(z) = Len(q) + 1
      /\ \A i \in 1 .. Len(q) + 1 : z[i] = IF i <= n THEN m[i] ELSE b[i - n]
  BY <1>0, <1>2, <1>3, <1>5, <1>6
<1>8. \A i \in 1 .. Len(q) + 1 : i > n => b[i - n] = q[i - 1]
  <2> SUFFICES ASSUME NEW i \in 1 .. Len(q) + 1, i > n PROVE b[i - n] = q[i - 1]
    OBVIOUS
  <2>1. i - n \in 1 .. Len(q) - n + 1 /\ n + (i - n) - 1 = i - 1
    BY <1>0
  <2> QED
    BY <1>2, <2>1
<1>9. Inserted(T, q, n, x, z)
  <2>1. ASSUME NEW i \in 1 .. Len(q) + 1
        PROVE  z[i] = IF i < n THEN q[i] ELSE IF i = n THEN x ELSE q[i - 1]
    <3>1. z[i] = IF i <= n THEN m[i] ELSE b[i - n]
      BY <1>7
    <3>2. CASE i <= n
      BY <1>0, <1>3, <3>1, <3>2
    <3>3. CASE i > n
      BY <1>0, <1>8, <3>1, <3>3
    <3> QED
      BY <1>0, <3>2, <3>3
  <2> QED
    BY <1>7, <2>1 DEF Inserted
<1> QED
  BY <1>4, <1>6, <1>9

\* The ordered insert keeps the sleep queue ordered and adds the thread once.
LEMMA InsertSleeperSpec ==
    ASSUME NEW s \in SchType, NEW g \in Gids
    PROVE  LET t == InsertSleeper(s, g) IN
           /\ t \in SchType /\ t = [s EXCEPT !.sleepQueue = t.sleepQueue]
           /\ ToSet(t.sleepQueue) = ToSet(s.sleepQueue) \cup {g}
           /\ IsInjective(s.sleepQueue) /\ g \notin ToSet(s.sleepQueue) => IsInjective(t.sleepQueue)
           /\ Sorted(s) => Sorted(t)
<1> DEFINE q == s.sleepQueue
           Later == {i \in DOMAIN q : s.sleep[q[i]] > s.sleep[g]}
           z == IF Later = {} THEN Append(q, g) ELSE InsertAt(q, Min(Later), g)
<1>1. q \in Seq(Gids) /\ s.sleep \in [Gids -> Int]
  BY FieldTypes
<1>2. InsertSleeper(s, g) = [s EXCEPT !.sleepQueue = z]
  BY DEF InsertSleeper
<1>3. PICK n \in 1 .. Len(q) + 1 :
        /\ z \in Seq(Gids) /\ Len(z) = Len(q) + 1
        /\ \A i \in 1 .. Len(q) + 1 :
             z[i] = IF i < n THEN q[i] ELSE IF i = n THEN g ELSE q[i - 1]
        /\ \A i \in 1 .. Len(q) : i < n => ~ (s.sleep[q[i]] > s.sleep[g])
        /\ n <= Len(q) => s.sleep[q[n]] > s.sleep[g]
  <2>1. CASE Later = {}
    <3>1. \A i \in 1 .. Len(q) : ~ (s.sleep[q[i]] > s.sleep[g])
      BY <2>1, <1>1
    <3>2. z = Append(q, g)
      BY <2>1
    <3>3. /\ Append(q, g) \in Seq(Gids) /\ Len(Append(q, g)) = Len(q) + 1 /\ Len(q) \in Nat
          /\ \A i \in 1 .. Len(q) : Append(q, g)[i] = q[i]
          /\ Append(q, g)[Len(q) + 1] = g
      BY <1>1
    <3> HIDE DEF z, q, Later
    <3>4. PICK m \in 1 .. Len(q) + 1 : m = Len(q) + 1
      BY <3>3
    <3>5. \A i \in 1 .. Len(q) + 1 : z[i] = IF i < m THEN q[i] ELSE IF i = m THEN g ELSE q[i - 1]
      BY <3>2, <3>3, <3>4
    <3> QED
      BY <3>1, <3>2, <3>3, <3>4, <3>5
  <2>2. CASE Later # {}
    <3>1. Later \in SUBSET Nat /\ Len(q) \in Nat
      BY <1>1
    <3>2. PICK n \in Later : n = Min(Later) /\ \A y \in Later : n <= y
      <4> HIDE DEF Later
      <4> QED
        BY <2>2, <3>1, NatMin
    <3>3. n \in 1 .. Len(q) /\ s.sleep[q[n]] > s.sleep[g] /\ n \in 1 .. Len(q) + 1
      BY <1>1, <3>1, <3>2
    <3>4. \A i \in 1 .. Len(q) : i < n => ~ (s.sleep[q[i]] > s.sleep[g])
      <4> SUFFICES ASSUME NEW i \in 1 .. Len(q), i < n, s.sleep[q[i]] > s.sleep[g] PROVE FALSE
        OBVIOUS
      <4>1. i \in Later
        BY <1>1
      <4> HIDE DEF Later, q
      <4> QED
        BY <3>1, <3>2, <3>3, <4>1
    <3>5. z = InsertAt(q, n, g)
      BY <2>2, <3>2
    <3> HIDE DEF Later, z, q
    <3>6. /\ z \in Seq(Gids) /\ Len(z) = Len(q) + 1
          /\ \A i \in 1 .. Len(q) + 1 : z[i] = IF i < n THEN q[i] ELSE IF i = n THEN g ELSE q[i - 1]
      <4>1. Inserted(Gids, q, n, g, InsertAt(q, n, g))
        BY <1>1, <3>3, InsertSpec
      <4> QED
        BY <3>5, <4>1 DEF Inserted
    <3> QED
      BY <3>3, <3>4, <3>6
  <2> QED
    BY <2>1, <2>2
<1> HIDE DEF z
<1>4. PICK t : t = InsertSleeper(s, g)
  OBVIOUS
<1>5. t \in SchType /\ t.sleepQueue = z /\ t.sleep = s.sleep /\ t = [s EXCEPT !.sleepQueue = t.sleepQueue]
  BY <1>2, <1>3, <1>4 DEF SchType
<1> HIDE DEF q
<1>6. Len(q) \in Nat /\ DOMAIN q = 1 .. Len(q) /\ DOMAIN z = 1 .. Len(q) + 1
  BY <1>1, <1>3
<1>7. ToSet(z) = ToSet(q) \cup {g}
  <2>1. ASSUME NEW x \in ToSet(z) PROVE x \in ToSet(q) \cup {g}
    <3>1. PICK i \in 1 .. Len(q) + 1 : x = z[i]
      BY <1>6 DEF ToSet
    <3>2. i < n \/ i = n \/ i > n
      BY <1>6
    <3>3. CASE i < n
      BY <1>3, <1>6, <3>1, <3>3 DEF ToSet
    <3>4. CASE i = n
      BY <1>3, <1>6, <3>1, <3>4
    <3>5. CASE i > n
      <4>1. i - 1 \in 1 .. Len(q) /\ x = q[i - 1]
        BY <1>3, <1>6, <3>1, <3>5
      <4> QED
        BY <4>1, <1>6 DEF ToSet
    <3> QED
      BY <3>2, <3>3, <3>4, <3>5
  <2>2. g \in ToSet(z)
    BY <1>3, <1>6 DEF ToSet
  <2>3. ASSUME NEW x \in ToSet(q) PROVE x \in ToSet(z)
    <3>1. PICK i \in 1 .. Len(q) : x = q[i]
      BY <1>6 DEF ToSet
    <3>2. CASE i < n
      <4>1. i \in 1 .. Len(q) + 1 /\ z[i] = x
        BY <1>3, <1>6, <3>1, <3>2
      <4> QED
        BY <1>6, <4>1 DEF ToSet
    <3>3. CASE ~ (i < n)
      <4>1. i + 1 \in 1 .. Len(q) + 1 /\ ~ (i + 1 < n) /\ i + 1 # n /\ (i + 1) - 1 = i
        BY <1>6, <3>3
      <4>2. z[i + 1] = q[(i + 1) - 1]
        BY <1>3, <4>1
      <4> QED
        BY <1>6, <3>1, <4>1, <4>2 DEF ToSet
    <3> QED
      BY <3>2, <3>3
  <2> QED
    BY <2>1, <2>2, <2>3
<1>8. ASSUME IsInjective(q), g \notin ToSet(q) PROVE IsInjective(z)
  <2>1. \A i, j \in 1 .. Len(q) : q[i] = q[j] => i = j
    BY <1>6, <1>8 DEF IsInjective
  <2>2. \A i \in 1 .. Len(q) : q[i] # g
    BY <1>6, <1>8 DEF ToSet
  <2>3. \A i, j \in 1 .. Len(q) + 1 : z[i] = z[j] => i = j
    <3> SUFFICES ASSUME NEW i \in 1 .. Len(q) + 1, NEW j \in 1 .. Len(q) + 1, i < j, z[i] = z[j]
                 PROVE  FALSE
      BY <1>6
    <3>1. i - 1 \in Int /\ j - 1 \in 1 .. Len(q) /\ i \in 1 .. Len(q)
      BY <1>6
    <3>2. i > n => i - 1 \in 1 .. Len(q)
      BY <1>6
    <3> QED
      BY <1>3, <1>6, <2>1, <2>2, <3>1, <3>2
  <2> QED
    BY <1>6, <2>3 DEF IsInjective
<1>9. ASSUME \A i, j \in 1 .. Len(q) : i < j => s.sleep[q[i]] <= s.sleep[q[j]]
      PROVE  \A i, j \in 1 .. Len(q) + 1 : i < j => s.sleep[z[i]] <= s.sleep[z[j]]
  <2> DEFINE S(i) == s.sleep[q[i]]
  <2>1. s.sleep[g] \in Int /\ \A i \in 1 .. Len(q) : S(i) \in Int
    BY <1>1, <1>6
  <2>2. \A i \in 1 .. Len(q) : i < n => S(i) <= s.sleep[g]
    <3> SUFFICES ASSUME NEW i \in 1 .. Len(q), i < n PROVE S(i) <= s.sleep[g]
      OBVIOUS
    <3>1. ~ (S(i) > s.sleep[g]) /\ S(i) \in Int
      BY <1>3, <2>1
    <3> HIDE DEF S
    <3> QED
      BY <2>1, <3>1
  <2>3. \A i \in 1 .. Len(q) : i >= n => S(i) >= s.sleep[g]
    <3> SUFFICES ASSUME NEW i \in 1 .. Len(q), i >= n PROVE S(i) >= s.sleep[g]
      OBVIOUS
    <3>1. n \in 1 .. Len(q) /\ S(n) > s.sleep[g] /\ S(n) \in Int /\ S(i) \in Int
      BY <1>3, <1>6, <2>1
    <3>2. S(n) <= S(i)
      BY <1>6, <1>9, <3>1
    <3> HIDE DEF S
    <3> QED
      BY <2>1, <3>1, <3>2
  <2>4. \A i, j \in 1 .. Len(q) : i < j => S(i) <= S(j)
    BY <1>9
  <2> SUFFICES ASSUME NEW i \in 1 .. Len(q) + 1, NEW j \in 1 .. Len(q) + 1, i < j
               PROVE  s.sleep[z[i]] <= s.sleep[z[j]]
    OBVIOUS
  <2>5. s.sleep[z[i]] = IF i < n THEN S(i) ELSE IF i = n THEN s.sleep[g] ELSE S(i - 1)
    BY <1>3
  <2>6. s.sleep[z[j]] = IF j < n THEN S(j) ELSE IF j = n THEN s.sleep[g] ELSE S(j - 1)
    BY <1>3
  <2>7. i - 1 \in Int /\ j - 1 \in 1 .. Len(q) /\ i \in 1 .. Len(q) /\ (i > n => i - 1 \in 1 .. Len(q))
    BY <1>6
  <2> HIDE DEF S
  <2> QED
    BY <1>6, <2>1, <2>2, <2>3, <2>4, <2>5, <2>6, <2>7
<1>10. Sorted(s) => Sorted(t)
  BY <1>5, <1>6, <1>9 DEF Sorted, q
<1> QED
  BY <1>4, <1>5, <1>7, <1>8, <1>10 DEF q

-----------------------------------------------------------------------------
(* The state changes keep the first layer.                                 *)

LEMMA Members ==
    ASSUME NEW s \in SchType
    PROVE  /\ ToSet(s.runQueue) \in SUBSET Gids /\ ToSet(s.sleepQueue) \in SUBSET Gids
           /\ ToSet(s.outQueue) \in SUBSET Gids /\ ToSet(s.fakeLeaves) \in SUBSET Gids
           /\ ToSet(s.freeList) \in SUBSET Cids
BY FieldTypes DEF ToSet

\* SchInv looks at eight of the fields, and at the queues as sets.
LEMMA SameView ==
    ASSUME NEW s, SchInv(s), NEW t \in SchType,
           t.state = s.state, t.cid = s.cid, t.handoff = s.handoff, t.curThread = s.curThread,
           t.freeList = s.freeList, ToSet(t.runQueue) = ToSet(s.runQueue),
           ToSet(t.outQueue) = ToSet(s.outQueue), ToSet(t.sleepQueue) = ToSet(s.sleepQueue)
    PROVE  SchInv(t)
BY DEF SchInv, CtxInv, FreeInv, OutInv, RunInv, SleepInv, HandInv

\* u is s after thread g has given up its context and has gone to state `to'.
Vacated(s, g, to, u) ==
    /\ u \in SchType
    /\ \A x \in Gids : u.state[x] = IF x = g THEN to ELSE s.state[x]
    /\ u.cid = s.cid
    /\ \A d \in Cids : u.curThread[d] = IF d = s.cid[g] THEN None ELSE s.curThread[d]
    /\ u.freeList = s.freeList /\ u.runQueue = s.runQueue /\ u.outQueue = s.outQueue
    /\ ToSet(u.sleepQueue) = IF to = "SLEEPING" THEN ToSet(s.sleepQueue) \cup {g}
                             ELSE ToSet(s.sleepQueue)
    /\ \A x \in Gids : u.handoff[x] = s.handoff[x] \/ u.handoff[x] = None

\* A context goes from the RUNNING thread g to the QUEUED thread h.
LEMMA SwitchKeeps ==
    ASSUME NEW s, SchInv(s), NEW g \in Gids, s.state[g] = "RUNNING",
           NEW h \in Gids, s.state[h] = "QUEUED",
           NEW to \in {"BLOCKED", "SLEEPING", "QUEUED"},
           NEW u, Vacated(s, g, to, u), \A x \in Gids : u.handoff[x] # h
    PROVE  /\ SchInv(Schedule(u, h, s.cid[g]))
           /\ Scheduled(u, h, s.cid[g], Schedule(u, h, s.cid[g]))
           /\ u.curThread[s.cid[g]] = None
<1> DEFINE c == s.cid[g]
           t == Schedule(u, h, c)
<1>1. /\ s \in SchType /\ u \in SchType /\ c \in Cids /\ s.curThread[c] = g
      /\ None \notin Gids /\ h # g /\ u.curThread[c] = None
  BY FieldTypes, Constants DEF SchInv, CtxInv, Vacated
<1>2. Scheduled(u, h, c, t)
  BY <1>1, ScheduleView
<1>t. /\ s.state \in [Gids -> States] /\ s.cid \in [Gids -> Cids]
      /\ s.handoff \in [Gids -> Gids \cup {None}] /\ s.curThread \in [Cids -> Gids \cup {None}]
      /\ u.handoff \in [Gids -> Gids \cup {None}]
  BY <1>1, FieldTypes
<1> HIDE DEF t, c
<1>3. /\ t \in SchType
      /\ \A x \in Gids : /\ t.state[x] = IF x = h THEN "RUNNING" ELSE IF x = g THEN to ELSE s.state[x]
                         /\ t.cid[x] = IF x = h THEN c ELSE s.cid[x]
      /\ \A d \in Cids : t.curThread[d] = IF d = c THEN h ELSE s.curThread[d]
      /\ ToSet(t.freeList) = ToSet(s.freeList) \ {c}
      /\ IsInjective(s.freeList) => IsInjective(t.freeList)
      /\ ToSet(t.runQueue) = ToSet(s.runQueue) \ {h}
      /\ ToSet(t.outQueue) = ToSet(s.outQueue)
      /\ ToSet(t.sleepQueue) = IF to = "SLEEPING" THEN ToSet(s.sleepQueue) \cup {g}
                               ELSE ToSet(s.sleepQueue)
      /\ t.handoff = u.handoff
  BY <1>1, <1>2 DEF Scheduled, Vacated, c
<1>4. /\ ToSet(s.runQueue) \in SUBSET Gids /\ ToSet(s.sleepQueue) \in SUBSET Gids
      /\ ToSet(s.outQueue) \in SUBSET Gids
  BY <1>1, Members
<1>5. \A x \in Gids : u.handoff[x] # h /\ (u.handoff[x] = s.handoff[x] \/ u.handoff[x] = None)
  BY DEF Vacated
<1>6. CtxInv(t)
  BY <1>1, <1>t, <1>3 DEF CtxInv, SchInv, c
<1>7. FreeInv(t)
  BY <1>1, <1>t, <1>3 DEF FreeInv, SchInv
<1>8. OutInv(t)
  BY <1>1, <1>t, <1>3, <1>4 DEF OutInv, SchInv
<1>9. RunInv(t)
  <2> SUFFICES ASSUME NEW x \in ToSet(s.runQueue) \ {h}, NEW d \in Mask[x]
               PROVE  t.state[x] = "QUEUED" /\ t.curThread[d] # None /\ t.state[t.curThread[d]] = "RUNNING"
    <3>1. \A x \in ToSet(t.runQueue) : \E d \in Cids : d \in Mask[x]
      BY <1>3, <1>4, SchedulerAssumption
    <3> QED
      BY <1>3, <3>1 DEF RunInv
  <2>1. d \in Cids /\ x \in Gids
    BY <1>4, SchedulerAssumption
  <2>2. s.state[x] = "QUEUED" /\ s.curThread[d] # None /\ s.state[s.curThread[d]] = "RUNNING"
    BY DEF SchInv, RunInv
  <2>3. d # c => s.curThread[d] # g
    BY <1>1, <2>1 DEF SchInv, CtxInv
  <2> QED
    BY <1>1, <1>t, <1>3, <2>1, <2>2, <2>3
<1>10. SleepInv(t)
  BY <1>1, <1>t, <1>3, <1>4 DEF SleepInv, SchInv
<1>11. HandInv(t)
  <2> SUFFICES ASSUME NEW x \in Gids, u.handoff[x] # None
               PROVE  /\ t.state[u.handoff[x]] = "QUEUED" /\ u.handoff[x] \notin ToSet(t.runQueue)
                      /\ \A y \in Gids : u.handoff[y] = u.handoff[x] => y = x
    BY <1>3 DEF HandInv
  <2>1. /\ u.handoff[x] = s.handoff[x] /\ u.handoff[x] \in Gids
        /\ s.state[s.handoff[x]] = "QUEUED" /\ s.handoff[x] \notin ToSet(s.runQueue)
        /\ \A y \in Gids : s.handoff[y] = s.handoff[x] => y = x
    BY <1>t, <1>5 DEF SchInv, HandInv
  <2> QED
    BY <1>1, <1>3, <1>5, <2>1
<1> QED
  BY <1>1, <1>2, <1>3, <1>6, <1>7, <1>8, <1>9, <1>10, <1>11 DEF SchInv, t, c

LEMMA WakeupKeeps ==
    ASSUME NEW s, SchInv(s), NEW g \in Gids
    PROVE  LET t == Wakeup(s, g) IN
           /\ SchInv(t) /\ t = [s EXCEPT !.futexWord = [s.futexWord EXCEPT ![g] = 0]]
<1>1. s \in SchType
  BY DEF SchInv
<1>2. Wakeup(s, g) = [s EXCEPT !.futexWord = [s.futexWord EXCEPT ![g] = 0]]
  BY DEF Wakeup
<1>3. [s.futexWord EXCEPT ![g] = 0] \in [Gids -> {0, 1}]
  BY <1>1, FieldTypes
<1> DEFINE t == Wakeup(s, g)
<1>4. /\ t \in SchType
      /\ t.state = s.state /\ t.cid = s.cid /\ t.handoff = s.handoff /\ t.curThread = s.curThread
      /\ t.freeList = s.freeList /\ t.runQueue = s.runQueue
      /\ t.outQueue = s.outQueue /\ t.sleepQueue = s.sleepQueue
  BY <1>1, <1>2, <1>3 DEF SchType
<1> HIDE DEF t
<1>5. SchInv(t)
  BY <1>4, SameView
<1> QED
  BY <1>2, <1>5 DEF t

LEMMA SchedContextSpec ==
    ASSUME NEW s \in SchType, NEW c \in Cids
    PROVE  /\ SchedContext(s, c) = None => \A g \in ToSet(s.runQueue) : c \notin Mask[g]
           /\ SchedContext(s, c) # None =>
                SchedContext(s, c) \in ToSet(s.runQueue) /\ c \in Mask[SchedContext(s, c)]
<1> DEFINE S == {g \in Gids : c \in Mask[g]}
<1>1. s.runQueue \in Seq(Gids) /\ None \notin Gids
  BY FieldTypes, Constants
<1>2. /\ SchedContext(s, c) = None <=> ToSet(s.runQueue) \cap S = {}
      /\ SchedContext(s, c) # None => SchedContext(s, c) \in ToSet(s.runQueue) \cap S
  <2> HIDE DEF S
  <2>1. SchedContext(s, c) = FirstIn(s.runQueue, S)
    BY DEF SchedContext, S
  <2> QED
    BY <1>1, <2>1, FirstInSpec
<1> QED
  BY <1>2, Members

\* t is s after thread g has left and the queued thread h has taken over.
HandedOver(s, g, h, t) ==
    /\ SchInv(t)
    /\ \A x \in Gids :
         /\ t.state[x] = IF x = h THEN "RUNNING"
                         ELSE IF x = g THEN (IF s.marked[g] THEN "SLEEPING" ELSE "BLOCKED")
                         ELSE s.state[x]
         /\ t.cid[x] = IF x = h THEN s.cid[g] ELSE s.cid[x]
         /\ t.futexWord[x] = IF x = h THEN 0 ELSE s.futexWord[x]
         /\ t.marked[x] = (x # g /\ s.marked[x])
    /\ \A d \in Cids : t.curThread[d] = IF d = s.cid[g] THEN h ELSE s.curThread[d]
    /\ ToSet(t.runQueue) = ToSet(s.runQueue) \ {h}
    /\ ToSet(t.sleepQueue) = IF s.marked[g] THEN ToSet(s.sleepQueue) \cup {g} ELSE ToSet(s.sleepQueue)
    /\ t.handoff = s.handoff /\ t.sleep = s.sleep
    /\ t.fakePc = s.fakePc /\ t.fakeLeaves = s.fakeLeaves
    /\ NoRepeats(s) => NoRepeats(t)
    /\ Sorted(s) => Sorted(t)

LEMMA LeaveHandsOverSpec ==
    ASSUME NEW s, SchInv(s), NEW g \in Gids, s.state[g] = "RUNNING",
           SchedContext(s, s.cid[g]) # None
    PROVE  \E h \in ToSet(s.runQueue) :
              s.cid[g] \in Mask[h] /\ HandedOver(s, g, h, LeaveHandsOver(s, g))
<1> DEFINE c == s.cid[g]
           to == IF s.marked[g] THEN "SLEEPING" ELSE "BLOCKED"
           d == Deschedule(s, g, to)
           q == [d EXCEPT !.marked[g] = FALSE]
           u == IF s.marked[g] THEN InsertSleeper(q, g) ELSE q
           h == SchedContext(s, c)
           v == Schedule(u, h, c)
           t == Wakeup(v, h)
<1>1. /\ s \in SchType /\ c \in Cids /\ to \in {"BLOCKED", "SLEEPING", "QUEUED"}
      /\ to \in States /\ s.marked[g] \in BOOLEAN
  BY FieldTypes DEF SchInv, States
<1>2. h \in ToSet(s.runQueue) /\ c \in Mask[h] /\ h \in Gids /\ s.state[h] = "QUEUED"
  BY <1>1, SchedContextSpec, Members DEF SchInv, RunInv
<1>3. LeaveHandsOver(s, g) = t
  BY DEF LeaveHandsOver
<1>f. /\ s.state \in [Gids -> States] /\ s.cid \in [Gids -> Cids] /\ s.marked \in [Gids -> BOOLEAN]
      /\ s.curThread \in [Cids -> Gids \cup {None}] /\ s.futexWord \in [Gids -> {0, 1}]
      /\ s.handoff \in [Gids -> Gids \cup {None}]
  BY <1>1, FieldTypes
<1>4. /\ d \in SchType
      /\ d = [s EXCEPT !.state = [s.state EXCEPT ![g] = to],
                       !.curThread = [s.curThread EXCEPT ![c] = None]]
  BY <1>1, DescheduleFields
<1>5. q = [d EXCEPT !.marked = [d.marked EXCEPT ![g] = FALSE]] /\ q \in SchType
  <2> HIDE DEF d
  <2>1. d.marked \in [Gids -> BOOLEAN] /\ [d.marked EXCEPT ![g] = FALSE] \in [Gids -> BOOLEAN]
    BY <1>4, FieldTypes
  <2> QED
    BY <1>4, <2>1 DEF SchType
<1> HIDE DEF d, to, h, c
<1>6. /\ q.state = [s.state EXCEPT ![g] = to] /\ q.cid = s.cid
      /\ q.curThread = [s.curThread EXCEPT ![c] = None]
      /\ q.marked = [s.marked EXCEPT ![g] = FALSE]
      /\ q.freeList = s.freeList /\ q.runQueue = s.runQueue /\ q.outQueue = s.outQueue
      /\ q.sleepQueue = s.sleepQueue /\ q.handoff = s.handoff
      /\ q.futexWord = s.futexWord /\ q.sleep = s.sleep
      /\ q.fakePc = s.fakePc /\ q.fakeLeaves = s.fakeLeaves
  BY <1>4, <1>5, <1>1 DEF SchType
<1> HIDE DEF q
<1>7. /\ u \in SchType
      /\ u.state = q.state /\ u.cid = q.cid /\ u.curThread = q.curThread /\ u.marked = q.marked
      /\ u.freeList = q.freeList /\ u.runQueue = q.runQueue /\ u.outQueue = q.outQueue
      /\ u.handoff = q.handoff /\ u.futexWord = q.futexWord /\ u.sleep = q.sleep
      /\ u.fakePc = q.fakePc /\ u.fakeLeaves = q.fakeLeaves
      /\ ToSet(u.sleepQueue) = IF s.marked[g] THEN ToSet(q.sleepQueue) \cup {g} ELSE ToSet(q.sleepQueue)
      /\ IsInjective(q.sleepQueue) /\ g \notin ToSet(q.sleepQueue) => IsInjective(u.sleepQueue)
      /\ Sorted(q) => Sorted(u)
  <2>1. CASE ~ s.marked[g]
    <3>1. u = q
      BY <2>1
    <3> QED
      BY <1>5, <2>1, <3>1
  <2>2. CASE s.marked[g]
    <3>1. u = InsertSleeper(q, g)
      BY <2>2
    <3> HIDE DEF u
    <3>2. /\ u \in SchType /\ u = [q EXCEPT !.sleepQueue = u.sleepQueue]
          /\ ToSet(u.sleepQueue) = ToSet(q.sleepQueue) \cup {g}
          /\ IsInjective(q.sleepQueue) /\ g \notin ToSet(q.sleepQueue) => IsInjective(u.sleepQueue)
          /\ Sorted(q) => Sorted(u)
      BY <1>5, <3>1, InsertSleeperSpec
    <3>3. /\ u.state = q.state /\ u.cid = q.cid /\ u.curThread = q.curThread /\ u.marked = q.marked
          /\ u.freeList = q.freeList /\ u.runQueue = q.runQueue /\ u.outQueue = q.outQueue
          /\ u.handoff = q.handoff /\ u.futexWord = q.futexWord /\ u.sleep = q.sleep
          /\ u.fakePc = q.fakePc /\ u.fakeLeaves = q.fakeLeaves
      <4>1. \A z : LET y == [q EXCEPT !.sleepQueue = z] IN
              /\ y.state = q.state /\ y.cid = q.cid /\ y.curThread = q.curThread /\ y.marked = q.marked
              /\ y.freeList = q.freeList /\ y.runQueue = q.runQueue /\ y.outQueue = q.outQueue
              /\ y.handoff = q.handoff /\ y.futexWord = q.futexWord /\ y.sleep = q.sleep
              /\ y.fakePc = q.fakePc /\ y.fakeLeaves = q.fakeLeaves
        BY <1>5 DEF SchType
      <4>2. PICK z : z = u.sleepQueue
        OBVIOUS
      <4>3. u = [q EXCEPT !.sleepQueue = z]
        BY <3>2, <4>2
      <4> HIDE <3>2
      <4> QED
        BY <4>1, <4>3
    <3> QED
      BY <2>2, <3>2, <3>3
  <2> QED
    BY <1>1, <2>1, <2>2
<1> HIDE DEF u
<1>8. Vacated(s, g, to, u)
  <2>1. ToSet(u.sleepQueue) = IF to = "SLEEPING" THEN ToSet(s.sleepQueue) \cup {g} ELSE ToSet(s.sleepQueue)
    BY <1>1, <1>6, <1>7 DEF to
  <2> QED
    BY <1>f, <1>1, <1>6, <1>7, <2>1 DEF Vacated, c
<1>9. \A x \in Gids : u.handoff[x] # h
  BY <1>f, <1>2, <1>6, <1>7, Constants DEF SchInv, HandInv
<1>10. SchInv(v) /\ Scheduled(u, h, c, v) /\ u.curThread[c] = None
  BY <1>1, <1>2, <1>8, <1>9, SwitchKeeps DEF c
<1> HIDE DEF v
<1>11. SchInv(t) /\ t = [v EXCEPT !.futexWord = [v.futexWord EXCEPT ![h] = 0]]
  BY <1>2, <1>10, WakeupKeeps
<1> HIDE DEF t
<1>12. /\ t.state = v.state /\ t.cid = v.cid /\ t.curThread = v.curThread /\ t.marked = v.marked
       /\ t.freeList = v.freeList /\ t.runQueue = v.runQueue /\ t.outQueue = v.outQueue
       /\ t.sleepQueue = v.sleepQueue
       /\ t.handoff = v.handoff /\ t.futexWord = [v.futexWord EXCEPT ![h] = 0] /\ t.sleep = v.sleep
       /\ t.fakePc = v.fakePc /\ t.fakeLeaves = v.fakeLeaves
  <2>1. v \in SchType
    BY <1>10 DEF Scheduled
  <2> QED
    BY <1>11, <2>1 DEF SchType
<1>13. /\ \A x \in Gids :
            /\ t.state[x] = IF x = h THEN "RUNNING" ELSE IF x = g THEN to ELSE s.state[x]
            /\ t.cid[x] = IF x = h THEN c ELSE s.cid[x]
            /\ t.futexWord[x] = IF x = h THEN 0 ELSE s.futexWord[x]
            /\ t.marked[x] = (x # g /\ s.marked[x])
       /\ \A e \in Cids : t.curThread[e] = IF e = c THEN h ELSE s.curThread[e]
       /\ ToSet(t.runQueue) = ToSet(s.runQueue) \ {h}
       /\ t.handoff = s.handoff /\ t.sleep = s.sleep
       /\ t.fakePc = s.fakePc /\ t.fakeLeaves = s.fakeLeaves
       /\ t.sleepQueue = u.sleepQueue
  <2>1. \A x \in Gids : x # u.curThread[c]
    BY <1>10, Constants
  <2> QED
    <3>1. /\ \A x \in Gids : /\ v.state[x] = IF x = h THEN "RUNNING" ELSE u.state[x]
                             /\ v.cid[x] = IF x = h THEN c ELSE u.cid[x]
          /\ \A e \in Cids : v.curThread[e] = IF e = c THEN h ELSE u.curThread[e]
          /\ ToSet(v.runQueue) = ToSet(u.runQueue) \ {h}
          /\ v.handoff = u.handoff /\ v.sleep = u.sleep /\ v.marked = u.marked
          /\ v.fakePc = u.fakePc /\ v.fakeLeaves = u.fakeLeaves /\ v.futexWord = u.futexWord
          /\ v.sleepQueue = u.sleepQueue
      BY <1>10, <2>1 DEF Scheduled
    <3>2. \A x \in Gids : /\ t.state[x] = IF x = h THEN "RUNNING" ELSE IF x = g THEN to ELSE s.state[x]
                          /\ t.cid[x] = IF x = h THEN c ELSE s.cid[x]
      BY <1>f, <1>2, <1>6, <1>7, <1>12, <3>1
    <3>3. \A x \in Gids : /\ t.futexWord[x] = IF x = h THEN 0 ELSE s.futexWord[x]
                          /\ t.marked[x] = (x # g /\ s.marked[x])
      <4>1. t.futexWord = [s.futexWord EXCEPT ![h] = 0] /\ t.marked = [s.marked EXCEPT ![g] = FALSE]
        BY <1>6, <1>7, <1>12, <3>1
      <4> QED
        BY <1>f, <4>1
    <3>4. \A e \in Cids : t.curThread[e] = IF e = c THEN h ELSE s.curThread[e]
      BY <1>f, <1>1, <1>6, <1>7, <1>12, <3>1
    <3> QED
      BY <1>6, <1>7, <1>12, <3>1, <3>2, <3>3, <3>4
<1>14. NoRepeats(s) => NoRepeats(t)
  <2>1. g \notin ToSet(s.sleepQueue)
    BY DEF SchInv, SleepInv
  <2> QED
    BY <1>6, <1>7, <1>10, <1>12, <1>13, <2>1 DEF NoRepeats, Scheduled
<1>15. Sorted(s) => Sorted(t)
  <2>1. Sorted(s) => Sorted(q)
    BY <1>6 DEF Sorted
  <2>2. Sorted(u) => Sorted(t)
    BY <1>6, <1>7, <1>13 DEF Sorted
  <2> QED
    BY <2>1, <2>2, <1>7
<1>16. HandedOver(s, g, h, t)
  BY <1>1, <1>6, <1>7, <1>11, <1>13, <1>14, <1>15 DEF HandedOver, to, c
<1> QED
  BY <1>2, <1>3, <1>16 DEF c

\* t is s after thread g has left the barrier: it sleeps and its context is
\* free, or it is OUT and keeps the context.
LeftBarrier(s, g, t) ==
    /\ SchInv(t)
    /\ \A x \in Gids :
         /\ t.state[x] = IF x = g THEN (IF s.marked[g] THEN "SLEEPING" ELSE "OUT") ELSE s.state[x]
         /\ t.marked[x] = (x # g /\ s.marked[x])
    /\ \A d \in Cids : t.curThread[d] = IF d = s.cid[g] /\ s.marked[g] THEN None ELSE s.curThread[d]
    /\ ToSet(t.sleepQueue) = IF s.marked[g] THEN ToSet(s.sleepQueue) \cup {g} ELSE ToSet(s.sleepQueue)
    /\ t.cid = s.cid /\ t.futexWord = s.futexWord /\ t.runQueue = s.runQueue
    /\ t.handoff = s.handoff /\ t.sleep = s.sleep
    /\ t.fakePc = s.fakePc /\ t.fakeLeaves = s.fakeLeaves
    /\ NoRepeats(s) => NoRepeats(t)
    /\ Sorted(s) => Sorted(t)

LEMMA LeaveBarrierSpec ==
    ASSUME NEW s, SchInv(s), NEW g \in Gids, s.state[g] = "RUNNING",
           SchedContext(s, s.cid[g]) = None
    PROVE  LeftBarrier(s, g, LeaveBarrier(s, g))
<1> DEFINE c == s.cid[g]
           t == LeaveBarrier(s, g)
<1>1. s \in SchType /\ c \in Cids /\ s.marked[g] \in BOOLEAN /\ s.curThread[c] = g
  BY FieldTypes DEF SchInv, CtxInv
<1>f. /\ s.state \in [Gids -> States] /\ s.cid \in [Gids -> Cids] /\ s.marked \in [Gids -> BOOLEAN]
      /\ s.curThread \in [Cids -> Gids \cup {None}] /\ s.futexWord \in [Gids -> {0, 1}]
      /\ s.handoff \in [Gids -> Gids \cup {None}] /\ s.outQueue \in Seq(Gids)
      /\ s.freeList \in Seq(Cids) /\ None \notin Gids
  BY <1>1, FieldTypes, Constants
<1>2. \A x \in ToSet(s.runQueue) : c \notin Mask[x]
  BY <1>1, SchedContextSpec
<1>3. /\ t \in SchType
      /\ \A x \in Gids :
           /\ t.state[x] = IF x = g THEN (IF s.marked[g] THEN "SLEEPING" ELSE "OUT") ELSE s.state[x]
           /\ t.marked[x] = (x # g /\ s.marked[x])
      /\ \A d \in Cids : t.curThread[d] = IF d = c /\ s.marked[g] THEN None ELSE s.curThread[d]
      /\ ToSet(t.sleepQueue) = IF s.marked[g] THEN ToSet(s.sleepQueue) \cup {g} ELSE ToSet(s.sleepQueue)
      /\ ToSet(t.outQueue) = IF s.marked[g] THEN ToSet(s.outQueue) ELSE ToSet(s.outQueue) \cup {g}
      /\ ToSet(t.freeList) = IF s.marked[g] THEN ToSet(s.freeList) \cup {c} ELSE ToSet(s.freeList)
      /\ IsInjective(s.freeList) /\ c \notin ToSet(s.freeList) => IsInjective(t.freeList)
      /\ IsInjective(s.outQueue) /\ g \notin ToSet(s.outQueue) => IsInjective(t.outQueue)
      /\ IsInjective(s.sleepQueue) /\ g \notin ToSet(s.sleepQueue) => IsInjective(t.sleepQueue)
      /\ t.cid = s.cid /\ t.futexWord = s.futexWord /\ t.runQueue = s.runQueue
      /\ t.handoff = s.handoff /\ t.sleep = s.sleep
      /\ t.fakePc = s.fakePc /\ t.fakeLeaves = s.fakeLeaves
      /\ Sorted(s) => Sorted(t)
  <2>1. CASE ~ s.marked[g]
    <3> DEFINE z == Append(s.outQueue, g)
    <3>1. z \in Seq(Gids) /\ ToSet(z) = ToSet(s.outQueue) \cup {g}
          /\ (IsInjective(s.outQueue) /\ g \notin ToSet(s.outQueue) => IsInjective(z))
      BY <1>f, AppendSpec
    <3>2. t = [s EXCEPT !.state = [s.state EXCEPT ![g] = "OUT"], !.outQueue = z]
      BY <2>1 DEF LeaveBarrier
    <3> HIDE DEF z, t, c
    <3>3. /\ t \in SchType
          /\ t.state = [s.state EXCEPT ![g] = "OUT"] /\ t.marked = s.marked
          /\ t.curThread = s.curThread /\ t.sleepQueue = s.sleepQueue /\ t.outQueue = z
          /\ t.freeList = s.freeList
          /\ t.cid = s.cid /\ t.futexWord = s.futexWord /\ t.runQueue = s.runQueue
          /\ t.handoff = s.handoff /\ t.sleep = s.sleep
          /\ t.fakePc = s.fakePc /\ t.fakeLeaves = s.fakeLeaves
      <4>1. [s.state EXCEPT ![g] = "OUT"] \in [Gids -> States]
        BY <1>f DEF States
      <4> QED
        BY <1>1, <3>1, <3>2, <4>1 DEF SchType
    <3>4. Sorted(s) => Sorted(t)
      BY <3>3 DEF Sorted
    <3>5. \A x \in Gids : /\ t.state[x] = IF x = g THEN "OUT" ELSE s.state[x]
                          /\ t.marked[x] = (x # g /\ s.marked[x])
      BY <1>f, <2>1, <3>3
    <3> QED
      BY <2>1, <3>1, <3>3, <3>4, <3>5
  <2>2. CASE s.marked[g]
    <3> DEFINE d == Deschedule(s, g, "SLEEPING")
               q == [d EXCEPT !.marked[g] = FALSE]
               u == InsertSleeper(q, g)
               z == Append(s.freeList, c)
    <3>1. z \in Seq(Cids) /\ ToSet(z) = ToSet(s.freeList) \cup {c}
          /\ (IsInjective(s.freeList) /\ c \notin ToSet(s.freeList) => IsInjective(z))
      BY <1>1, <1>f, AppendSpec
    <3>2. t = [u EXCEPT !.freeList = Append(@, c)]
      BY <2>2 DEF LeaveBarrier
    <3>3. /\ d \in SchType
          /\ d = [s EXCEPT !.state = [s.state EXCEPT ![g] = "SLEEPING"],
                           !.curThread = [s.curThread EXCEPT ![c] = None]]
      BY <1>1, DescheduleFields DEF States
    <3> HIDE DEF z, t, c, d
    <3>4. q = [d EXCEPT !.marked = [d.marked EXCEPT ![g] = FALSE]] /\ q \in SchType
      <4>1. d.marked \in [Gids -> BOOLEAN] /\ [d.marked EXCEPT ![g] = FALSE] \in [Gids -> BOOLEAN]
        BY <3>3, FieldTypes
      <4> QED
        BY <3>3, <4>1 DEF SchType
    <3>5. /\ q.state = [s.state EXCEPT ![g] = "SLEEPING"] /\ q.cid = s.cid
          /\ q.curThread = [s.curThread EXCEPT ![c] = None]
          /\ q.marked = [s.marked EXCEPT ![g] = FALSE]
          /\ q.freeList = s.freeList /\ q.runQueue = s.runQueue /\ q.outQueue = s.outQueue
          /\ q.sleepQueue = s.sleepQueue /\ q.handoff = s.handoff
          /\ q.futexWord = s.futexWord /\ q.sleep = s.sleep
          /\ q.fakePc = s.fakePc /\ q.fakeLeaves = s.fakeLeaves
      BY <1>1, <3>3, <3>4 DEF SchType
    <3> HIDE DEF q
    <3>6. /\ u \in SchType /\ u = [q EXCEPT !.sleepQueue = u.sleepQueue]
          /\ ToSet(u.sleepQueue) = ToSet(q.sleepQueue) \cup {g}
          /\ IsInjective(q.sleepQueue) /\ g \notin ToSet(q.sleepQueue) => IsInjective(u.sleepQueue)
          /\ Sorted(q) => Sorted(u)
      BY <3>4, InsertSleeperSpec
    <3> HIDE DEF u
    <3>7. PICK y : y = u.sleepQueue
      OBVIOUS
    <3>8. u = [q EXCEPT !.sleepQueue = y]
      BY <3>6, <3>7
    <3>9. /\ u.state = q.state /\ u.cid = q.cid /\ u.curThread = q.curThread /\ u.marked = q.marked
          /\ u.freeList = q.freeList /\ u.runQueue = q.runQueue /\ u.outQueue = q.outQueue
          /\ u.handoff = q.handoff /\ u.futexWord = q.futexWord /\ u.sleep = q.sleep
          /\ u.fakePc = q.fakePc /\ u.fakeLeaves = q.fakeLeaves
      BY <3>4, <3>8 DEF SchType
    <3>10. t = [u EXCEPT !.freeList = z]
      <4>1. u.freeList = s.freeList
        BY <3>5, <3>9
      <4> QED
        BY <3>2, <4>1 DEF z
    <3>11. /\ t \in SchType
           /\ t.state = u.state /\ t.cid = u.cid /\ t.curThread = u.curThread /\ t.marked = u.marked
           /\ t.freeList = z /\ t.runQueue = u.runQueue /\ t.outQueue = u.outQueue
           /\ t.sleepQueue = u.sleepQueue
           /\ t.handoff = u.handoff /\ t.futexWord = u.futexWord /\ t.sleep = u.sleep
           /\ t.fakePc = u.fakePc /\ t.fakeLeaves = u.fakeLeaves
      BY <3>1, <3>6, <3>10 DEF SchType
    <3>12. Sorted(s) => Sorted(t)
      <4>1. Sorted(s) => Sorted(q)
        BY <3>5 DEF Sorted
      <4>2. Sorted(u) => Sorted(t)
        BY <3>11 DEF Sorted
      <4> QED
        BY <3>6, <4>1, <4>2
    <3>13. /\ t.state = [s.state EXCEPT ![g] = "SLEEPING"] /\ t.cid = s.cid
           /\ t.curThread = [s.curThread EXCEPT ![c] = None]
           /\ t.marked = [s.marked EXCEPT ![g] = FALSE]
           /\ t.runQueue = s.runQueue /\ t.outQueue = s.outQueue
           /\ t.handoff = s.handoff /\ t.freeList = z
           /\ t.futexWord = s.futexWord /\ t.sleep = s.sleep
           /\ t.fakePc = s.fakePc /\ t.fakeLeaves = s.fakeLeaves
      BY <3>5, <3>9, <3>11
    <3>14. \A x \in Gids : /\ t.state[x] = IF x = g THEN "SLEEPING" ELSE s.state[x]
                           /\ t.marked[x] = (x # g /\ s.marked[x])
      BY <1>f, <3>13
    <3>15. \A e \in Cids : t.curThread[e] = IF e = c THEN None ELSE s.curThread[e]
      BY <1>f, <3>13
    <3>16. /\ ToSet(t.sleepQueue) = ToSet(s.sleepQueue) \cup {g}
           /\ IsInjective(s.sleepQueue) /\ g \notin ToSet(s.sleepQueue) => IsInjective(t.sleepQueue)
      BY <3>5, <3>6, <3>11
    <3>17. IsInjective(s.outQueue) /\ g \notin ToSet(s.outQueue) => IsInjective(t.outQueue)
      BY <3>13
    <3>18. s.marked[g] = TRUE
      BY <1>1, <2>2
    <3>19. /\ \A x \in Gids :
                t.state[x] = IF x = g THEN (IF s.marked[g] THEN "SLEEPING" ELSE "OUT") ELSE s.state[x]
           /\ \A e \in Cids : t.curThread[e] = IF e = c /\ s.marked[g] THEN None ELSE s.curThread[e]
      BY <3>14, <3>15, <3>18
    <3>20. /\ ToSet(t.sleepQueue) = IF s.marked[g] THEN ToSet(s.sleepQueue) \cup {g} ELSE ToSet(s.sleepQueue)
           /\ ToSet(t.outQueue) = IF s.marked[g] THEN ToSet(s.outQueue) ELSE ToSet(s.outQueue) \cup {g}
           /\ ToSet(t.freeList) = IF s.marked[g] THEN ToSet(s.freeList) \cup {c} ELSE ToSet(s.freeList)
           /\ IsInjective(s.freeList) /\ c \notin ToSet(s.freeList) => IsInjective(t.freeList)
      BY <3>1, <3>13, <3>16, <3>18
    <3> QED
      BY <3>11, <3>12, <3>13, <3>14, <3>16, <3>17, <3>19, <3>20, Zenon
  <2> QED
    BY <1>1, <2>1, <2>2
<1> HIDE DEF t, c
<1>4. ToSet(s.runQueue) \in SUBSET Gids /\ ToSet(s.sleepQueue) \in SUBSET Gids
      /\ ToSet(s.outQueue) \in SUBSET Gids
  BY <1>1, Members
<1>5. CtxInv(t)
  BY <1>1, <1>f, <1>3 DEF CtxInv, SchInv, c
<1>6. FreeInv(t)
  BY <1>1, <1>f, <1>3 DEF FreeInv, SchInv
<1>7. OutInv(t)
  BY <1>1, <1>f, <1>3, <1>4 DEF OutInv, SchInv
<1>8. RunInv(t)
  <2> SUFFICES ASSUME NEW x \in ToSet(s.runQueue), NEW d \in Mask[x]
               PROVE  t.state[x] = "QUEUED" /\ t.curThread[d] # None /\ t.state[t.curThread[d]] = "RUNNING"
    <3>1. \A x \in ToSet(t.runQueue) : \E d \in Cids : d \in Mask[x]
      BY <1>3, <1>4, SchedulerAssumption
    <3> QED
      BY <1>3, <3>1 DEF RunInv
  <2>1. d \in Cids /\ x \in Gids
    BY <1>4, SchedulerAssumption
  <2>2. s.state[x] = "QUEUED" /\ s.curThread[d] # None /\ s.state[s.curThread[d]] = "RUNNING"
    BY DEF SchInv, RunInv
  <2>3. d # c
    BY <1>2
  <2>4. s.curThread[d] # g
    BY <1>1, <2>1, <2>3 DEF SchInv, CtxInv, c
  <2> QED
    BY <1>1, <1>f, <1>3, <2>1, <2>2, <2>3, <2>4
<1>9. SleepInv(t)
  BY <1>1, <1>f, <1>3, <1>4 DEF SleepInv, SchInv
<1>10. HandInv(t)
  <2> SUFFICES ASSUME NEW x \in Gids, s.handoff[x] # None
               PROVE  t.state[s.handoff[x]] = "QUEUED"
    BY <1>3 DEF HandInv, SchInv
  <2>1. s.handoff[x] \in Gids /\ s.state[s.handoff[x]] = "QUEUED"
    BY <1>f DEF SchInv, HandInv
  <2> QED
    BY <1>3, <2>1
<1>11. NoRepeats(s) => NoRepeats(t)
  <2>1. g \notin ToSet(s.sleepQueue) /\ g \notin ToSet(s.outQueue)
    BY DEF SchInv, SleepInv, OutInv
  <2> QED
    BY <1>3, <2>1 DEF NoRepeats
<1>12. LeftBarrier(s, g, t)
  BY <1>3, <1>5, <1>6, <1>7, <1>8, <1>9, <1>10, <1>11 DEF LeftBarrier, SchInv, c
<1> QED
  BY <1>12 DEF t

LEMMA SchedThreadSpec ==
    ASSUME NEW s, SchInv(s), NEW g \in Gids
    PROVE  /\ SchedThread(s, g) # None =>
                /\ SchedThread(s, g) \in Cids
                /\ \/ s.curThread[SchedThread(s, g)] = None
                   \/ s.state[s.curThread[SchedThread(s, g)]] = "OUT"
           /\ SchedThread(s, g) = None =>
                \A c \in Mask[g] : s.curThread[c] # None /\ s.state[s.curThread[c]] = "RUNNING"
<1> DEFINE S == {h \in Gids : s.cid[h] \in Mask[g]}
           free == FirstIn(s.freeList, Mask[g])
           out == FirstIn(s.outQueue, S)
           d == SchedThread(s, g)
<1>1. /\ s \in SchType /\ Mask[g] \in SUBSET Cids /\ s.cid[g] \in Cids
      /\ s.freeList \in Seq(Cids) /\ s.outQueue \in Seq(Gids) /\ None \notin Gids /\ None \notin Cids
      /\ s.curThread \in [Cids -> Gids \cup {None}] /\ s.cid \in [Gids -> Cids]
  BY FieldTypes, Constants, SchedulerAssumption DEF SchInv
<1>2. /\ free = None <=> ToSet(s.freeList) \cap Mask[g] = {}
      /\ free # None => free \in ToSet(s.freeList) \cap Mask[g]
  BY <1>1, FirstInSpec
<1>3. /\ out = None <=> ToSet(s.outQueue) \cap S = {}
      /\ out # None => out \in ToSet(s.outQueue) \cap S
  <2> HIDE DEF S
  <2> QED
    BY <1>1, FirstInSpec
<1>4. d = IF s.curThread[s.cid[g]] = None /\ s.cid[g] \in Mask[g] THEN s.cid[g]
          ELSE IF free # None THEN free ELSE IF out # None THEN s.cid[out] ELSE None
  BY DEF SchedThread
<1> HIDE DEF d, free, out
<1>5. ASSUME free # None PROVE free \in Cids /\ s.curThread[free] = None
  BY <1>2, <1>5, <1>1 DEF SchInv, FreeInv
<1>6. ASSUME out # None PROVE s.cid[out] \in Cids /\ s.state[s.curThread[s.cid[out]]] = "OUT"
  <2>1. out \in Gids /\ s.state[out] = "OUT"
    BY <1>3, <1>6 DEF SchInv, OutInv
  <2> QED
    BY <2>1, <1>1 DEF SchInv, CtxInv
<1>7. ASSUME free = None, out = None, NEW c \in Mask[g]
      PROVE  s.curThread[c] # None /\ s.state[s.curThread[c]] = "RUNNING"
  <2>1. c \in Cids /\ s.curThread[c] # None
    BY <1>1, <1>2, <1>7 DEF SchInv, FreeInv
  <2>2. PICK x \in Gids : x = s.curThread[c] /\ s.cid[x] = c /\ s.state[x] \in {"RUNNING", "OUT"}
    BY <1>1, <2>1 DEF SchInv, CtxInv
  <2>3. s.state[x] # "OUT"
    BY <1>3, <1>7, <2>2 DEF SchInv, OutInv
  <2> QED
    BY <2>1, <2>2, <2>3
<1>8. d # None => d \in Cids /\ (s.curThread[d] = None \/ s.state[s.curThread[d]] = "OUT")
  BY <1>1, <1>4, <1>5, <1>6
<1>9. d = None => free = None /\ out = None
  BY <1>1, <1>4, <1>5, <1>6
<1> QED
  BY <1>7, <1>8, <1>9 DEF d

\* t is s after thread g has been put in the run queue.
Queued(s, g, t) ==
    /\ SchInv(t)
    /\ \A x \in Gids : /\ t.state[x] = IF x = g THEN "QUEUED" ELSE s.state[x]
                       /\ t.futexWord[x] = IF x = g THEN 1 ELSE s.futexWord[x]
    /\ ToSet(t.runQueue) = ToSet(s.runQueue) \cup {g}
    /\ IsInjective(s.runQueue) /\ g \notin ToSet(s.runQueue) => IsInjective(t.runQueue)
    /\ t.cid = s.cid /\ t.curThread = s.curThread /\ t.outQueue = s.outQueue
    /\ t.sleepQueue = s.sleepQueue /\ t.handoff = s.handoff /\ t.marked = s.marked
    /\ t.sleep = s.sleep /\ t.fakePc = s.fakePc /\ t.fakeLeaves = s.fakeLeaves

LEMMA QueueKeeps ==
    ASSUME NEW s, SchInv(s), NEW g \in Gids,
           s.state[g] \notin {"RUNNING", "OUT", "SLEEPING"},
           \A h \in Gids : s.handoff[h] # g,
           \A c \in Mask[g] : s.curThread[c] # None /\ s.state[s.curThread[c]] = "RUNNING"
    PROVE  Queued(s, g, Queue(s, g))
<1> DEFINE t == Queue(s, g)
           z == Append(s.runQueue, g)
<1>1. s \in SchType
  BY DEF SchInv
<1>f. /\ s.state \in [Gids -> States] /\ s.cid \in [Gids -> Cids]
      /\ s.curThread \in [Cids -> Gids \cup {None}] /\ s.futexWord \in [Gids -> {0, 1}]
      /\ s.handoff \in [Gids -> Gids \cup {None}] /\ s.runQueue \in Seq(Gids) /\ None \notin Gids
  BY <1>1, FieldTypes, Constants
<1>2. /\ z \in Seq(Gids) /\ ToSet(z) = ToSet(s.runQueue) \cup {g}
      /\ IsInjective(s.runQueue) /\ g \notin ToSet(s.runQueue) => IsInjective(z)
  BY <1>f, AppendSpec
<1>3. t = [s EXCEPT !.state = [s.state EXCEPT ![g] = "QUEUED"],
                    !.futexWord = [s.futexWord EXCEPT ![g] = 1], !.runQueue = z]
  BY DEF Queue
<1> HIDE DEF t, z
<1>4. /\ t \in SchType
      /\ t.state = [s.state EXCEPT ![g] = "QUEUED"]
      /\ t.futexWord = [s.futexWord EXCEPT ![g] = 1] /\ t.runQueue = z
      /\ t.cid = s.cid /\ t.curThread = s.curThread /\ t.outQueue = s.outQueue
      /\ t.freeList = s.freeList
      /\ t.sleepQueue = s.sleepQueue /\ t.handoff = s.handoff /\ t.marked = s.marked
      /\ t.sleep = s.sleep /\ t.fakePc = s.fakePc /\ t.fakeLeaves = s.fakeLeaves
  <2>1. /\ [s.state EXCEPT ![g] = "QUEUED"] \in [Gids -> States]
        /\ [s.futexWord EXCEPT ![g] = 1] \in [Gids -> {0, 1}]
    BY <1>f DEF States
  <2> QED
    BY <1>1, <1>2, <1>3, <2>1 DEF SchType
<1>5. \A x \in Gids : /\ t.state[x] = IF x = g THEN "QUEUED" ELSE s.state[x]
                      /\ t.futexWord[x] = IF x = g THEN 1 ELSE s.futexWord[x]
  BY <1>f, <1>4
<1>6. ToSet(s.runQueue) \in SUBSET Gids /\ ToSet(s.sleepQueue) \in SUBSET Gids
  BY <1>1, Members
<1>7. CtxInv(t) /\ FreeInv(t) /\ OutInv(t)
  BY <1>f, <1>4, <1>5 DEF SchInv, CtxInv, FreeInv, OutInv
<1>8. RunInv(t)
  <2> SUFFICES ASSUME NEW x \in ToSet(t.runQueue), NEW d \in Mask[x]
               PROVE  t.state[x] = "QUEUED" /\ t.curThread[d] # None /\ t.state[t.curThread[d]] = "RUNNING"
    <3>1. \A x \in ToSet(t.runQueue) : \E d \in Cids : d \in Mask[x]
      BY <1>2, <1>4, <1>6, SchedulerAssumption
    <3> QED
      BY <3>1 DEF RunInv
  <2>1. x \in Gids /\ (x = g \/ x \in ToSet(s.runQueue))
    BY <1>2, <1>4, <1>6
  <2>2. d \in Cids
    BY <2>1, SchedulerAssumption
  <2>3. (x # g => s.state[x] = "QUEUED") /\ s.curThread[d] # None /\ s.state[s.curThread[d]] = "RUNNING"
    BY <2>1 DEF SchInv, RunInv
  <2> QED
    BY <1>f, <1>4, <1>5, <2>1, <2>2, <2>3
<1>9. SleepInv(t)
  BY <1>f, <1>4, <1>5, <1>6 DEF SchInv, SleepInv
<1>10. HandInv(t)
  <2> SUFFICES ASSUME NEW x \in Gids, s.handoff[x] # None
               PROVE  t.state[s.handoff[x]] = "QUEUED" /\ s.handoff[x] \notin ToSet(t.runQueue)
    BY <1>4 DEF HandInv, SchInv
  <2>1. s.handoff[x] \in Gids /\ s.state[s.handoff[x]] = "QUEUED" /\ s.handoff[x] \notin ToSet(s.runQueue)
    BY <1>f DEF SchInv, HandInv
  <2> QED
    BY <1>2, <1>4, <1>5, <2>1
<1>11. Queued(s, g, t)
  BY <1>2, <1>4, <1>5, <1>7, <1>8, <1>9, <1>10 DEF Queued, SchInv
<1> QED
  BY <1>11 DEF t

\* t is s after thread g has been taken out of its sleep.
Awakened(s, g, t) ==
    /\ SchInv(t)
    /\ \A x \in Gids : t.state[x] = IF x = g THEN "BLOCKED" ELSE s.state[x]
    /\ ToSet(t.sleepQueue) = ToSet(s.sleepQueue) \ {g}
    /\ t.cid = s.cid /\ t.curThread = s.curThread /\ t.outQueue = s.outQueue
    /\ t.runQueue = s.runQueue /\ t.handoff = s.handoff /\ t.marked = s.marked
    /\ t.sleep = s.sleep /\ t.futexWord = s.futexWord
    /\ t.fakePc = s.fakePc /\ t.fakeLeaves = s.fakeLeaves
    /\ NoRepeats(s) => NoRepeats(t)
    /\ Sorted(s) => Sorted(t)

LEMMA AwakenEarlyKeeps ==
    ASSUME NEW s, SchInv(s), NEW g \in Gids, s.state[g] \notin {"RUNNING", "OUT", "QUEUED"}
    PROVE  Awakened(s, g, AwakenEarly(s, g))
<1> DEFINE t == AwakenEarly(s, g)
           z == Without(s.sleepQueue, g)
<1>1. s \in SchType
  BY DEF SchInv
<1>f. /\ s.state \in [Gids -> States] /\ s.cid \in [Gids -> Cids]
      /\ s.curThread \in [Cids -> Gids \cup {None}] /\ s.sleep \in [Gids -> Int]
      /\ s.handoff \in [Gids -> Gids \cup {None}] /\ s.sleepQueue \in Seq(Gids) /\ None \notin Gids
  BY <1>1, FieldTypes, Constants
<1>2. /\ z \in Seq(Gids) /\ ToSet(z) = ToSet(s.sleepQueue) \ {g}
      /\ IsInjective(s.sleepQueue) => IsInjective(z)
  BY <1>f, WithoutSpec
<1>3. t = [s EXCEPT !.state = [s.state EXCEPT ![g] = "BLOCKED"], !.sleepQueue = z]
  BY DEF AwakenEarly
<1>4. \A k, l \in DOMAIN z : k < l =>
         \E i, j \in DOMAIN s.sleepQueue : i < j /\ s.sleepQueue[i] = z[k] /\ s.sleepQueue[j] = z[l]
  <2>1. PICK S : z = Only(s.sleepQueue, S)
    BY DEF Without
  <2> HIDE DEF z
  <2>2. PICK q \in Seq(Gids) : q = s.sleepQueue
    BY <1>f
  <2>3. \A k, l \in DOMAIN Only(q, S) : k < l =>
          \E i, j \in DOMAIN q : i < j /\ q[i] = Only(q, S)[k] /\ q[j] = Only(q, S)[l]
    BY OnlySpec
  <2> QED
    BY <2>1, <2>2, <2>3
<1> HIDE DEF t, z
<1>5. /\ t \in SchType
      /\ t.state = [s.state EXCEPT ![g] = "BLOCKED"]
      /\ t.sleepQueue = z
      /\ t.cid = s.cid /\ t.curThread = s.curThread /\ t.outQueue = s.outQueue
      /\ t.freeList = s.freeList /\ t.runQueue = s.runQueue
      /\ t.handoff = s.handoff /\ t.marked = s.marked /\ t.futexWord = s.futexWord
      /\ t.sleep = s.sleep /\ t.fakePc = s.fakePc /\ t.fakeLeaves = s.fakeLeaves
  <2>1. [s.state EXCEPT ![g] = "BLOCKED"] \in [Gids -> States]
    BY <1>f DEF States
  <2> QED
    BY <1>1, <1>2, <1>3, <2>1 DEF SchType
<1>6. \A x \in Gids : t.state[x] = IF x = g THEN "BLOCKED" ELSE s.state[x]
  BY <1>f, <1>5
<1>7. ToSet(s.runQueue) \in SUBSET Gids /\ ToSet(s.sleepQueue) \in SUBSET Gids
  BY <1>1, Members
<1>8. CtxInv(t) /\ FreeInv(t) /\ OutInv(t)
  BY <1>f, <1>5, <1>6 DEF SchInv, CtxInv, FreeInv, OutInv
<1>9. RunInv(t)
  <2> SUFFICES ASSUME NEW x \in ToSet(s.runQueue), NEW d \in Mask[x]
               PROVE  t.state[x] = "QUEUED" /\ s.curThread[d] # None /\ t.state[s.curThread[d]] = "RUNNING"
    <3>1. \A x \in ToSet(s.runQueue) : \E d \in Cids : d \in Mask[x]
      BY <1>7, SchedulerAssumption
    <3> QED
      BY <1>5, <3>1 DEF RunInv
  <2>1. d \in Cids /\ x \in Gids
    BY <1>7, SchedulerAssumption
  <2>2. s.state[x] = "QUEUED" /\ s.curThread[d] # None /\ s.state[s.curThread[d]] = "RUNNING"
    BY DEF SchInv, RunInv
  <2> QED
    BY <1>f, <1>6, <2>1, <2>2
<1>10. SleepInv(t)
  BY <1>2, <1>5, <1>6, <1>7 DEF SchInv, SleepInv
<1>11. HandInv(t)
  <2> SUFFICES ASSUME NEW x \in Gids, s.handoff[x] # None
               PROVE  t.state[s.handoff[x]] = "QUEUED"
    BY <1>5 DEF HandInv, SchInv
  <2>1. s.handoff[x] \in Gids /\ s.state[s.handoff[x]] = "QUEUED"
    BY <1>f DEF SchInv, HandInv
  <2> QED
    BY <1>6, <2>1
<1>12. Sorted(s) => Sorted(t)
  <2>1. SUFFICES ASSUME Sorted(s), NEW k \in DOMAIN z, NEW l \in DOMAIN z, k < l
                 PROVE  s.sleep[z[k]] <= s.sleep[z[l]]
    BY <1>5 DEF Sorted
  <2>2. PICK i, j \in DOMAIN s.sleepQueue : i < j /\ s.sleepQueue[i] = z[k] /\ s.sleepQueue[j] = z[l]
    BY <1>4, <2>1
  <2> QED
    BY <2>1, <2>2 DEF Sorted
<1>13. Awakened(s, g, t)
  BY <1>2, <1>5, <1>6, <1>8, <1>9, <1>10, <1>11, <1>12 DEF Awakened, SchInv, NoRepeats
<1> QED
  BY <1>13 DEF t

\* t is s one phase later.
Passed(s, t) ==
    /\ SchInv(t)
    /\ \A x \in Gids :
         /\ t.sleep[x] = IF s.marked[x] \/ x \in ToSet(s.sleepQueue) THEN s.sleep[x] - 1 ELSE s.sleep[x]
         /\ t.state[x] = IF x \in ToSet(s.sleepQueue) /\ t.sleep[x] <= 0 THEN "BLOCKED" ELSE s.state[x]
         /\ t.futexWord[x] = IF x \in ToSet(s.sleepQueue) /\ t.sleep[x] <= 0 THEN 0 ELSE s.futexWord[x]
    /\ ToSet(t.sleepQueue) = {x \in ToSet(s.sleepQueue) : ~ (t.sleep[x] <= 0)}
    /\ t.cid = s.cid /\ t.curThread = s.curThread /\ t.outQueue = s.outQueue
    /\ t.runQueue = s.runQueue /\ t.handoff = s.handoff /\ t.marked = s.marked
    /\ t.fakePc = s.fakePc /\ t.fakeLeaves = s.fakeLeaves
    /\ NoRepeats(s) => NoRepeats(t)
    /\ Sorted(s) => Sorted(t)

LEMMA NextPhaseKeeps ==
    ASSUME NEW s, SchInv(s)
    PROVE  Passed(s, NextPhase(s))
<1> DEFINE q == s.sleepQueue
           Q == ToSet(q)
           left == [g \in Gids |-> IF s.marked[g] \/ g \in Q THEN s.sleep[g] - 1 ELSE s.sleep[g]]
           Due(g) == g \in Q /\ left[g] <= 0
           states == [g \in Gids |-> IF Due(g) THEN "BLOCKED" ELSE s.state[g]]
           words == [g \in Gids |-> IF Due(g) THEN 0 ELSE s.futexWord[g]]
           S == {g \in Gids : ~ Due(g)}
           z == Only(q, S)
           t == NextPhase(s)
<1>1. s \in SchType
  BY DEF SchInv
<1>f. /\ s.state \in [Gids -> States] /\ s.cid \in [Gids -> Cids] /\ s.futexWord \in [Gids -> {0, 1}]
      /\ s.curThread \in [Cids -> Gids \cup {None}] /\ s.sleep \in [Gids -> Int]
      /\ s.handoff \in [Gids -> Gids \cup {None}] /\ q \in Seq(Gids) /\ None \notin Gids
      /\ s.phase \in Nat /\ s.marked \in [Gids -> BOOLEAN]
  BY <1>1, FieldTypes, Constants
<1>2. t = [s EXCEPT !.phase = (s.phase + 1) % SchedQuantum, !.sleep = left, !.state = states,
                    !.futexWord = words, !.sleepQueue = z]
  BY DEF NextPhase, Sleeping, DeadlineMet
<1>3. /\ left \in [Gids -> Int] /\ words \in [Gids -> {0, 1}]
      /\ (s.phase + 1) % SchedQuantum \in Nat
  BY <1>f, SchedulerAssumption
<1>4. states \in [Gids -> States]
  BY <1>f DEF States
<1>5. /\ \A x \in Gids : /\ states[x] = IF x \in Q /\ left[x] <= 0 THEN "BLOCKED" ELSE s.state[x]
                         /\ words[x] = IF x \in Q /\ left[x] <= 0 THEN 0 ELSE s.futexWord[x]
      /\ \A x \in Gids : left[x] = IF s.marked[x] \/ x \in Q THEN s.sleep[x] - 1 ELSE s.sleep[x]
      /\ Q \in SUBSET Gids /\ ToSet(s.runQueue) \in SUBSET Gids
  BY <1>1, Members
<1>6. /\ z \in Seq(Gids) /\ ToSet(z) = Q \cap S
      /\ \A k, l \in DOMAIN z : k < l =>
           \E i, j \in DOMAIN q : i < j /\ q[i] = z[k] /\ q[j] = z[l]
      /\ IsInjective(q) => IsInjective(z)
  <2> HIDE DEF q, S
  <2> QED
    BY <1>f, OnlySpec, OnlyInjective
<1>7. ToSet(z) = {x \in Q : ~ (left[x] <= 0)}
  <2> HIDE DEF z, left, Q
  <2> QED
    BY <1>5, <1>6
<1> HIDE DEF t, left, states, words, z, S, Q
<1>8. /\ t \in SchType
      /\ t.sleep = left /\ t.state = states /\ t.futexWord = words /\ t.sleepQueue = z
      /\ t.cid = s.cid /\ t.curThread = s.curThread /\ t.outQueue = s.outQueue
      /\ t.runQueue = s.runQueue /\ t.handoff = s.handoff /\ t.marked = s.marked
      /\ t.freeList = s.freeList
      /\ t.fakePc = s.fakePc /\ t.fakeLeaves = s.fakeLeaves
  <2>1. PICK p \in Nat : p = (s.phase + 1) % SchedQuantum
    BY <1>3
  <2> QED
    BY <1>1, <1>2, <1>3, <1>4, <1>6, <2>1 DEF SchType
<1>9. \A x \in Gids : t.state[x] # s.state[x] => s.state[x] = "SLEEPING" /\ t.state[x] = "BLOCKED"
  BY <1>5, <1>8 DEF SchInv, SleepInv, Q
<1>10. CtxInv(t) /\ FreeInv(t) /\ OutInv(t)
  <2>1. \A x \in Gids : (t.state[x] \in {"RUNNING", "OUT"} <=> s.state[x] \in {"RUNNING", "OUT"})
                        /\ (t.state[x] = "OUT" <=> s.state[x] = "OUT")
    BY <1>9
  <2> QED
    BY <1>8, <2>1 DEF SchInv, CtxInv, FreeInv, OutInv
<1>11. RunInv(t)
  <2> SUFFICES ASSUME NEW x \in ToSet(s.runQueue), NEW d \in Mask[x]
               PROVE  t.state[x] = "QUEUED" /\ s.curThread[d] # None /\ t.state[s.curThread[d]] = "RUNNING"
    <3>1. \A x \in ToSet(s.runQueue) : \E d \in Cids : d \in Mask[x]
      BY <1>5, SchedulerAssumption
    <3> QED
      BY <1>8, <3>1 DEF RunInv
  <2>1. d \in Cids /\ x \in Gids
    BY <1>5, SchedulerAssumption
  <2>2. s.state[x] = "QUEUED" /\ s.curThread[d] # None /\ s.state[s.curThread[d]] = "RUNNING"
    BY DEF SchInv, RunInv
  <2> QED
    BY <1>f, <1>9, <2>1, <2>2
<1>12. SleepInv(t)
  BY <1>5, <1>7, <1>8 DEF SchInv, SleepInv, Q
<1>13. HandInv(t)
  <2> SUFFICES ASSUME NEW x \in Gids, s.handoff[x] # None
               PROVE  t.state[s.handoff[x]] = "QUEUED"
    BY <1>8 DEF HandInv, SchInv
  <2>1. s.handoff[x] \in Gids /\ s.state[s.handoff[x]] = "QUEUED"
    BY <1>f DEF SchInv, HandInv
  <2> QED
    BY <1>9, <2>1
<1>14. Sorted(s) => Sorted(t)
  <2>1. SUFFICES ASSUME Sorted(s), NEW k \in DOMAIN z, NEW l \in DOMAIN z, k < l
                 PROVE  left[z[k]] <= left[z[l]]
    BY <1>8 DEF Sorted
  <2>2. PICK i, j \in DOMAIN q : i < j /\ q[i] = z[k] /\ q[j] = z[l]
    BY <1>6, <2>1
  <2>3. q[i] \in Q /\ q[j] \in Q /\ q[i] \in Gids /\ q[j] \in Gids
    BY <1>5 DEF Q, ToSet
  <2>4. s.sleep[q[i]] <= s.sleep[q[j]] /\ s.sleep[q[i]] \in Int /\ s.sleep[q[j]] \in Int
    BY <1>f, <2>1, <2>2, <2>3 DEF Sorted
  <2>5. left[q[i]] = s.sleep[q[i]] - 1 /\ left[q[j]] = s.sleep[q[j]] - 1
    BY <1>5, <2>3
  <2> HIDE DEF q
  <2> QED
    BY <2>2, <2>4, <2>5
<1>15. NoRepeats(s) => NoRepeats(t)
  BY <1>6, <1>8 DEF NoRepeats
<1>16. Passed(s, t)
  BY <1>5, <1>7, <1>8, <1>10, <1>11, <1>12, <1>13, <1>14, <1>15 DEF Passed, SchInv, Q
<1> QED
  BY <1>16 DEF t

\* t is s after the end of a quantum: the contexts f are promised.
Ticked(s, f, t) ==
    /\ SchInv(t)
    /\ ToSet(t.runQueue) = {x \in ToSet(s.runQueue) : f[x] = None}
    /\ \A x \in Gids :
         \/ t.handoff[x] = s.handoff[x] /\ \A h \in ToSet(s.runQueue) : f[h] # None => s.curThread[f[h]] # x
         \/ /\ t.handoff[x] \in ToSet(s.runQueue) /\ f[t.handoff[x]] # None
            /\ s.curThread[f[t.handoff[x]]] = x
            /\ f[t.handoff[x]] \in Cids
    /\ \A h \in ToSet(s.runQueue) : f[h] # None =>
          f[h] \in Cids /\ s.curThread[f[h]] \in Gids /\ t.handoff[s.curThread[f[h]]] = h
    /\ t.state = s.state /\ t.cid = s.cid /\ t.curThread = s.curThread /\ t.futexWord = s.futexWord
    /\ t.sleepQueue = s.sleepQueue /\ t.outQueue = s.outQueue
    /\ t.marked = s.marked /\ t.sleep = s.sleep
    /\ t.fakePc = s.fakePc /\ t.fakeLeaves = s.fakeLeaves
    /\ NoRepeats(s) => NoRepeats(t)

LEMMA TickKeeps ==
    ASSUME NEW s, SchInv(s), NEW f \in Ticks(s)
    PROVE  Ticked(s, f, Tick(s, f))
<1> DEFINE R == ToSet(s.runQueue)
           Taker(g, h) == f[h] # None /\ s.curThread[f[h]] = g
           hands == [g \in Gids |-> IF \E h \in DOMAIN f : Taker(g, h)
                                      THEN CHOOSE h \in DOMAIN f : Taker(g, h) ELSE s.handoff[g]]
           S == {g \in DOMAIN f : f[g] = None}
           z == Only(s.runQueue, S)
           t == Tick(s, f)
<1>1. s \in SchType
  BY DEF SchInv
<1>f. /\ s.state \in [Gids -> States] /\ s.cid \in [Gids -> Cids]
      /\ s.curThread \in [Cids -> Gids \cup {None}]
      /\ s.handoff \in [Gids -> Gids \cup {None}] /\ s.runQueue \in Seq(Gids) /\ None \notin Gids
  BY <1>1, FieldTypes, Constants
<1>2. DOMAIN f = R /\ f \in [R -> Cids \cup {None}] /\ R \in SUBSET Gids
  BY <1>1, Members DEF Ticks
<1>3. t = [s EXCEPT !.runQueue = z, !.handoff = hands]
  BY DEF Tick
<1>4. /\ z \in Seq(Gids) /\ ToSet(z) = R \cap S
      /\ IsInjective(s.runQueue) => IsInjective(z)
  <2> HIDE DEF S
  <2> QED
    BY <1>f, OnlySpec, OnlyInjective
<1>5. ToSet(z) = {x \in R : f[x] = None}
  BY <1>2, <1>4
<1>6. \A x \in Gids : \/ hands[x] = s.handoff[x] /\ \A h \in R : ~ Taker(x, h)
                      \/ hands[x] \in R /\ Taker(x, hands[x])
  <2> SUFFICES ASSUME NEW x \in Gids
               PROVE  \/ hands[x] = s.handoff[x] /\ \A h \in R : ~ Taker(x, h)
                      \/ hands[x] \in R /\ Taker(x, hands[x])
    OBVIOUS
  <2> HIDE DEF Taker, R
  <2>1. CASE \E h \in R : Taker(x, h)
    <3>1. hands[x] = CHOOSE h \in R : Taker(x, h)
      BY <1>2, <2>1
    <3>2. (CHOOSE h \in R : Taker(x, h)) \in R /\ Taker(x, CHOOSE h \in R : Taker(x, h))
      BY <2>1
    <3> QED
      BY <3>1, <3>2
  <2>2. CASE ~ \E h \in R : Taker(x, h)
    BY <1>2, <2>2
  <2> QED
    BY <2>1, <2>2
<1> HIDE DEF hands
<1>7. ASSUME NEW h \in R, f[h] # None
      PROVE  f[h] \in Cids /\ f[h] \in Mask[h] /\ \A k \in R : f[k] = f[h] => k = h
  <2>1. PICK i \in 1 .. Len(s.runQueue) : s.runQueue[i] = h
    BY <1>f DEF ToSet
  <2>2. ASSUME NEW k \in R, f[k] = f[h], k # h PROVE FALSE
    <3>1. PICK j \in 1 .. Len(s.runQueue) : s.runQueue[j] = k
      BY <1>f DEF ToSet
    <3>2. i # j
      BY <2>1, <2>2, <3>1
    <3>3. f[h] # f[k]
      BY <1>7, <2>1, <3>1, <3>2 DEF Ticks
    <3> QED
      BY <2>2, <3>3
  <2>3. f[h] \in Mask[h]
    BY <1>7, <2>1 DEF Ticks
  <2>4. f[h] \in Cids
    BY <1>2, <1>7
  <2> QED
    BY <2>2, <2>3, <2>4
<1>8. ASSUME NEW h \in R, f[h] # None
      PROVE  s.curThread[f[h]] \in Gids /\ s.state[h] = "QUEUED"
  BY <1>7, <1>8, <1>f DEF SchInv, RunInv
<1>9. \A x \in Gids : hands[x] \in Gids \cup {None}
  BY <1>2, <1>6, <1>f
<1>10. hands \in [Gids -> Gids \cup {None}]
  BY <1>9 DEF hands
<1> HIDE DEF t, z, R
<1>11. /\ t \in SchType
       /\ t.runQueue = z /\ t.handoff = hands
       /\ t.state = s.state /\ t.cid = s.cid /\ t.curThread = s.curThread /\ t.futexWord = s.futexWord
       /\ t.sleepQueue = s.sleepQueue /\ t.outQueue = s.outQueue /\ t.freeList = s.freeList
       /\ t.marked = s.marked /\ t.sleep = s.sleep
       /\ t.fakePc = s.fakePc /\ t.fakeLeaves = s.fakeLeaves
  BY <1>1, <1>3, <1>4, <1>10 DEF SchType
<1>12. CtxInv(t) /\ FreeInv(t) /\ OutInv(t) /\ SleepInv(t)
  BY <1>11 DEF SchInv, CtxInv, FreeInv, OutInv, SleepInv
<1>13. RunInv(t)
  BY <1>5, <1>11 DEF SchInv, RunInv, R
<1>14. ASSUME NEW x \in Gids, hands[x] # None
       PROVE  /\ s.state[hands[x]] = "QUEUED" /\ hands[x] \notin ToSet(z)
              /\ \A y \in Gids : hands[y] = hands[x] => y = x
  <2>1. CASE hands[x] = s.handoff[x] /\ \A h \in R : ~ Taker(x, h)
    <3>1. /\ s.state[hands[x]] = "QUEUED" /\ hands[x] \notin R
          /\ \A y \in Gids : s.handoff[y] = hands[x] => y = x
      BY <1>14, <2>1 DEF SchInv, HandInv, R
    <3>2. hands[x] \notin ToSet(z)
      BY <1>5, <3>1
    <3>3. \A y \in Gids : hands[y] = hands[x] => y = x
      BY <1>6, <3>1
    <3> QED
      BY <3>1, <3>2, <3>3
  <2>2. CASE hands[x] \in R /\ Taker(x, hands[x])
    <3>1. s.state[hands[x]] = "QUEUED" /\ hands[x] \notin ToSet(z)
      BY <1>5, <1>8, <2>2
    <3>2. ASSUME NEW y \in Gids, hands[y] = hands[x] PROVE y = x
      <4>1. hands[y] # s.handoff[y]
        BY <1>14, <2>2, <3>2 DEF SchInv, HandInv, R
      <4>2. Taker(y, hands[x])
        BY <1>6, <3>2, <4>1
      <4> QED
        BY <2>2, <4>2
    <3> QED
      BY <3>1, <3>2
  <2> QED
    BY <1>6, <2>1, <2>2
<1>15. HandInv(t)
  BY <1>11, <1>14 DEF HandInv
<1>16. ASSUME NEW h \in R, f[h] # None
       PROVE  hands[s.curThread[f[h]]] = h
  <2>1. PICK x \in Gids : x = s.curThread[f[h]]
    BY <1>8, <1>16
  <2>2. hands[x] \in R /\ f[hands[x]] # None /\ s.curThread[f[hands[x]]] = x
    BY <1>6, <1>16, <2>1
  <2>3. f[hands[x]] \in Cids /\ f[h] \in Cids
    BY <1>7, <1>16, <2>2
  <2>4. \A c, d \in Cids : s.curThread[c] = x /\ s.curThread[d] = x => c = d
    BY DEF SchInv, CtxInv
  <2>5. f[hands[x]] = f[h]
    BY <2>1, <2>2, <2>3, <2>4
  <2> QED
    BY <1>7, <1>16, <2>1, <2>2, <2>5
<1>17. NoRepeats(s) => NoRepeats(t)
  BY <1>4, <1>11 DEF NoRepeats
<1>18. \A x \in Gids :
         \/ hands[x] = s.handoff[x] /\ \A h \in R : f[h] # None => s.curThread[f[h]] # x
         \/ /\ hands[x] \in R /\ f[hands[x]] # None
            /\ s.curThread[f[hands[x]]] = x /\ f[hands[x]] \in Cids
  BY <1>6, <1>7
<1>19. \A h \in R : f[h] # None =>
          f[h] \in Cids /\ s.curThread[f[h]] \in Gids /\ hands[s.curThread[f[h]]] = h
  BY <1>7, <1>8, <1>16
<1>20. SchInv(t)
  BY <1>11, <1>12, <1>13, <1>15 DEF SchInv
<1>21. Ticked(s, f, t)
  BY <1>5, <1>11, <1>17, <1>18, <1>19, <1>20 DEF Ticked, R
<1> QED
  BY <1>21 DEF t

\* t and s differ in no field that SchInv looks at.
SameCore(s, t) ==
    /\ t.state = s.state /\ t.cid = s.cid /\ t.handoff = s.handoff /\ t.curThread = s.curThread
    /\ t.runQueue = s.runQueue /\ t.outQueue = s.outQueue /\ t.sleepQueue = s.sleepQueue

LEMMA SameCoreKeeps ==
    ASSUME NEW s, SchInv(s), NEW t \in SchType, SameCore(s, t), t.freeList = s.freeList
    PROVE  SchInv(t)
BY SameView DEF SameCore

\* The end of a fake leave; the watchdog may blacklist the syscall.
Unfaked(s, g, t) ==
    /\ SchInv(t) /\ SameCore(s, t)
    /\ \A x \in Gids : t.fakePc[x] = IF x = g THEN None ELSE s.fakePc[x]
    /\ ToSet(t.fakeLeaves) = ToSet(s.fakeLeaves) \ {g}
    /\ t.futexWord = s.futexWord /\ t.marked = s.marked /\ t.sleep = s.sleep
    /\ NoRepeats(s) => NoRepeats(t)

LEMMA FinishFakeLeaveKeeps ==
    ASSUME NEW s, SchInv(s), NEW g \in Gids, NEW bl \in SUBSET (Pids \X Pcs)
    PROVE  /\ Unfaked(s, g, FinishFakeLeave(s, g))
           /\ Unfaked(s, g, [FinishFakeLeave(s, g) EXCEPT !.blacklist = bl])
<1> DEFINE z == Without(s.fakeLeaves, g)
           fp == [s.fakePc EXCEPT ![g] = None]
           u == FinishFakeLeave(s, g)
           v == [u EXCEPT !.blacklist = bl]
<1>1. s \in SchType /\ s.fakeLeaves \in Seq(Gids) /\ s.fakePc \in [Gids -> Pcs \cup {None}]
  BY FieldTypes DEF SchInv
<1>2. /\ z \in Seq(Gids) /\ ToSet(z) = ToSet(s.fakeLeaves) \ {g}
      /\ IsInjective(s.fakeLeaves) => IsInjective(z)
  BY <1>1, WithoutSpec
<1>3. fp \in [Gids -> Pcs \cup {None}] /\ \A x \in Gids : fp[x] = IF x = g THEN None ELSE s.fakePc[x]
  BY <1>1
<1>4. u = [s EXCEPT !.fakeLeaves = z, !.fakePc = fp]
  BY DEF FinishFakeLeave
<1> HIDE DEF z, fp, u
<1>5. /\ u \in SchType /\ SameCore(s, u) /\ u.freeList = s.freeList /\ u.fakePc = fp /\ u.fakeLeaves = z
      /\ u.futexWord = s.futexWord /\ u.marked = s.marked /\ u.sleep = s.sleep
  BY <1>1, <1>2, <1>3, <1>4 DEF SchType, SameCore
<1>6. /\ v \in SchType /\ SameCore(u, v) /\ v.freeList = u.freeList /\ v.fakePc = fp /\ v.fakeLeaves = z
      /\ v.futexWord = u.futexWord /\ v.marked = u.marked /\ v.sleep = u.sleep
  BY <1>5 DEF SchType, SameCore
<1> HIDE DEF v
<1>7. SchInv(u)
  BY <1>5, SameCoreKeeps
<1>8. SchInv(v)
  BY <1>6, <1>7, SameCoreKeeps
<1>9. Unfaked(s, g, u)
  BY <1>2, <1>3, <1>5, <1>7 DEF Unfaked, SameCore, NoRepeats
<1>10. Unfaked(s, g, v)
  BY <1>2, <1>3, <1>5, <1>6, <1>8 DEF Unfaked, SameCore, NoRepeats
<1> QED
  BY <1>9, <1>10 DEF u, v

\* A thread pretends to leave at syscall instruction p.
FakeLeft(s, g, p, t) ==
    /\ SchInv(t) /\ SameCore(s, t)
    /\ \A x \in Gids : t.fakePc[x] = IF x = g THEN p ELSE s.fakePc[x]
    /\ ToSet(t.fakeLeaves) = ToSet(s.fakeLeaves) \cup {g}
    /\ t.futexWord = s.futexWord /\ t.marked = s.marked /\ t.sleep = s.sleep
    /\ NoRepeats(s) /\ g \notin ToSet(s.fakeLeaves) => NoRepeats(t)

LEMMA FakeLeaveKeeps ==
    ASSUME NEW s, SchInv(s), NEW g \in Gids, NEW p \in Pcs
    PROVE  FakeLeft(s, g, p, [s EXCEPT !.fakePc[g] = p, !.fakeLeaves = Append(@, g)])
<1> DEFINE z == Append(s.fakeLeaves, g)
           fp == [s.fakePc EXCEPT ![g] = p]
           u == [s EXCEPT !.fakePc[g] = p, !.fakeLeaves = Append(@, g)]
<1>1. s \in SchType /\ s.fakeLeaves \in Seq(Gids) /\ s.fakePc \in [Gids -> Pcs \cup {None}]
  BY FieldTypes DEF SchInv
<1>2. /\ z \in Seq(Gids) /\ ToSet(z) = ToSet(s.fakeLeaves) \cup {g}
      /\ IsInjective(s.fakeLeaves) /\ g \notin ToSet(s.fakeLeaves) => IsInjective(z)
  BY <1>1, AppendSpec
<1>3. fp \in [Gids -> Pcs \cup {None}] /\ \A x \in Gids : fp[x] = IF x = g THEN p ELSE s.fakePc[x]
  BY <1>1
<1>4. u = [s EXCEPT !.fakePc = fp, !.fakeLeaves = z]
  OBVIOUS
<1> HIDE DEF z, fp, u
<1>5. /\ u \in SchType /\ SameCore(s, u) /\ u.freeList = s.freeList /\ u.fakePc = fp /\ u.fakeLeaves = z
      /\ u.futexWord = s.futexWord /\ u.marked = s.marked /\ u.sleep = s.sleep
  BY <1>1, <1>2, <1>3, <1>4 DEF SchType, SameCore
<1>6. SchInv(u)
  BY <1>5, SameCoreKeeps
<1>7. FakeLeft(s, g, p, u)
  BY <1>2, <1>3, <1>5, <1>6 DEF FakeLeft, SameCore, NoRepeats
<1> QED
  BY <1>7 DEF u

\* A thread is marked for a sleep of n phases.
MarkedFor(s, g, n, t) ==
    /\ SchInv(t) /\ SameCore(s, t)
    /\ \A x \in Gids : /\ t.marked[x] = (x = g \/ s.marked[x])
                       /\ t.sleep[x] = IF x = g THEN n ELSE s.sleep[x]
                       /\ t.futexWord[x] = IF x = g THEN 1 ELSE s.futexWord[x]
    /\ t.fakePc = s.fakePc /\ t.fakeLeaves = s.fakeLeaves
    /\ NoRepeats(s) => NoRepeats(t)
    /\ Sorted(s) => Sorted(t)

LEMMA MarkKeeps ==
    ASSUME NEW s, SchInv(s), NEW g \in Gids, s.state[g] = "RUNNING", NEW n \in Int
    PROVE  MarkedFor(s, g, n, [s EXCEPT !.marked[g] = TRUE, !.sleep[g] = n, !.futexWord[g] = 1])
<1> DEFINE ma == [s.marked EXCEPT ![g] = TRUE]
           sl == [s.sleep EXCEPT ![g] = n]
           fw == [s.futexWord EXCEPT ![g] = 1]
           u == [s EXCEPT !.marked[g] = TRUE, !.sleep[g] = n, !.futexWord[g] = 1]
<1>1. /\ s \in SchType /\ s.marked \in [Gids -> BOOLEAN] /\ s.sleep \in [Gids -> Int]
      /\ s.futexWord \in [Gids -> {0, 1}] /\ s.sleepQueue \in Seq(Gids)
  BY FieldTypes DEF SchInv
<1>2. ma \in [Gids -> BOOLEAN] /\ \A x \in Gids : ma[x] = (x = g \/ s.marked[x])
  BY <1>1
<1>3. /\ sl \in [Gids -> Int] /\ fw \in [Gids -> {0, 1}]
      /\ \A x \in Gids : /\ sl[x] = IF x = g THEN n ELSE s.sleep[x]
                         /\ fw[x] = IF x = g THEN 1 ELSE s.futexWord[x]
  BY <1>1
<1>4. u = [s EXCEPT !.marked = ma, !.sleep = sl, !.futexWord = fw]
  OBVIOUS
<1> HIDE DEF ma, sl, fw, u
<1>5. /\ u \in SchType /\ SameCore(s, u) /\ u.freeList = s.freeList /\ u.marked = ma
      /\ u.sleep = sl /\ u.futexWord = fw /\ u.fakePc = s.fakePc /\ u.fakeLeaves = s.fakeLeaves
  BY <1>1, <1>2, <1>3, <1>4 DEF SchType, SameCore
<1>6. SchInv(u)
  BY <1>5, SameCoreKeeps
<1>7. \A i \in DOMAIN s.sleepQueue : s.sleepQueue[i] \in Gids /\ s.sleepQueue[i] # g
  <2> SUFFICES ASSUME NEW i \in DOMAIN s.sleepQueue
               PROVE  s.sleepQueue[i] \in Gids /\ s.sleepQueue[i] # g
    OBVIOUS
  <2>1. s.sleepQueue[i] \in ToSet(s.sleepQueue)
    BY DEF ToSet
  <2>2. \A x \in ToSet(s.sleepQueue) : x \in Gids /\ s.state[x] = "SLEEPING"
    BY <1>1, Members DEF SchInv, SleepInv
  <2> QED
    BY <2>1, <2>2
<1>8. Sorted(s) => Sorted(u)
  <2>1. u.sleepQueue = s.sleepQueue
    BY <1>5 DEF SameCore
  <2>2. \A i \in DOMAIN s.sleepQueue : u.sleep[s.sleepQueue[i]] = s.sleep[s.sleepQueue[i]]
    BY <1>3, <1>5, <1>7
  <2> QED
    BY <2>1, <2>2 DEF Sorted
<1>9. MarkedFor(s, g, n, u)
  BY <1>2, <1>3, <1>5, <1>6, <1>8 DEF MarkedFor, SameCore, NoRepeats
<1> QED
  BY <1>9 DEF u

\* g takes up the context it held while it was OUT.
Rejoined(s, g, t) ==
    /\ SchInv(t)
    /\ \A x \in Gids : t.state[x] = IF x = g THEN "RUNNING" ELSE s.state[x]
    /\ t.cid = s.cid /\ t.curThread = s.curThread /\ t.runQueue = s.runQueue
    /\ t.sleepQueue = s.sleepQueue /\ t.handoff = s.handoff /\ t.marked = s.marked
    /\ t.sleep = s.sleep /\ t.futexWord = s.futexWord
    /\ t.fakePc = s.fakePc /\ t.fakeLeaves = s.fakeLeaves
    /\ NoRepeats(s) => NoRepeats(t)

LEMMA RejoinKeeps ==
    ASSUME NEW s, SchInv(s), NEW g \in Gids, s.state[g] = "OUT"
    PROVE  Rejoined(s, g, [s EXCEPT !.state[g] = "RUNNING", !.outQueue = Without(@, g)])
<1> DEFINE z == Without(s.outQueue, g)
           st == [s.state EXCEPT ![g] = "RUNNING"]
           t == [s EXCEPT !.state[g] = "RUNNING", !.outQueue = Without(@, g)]
<1>1. s \in SchType
  BY DEF SchInv
<1>f. /\ s.state \in [Gids -> States] /\ s.cid \in [Gids -> Cids]
      /\ s.curThread \in [Cids -> Gids \cup {None}] /\ s.outQueue \in Seq(Gids)
      /\ s.handoff \in [Gids -> Gids \cup {None}] /\ None \notin Gids
  BY <1>1, FieldTypes, Constants
<1>2. /\ z \in Seq(Gids) /\ ToSet(z) = ToSet(s.outQueue) \ {g}
      /\ IsInjective(s.outQueue) => IsInjective(z)
  BY <1>f, WithoutSpec
<1>3. st \in [Gids -> States] /\ \A x \in Gids : st[x] = IF x = g THEN "RUNNING" ELSE s.state[x]
  BY <1>f DEF States
<1>4. t = [s EXCEPT !.state = st, !.outQueue = z]
  OBVIOUS
<1> HIDE DEF z, st, t
<1>5. /\ t \in SchType /\ t.state = st /\ t.outQueue = z
      /\ t.cid = s.cid /\ t.curThread = s.curThread /\ t.runQueue = s.runQueue
      /\ t.freeList = s.freeList
      /\ t.sleepQueue = s.sleepQueue /\ t.handoff = s.handoff /\ t.marked = s.marked
      /\ t.sleep = s.sleep /\ t.futexWord = s.futexWord
      /\ t.fakePc = s.fakePc /\ t.fakeLeaves = s.fakeLeaves
  BY <1>1, <1>2, <1>3, <1>4 DEF SchType
<1>6. ToSet(s.runQueue) \in SUBSET Gids /\ ToSet(s.sleepQueue) \in SUBSET Gids
  BY <1>1, Members
<1>7. CtxInv(t) /\ FreeInv(t) /\ OutInv(t)
  BY <1>f, <1>2, <1>3, <1>5 DEF SchInv, CtxInv, FreeInv, OutInv
<1>8. RunInv(t)
  <2> SUFFICES ASSUME NEW x \in ToSet(s.runQueue), NEW d \in Mask[x]
               PROVE  t.state[x] = "QUEUED" /\ s.curThread[d] # None /\ t.state[s.curThread[d]] = "RUNNING"
    <3>1. \A x \in ToSet(s.runQueue) : \E d \in Cids : d \in Mask[x]
      BY <1>6, SchedulerAssumption
    <3> QED
      BY <1>5, <3>1 DEF RunInv
  <2>1. d \in Cids /\ x \in Gids
    BY <1>6, SchedulerAssumption
  <2>2. s.state[x] = "QUEUED" /\ s.curThread[d] # None /\ s.state[s.curThread[d]] = "RUNNING"
    BY DEF SchInv, RunInv
  <2> QED
    BY <1>f, <1>3, <1>5, <2>1, <2>2
<1>9. SleepInv(t)
  BY <1>3, <1>5, <1>6 DEF SchInv, SleepInv
<1>10. HandInv(t)
  <2> SUFFICES ASSUME NEW x \in Gids, s.handoff[x] # None
               PROVE  t.state[s.handoff[x]] = "QUEUED"
    BY <1>5 DEF HandInv, SchInv
  <2>1. s.handoff[x] \in Gids /\ s.state[s.handoff[x]] = "QUEUED"
    BY <1>f DEF SchInv, HandInv
  <2> QED
    BY <1>3, <1>5, <2>1
<1>11. Rejoined(s, g, t)
  BY <1>2, <1>3, <1>5, <1>7, <1>8, <1>9, <1>10 DEF Rejoined, SchInv, NoRepeats
<1> QED
  BY <1>11 DEF t

\* g is gone, or has not come yet.
Removed(s, g, t) ==
    /\ SchInv(t)
    /\ \A x \in Gids :
         /\ t.state[x] = IF x = g THEN "none" ELSE s.state[x]
         /\ t.cid[x] = IF x = g THEN 0 ELSE s.cid[x]
         /\ t.handoff[x] = IF x = g THEN None ELSE s.handoff[x]
         /\ t.futexWord[x] = IF x = g THEN 0 ELSE s.futexWord[x]
         /\ t.sleep[x] = IF x = g THEN 0 ELSE s.sleep[x]
         /\ t.marked[x] = (x # g /\ s.marked[x])
    /\ \A d \in Cids : t.curThread[d] = IF s.curThread[d] = g THEN None ELSE s.curThread[d]
    /\ ToSet(t.runQueue) = ToSet(s.runQueue) \ {g}
    /\ t.sleepQueue = s.sleepQueue /\ t.fakePc = s.fakePc /\ t.fakeLeaves = s.fakeLeaves
    /\ NoRepeats(s) => NoRepeats(t)
    /\ Sorted(s) => Sorted(t)

\* FinishEnd takes the thread off its context, or off the run queue, first.
Detach(s, g) ==
    IF s.state[g] = "OUT"
      THEN [Deschedule(s, g, "BLOCKED") EXCEPT !.outQueue = Without(@, g),
                                               !.freeList = Append(@, s.cid[g])]
      ELSE [s EXCEPT !.runQueue = Without(@, g)]

Detached(s, g, u) ==
    /\ u \in SchType
    /\ \A x \in Gids : x # g => u.state[x] = s.state[x]
    /\ \A d \in Cids : u.curThread[d] = IF s.curThread[d] = g THEN None ELSE s.curThread[d]
    /\ ToSet(u.freeList) = {d \in Cids : u.curThread[d] = None} /\ IsInjective(u.freeList)
    /\ ToSet(u.outQueue) = ToSet(s.outQueue) \ {g}
    /\ ToSet(u.runQueue) = ToSet(s.runQueue) \ {g}
    /\ IsInjective(s.outQueue) => IsInjective(u.outQueue)
    /\ IsInjective(s.runQueue) => IsInjective(u.runQueue)
    /\ u.cid = s.cid /\ u.sleepQueue = s.sleepQueue /\ u.handoff = s.handoff
    /\ u.marked = s.marked /\ u.sleep = s.sleep /\ u.futexWord = s.futexWord
    /\ u.fakePc = s.fakePc /\ u.fakeLeaves = s.fakeLeaves

LEMMA FinishDetach ==
    ASSUME NEW s, SchInv(s), NEW g \in Gids,
           \/ s.state[g] \in {"STARTED", "OUT", "BLOCKED"}
           \/ s.state[g] = "QUEUED" /\ g \in ToSet(s.runQueue),
           NEW u, u = Detach(s, g)
    PROVE  Detached(s, g, u)
<1>1. s \in SchType
  BY DEF SchInv
<1>f. /\ s.state \in [Gids -> States] /\ s.cid \in [Gids -> Cids]
      /\ s.curThread \in [Cids -> Gids \cup {None}] /\ s.outQueue \in Seq(Gids)
      /\ s.freeList \in Seq(Cids) /\ s.runQueue \in Seq(Gids) /\ None \notin Gids
  BY <1>1, FieldTypes, Constants
<1>2. CASE s.state[g] = "OUT"
  <2> DEFINE c == s.cid[g]
             d == Deschedule(s, g, "BLOCKED")
             z == Without(s.outQueue, g)
             w == Append(s.freeList, c)
             st == [s.state EXCEPT ![g] = "BLOCKED"]
             cu == [s.curThread EXCEPT ![c] = None]
  <2>1. s.curThread[c] = g /\ c \in Cids /\ \A e \in Cids : s.curThread[e] = g => e = c
    BY <1>2, <1>f DEF SchInv, CtxInv
  <2>2. d \in SchType /\ d = [s EXCEPT !.state = st, !.curThread = cu]
    BY <1>1, DescheduleFields DEF States
  <2>3. /\ z \in Seq(Gids) /\ ToSet(z) = ToSet(s.outQueue) \ {g}
        /\ IsInjective(s.outQueue) => IsInjective(z)
    BY <1>f, WithoutSpec
  <2>4. /\ w \in Seq(Cids) /\ ToSet(w) = ToSet(s.freeList) \cup {c}
        /\ IsInjective(s.freeList) /\ c \notin ToSet(s.freeList) => IsInjective(w)
    BY <1>f, <2>1, AppendSpec
  <2>5. u = [d EXCEPT !.outQueue = Without(@, g), !.freeList = Append(@, c)]
    BY <1>2 DEF Detach
  <2>6. /\ \A x \in Gids : x # g => st[x] = s.state[x]
        /\ \A e \in Cids : cu[e] = IF s.curThread[e] = g THEN None ELSE s.curThread[e]
    BY <1>f, <2>1
  <2>7. g \notin ToSet(s.runQueue)
    BY <1>2 DEF SchInv, RunInv
  <2>8. /\ ToSet(w) = {e \in Cids : cu[e] = None} /\ IsInjective(w)
    <3>1. ToSet(s.freeList) = {e \in Cids : s.curThread[e] = None} /\ IsInjective(s.freeList)
      BY DEF SchInv, FreeInv
    <3>2. c \notin ToSet(s.freeList)
      BY <2>1, <3>1, <1>f
    <3>3. \A e \in Cids : cu[e] = None <=> e = c \/ s.curThread[e] = None
      BY <2>1, <2>6, <1>f
    <3> HIDE DEF w, cu, c
    <3> QED
      BY <2>1, <2>4, <3>1, <3>2, <3>3
  <2> HIDE DEF d, z, w, st, cu, c
  <2>9. /\ d.outQueue = s.outQueue /\ d.freeList = s.freeList /\ d.runQueue = s.runQueue
        /\ d.state = st /\ d.curThread = cu
        /\ d.cid = s.cid /\ d.sleepQueue = s.sleepQueue /\ d.handoff = s.handoff
        /\ d.marked = s.marked /\ d.sleep = s.sleep /\ d.futexWord = s.futexWord
        /\ d.fakePc = s.fakePc /\ d.fakeLeaves = s.fakeLeaves
    BY <1>1, <2>2 DEF SchType
  <2>10. u = [d EXCEPT !.outQueue = z, !.freeList = w]
    BY <2>5, <2>9 DEF z, w
  <2>11. /\ u \in SchType
         /\ u.outQueue = z /\ u.freeList = w /\ u.runQueue = d.runQueue
         /\ u.state = d.state /\ u.curThread = d.curThread
         /\ u.cid = d.cid /\ u.sleepQueue = d.sleepQueue /\ u.handoff = d.handoff
         /\ u.marked = d.marked /\ u.sleep = d.sleep /\ u.futexWord = d.futexWord
         /\ u.fakePc = d.fakePc /\ u.fakeLeaves = d.fakeLeaves
    BY <2>2, <2>3, <2>4, <2>10 DEF SchType
  <2>12. /\ \A x \in Gids : x # g => u.state[x] = s.state[x]
         /\ \A e \in Cids : u.curThread[e] = IF s.curThread[e] = g THEN None ELSE s.curThread[e]
    BY <2>6, <2>9, <2>11
  <2>13. /\ ToSet(u.freeList) = {e \in Cids : u.curThread[e] = None} /\ IsInjective(u.freeList)
    BY <2>8, <2>9, <2>11
  <2>14. /\ ToSet(u.outQueue) = ToSet(s.outQueue) \ {g}
         /\ ToSet(u.runQueue) = ToSet(s.runQueue) \ {g}
         /\ IsInjective(s.outQueue) => IsInjective(u.outQueue)
         /\ IsInjective(s.runQueue) => IsInjective(u.runQueue)
    BY <2>3, <2>7, <2>9, <2>11
  <2> QED
    BY <2>9, <2>11, <2>12, <2>13, <2>14 DEF Detached
<1>3. CASE s.state[g] # "OUT"
  <2> DEFINE z == Without(s.runQueue, g)
  <2>1. \A e \in Cids : s.curThread[e] # g
    BY <1>3, <1>f DEF SchInv, CtxInv
  <2>2. /\ z \in Seq(Gids) /\ ToSet(z) = ToSet(s.runQueue) \ {g}
        /\ IsInjective(s.runQueue) => IsInjective(z)
    BY <1>f, WithoutSpec
  <2>3. u = [s EXCEPT !.runQueue = z]
    BY <1>3 DEF Detach
  <2>4. g \notin ToSet(s.outQueue)
    BY <1>3 DEF SchInv, OutInv
  <2> HIDE DEF z
  <2>5. /\ u \in SchType
        /\ u.runQueue = z /\ u.outQueue = s.outQueue /\ u.freeList = s.freeList
        /\ u.state = s.state /\ u.curThread = s.curThread
        /\ u.cid = s.cid /\ u.sleepQueue = s.sleepQueue /\ u.handoff = s.handoff
        /\ u.marked = s.marked /\ u.sleep = s.sleep /\ u.futexWord = s.futexWord
        /\ u.fakePc = s.fakePc /\ u.fakeLeaves = s.fakeLeaves
    BY <1>1, <2>2, <2>3 DEF SchType
  <2>6. ToSet(s.freeList) = {e \in Cids : s.curThread[e] = None} /\ IsInjective(s.freeList)
    BY DEF SchInv, FreeInv
  <2> QED
    BY <2>1, <2>2, <2>4, <2>5, <2>6 DEF Detached
<1> QED
  BY <1>2, <1>3

LEMMA RemoveKeeps ==
    ASSUME NEW s, SchInv(s), NEW g \in Gids,
           \/ s.state[g] \in {"STARTED", "OUT", "BLOCKED"}
           \/ s.state[g] = "QUEUED" /\ g \in ToSet(s.runQueue),
           NEW u, u = Detach(s, g)
    PROVE  Removed(s, g, [u EXCEPT !.state[g] = "none", !.cid[g] = 0, !.handoff[g] = None,
                                   !.futexWord[g] = 0, !.sleep[g] = 0, !.marked[g] = FALSE])
<1> DEFINE t == [u EXCEPT !.state[g] = "none", !.cid[g] = 0, !.handoff[g] = None,
                          !.futexWord[g] = 0, !.sleep[g] = 0, !.marked[g] = FALSE]
           st == [u.state EXCEPT ![g] = "none"]
           ci == [u.cid EXCEPT ![g] = 0]
           ha == [u.handoff EXCEPT ![g] = None]
           fw == [u.futexWord EXCEPT ![g] = 0]
           sl == [u.sleep EXCEPT ![g] = 0]
           ma == [u.marked EXCEPT ![g] = FALSE]
<1>1. /\ u \in SchType
      /\ \A x \in Gids : x # g => u.state[x] = s.state[x]
      /\ \A d \in Cids : u.curThread[d] = IF s.curThread[d] = g THEN None ELSE s.curThread[d]
      /\ ToSet(u.freeList) = {d \in Cids : u.curThread[d] = None} /\ IsInjective(u.freeList)
      /\ ToSet(u.outQueue) = ToSet(s.outQueue) \ {g}
      /\ ToSet(u.runQueue) = ToSet(s.runQueue) \ {g}
      /\ IsInjective(s.outQueue) => IsInjective(u.outQueue)
      /\ IsInjective(s.runQueue) => IsInjective(u.runQueue)
      /\ u.cid = s.cid /\ u.sleepQueue = s.sleepQueue /\ u.handoff = s.handoff
      /\ u.marked = s.marked /\ u.sleep = s.sleep /\ u.futexWord = s.futexWord
      /\ u.fakePc = s.fakePc /\ u.fakeLeaves = s.fakeLeaves
  BY FinishDetach DEF Detached
<1>0. 0 \in Cids
  BY SchedulerAssumption DEF Cids
<1>2. /\ u.state \in [Gids -> States] /\ u.cid \in [Gids -> Cids]
      /\ u.handoff \in [Gids -> Gids \cup {None}] /\ u.futexWord \in [Gids -> {0, 1}]
      /\ u.marked \in [Gids -> BOOLEAN] /\ u.sleep \in [Gids -> Int]
      /\ 0 \in Cids /\ None \notin Gids
  BY <1>0, <1>1, FieldTypes, Constants
<1>f. /\ s \in SchType /\ s.state \in [Gids -> States] /\ s.cid \in [Gids -> Cids]
      /\ s.curThread \in [Cids -> Gids \cup {None}]
      /\ s.handoff \in [Gids -> Gids \cup {None}] /\ s.sleepQueue \in Seq(Gids)
  BY FieldTypes DEF SchInv
<1>3. /\ st \in [Gids -> States] /\ ci \in [Gids -> Cids] /\ ha \in [Gids -> Gids \cup {None}]
      /\ \A x \in Gids : /\ st[x] = IF x = g THEN "none" ELSE u.state[x]
                         /\ ci[x] = IF x = g THEN 0 ELSE u.cid[x]
                         /\ ha[x] = IF x = g THEN None ELSE u.handoff[x]
  BY <1>2 DEF States
<1>4. /\ fw \in [Gids -> {0, 1}] /\ sl \in [Gids -> Int]
      /\ \A x \in Gids : /\ fw[x] = IF x = g THEN 0 ELSE u.futexWord[x]
                         /\ sl[x] = IF x = g THEN 0 ELSE u.sleep[x]
  BY <1>2
<1>5. ma \in [Gids -> BOOLEAN] /\ \A x \in Gids : ma[x] = (x # g /\ u.marked[x])
  BY <1>2
<1>6. t = [u EXCEPT !.state = st, !.cid = ci, !.handoff = ha, !.futexWord = fw, !.sleep = sl,
                    !.marked = ma]
  OBVIOUS
<1> HIDE DEF t, st, ci, ha, fw, sl, ma
<1>7. /\ t \in SchType
      /\ t.state = st /\ t.cid = ci /\ t.handoff = ha /\ t.futexWord = fw /\ t.sleep = sl
      /\ t.marked = ma /\ t.curThread = u.curThread /\ t.freeList = u.freeList
      /\ t.runQueue = u.runQueue /\ t.outQueue = u.outQueue /\ t.sleepQueue = u.sleepQueue
      /\ t.fakePc = u.fakePc /\ t.fakeLeaves = u.fakeLeaves
  BY <1>1, <1>3, <1>4, <1>5, <1>6 DEF SchType
<1>8. \A x \in Gids : /\ t.state[x] = IF x = g THEN "none" ELSE s.state[x]
                      /\ t.cid[x] = IF x = g THEN 0 ELSE s.cid[x]
                      /\ t.handoff[x] = IF x = g THEN None ELSE s.handoff[x]
  BY <1>1, <1>3, <1>7
<1>9. \A d \in Cids : t.curThread[d] = IF s.curThread[d] = g THEN None ELSE s.curThread[d]
  BY <1>1, <1>7
<1>10. ToSet(s.runQueue) \in SUBSET Gids /\ ToSet(s.sleepQueue) \in SUBSET Gids
  BY <1>f, Members
<1>11. CtxInv(t)
  BY <1>2, <1>f, <1>8, <1>9 DEF SchInv, CtxInv
<1>12. FreeInv(t)
  BY <1>1, <1>7 DEF FreeInv
<1>13. OutInv(t)
  BY <1>1, <1>7, <1>8 DEF SchInv, OutInv
<1>14. RunInv(t)
  <2> SUFFICES ASSUME NEW x \in ToSet(s.runQueue) \ {g}, NEW d \in Mask[x]
               PROVE  t.state[x] = "QUEUED" /\ t.curThread[d] # None /\ t.state[t.curThread[d]] = "RUNNING"
    <3>1. \A x \in ToSet(t.runQueue) : \E d \in Cids : d \in Mask[x]
      BY <1>1, <1>7, <1>10, SchedulerAssumption
    <3> QED
      BY <1>1, <1>7, <3>1 DEF RunInv
  <2>1. d \in Cids /\ x \in Gids
    BY <1>10, SchedulerAssumption
  <2>2. s.state[x] = "QUEUED" /\ s.curThread[d] # None /\ s.state[s.curThread[d]] = "RUNNING"
    BY DEF SchInv, RunInv
  <2>3. s.curThread[d] # g /\ s.curThread[d] \in Gids
    BY <1>f, <2>1, <2>2
  <2> QED
    BY <1>8, <1>9, <2>1, <2>2, <2>3
<1>15. g \notin ToSet(s.sleepQueue)
  BY DEF SchInv, SleepInv
<1>16. SleepInv(t)
  <2>1. \A x \in ToSet(s.sleepQueue) : x \in Gids /\ x # g /\ s.state[x] = "SLEEPING"
    BY <1>10, <1>15 DEF SchInv, SleepInv
  <2> QED
    BY <1>1, <1>7, <1>8, <2>1 DEF SleepInv
<1>17. \A x \in Gids : s.handoff[x] # g
  BY <1>2 DEF SchInv, HandInv
<1>18. HandInv(t)
  <2> SUFFICES ASSUME NEW x \in Gids, t.handoff[x] # None
               PROVE  /\ t.state[t.handoff[x]] = "QUEUED" /\ t.handoff[x] \notin ToSet(t.runQueue)
                      /\ \A y \in Gids : t.handoff[y] = t.handoff[x] => y = x
    BY DEF HandInv
  <2>1. x # g /\ t.handoff[x] = s.handoff[x] /\ s.handoff[x] \in Gids /\ s.handoff[x] # g
    BY <1>f, <1>8, <1>17
  <2>2. /\ s.state[s.handoff[x]] = "QUEUED" /\ s.handoff[x] \notin ToSet(s.runQueue)
        /\ \A y \in Gids : s.handoff[y] = s.handoff[x] => y = x
    BY <2>1, <1>2 DEF SchInv, HandInv
  <2>3. t.state[t.handoff[x]] = "QUEUED" /\ t.handoff[x] \notin ToSet(t.runQueue)
    BY <1>1, <1>7, <1>8, <2>1, <2>2
  <2>4. \A y \in Gids : t.handoff[y] = t.handoff[x] => y = x
    BY <1>2, <1>8, <2>1, <2>2
  <2> QED
    BY <2>3, <2>4
<1>19. Sorted(s) => Sorted(t)
  <2>1. t.sleepQueue = s.sleepQueue
    BY <1>1, <1>7
  <2>2. \A i \in DOMAIN s.sleepQueue : s.sleepQueue[i] \in Gids /\ s.sleepQueue[i] # g
    BY <1>10, <1>15 DEF ToSet
  <2>3. \A i \in DOMAIN s.sleepQueue : t.sleep[s.sleepQueue[i]] = s.sleep[s.sleepQueue[i]]
    BY <1>1, <1>4, <1>7, <2>2
  <2> QED
    BY <2>1, <2>3 DEF Sorted
<1>20. NoRepeats(s) => NoRepeats(t)
  BY <1>1, <1>7 DEF NoRepeats
<1>21. SchInv(t)
  BY <1>7, <1>11, <1>12, <1>13, <1>14, <1>16, <1>18 DEF SchInv
<1>22. \A x \in Gids : /\ t.futexWord[x] = IF x = g THEN 0 ELSE s.futexWord[x]
                       /\ t.sleep[x] = IF x = g THEN 0 ELSE s.sleep[x]
                       /\ t.marked[x] = (x # g /\ s.marked[x])
  BY <1>1, <1>4, <1>5, <1>7
<1>23. /\ ToSet(t.runQueue) = ToSet(s.runQueue) \ {g}
       /\ t.sleepQueue = s.sleepQueue /\ t.fakePc = s.fakePc /\ t.fakeLeaves = s.fakeLeaves
  BY <1>1, <1>7
<1>24. Removed(s, g, t)
  BY <1>8, <1>9, <1>19, <1>20, <1>21, <1>22, <1>23 DEF Removed
<1> QED
  BY <1>24 DEF t

\* g has started.
Started(s, g, t) ==
    /\ SchInv(t)
    /\ \A x \in Gids : t.state[x] = IF x = g THEN "STARTED" ELSE s.state[x]
    /\ t.cid = s.cid /\ t.curThread = s.curThread /\ t.runQueue = s.runQueue
    /\ t.outQueue = s.outQueue
    /\ t.sleepQueue = s.sleepQueue /\ t.handoff = s.handoff /\ t.marked = s.marked
    /\ t.sleep = s.sleep /\ t.futexWord = s.futexWord
    /\ t.fakePc = s.fakePc /\ t.fakeLeaves = s.fakeLeaves

LEMMA StartKeeps ==
    ASSUME NEW s, SchInv(s), NEW g \in Gids, s.state[g] = "none"
    PROVE  Started(s, g, [s EXCEPT !.state[g] = "STARTED"])
<1> DEFINE st == [s.state EXCEPT ![g] = "STARTED"]
           t == [s EXCEPT !.state[g] = "STARTED"]
<1>1. s \in SchType
  BY DEF SchInv
<1>f. /\ s.state \in [Gids -> States] /\ s.cid \in [Gids -> Cids]
      /\ s.curThread \in [Cids -> Gids \cup {None}]
      /\ s.handoff \in [Gids -> Gids \cup {None}] /\ None \notin Gids
  BY <1>1, FieldTypes, Constants
<1>3. st \in [Gids -> States] /\ \A x \in Gids : st[x] = IF x = g THEN "STARTED" ELSE s.state[x]
  BY <1>f DEF States
<1>4. t = [s EXCEPT !.state = st]
  OBVIOUS
<1> HIDE DEF st, t
<1>5. /\ t \in SchType /\ t.state = st
      /\ t.cid = s.cid /\ t.curThread = s.curThread /\ t.runQueue = s.runQueue
      /\ t.freeList = s.freeList /\ t.outQueue = s.outQueue
      /\ t.sleepQueue = s.sleepQueue /\ t.handoff = s.handoff /\ t.marked = s.marked
      /\ t.sleep = s.sleep /\ t.futexWord = s.futexWord
      /\ t.fakePc = s.fakePc /\ t.fakeLeaves = s.fakeLeaves
  BY <1>1, <1>3, <1>4 DEF SchType
<1>6. ToSet(s.runQueue) \in SUBSET Gids /\ ToSet(s.sleepQueue) \in SUBSET Gids
  BY <1>1, Members
<1>7. CtxInv(t) /\ FreeInv(t) /\ OutInv(t)
  BY <1>f, <1>3, <1>5 DEF SchInv, CtxInv, FreeInv, OutInv
<1>8. RunInv(t)
  <2> SUFFICES ASSUME NEW x \in ToSet(s.runQueue), NEW d \in Mask[x]
               PROVE  t.state[x] = "QUEUED" /\ s.curThread[d] # None /\ t.state[s.curThread[d]] = "RUNNING"
    <3>1. \A x \in ToSet(s.runQueue) : \E d \in Cids : d \in Mask[x]
      BY <1>6, SchedulerAssumption
    <3> QED
      BY <1>5, <3>1 DEF RunInv
  <2>1. d \in Cids /\ x \in Gids
    BY <1>6, SchedulerAssumption
  <2>2. s.state[x] = "QUEUED" /\ s.curThread[d] # None /\ s.state[s.curThread[d]] = "RUNNING"
    BY DEF SchInv, RunInv
  <2> QED
    BY <1>f, <1>3, <1>5, <2>1, <2>2
<1>9. SleepInv(t)
  BY <1>3, <1>5, <1>6 DEF SchInv, SleepInv
<1>10. HandInv(t)
  <2> SUFFICES ASSUME NEW x \in Gids, s.handoff[x] # None
               PROVE  t.state[s.handoff[x]] = "QUEUED"
    BY <1>5 DEF HandInv, SchInv
  <2>1. s.handoff[x] \in Gids /\ s.state[s.handoff[x]] = "QUEUED"
    BY <1>f DEF SchInv, HandInv
  <2> QED
    BY <1>3, <1>5, <2>1
<1>11. Started(s, g, t)
  BY <1>3, <1>5, <1>7, <1>8, <1>9, <1>10 DEF Started, SchInv
<1> QED
  BY <1>11 DEF t

-----------------------------------------------------------------------------
(* What the composed handlers do, in terms of the lemmas' views.           *)

BarType == [Cids -> {"out", "waiting", "running", "done"}]

\* Scheduler::leave: t and b2 after it.
LeaveEffect(s, g, b, t, b2) ==
    \/ /\ \E h \in ToSet(s.runQueue) : s.cid[g] \in Mask[h] /\ HandedOver(s, g, h, t)
       /\ b2 = b
    \/ LeftBarrier(s, g, t) /\ b2 = [b EXCEPT ![s.cid[g]] = "out"]

LEMMA LeaveStep ==
    ASSUME SchInv(sch), NEW g \in Gids, sch.state[g] = "RUNNING", Leave(sch, g)
    PROVE  LeaveEffect(sch, g, bar, sch', bar')
<1>1. CASE SchedContext(sch, sch.cid[g]) # None
  <2>1. sch' = LeaveHandsOver(sch, g) /\ bar' = bar
    BY <1>1 DEF Leave
  <2>2. \E h \in ToSet(sch.runQueue) :
           sch.cid[g] \in Mask[h] /\ HandedOver(sch, g, h, LeaveHandsOver(sch, g))
    BY <1>1, LeaveHandsOverSpec
  <2> QED
    BY <2>1, <2>2 DEF LeaveEffect
<1>2. CASE SchedContext(sch, sch.cid[g]) = None
  <2>1. sch' = LeaveBarrier(sch, g) /\ bar' = [bar EXCEPT ![sch.cid[g]] = "out"]
    BY <1>2 DEF Leave
  <2>2. LeftBarrier(sch, g, LeaveBarrier(sch, g))
    BY <1>2, LeaveBarrierSpec
  <2> QED
    BY <2>1, <2>2 DEF LeaveEffect
<1> QED
  BY <1>1, <1>2

\* t is s after thread g, which had no context, has got context c.
TookContext(s, g, c, t) ==
    /\ SchInv(t)
    /\ s.curThread[c] = None \/ s.state[s.curThread[c]] = "OUT"
    /\ \A x \in Gids :
         /\ t.state[x] = IF x = g THEN "RUNNING"
                         ELSE IF x = s.curThread[c] THEN "BLOCKED" ELSE s.state[x]
         /\ t.cid[x] = IF x = g THEN c ELSE s.cid[x]
    /\ \A d \in Cids : t.curThread[d] = IF d = c THEN g ELSE s.curThread[d]
    /\ ToSet(t.runQueue) = ToSet(s.runQueue) \ {g}
    /\ ToSet(t.sleepQueue) = ToSet(s.sleepQueue) \ {g}
    /\ t.handoff = s.handoff /\ t.futexWord = s.futexWord /\ t.marked = s.marked
    /\ t.sleep = s.sleep /\ t.fakePc = s.fakePc /\ t.fakeLeaves = s.fakeLeaves
    /\ NoRepeats(s) => NoRepeats(t)
    /\ Sorted(s) => Sorted(t)

\* t is s after thread g has found no context and waits in the run queue.
LinedUp(s, g, t) ==
    /\ SchInv(t)
    /\ \A x \in Gids : /\ t.state[x] = IF x = g THEN "QUEUED" ELSE s.state[x]
                       /\ t.futexWord[x] = IF x = g THEN 1 ELSE s.futexWord[x]
    /\ ToSet(t.runQueue) = ToSet(s.runQueue) \cup {g}
    /\ ToSet(t.sleepQueue) = ToSet(s.sleepQueue) \ {g}
    /\ t.cid = s.cid /\ t.curThread = s.curThread
    /\ t.handoff = s.handoff /\ t.marked = s.marked
    /\ t.sleep = s.sleep /\ t.fakePc = s.fakePc /\ t.fakeLeaves = s.fakeLeaves
    /\ g \notin ToSet(s.runQueue) /\ NoRepeats(s) => NoRepeats(t)
    /\ Sorted(s) => Sorted(t)

PlacedEffect(s, g, b, a, t, b2, a2) ==
    \/ \E c \in Cids : /\ TookContext(s, g, c, t)
                       /\ b2 = [b EXCEPT ![c] = "waiting"]
                       /\ a2 = [a EXCEPT ![g] = "joining"]
    \/ LinedUp(s, g, t) /\ b2 = b /\ a2 = [a EXCEPT ![g] = "queued"]

LEMMA PlaceStep ==
    ASSUME NEW s, SchInv(s), NEW g \in Gids,
           s.state[g] \notin {"RUNNING", "OUT", "SLEEPING"},
           \A h \in Gids : s.handoff[h] # g,
           NEW d, d = SchedThread(s, g)
    PROVE  /\ d # None => d \in Cids /\ TookContext(s, g, d, Schedule(s, g, d))
           /\ d = None => LinedUp(s, g, Queue(s, g))
<1>1. s \in SchType /\ g \notin ToSet(s.sleepQueue)
  BY DEF SchInv, SleepInv
<1>2. /\ d # None => /\ d \in Cids
                     /\ s.curThread[d] = None \/ s.state[s.curThread[d]] = "OUT"
      /\ d = None => \A c \in Mask[g] : s.curThread[c] # None /\ s.state[s.curThread[c]] = "RUNNING"
  BY SchedThreadSpec
<1>3. ASSUME d # None PROVE d \in Cids /\ TookContext(s, g, d, Schedule(s, g, d))
  <2>1. PICK t : t = Schedule(s, g, d)
    OBVIOUS
  <2>2. SchInv(t) /\ Scheduled(s, g, d, t)
    BY <1>2, <1>3, <2>1, ScheduleKeeps
  <2>3. (NoRepeats(s) => NoRepeats(t)) /\ (Sorted(s) => Sorted(t))
    BY <2>2 DEF Scheduled, NoRepeats, Sorted
  <2>4. TookContext(s, g, d, t)
    BY <1>1, <1>2, <1>3, <2>2, <2>3 DEF TookContext, Scheduled
  <2> QED
    BY <1>2, <1>3, <2>1, <2>4
<1>4. ASSUME d = None PROVE LinedUp(s, g, Queue(s, g))
  <2>1. PICK t : t = Queue(s, g)
    OBVIOUS
  <2>2. Queued(s, g, t)
    BY <1>2, <1>4, <2>1, QueueKeeps
  <2>3. (g \notin ToSet(s.runQueue) /\ NoRepeats(s) => NoRepeats(t)) /\ (Sorted(s) => Sorted(t))
    BY <2>2 DEF Queued, NoRepeats, Sorted
  <2>4. LinedUp(s, g, t)
    BY <1>1, <2>2, <2>3 DEF LinedUp, Queued
  <2> QED
    BY <2>1, <2>4
<1> QED
  BY <1>3, <1>4

LEMMA JoinElsewhereStep ==
    ASSUME SchInv(sch), NEW g \in Gids, JoinElsewhere(g)
    PROVE  PlacedEffect(sch, g, bar, at, sch', bar', at')
<1>1. PICK s : s = AwakenEarly(sch, g)
  OBVIOUS
<1>2. PICK d : d = SchedThread(s, g)
  OBVIOUS
<1>3. sch.state[g] \in {"STARTED", "BLOCKED", "SLEEPING"}
  BY DEF JoinElsewhere, JoinAllowed
<1>4. Awakened(sch, g, s)
  BY <1>1, <1>3, AwakenEarlyKeeps
<1>5. /\ SchInv(s) /\ s.state[g] \notin {"RUNNING", "OUT", "SLEEPING"} /\ s.state[g] = "BLOCKED"
      /\ s.handoff = sch.handoff /\ \A h \in Gids : s.handoff[h] # g
  BY <1>3, <1>4, Constants DEF Awakened, SchInv, HandInv
<1>6. /\ d # None => d \in Cids /\ TookContext(s, g, d, Schedule(s, g, d))
      /\ d = None => LinedUp(s, g, Queue(s, g))
  BY <1>2, <1>5, PlaceStep
<1>7. IF d # None
        THEN sch' = Schedule(s, g, d) /\ BarJoin(d) /\ Goto(g, "joining")
        ELSE sch' = Queue(s, g) /\ Goto(g, "queued") /\ bar' = bar
  BY <1>1, <1>2 DEF JoinElsewhere
<1>n. sch.curThread \in [Cids -> Gids \cup {None}] /\ s.curThread = sch.curThread
      /\ \A c \in Cids : sch.curThread[c] # g
  BY <1>3, <1>4, FieldTypes DEF SchInv, CtxInv, Awakened
<1>8. ASSUME d # None
      PROVE  PlacedEffect(sch, g, bar, at, sch', bar', at')
  <2>1. TookContext(s, g, d, sch') /\ d \in Cids
    BY <1>6, <1>7, <1>8
  <2>2. (NoRepeats(sch) => NoRepeats(sch')) /\ (Sorted(sch) => Sorted(sch'))
    BY <1>4, <2>1 DEF Awakened, TookContext
  <2>3. sch.curThread[d] = None \/ sch.state[sch.curThread[d]] = "OUT"
    BY <1>4, <1>n, <2>1 DEF Awakened, TookContext
  <2>4. TookContext(sch, g, d, sch')
    BY <1>4, <1>n, <2>1, <2>2, <2>3 DEF Awakened, TookContext
  <2>5. bar' = [bar EXCEPT ![d] = "waiting"] /\ at' = [at EXCEPT ![g] = "joining"]
    BY <1>7, <1>8 DEF BarJoin, Goto
  <2> QED
    BY <2>1, <2>4, <2>5 DEF PlacedEffect
<1>9. ASSUME d = None
      PROVE  PlacedEffect(sch, g, bar, at, sch', bar', at')
  <2>1. LinedUp(s, g, sch')
    BY <1>6, <1>7, <1>9
  <2>2. /\ g \notin ToSet(sch.runQueue) /\ NoRepeats(sch) => NoRepeats(sch')
        /\ Sorted(sch) => Sorted(sch')
    BY <1>4, <2>1 DEF Awakened, LinedUp
  <2>3. LinedUp(sch, g, sch')
    BY <1>4, <2>1, <2>2 DEF Awakened, LinedUp
  <2>4. bar' = bar /\ at' = [at EXCEPT ![g] = "queued"]
    BY <1>7, <1>9 DEF Goto
  <2> QED
    BY <2>3, <2>4 DEF PlacedEffect
<1> QED
  BY <1>8, <1>9

\* u is s after thread g has given its context to h, its handoffThread.
Switched(s, g, h, u) ==
    /\ SchInv(u)
    /\ \A x \in Gids :
         /\ u.state[x] = IF x = h THEN "RUNNING" ELSE IF x = g THEN "QUEUED" ELSE s.state[x]
         /\ u.cid[x] = IF x = h THEN s.cid[g] ELSE s.cid[x]
         /\ u.futexWord[x] = IF x = h THEN 0 ELSE s.futexWord[x]
         /\ u.handoff[x] = IF x = g THEN None ELSE s.handoff[x]
    /\ \A d \in Cids : u.curThread[d] = IF d = s.cid[g] THEN h ELSE s.curThread[d]
    /\ ToSet(u.runQueue) = ToSet(s.runQueue) /\ u.sleepQueue = s.sleepQueue
    /\ u.marked = s.marked /\ u.sleep = s.sleep
    /\ u.fakePc = s.fakePc /\ u.fakeLeaves = s.fakeLeaves
    /\ NoRepeats(s) => NoRepeats(u)
    /\ Sorted(s) => Sorted(u)

LEMMA SwitchStep ==
    ASSUME NEW s, SchInv(s), NEW g \in Gids, s.state[g] = "RUNNING",
           NEW h \in Gids, h = s.handoff[g]
    PROVE  /\ Switched(s, g, h,
                Wakeup(Schedule([Deschedule(s, g, "QUEUED") EXCEPT !.handoff[g] = None], h, s.cid[g]), h))
           /\ s.state[h] = "QUEUED" /\ h \notin ToSet(s.runQueue)
<1> DEFINE c == s.cid[g]
           st == [s.state EXCEPT ![g] = "QUEUED"]
           ct == [s.curThread EXCEPT ![c] = None]
           ha == [s.handoff EXCEPT ![g] = None]
           q == [Deschedule(s, g, "QUEUED") EXCEPT !.handoff[g] = None]
           v == Schedule(q, h, c)
           u == Wakeup(v, h)
<1>1. s \in SchType /\ c \in Cids
  BY FieldTypes DEF SchInv
<1>f. /\ s.state \in [Gids -> States] /\ s.curThread \in [Cids -> Gids \cup {None}]
      /\ s.handoff \in [Gids -> Gids \cup {None}] /\ None \notin Gids
      /\ s.cid \in [Gids -> Cids] /\ s.futexWord \in [Gids -> {0, 1}]
  BY <1>1, FieldTypes, Constants
<1>2. s.state[h] = "QUEUED" /\ h \notin ToSet(s.runQueue) /\ h # g
  BY <1>f DEF SchInv, HandInv
<1>3. /\ st \in [Gids -> States] /\ ct \in [Cids -> Gids \cup {None}]
      /\ ha \in [Gids -> Gids \cup {None}]
  BY <1>f DEF States
<1>4. q = [s EXCEPT !.state = st, !.curThread = ct, !.handoff = ha]
  BY DEF Deschedule
<1>s. /\ \A x \in Gids : st[x] = IF x = g THEN "QUEUED" ELSE s.state[x]
      /\ \A d \in Cids : ct[d] = IF d = c THEN None ELSE s.curThread[d]
      /\ \A x \in Gids : ha[x] = IF x = g THEN None ELSE s.handoff[x]
  BY <1>f
<1> HIDE DEF st, ct, ha, q
<1>5. /\ q \in SchType /\ q.state = st /\ q.curThread = ct /\ q.handoff = ha
      /\ q.cid = s.cid /\ q.freeList = s.freeList /\ q.runQueue = s.runQueue
      /\ q.outQueue = s.outQueue /\ q.sleepQueue = s.sleepQueue
      /\ q.futexWord = s.futexWord /\ q.marked = s.marked /\ q.sleep = s.sleep
      /\ q.fakePc = s.fakePc /\ q.fakeLeaves = s.fakeLeaves
  BY <1>1, <1>3, <1>4 DEF SchType
<1>6. Vacated(s, g, "QUEUED", q)
  BY <1>5, <1>s DEF Vacated
<1>7. \A x \in Gids : q.handoff[x] # h
  BY <1>5, <1>s, <1>f DEF SchInv, HandInv
<1>8. /\ SchInv(v) /\ Scheduled(q, h, c, v) /\ q.curThread[c] = None
  BY <1>2, <1>6, <1>7, SwitchKeeps
<1> HIDE DEF v
<1>9. SchInv(u) /\ u = [v EXCEPT !.futexWord = [v.futexWord EXCEPT ![h] = 0]]
  BY <1>8, WakeupKeeps
<1>10. v \in SchType /\ v.futexWord \in [Gids -> {0, 1}]
  BY <1>8, FieldTypes DEF SchInv
<1> HIDE DEF u
<1>11. /\ u.state = v.state /\ u.cid = v.cid /\ u.curThread = v.curThread
       /\ u.runQueue = v.runQueue /\ u.outQueue = v.outQueue /\ u.sleepQueue = v.sleepQueue
       /\ u.handoff = v.handoff /\ u.marked = v.marked /\ u.sleep = v.sleep
       /\ u.fakePc = v.fakePc /\ u.fakeLeaves = v.fakeLeaves
       /\ \A x \in Gids : u.futexWord[x] = IF x = h THEN 0 ELSE v.futexWord[x]
  BY <1>9, <1>10 DEF SchType
<1>12. \A x \in Gids :
         /\ u.state[x] = IF x = h THEN "RUNNING" ELSE IF x = g THEN "QUEUED" ELSE s.state[x]
         /\ u.cid[x] = IF x = h THEN s.cid[g] ELSE s.cid[x]
         /\ u.futexWord[x] = IF x = h THEN 0 ELSE s.futexWord[x]
         /\ u.handoff[x] = IF x = g THEN None ELSE s.handoff[x]
  BY <1>f, <1>s, <1>5, <1>8, <1>11 DEF Scheduled
<1>13. /\ \A d \in Cids : u.curThread[d] = IF d = s.cid[g] THEN h ELSE s.curThread[d]
       /\ ToSet(u.runQueue) = ToSet(s.runQueue) /\ u.sleepQueue = s.sleepQueue
       /\ u.marked = s.marked /\ u.sleep = s.sleep
       /\ u.fakePc = s.fakePc /\ u.fakeLeaves = s.fakeLeaves
  <2>1. \A d \in Cids : u.curThread[d] = IF d = s.cid[g] THEN h ELSE s.curThread[d]
    BY <1>s, <1>5, <1>8, <1>11 DEF Scheduled
  <2>2. ToSet(u.runQueue) = ToSet(s.runQueue) \ {h}
    BY <1>5, <1>8, <1>11 DEF Scheduled
  <2>3. ToSet(u.runQueue) = ToSet(s.runQueue)
    BY <1>2, <2>2, Zenon
  <2> QED
    BY <1>5, <1>8, <1>11, <2>1, <2>3 DEF Scheduled
<1>14. (NoRepeats(s) => NoRepeats(u)) /\ (Sorted(s) => Sorted(u))
  BY <1>5, <1>8, <1>11 DEF Scheduled, NoRepeats, Sorted
<1>15. Switched(s, g, h, u)
  BY <1>9, <1>12, <1>13, <1>14 DEF Switched
<1> QED
  BY <1>2, <1>15 DEF u, v, q

HandoffEffect(s, g, b, a, t, b2, a2) ==
    \E h, u :
        /\ h \in Gids /\ h = s.handoff[g] /\ s.state[h] = "QUEUED" /\ h \notin ToSet(s.runQueue)
        /\ Switched(s, g, h, u) /\ PlacedEffect(u, g, b, a, t, b2, a2)

LEMMA HandoffStep ==
    ASSUME SchInv(sch), PlaceInv(sch, at), NEW g \in Gids, Handoff(g)
    PROVE  HandoffEffect(sch, g, bar, at, sch', bar', at')
<1>1. sch.state[g] = "RUNNING" /\ sch.handoff[g] # None /\ sch \in SchType
  BY DEF Handoff, PlaceInv, InSim, SchInv
<1>2. PICK h \in Gids : h = sch.handoff[g]
  BY <1>1, FieldTypes
<1>3. PICK s : s = Wakeup(Schedule([Deschedule(sch, g, "QUEUED") EXCEPT !.handoff[g] = None],
                                   h, sch.cid[g]), h)
  OBVIOUS
<1>4. PICK d : d = SchedThread(s, g)
  OBVIOUS
<1>5. Switched(sch, g, h, s) /\ sch.state[h] = "QUEUED" /\ h \notin ToSet(sch.runQueue)
  BY <1>1, <1>2, <1>3, SwitchStep
<1>6. /\ SchInv(s) /\ s.state[g] = "QUEUED" /\ s.state[g] \notin {"RUNNING", "OUT", "SLEEPING"}
      /\ \A x \in Gids : s.handoff[x] # g
  <2>1. SchInv(s) /\ s.state[g] = "QUEUED"
    BY <1>1, <1>5 DEF Switched
  <2>2. \A x \in Gids : s.handoff[x] # g
    BY <1>1, <1>5, Constants DEF Switched, SchInv, HandInv
  <2> QED
    BY <2>1, <2>2
<1>7. /\ d # None => d \in Cids /\ TookContext(s, g, d, Schedule(s, g, d))
      /\ d = None => LinedUp(s, g, Queue(s, g))
  BY <1>4, <1>6, PlaceStep
<1>8. IF d # None
        THEN sch' = Schedule(s, g, d) /\ BarJoin(d) /\ Goto(g, "joining")
        ELSE sch' = Queue(s, g) /\ Goto(g, "queued") /\ bar' = bar
  BY <1>2, <1>3, <1>4 DEF Handoff
<1>9. PlacedEffect(s, g, bar, at, sch', bar', at')
  BY <1>7, <1>8 DEF PlacedEffect, BarJoin, Goto
<1> QED
  BY <1>2, <1>5, <1>9 DEF HandoffEffect

CallbackEffect(s, t) ==
    \/ Passed(s, t)
    \/ \E u : \E f \in Ticks(u) : Passed(s, u) /\ u.runQueue # <<>> /\ Ticked(u, f, t)

LEMMA CallbackStep ==
    ASSUME SchInv(sch), Callback
    PROVE  CallbackEffect(sch, sch')
<1>1. PICK u : u = NextPhase(sch)
  OBVIOUS
<1>2. Passed(sch, u) /\ SchInv(u)
  BY <1>1, NextPhaseKeeps DEF Passed
<1>3. IF u.runQueue # <<>> /\ u.phase = 0
        THEN \E f \in Ticks(u) : sch' = Tick(u, f)
        ELSE sch' = u
  BY <1>1 DEF Callback
<1>4. CASE u.runQueue # <<>> /\ u.phase = 0
  <2>1. PICK f \in Ticks(u) : sch' = Tick(u, f)
    BY <1>3, <1>4
  <2>2. Ticked(u, f, sch')
    BY <1>2, <2>1, TickKeeps
  <2> QED
    BY <1>2, <1>4, <2>1, <2>2 DEF CallbackEffect
<1>5. CASE ~ (u.runQueue # <<>> /\ u.phase = 0)
  BY <1>2, <1>3, <1>5 DEF CallbackEffect
<1> QED
  BY <1>4, <1>5

FinishEffect(s, g, from, t) ==
    \E u : /\ \/ u = s /\ ~ (s.state[g] = "SLEEPING" /\ from = "dead")
              \/ s.state[g] = "SLEEPING" /\ from = "dead" /\ Awakened(s, g, u)
           /\ \/ t = u /\ u.fakePc[g] = None
              \/ u.fakePc[g] # None /\ Unfaked(u, g, t)

LEMMA FinishStep ==
    ASSUME SchInv(sch), NEW g \in Gids, NEW from, FinishStart(g, from)
    PROVE  FinishEffect(sch, g, from, sch')
<1>1. PICK u : u = IF sch.state[g] = "SLEEPING" /\ from = "dead" THEN AwakenEarly(sch, g) ELSE sch
  OBVIOUS
<1>2. sch' = IF u.fakePc[g] # None THEN FinishFakeLeave(u, g) ELSE u
  BY <1>1 DEF FinishStart
<1>3. /\ SchInv(u)
      /\ \/ u = sch /\ ~ (sch.state[g] = "SLEEPING" /\ from = "dead")
         \/ sch.state[g] = "SLEEPING" /\ from = "dead" /\ Awakened(sch, g, u)
  <2>1. CASE sch.state[g] = "SLEEPING" /\ from = "dead"
    <3>1. u = AwakenEarly(sch, g)
      BY <1>1, <2>1
    <3>2. Awakened(sch, g, u)
      BY <2>1, <3>1, AwakenEarlyKeeps
    <3> QED
      BY <2>1, <3>2 DEF Awakened
  <2> QED
    BY <1>1, <2>1
<1>4. Unfaked(u, g, FinishFakeLeave(u, g))
  <2>1. {} \in SUBSET (Pids \X Pcs)
    OBVIOUS
  <2> QED
    BY <1>3, <2>1, FinishFakeLeaveKeeps
<1> QED
  BY <1>2, <1>3, <1>4 DEF FinishEffect

-----------------------------------------------------------------------------
(* The first layer: threads, contexts and the watchdog.                    *)

Holds1(s, b, a, w) ==
    SchInv(s) /\ RestInv(s, a, w) /\ b \in BarType /\ a \in [Gids -> Places]

\* The watchdog drops the lock between the end of a fake leave and the real one;
\* a thread that finishes in between would be its own.
Disciplined == ~ ({"stall", "finish"} \subseteq Features)

LEMMA LeaveRest ==
    ASSUME NEW s, NEW b, NEW a, NEW w, Holds1(s, b, a, w),
           NEW g \in Gids, s.state[g] = "RUNNING", s.fakePc[g] = None,
           NEW t, NEW b2, LeaveEffect(s, g, b, t, b2),
           NEW p \in Places,
           \/ p \in {"ready", "finished", "leaving"}
           \/ p = "asleep" /\ s.marked[g]
           \/ p = a[g] /\ p \in {"ready", "dead"},
           NEW v \in WdType, v.pc = "leave" => v = w /\ w.th # g,
           v.pc \in {"leave", "next"} => v.pid \in Pids /\ "stall" \in Features
    PROVE  Holds1(t, b2, [a EXCEPT ![g] = p], v)
<1> DEFINE a2 == [a EXCEPT ![g] = p]
<1>1. /\ SchInv(s) /\ s \in SchType /\ RestInv(s, a, w) /\ b \in BarType /\ a \in [Gids -> Places]
      /\ s.state \in [Gids -> States] /\ s.cid[g] \in Cids
      /\ ToSet(s.runQueue) \in SUBSET Gids /\ s.marked \in [Gids -> BOOLEAN]
      /\ ToSet(s.fakeLeaves) \in SUBSET Gids
  BY FieldTypes, Members DEF Holds1, SchInv
<1>2. a2 \in [Gids -> Places] /\ \A x \in Gids : a2[x] = IF x = g THEN p ELSE a[x]
  BY <1>1
<1>3. SchInv(t) /\ b2 \in BarType
  BY <1>1 DEF LeaveEffect, HandedOver, LeftBarrier, BarType
<1> HIDE DEF a2
<1>4. FakeInv(t)
  BY <1>1 DEF LeaveEffect, HandedOver, LeftBarrier, RestInv, FakeInv
<1>5. CASE \E h \in ToSet(s.runQueue) : s.cid[g] \in Mask[h] /\ HandedOver(s, g, h, t)
  <2>1. PICK h \in Gids : h \in ToSet(s.runQueue) /\ HandedOver(s, g, h, t)
    BY <1>1, <1>5
  <2>2. s.state[h] = "QUEUED" /\ h # g
    BY <1>1, <2>1 DEF SchInv, RunInv
  <2>3. /\ s.fakePc[h] = None /\ a[h] \notin InSim \cup {"asleep", "off"}
    BY <1>1, <2>2 DEF RestInv, PlaceInv
  <2>4. PlaceInv(t, a2)
    BY <1>1, <1>2, <2>1, <2>2, <2>3 DEF HandedOver, RestInv, PlaceInv, InSim
  <2>5. WdInv(t, a2, v)
    BY <1>1, <1>2, <2>1, <2>2, <2>3 DEF HandedOver, RestInv, WdInv
  <2> QED
    BY <1>2, <1>3, <1>4, <2>4, <2>5 DEF Holds1, RestInv, a2
<1>6. CASE LeftBarrier(s, g, t)
  <2>4. PlaceInv(t, a2)
    BY <1>1, <1>2, <1>6 DEF LeftBarrier, RestInv, PlaceInv, InSim
  <2>5. WdInv(t, a2, v)
    BY <1>1, <1>2, <1>6 DEF LeftBarrier, RestInv, WdInv
  <2> QED
    BY <1>2, <1>3, <1>4, <2>4, <2>5 DEF Holds1, RestInv, a2
<1> QED
  BY <1>5, <1>6 DEF LeaveEffect

\* A step that moves one host thread and changes nothing else of sch.
LEMMA MoveRest ==
    ASSUME NEW s, NEW b, NEW a, NEW w, Holds1(s, b, a, w), NEW b2 \in BarType,
           NEW g \in Gids, NEW p \in Places,
           p \in InSim => s.state[g] = "RUNNING",
           p = "handoff" => s.handoff[g] # None,
           p \notin {"marked", "asleep", "off", "queued"},
           s.fakePc[g] = None, a[g] \notin {"ready", "dead"}
    PROVE  Holds1(s, b2, [a EXCEPT ![g] = p], w)
<1> DEFINE a2 == [a EXCEPT ![g] = p]
<1>1. SchInv(s) /\ FakeInv(s) /\ PlaceInv(s, a) /\ WdInv(s, a, w) /\ a \in [Gids -> Places]
  BY DEF Holds1, RestInv
<1>2. a2 \in [Gids -> Places] /\ \A x \in Gids : a2[x] = IF x = g THEN p ELSE a[x]
  BY <1>1
<1> HIDE DEF a2
<1>3. PlaceInv(s, a2)
  BY <1>1, <1>2 DEF PlaceInv
<1>4. WdInv(s, a2, w)
  BY <1>1, <1>2 DEF WdInv
<1> QED
  BY <1>1, <1>2, <1>3, <1>4 DEF Holds1, RestInv, a2

LEMMA BarrierKeeps1 ==
    ASSUME Holds1(sch, bar, at, wd), BarrierWake
    PROVE  Holds1(sch', bar', at', wd')
<1>1. PICK c \in Cids : bar' = [bar EXCEPT ![c] = "running"]
  BY DEF BarrierWake, Barrier!Wake, Barrier!Move
<1>2. bar' \in BarType /\ sch' = sch /\ at' = at /\ wd' = wd
  BY <1>1 DEF Holds1, BarType, BarrierWake
<1> QED
  BY <1>2 DEF Holds1

LEMMA CallbackKeeps1 ==
    ASSUME Holds1(sch, bar, at, wd), Callback, bar' \in BarType, UNCHANGED <<at, wd>>
    PROVE  Holds1(sch', bar', at', wd')
<1>1. SchInv(sch) /\ FakeInv(sch) /\ PlaceInv(sch, at) /\ WdInv(sch, at, wd) /\ at \in [Gids -> Places]
  BY DEF Holds1, RestInv
<1>t. /\ sch \in SchType /\ ToSet(sch.sleepQueue) \in SUBSET Gids
      /\ \A x \in ToSet(sch.sleepQueue) : sch.state[x] = "SLEEPING"
      /\ \A x \in ToSet(sch.fakeLeaves) : x \in Gids
  BY <1>1, Members DEF SchInv, SleepInv
<1>2. ASSUME NEW u, Passed(sch, u)
      PROVE  SchInv(u) /\ RestInv(u, at, wd)
  <2>1. \A x \in Gids : /\ sch.state[x] # "SLEEPING" => u.state[x] = sch.state[x] /\ u.futexWord[x] = sch.futexWord[x]
                        /\ u.state[x] \in {sch.state[x], "BLOCKED"}
    BY <1>t, <1>2 DEF Passed
  <2>2. PlaceInv(u, at)
    BY <1>1, <1>2, <2>1 DEF Passed, PlaceInv, InSim
  <2>3. WdInv(u, at, wd)
    BY <1>1, <1>2, <2>1 DEF Passed, WdInv
  <2>4. FakeInv(u)
    BY <1>1, <1>2 DEF Passed, FakeInv
  <2> QED
    BY <1>2, <2>2, <2>3, <2>4 DEF Passed, RestInv
<1>3. ASSUME NEW u, NEW f \in Ticks(u), SchInv(u), RestInv(u, at, wd), NEW t, Ticked(u, f, t)
      PROVE  SchInv(t) /\ RestInv(t, at, wd)
  <2>1. \A x \in Gids : u.handoff[x] # None => t.handoff[x] # None
    <3>1. ToSet(u.runQueue) \in SUBSET Gids /\ None \notin Gids
      BY <1>3, Members, Constants DEF SchInv
    <3> QED
      BY <1>3, <3>1 DEF Ticked
  <2>2. PlaceInv(t, at)
    BY <1>3, <2>1 DEF Ticked, RestInv, PlaceInv
  <2>3. WdInv(t, at, wd)
    BY <1>3 DEF Ticked, RestInv, WdInv
  <2>4. FakeInv(t)
    BY <1>3 DEF Ticked, RestInv, FakeInv
  <2> QED
    BY <1>3, <2>2, <2>3, <2>4 DEF Ticked, RestInv
<1>4. SchInv(sch') /\ RestInv(sch', at, wd)
  BY <1>1, <1>2, <1>3, CallbackStep DEF CallbackEffect
<1> QED
  BY <1>1, <1>4 DEF Holds1

LEMMA PhaseKeeps1 ==
    ASSUME Holds1(sch, bar, at, wd), EndOfPhase
    PROVE  Holds1(sch', bar', at', wd')
<1>1. bar' \in BarType
  BY DEF Holds1, EndOfPhase, Barrier!EndPhase, BarType
<1> QED
  BY <1>1, CallbackKeeps1 DEF EndOfPhase

LEMMA DriveKeeps1 ==
    ASSUME Holds1(sch, bar, at, wd), DriveTime
    PROVE  Holds1(sch', bar', at', wd')
<1>1. bar' \in BarType
  BY DEF Holds1, DriveTime
<1> QED
  BY <1>1, CallbackKeeps1 DEF DriveTime

LEMMA StartKeeps1 ==
    ASSUME Holds1(sch, bar, at, wd), NEW g \in Gids, Start(g)
    PROVE  Holds1(sch', bar', at', wd')
<1>1. SchInv(sch) /\ FakeInv(sch) /\ PlaceInv(sch, at) /\ WdInv(sch, at, wd) /\ at \in [Gids -> Places]
  BY DEF Holds1, RestInv
<1>2. /\ at[g] = "off" /\ sch' = [sch EXCEPT !.state[g] = "STARTED"] /\ at' = [at EXCEPT ![g] = "ready"]
      /\ bar' = bar /\ wd' = wd
  BY DEF Start, Goto
<1>3. sch.state[g] = "none"
  BY <1>1, <1>2 DEF PlaceInv
<1>4. Started(sch, g, sch')
  BY <1>1, <1>2, <1>3, StartKeeps
<1>5. at' \in [Gids -> Places] /\ \A x \in Gids : at'[x] = IF x = g THEN "ready" ELSE at[x]
  BY <1>1, <1>2 DEF Places
<1>6. PlaceInv(sch', at')
  BY <1>1, <1>2, <1>3, <1>4, <1>5 DEF Started, PlaceInv, InSim
<1>7. WdInv(sch', at', wd')
  BY <1>1, <1>2, <1>3, <1>4, <1>5 DEF Started, WdInv
<1>8. FakeInv(sch')
  BY <1>1, <1>4 DEF Started, FakeInv
<1> QED
  BY <1>2, <1>4, <1>5, <1>6, <1>7, <1>8 DEF Holds1, RestInv, Started

LEMMA PlacedKeeps1 ==
    ASSUME NEW s, NEW b, NEW a, NEW w, Holds1(s, b, a, w), NEW g \in Gids,
           s.state[g] \notin {"RUNNING", "OUT"},
           NEW t, NEW b2, NEW a2, PlacedEffect(s, g, b, a, t, b2, a2)
    PROVE  Holds1(t, b2, a2, w)
<1>1. /\ SchInv(s) /\ FakeInv(s) /\ PlaceInv(s, a) /\ WdInv(s, a, w) /\ a \in [Gids -> Places]
      /\ s \in SchType /\ b \in BarType
      /\ s.state \in [Gids -> States]
  BY FieldTypes DEF Holds1, RestInv, SchInv
<1>2. ASSUME NEW c \in Cids, TookContext(s, g, c, t), b2 = [b EXCEPT ![c] = "waiting"],
             a2 = [a EXCEPT ![g] = "joining"]
      PROVE  Holds1(t, b2, a2, w)
  <2>1. a2 \in [Gids -> Places] /\ \A x \in Gids : a2[x] = IF x = g THEN "joining" ELSE a[x]
    BY <1>1, <1>2 DEF Places
  <2>2. b2 \in BarType
    BY <1>1, <1>2 DEF BarType
  <2>3. /\ s.fakePc[g] = None
        /\ \A x \in Gids : \/ x = g /\ t.state[x] = "RUNNING"
                           \/ x # g /\ t.state[x] = s.state[x]
                           \/ x # g /\ s.state[x] = "OUT" /\ t.state[x] = "BLOCKED"
    BY <1>1, <1>2, Constants DEF PlaceInv, TookContext
  <2>4. PlaceInv(t, a2)
    BY <1>1, <1>2, <2>1, <2>3 DEF TookContext, PlaceInv, InSim
  <2>5. WdInv(t, a2, w)
    BY <1>1, <1>2, <2>1, <2>3 DEF TookContext, WdInv
  <2>6. FakeInv(t)
    BY <1>1, <1>2 DEF TookContext, FakeInv
  <2> QED
    BY <1>2, <2>1, <2>2, <2>4, <2>5, <2>6 DEF Holds1, RestInv, TookContext
<1>3. ASSUME LinedUp(s, g, t), b2 = b, a2 = [a EXCEPT ![g] = "queued"]
      PROVE  Holds1(t, b2, a2, w)
  <2>1. a2 \in [Gids -> Places] /\ \A x \in Gids : a2[x] = IF x = g THEN "queued" ELSE a[x]
    BY <1>1, <1>3 DEF Places
  <2>3. s.fakePc[g] = None
    BY <1>1 DEF PlaceInv
  <2>4. PlaceInv(t, a2)
    BY <1>1, <1>3, <2>1, <2>3 DEF LinedUp, PlaceInv, InSim
  <2>5. WdInv(t, a2, w)
    BY <1>1, <1>3, <2>1, <2>3 DEF LinedUp, WdInv
  <2>6. FakeInv(t)
    BY <1>1, <1>3 DEF LinedUp, FakeInv
  <2> QED
    BY <1>1, <1>3, <2>1, <2>4, <2>5, <2>6 DEF Holds1, RestInv, LinedUp
<1> QED
  BY <1>2, <1>3 DEF PlacedEffect

\* In the middle of a handoff: g has given its context up and is between places.
LEMMA SwitchedKeeps1 ==
    ASSUME NEW s, NEW b, NEW a, NEW w, Holds1(s, b, a, w), NEW g \in Gids, a[g] = "handoff",
           NEW h \in Gids, s.state[h] = "QUEUED", NEW u, Switched(s, g, h, u)
    PROVE  Holds1(u, b, [a EXCEPT ![g] = "ready"], w)
<1> DEFINE a2 == [a EXCEPT ![g] = "ready"]
<1>1. /\ SchInv(s) /\ FakeInv(s) /\ PlaceInv(s, a) /\ WdInv(s, a, w) /\ a \in [Gids -> Places]
      /\ b \in BarType
  BY DEF Holds1, RestInv
<1>2. a2 \in [Gids -> Places] /\ \A x \in Gids : a2[x] = IF x = g THEN "ready" ELSE a[x]
  BY <1>1 DEF Places
<1> HIDE DEF a2
<1>3. /\ s.state[g] = "RUNNING" /\ s.fakePc[g] = None /\ s.fakePc[h] = None
      /\ a[h] \notin InSim \cup {"asleep", "off"} /\ (w.pc = "leave" => w.th # g /\ w.th # h)
  BY <1>1 DEF PlaceInv, InSim, WdInv
<1>4. PlaceInv(u, a2)
  BY <1>1, <1>2, <1>3 DEF Switched, PlaceInv, InSim
<1>5. WdInv(u, a2, w)
  BY <1>1, <1>2, <1>3 DEF Switched, WdInv
<1>6. FakeInv(u)
  BY <1>1 DEF Switched, FakeInv
<1> QED
  BY <1>1, <1>2, <1>4, <1>5, <1>6 DEF Holds1, RestInv, Switched, a2

LEMMA HandoffKeeps1 ==
    ASSUME Holds1(sch, bar, at, wd), NEW g \in Gids, Handoff(g)
    PROVE  Holds1(sch', bar', at', wd')
<1>1. SchInv(sch) /\ PlaceInv(sch, at) /\ at \in [Gids -> Places]
  BY DEF Holds1, RestInv
<1>2. at[g] = "handoff" /\ wd' = wd
  BY DEF Handoff
<1>3. PICK h, u : /\ h \in Gids /\ h = sch.handoff[g] /\ sch.state[h] = "QUEUED"
                  /\ Switched(sch, g, h, u)
                  /\ PlacedEffect(u, g, bar, at, sch', bar', at')
  BY <1>1, HandoffStep DEF HandoffEffect
<1>4. PICK a : a = [at EXCEPT ![g] = "ready"]
  OBVIOUS
<1>5. Holds1(u, bar, a, wd)
  BY <1>2, <1>3, <1>4, SwitchedKeeps1
<1>6. /\ [a EXCEPT ![g] = "joining"] = [at EXCEPT ![g] = "joining"]
      /\ [a EXCEPT ![g] = "queued"] = [at EXCEPT ![g] = "queued"]
  BY <1>1, <1>4
<1>7. PlacedEffect(u, g, bar, a, sch', bar', at')
  BY <1>3, <1>6, Zenon DEF PlacedEffect
<1>8. u.state[g] = "QUEUED"
  <2>1. h # g
    BY <1>1, <1>2, <1>3 DEF PlaceInv, InSim
  <2> QED
    BY <1>3, <2>1 DEF Switched
<1> QED
  BY <1>2, <1>5, <1>7, <1>8, PlacedKeeps1

LEMMA JoinKeeps1 ==
    ASSUME Holds1(sch, bar, at, wd), NEW g \in Gids, Join(g)
    PROVE  Holds1(sch', bar', at', wd')
<1>1. /\ SchInv(sch) /\ FakeInv(sch) /\ PlaceInv(sch, at) /\ WdInv(sch, at, wd)
      /\ at \in [Gids -> Places] /\ bar \in BarType /\ sch.cid[g] \in Cids
  BY FieldTypes DEF Holds1, RestInv, SchInv
<1>2. at[g] = "ready" /\ wd' = wd
  BY DEF Join
<1>3. CASE JoinAfterFakeLeave(g)
  <2>1. /\ sch.fakePc[g] # None /\ sch' = FinishFakeLeave(sch, g) /\ bar' = bar
        /\ at' = [at EXCEPT ![g] = "sim"]
    BY <1>3 DEF JoinAfterFakeLeave, Goto
  <2>2. {} \in SUBSET (Pids \X Pcs)
    OBVIOUS
  <2>3. Unfaked(sch, g, sch')
    BY <1>1, <2>1, <2>2, FinishFakeLeaveKeeps
  <2>4. at' \in [Gids -> Places] /\ \A x \in Gids : at'[x] = IF x = g THEN "sim" ELSE at[x]
    BY <1>1, <2>1 DEF Places
  <2>5. PlaceInv(sch', at')
    BY <1>1, <2>1, <2>3, <2>4 DEF Unfaked, SameCore, PlaceInv
  <2>6. WdInv(sch', at', wd')
    BY <1>1, <1>2, <2>1, <2>3, <2>4 DEF Unfaked, SameCore, WdInv
  <2>7. FakeInv(sch')
    <3>1. sch' \in SchType /\ ToSet(sch'.fakeLeaves) \in SUBSET Gids
      BY <2>3, Members DEF Unfaked, SchInv
    <3> QED
      BY <1>1, <2>3, <3>1 DEF Unfaked, FakeInv
  <2> QED
    BY <1>1, <2>1, <2>3, <2>4, <2>5, <2>6, <2>7 DEF Holds1, RestInv, Unfaked
<1>4. CASE JoinFromOut(g)
  <2>1. /\ sch.fakePc[g] = None /\ sch.state[g] = "OUT"
        /\ sch' = [sch EXCEPT !.state[g] = "RUNNING", !.outQueue = Without(@, g)]
        /\ bar' = [bar EXCEPT ![sch.cid[g]] = "waiting"]
        /\ at' = [at EXCEPT ![g] = "joining"]
    BY <1>4 DEF JoinFromOut, Goto, BarJoin
  <2>3. Rejoined(sch, g, sch')
    BY <1>1, <2>1, RejoinKeeps
  <2>4. at' \in [Gids -> Places] /\ \A x \in Gids : at'[x] = IF x = g THEN "joining" ELSE at[x]
    BY <1>1, <2>1 DEF Places
  <2>5. PlaceInv(sch', at')
    BY <1>1, <2>1, <2>3, <2>4 DEF Rejoined, PlaceInv, InSim
  <2>6. WdInv(sch', at', wd')
    BY <1>1, <1>2, <2>1, <2>3, <2>4 DEF Rejoined, WdInv
  <2>7. FakeInv(sch') /\ bar' \in BarType
    BY <1>1, <2>1, <2>3 DEF Rejoined, FakeInv, BarType
  <2> QED
    BY <2>3, <2>4, <2>5, <2>6, <2>7 DEF Holds1, RestInv, Rejoined
<1>5. CASE JoinElsewhere(g)
  <2>1. sch.state[g] \notin {"RUNNING", "OUT"}
    BY <1>5 DEF JoinElsewhere, JoinAllowed
  <2>2. PlacedEffect(sch, g, bar, at, sch', bar', at')
    BY <1>1, <1>5, JoinElsewhereStep
  <2> QED
    BY <1>2, <2>1, <2>2, PlacedKeeps1
<1> QED
  BY <1>3, <1>4, <1>5 DEF Join

LEMMA SyscallLeaveKeeps1 ==
    ASSUME Holds1(sch, bar, at, wd), NEW g \in Gids, NEW p \in Pcs, SyscallLeave(g, p)
    PROVE  Holds1(sch', bar', at', wd')
<1>1. /\ SchInv(sch) /\ FakeInv(sch) /\ PlaceInv(sch, at) /\ WdInv(sch, at, wd)
      /\ at \in [Gids -> Places] /\ bar \in BarType
  BY DEF Holds1, RestInv
<1>2. at[g] = "sim" /\ wd' = wd /\ at' = [at EXCEPT ![g] = "ready"] /\ sch.state[g] = "RUNNING"
  BY DEF SyscallLeave, Goto, LeaveAsserts
<1>3. sch.fakePc[g] = None /\ (wd.pc = "leave" => wd.th # g) /\ wd \in WdType
      /\ (wd.pc \in {"leave", "next"} => wd.pid \in Pids /\ "stall" \in Features)
  BY <1>1, <1>2 DEF PlaceInv, WdInv
<1>4. CASE <<Pid[g], p>> \in sch.blacklist
  <2>1. LeaveEffect(sch, g, bar, sch', bar')
    BY <1>1, <1>2, <1>4, LeaveStep DEF SyscallLeave
  <2>2. "ready" \in Places /\ "ready" \in {"ready", "finished", "leaving"}
    BY DEF Places
  <2>3. Holds1(sch', bar', [at EXCEPT ![g] = "ready"], wd)
    BY <1>2, <1>3, <2>1, <2>2, LeaveRest
  <2> QED
    BY <1>2, <2>3
<1>5. CASE <<Pid[g], p>> \notin sch.blacklist
  <2>1. sch' = [sch EXCEPT !.fakePc[g] = p, !.fakeLeaves = Append(@, g)] /\ bar' = bar
    BY <1>5 DEF SyscallLeave
  <2>2. FakeLeft(sch, g, p, sch')
    BY <1>1, <2>1, FakeLeaveKeeps
  <2>4. at' \in [Gids -> Places] /\ \A x \in Gids : at'[x] = IF x = g THEN "ready" ELSE at[x]
    BY <1>1, <1>2 DEF Places
  <2>5. PlaceInv(sch', at')
    BY <1>1, <1>2, <2>2, <2>4 DEF FakeLeft, SameCore, PlaceInv, InSim
  <2>6. WdInv(sch', at', wd')
    BY <1>1, <1>2, <1>3, <2>2, <2>4 DEF FakeLeft, SameCore, WdInv
  <2>7. FakeInv(sch')
    <3>1. p # None /\ sch' \in SchType /\ ToSet(sch'.fakeLeaves) \in SUBSET Gids
      BY <2>2, Members, Constants DEF FakeLeft, SchInv
    <3> QED
      BY <1>1, <2>2, <3>1 DEF FakeLeft, FakeInv
  <2> QED
    BY <1>1, <2>1, <2>2, <2>4, <2>5, <2>6, <2>7 DEF Holds1, RestInv, FakeLeft
<1> QED
  BY <1>4, <1>5

LEMMA SleepKeeps1 ==
    ASSUME Holds1(sch, bar, at, wd), NEW g \in Gids,
           MarkForSleep(g) \/ LeaveToSleep(g) \/ NotifySleepEnd(g)
    PROVE  Holds1(sch', bar', at', wd')
<1>1. /\ SchInv(sch) /\ FakeInv(sch) /\ PlaceInv(sch, at) /\ WdInv(sch, at, wd)
      /\ at \in [Gids -> Places] /\ bar \in BarType /\ wd \in WdType
      /\ (wd.pc \in {"leave", "next"} => wd.pid \in Pids /\ "stall" \in Features)
  BY DEF Holds1, RestInv, WdInv
<1>2. CASE MarkForSleep(g)
  <2>1. PICK n \in 1 .. MaxSleep :
          sch' = [sch EXCEPT !.marked[g] = TRUE, !.sleep[g] = n, !.futexWord[g] = 1]
    BY <1>2 DEF MarkForSleep
  <2>0. MaxSleep \in Int
    BY SchedulerAssumption
  <2>n. n \in Int
    BY <2>0
  <2>2. at[g] = "sim" /\ at' = [at EXCEPT ![g] = "marked"] /\ bar' = bar /\ wd' = wd
    BY <1>2 DEF MarkForSleep, Goto
  <2>3. sch.state[g] = "RUNNING" /\ sch.fakePc[g] = None
    BY <1>1, <2>2 DEF PlaceInv, InSim
  <2>4. MarkedFor(sch, g, n, sch')
    BY <1>1, <2>n, <2>1, <2>2, <2>3, MarkKeeps
  <2>5. at' \in [Gids -> Places] /\ \A x \in Gids : at'[x] = IF x = g THEN "marked" ELSE at[x]
    BY <1>1, <2>2 DEF Places
  <2>a. sch'.marked[g] /\ \A x \in Gids : sch.marked[x] => sch'.marked[x]
    BY <2>4, Zenon DEF MarkedFor
  <2>b. /\ sch'.state = sch.state /\ sch'.handoff = sch.handoff /\ sch'.fakePc = sch.fakePc
        /\ \A x \in Gids : x # g => sch'.futexWord[x] = sch.futexWord[x]
    BY <2>4 DEF MarkedFor, SameCore
  <2>6. PlaceInv(sch', at')
    BY <1>1, <2>2, <2>3, <2>5, <2>a, <2>b DEF PlaceInv, InSim
  <2>7. WdInv(sch', at', wd')
    BY <1>1, <2>2, <2>3, <2>4, <2>5 DEF MarkedFor, SameCore, WdInv
  <2>8. FakeInv(sch')
    BY <1>1, <2>4 DEF MarkedFor, FakeInv
  <2> QED
    BY <1>1, <2>2, <2>4, <2>5, <2>6, <2>7, <2>8 DEF Holds1, RestInv, MarkedFor
<1>3. CASE LeaveToSleep(g)
  <2>1. /\ at[g] = "marked" /\ at' = [at EXCEPT ![g] = "asleep"] /\ wd' = wd /\ Leave(sch, g)
    BY <1>3 DEF LeaveToSleep, Goto
  <2>2. /\ sch.state[g] = "RUNNING" /\ sch.fakePc[g] = None /\ sch.marked[g]
        /\ (wd.pc = "leave" => wd.th # g)
    BY <1>1, <2>1 DEF PlaceInv, InSim, WdInv
  <2>3. LeaveEffect(sch, g, bar, sch', bar')
    BY <1>1, <2>1, <2>2, LeaveStep
  <2>4. "asleep" \in Places
    BY DEF Places
  <2>5. Holds1(sch', bar', [at EXCEPT ![g] = "asleep"], wd)
    BY <1>1, <2>2, <2>3, <2>4, LeaveRest
  <2> QED
    BY <2>1, <2>5
<1>4. CASE NotifySleepEnd(g)
  <2>1. /\ at[g] = "asleep" /\ at' = [at EXCEPT ![g] = "ready"] /\ wd' = wd /\ bar' = bar
        /\ sch' = AwakenEarly(sch, g)
    BY <1>4 DEF NotifySleepEnd, Goto
  <2>2. /\ sch.state[g] \in {"SLEEPING", "BLOCKED"} /\ sch.fakePc[g] = None
    BY <1>1, <2>1 DEF PlaceInv
  <2>3. Awakened(sch, g, sch')
    BY <1>1, <2>1, <2>2, AwakenEarlyKeeps
  <2>5. at' \in [Gids -> Places] /\ \A x \in Gids : at'[x] = IF x = g THEN "ready" ELSE at[x]
    BY <1>1, <2>1 DEF Places
  <2>6. PlaceInv(sch', at')
    BY <1>1, <2>1, <2>2, <2>3, <2>5 DEF Awakened, PlaceInv, InSim
  <2>7. WdInv(sch', at', wd')
    BY <1>1, <2>1, <2>2, <2>3, <2>5 DEF Awakened, WdInv
  <2>8. FakeInv(sch')
    BY <1>1, <2>3 DEF Awakened, FakeInv
  <2> QED
    BY <1>1, <2>1, <2>3, <2>5, <2>6, <2>7, <2>8 DEF Holds1, RestInv, Awakened
<1> QED
  BY <1>2, <1>3, <1>4

LEMMA MoveKeeps1 ==
    ASSUME Holds1(sch, bar, at, wd), NEW g \in Gids,
           \/ SleepOver(g) \/ SleepInterrupted(g) \/ Sync(g) \/ BarrierReturn(g) \/ ContextReturn(g)
    PROVE  Holds1(sch', bar', at', wd')
<1>1. /\ SchInv(sch) /\ PlaceInv(sch, at) /\ at \in [Gids -> Places] /\ bar \in BarType
      /\ sch.cid[g] \in Cids
  BY FieldTypes DEF Holds1, RestInv, SchInv
<1>2. sch' = sch /\ wd' = wd
  BY DEF SleepOver, SleepInterrupted, Sync, BarrierReturn, ContextReturn
<1>3. bar' \in BarType
  BY <1>1 DEF SleepOver, SleepInterrupted, Sync, BarrierReturn, ContextReturn, BarType
<1>4. PICK p \in Places :
        /\ at' = [at EXCEPT ![g] = p]
        /\ p \in InSim => sch.state[g] = "RUNNING"
        /\ p = "handoff" => sch.handoff[g] # None
        /\ p \notin {"marked", "asleep", "off", "queued"}
  <2>1. CASE SleepOver(g) \/ SleepInterrupted(g)
    <3>1. at' = [at EXCEPT ![g] = "ready"] /\ "ready" \in Places
      BY <2>1 DEF SleepOver, SleepInterrupted, Goto, Places
    <3> QED
      BY <3>1 DEF InSim
  <2>2. CASE Sync(g)
    <3>1. at[g] = "sim" /\ at' = [at EXCEPT ![g] = "syncing"] /\ "syncing" \in Places
      BY <2>2 DEF Sync, Goto, Places
    <3> QED
      BY <1>1, <3>1 DEF PlaceInv, InSim
  <2>3. CASE BarrierReturn(g)
    <3>1. PICK p : p = IF at[g] = "syncing" /\ sch.handoff[g] # None THEN "handoff" ELSE "sim"
      OBVIOUS
    <3>2. at[g] \in {"joining", "syncing"} /\ at' = [at EXCEPT ![g] = p] /\ p \in Places
      BY <2>3, <3>1 DEF BarrierReturn, Goto, Places
    <3> QED
      BY <1>1, <3>1, <3>2 DEF PlaceInv, InSim
  <2>4. CASE ContextReturn(g)
    <3>1. /\ at[g] = "queued" /\ sch.futexWord[g] = 0 /\ at' = [at EXCEPT ![g] = "sim"]
          /\ "sim" \in Places
      BY <2>4 DEF ContextReturn, Goto, Places
    <3> QED
      BY <1>1, <3>1 DEF PlaceInv, InSim
  <2> QED
    BY <2>1, <2>2, <2>3, <2>4
<1>5. at[g] \notin {"ready", "dead"}
  BY DEF SleepOver, SleepInterrupted, Sync, BarrierReturn, ContextReturn
<1>6. sch.fakePc[g] = None
  BY <1>1, <1>5 DEF PlaceInv
<1>7. Holds1(sch, bar', [at EXCEPT ![g] = p], wd)
  BY <1>3, <1>4, <1>5, <1>6, MoveRest
<1> QED
  BY <1>2, <1>4, <1>7

LEMMA FinishRest ==
    ASSUME NEW s, NEW b, NEW a, NEW w, Holds1(s, b, a, w), NEW g \in Gids,
           a[g] \in {"ready", "leaving", "dead"},
           NEW t, FinishEffect(s, g, a[g], t), NEW p \in Places, p \in {"finishing", "finished"},
           NEW v \in WdType, v.pc = "leave" => v = w /\ w.th # g,
           v.pc \in {"leave", "next"} => v.pid \in Pids /\ "stall" \in Features
    PROVE  Holds1(t, b, [a EXCEPT ![g] = p], v)
<1> DEFINE a2 == [a EXCEPT ![g] = p]
<1>1. /\ SchInv(s) /\ FakeInv(s) /\ PlaceInv(s, a) /\ WdInv(s, a, w) /\ a \in [Gids -> Places]
      /\ b \in BarType
  BY DEF Holds1, RestInv
<1>2. a2 \in [Gids -> Places] /\ \A x \in Gids : a2[x] = IF x = g THEN p ELSE a[x]
  BY <1>1 DEF Places
<1> HIDE DEF a2
<1>3. PICK u : /\ \/ u = s
                  \/ s.state[g] = "SLEEPING" /\ Awakened(s, g, u)
               /\ \/ t = u /\ u.fakePc[g] = None
                  \/ u.fakePc[g] # None /\ Unfaked(u, g, t)
  BY DEF FinishEffect
<1>4. /\ SchInv(t)
      /\ \A x \in Gids : x # g => /\ t.state[x] = s.state[x] /\ t.futexWord[x] = s.futexWord[x]
                                  /\ t.fakePc[x] = s.fakePc[x]
      /\ t.handoff = s.handoff /\ t.marked = s.marked
      /\ t.fakePc[g] = None
  BY <1>1, <1>3 DEF Awakened, Unfaked, SameCore
<1>5. FakeInv(t)
  <2>1. u \in SchType /\ ToSet(u.fakeLeaves) \in SUBSET Gids /\ FakeInv(u)
    BY <1>1, <1>3, Members DEF SchInv, Awakened, FakeInv
  <2>2. CASE t = u
    BY <2>1, <2>2
  <2>3. CASE Unfaked(u, g, t)
    BY <2>1, <2>3 DEF Unfaked, FakeInv
  <2> QED
    BY <1>3, <2>2, <2>3
<1>6. PlaceInv(t, a2)
  BY <1>1, <1>2, <1>4 DEF PlaceInv, InSim
<1>7. WdInv(t, a2, v)
  BY <1>1, <1>2, <1>4 DEF WdInv
<1> QED
  BY <1>1, <1>2, <1>4, <1>5, <1>6, <1>7 DEF Holds1, RestInv, a2

LEMMA FinishKeeps1 ==
    ASSUME Disciplined, Holds1(sch, bar, at, wd), NEW g \in Gids, Finish(g) \/ Cleanup(g)
    PROVE  Holds1(sch', bar', at', wd')
<1>1. SchInv(sch) /\ PlaceInv(sch, at) /\ WdInv(sch, at, wd) /\ wd \in WdType
  BY DEF Holds1, RestInv, WdInv
<1>2. PICK from \in {"ready", "leaving", "dead"} :
        /\ FinishStart(g, from)
        /\ \/ from # "dead" /\ "finish" \in Features /\ wd' = wd
           \/ wd' = [Idle EXCEPT !.pc = "cleanup", !.th = g]
  BY DEF Finish, Cleanup
<1>3. PICK p \in Places : p \in {"finishing", "finished"} /\ at' = [at EXCEPT ![g] = p]
  BY <1>2 DEF FinishStart, Goto, Places
<1>4. at[g] = from /\ bar' = bar
  BY <1>2 DEF FinishStart
<1>5. FinishEffect(sch, g, from, sch')
  BY <1>1, <1>2, FinishStep
<1>6. /\ wd' \in WdType
      /\ wd'.pc = "leave" => wd' = wd /\ wd.th # g
      /\ wd'.pc \in {"leave", "next"} => wd'.pid \in Pids /\ "stall" \in Features
  <2>1. CASE from # "dead" /\ "finish" \in Features /\ wd' = wd
    BY <1>1, <2>1 DEF Disciplined, WdInv
  <2>2. CASE wd' = [Idle EXCEPT !.pc = "cleanup", !.th = g]
    BY <2>2 DEF Idle, WdType
  <2> QED
    BY <1>2, <2>1, <2>2
<1>w. PICK v \in WdType : /\ v = wd' /\ (v.pc = "leave" => v = wd /\ wd.th # g)
                          /\ v.pc \in {"leave", "next"} => v.pid \in Pids /\ "stall" \in Features
  BY <1>6
<1>7. Holds1(sch', bar, [at EXCEPT ![g] = p], v)
  BY <1>3, <1>4, <1>5, <1>w, FinishRest
<1> QED
  BY <1>3, <1>4, <1>7, <1>w

LEMMA LeavesKeep1 ==
    ASSUME Holds1(sch, bar, at, wd), NEW g \in Gids, FinishLeave(g) \/ EnterFastForward(g)
    PROVE  Holds1(sch', bar', at', wd')
<1>1. SchInv(sch) /\ PlaceInv(sch, at) /\ WdInv(sch, at, wd) /\ wd \in WdType
      /\ (wd.pc \in {"leave", "next"} => wd.pid \in Pids /\ "stall" \in Features)
  BY DEF Holds1, RestInv, WdInv
<1>2. /\ at[g] \in {"finishing", "sim"} /\ sch.state[g] = "RUNNING" /\ Leave(sch, g) /\ wd' = wd
      /\ at' = [at EXCEPT ![g] = "finished"] \/ at' = [at EXCEPT ![g] = "leaving"]
  BY DEF FinishLeave, EnterFastForward, LeaveAsserts, Goto
<1>3. PICK p \in {"finished", "leaving"} : at' = [at EXCEPT ![g] = p]
  BY <1>2
<1>4. sch.fakePc[g] = None /\ (wd.pc = "leave" => wd.th # g)
  BY <1>1, <1>2 DEF PlaceInv, WdInv
<1>5. LeaveEffect(sch, g, bar, sch', bar')
  BY <1>1, <1>2, LeaveStep
<1>6. p \in Places /\ p \in {"ready", "finished", "leaving"}
  BY DEF Places
<1>7. Holds1(sch', bar', [at EXCEPT ![g] = p], wd)
  BY <1>1, <1>2, <1>4, <1>5, <1>6, LeaveRest
<1> QED
  BY <1>2, <1>3, <1>7

LEMMA FinishEndKeeps1 ==
    ASSUME Holds1(sch, bar, at, wd), NEW g \in Gids, FinishEnd(g)
    PROVE  Holds1(sch', bar', at', wd')
<1>1. /\ SchInv(sch) /\ FakeInv(sch) /\ PlaceInv(sch, at) /\ WdInv(sch, at, wd)
      /\ at \in [Gids -> Places] /\ bar \in BarType
  BY DEF Holds1, RestInv
<1>2. PICK u : u = Detach(sch, g)
  OBVIOUS
<1>3. /\ at[g] = "finished" /\ at' = [at EXCEPT ![g] = "off"] /\ bar' = bar
      /\ sch' = [u EXCEPT !.state[g] = "none", !.cid[g] = 0, !.handoff[g] = None,
                          !.futexWord[g] = 0, !.sleep[g] = 0, !.marked[g] = FALSE]
      /\ wd' = wd \/ wd' = Idle
      /\ \/ sch.state[g] \in {"STARTED", "OUT", "BLOCKED"}
         \/ sch.state[g] = "QUEUED" /\ g \in ToSet(sch.runQueue)
  BY <1>2 DEF FinishEnd, Goto, Detach, FinishAsserts
<1>4. Removed(sch, g, sch')
  BY <1>1, <1>2, <1>3, RemoveKeeps
<1>5. at' \in [Gids -> Places] /\ \A x \in Gids : at'[x] = IF x = g THEN "off" ELSE at[x]
  BY <1>1, <1>3 DEF Places
<1>a. \A x \in Gids : x # g /\ sch.marked[x] => sch'.marked[x]
  BY <1>4, Zenon DEF Removed
<1>b. /\ sch'.fakePc = sch.fakePc
      /\ \A x \in Gids : x # g => /\ sch'.state[x] = sch.state[x] /\ sch'.handoff[x] = sch.handoff[x]
                                  /\ sch'.futexWord[x] = sch.futexWord[x]
      /\ sch'.state[g] = "none" /\ sch'.fakeLeaves = sch.fakeLeaves
  BY <1>4 DEF Removed
<1>6. PlaceInv(sch', at')
  BY <1>1, <1>3, <1>5, <1>a, <1>b DEF PlaceInv, InSim
<1>7. WdInv(sch', at', wd')
  BY <1>1, <1>3, <1>5, <1>b DEF WdInv, Idle, WdType
<1>8. FakeInv(sch')
  BY <1>1, <1>b DEF FakeInv
<1> QED
  BY <1>1, <1>3, <1>4, <1>5, <1>6, <1>7, <1>8 DEF Holds1, RestInv, Removed

LEMMA KillKeeps1 ==
    ASSUME Holds1(sch, bar, at, wd), NEW g \in Gids, Kill(Pid[g])
    PROVE  Holds1(sch', bar', at', wd')
<1>1. /\ SchInv(sch) /\ FakeInv(sch) /\ PlaceInv(sch, at) /\ WdInv(sch, at, wd)
      /\ at \in [Gids -> Places] /\ bar \in BarType
  BY DEF Holds1, RestInv
<1>2. /\ sch' = sch /\ bar' = bar /\ wd' = wd
      /\ at' = [x \in Gids |-> IF Pid[x] = Pid[g] /\ at[x] # "off" THEN "dead" ELSE at[x]]
  BY DEF Kill
<1>3. at' \in [Gids -> Places] /\ \A x \in Gids : at'[x] \in {at[x], "dead"}
  BY <1>1, <1>2 DEF Places
<1>4. PlaceInv(sch', at')
  BY <1>1, <1>2, <1>3 DEF PlaceInv, InSim
<1>5. WdInv(sch', at', wd')
  BY <1>1, <1>2, <1>3 DEF WdInv
<1> QED
  BY <1>1, <1>2, <1>3, <1>4, <1>5 DEF Holds1, RestInv

LEMMA WatchdogKeeps1 ==
    ASSUME Holds1(sch, bar, at, wd), StallDetected \/ WatchdogLeave \/ WatchdogNext
    PROVE  Holds1(sch', bar', at', wd')
<1>1. /\ SchInv(sch) /\ FakeInv(sch) /\ PlaceInv(sch, at) /\ WdInv(sch, at, wd)
      /\ at \in [Gids -> Places] /\ bar \in BarType /\ wd \in WdType /\ sch \in SchType
  BY DEF Holds1, RestInv, WdInv, SchInv
<1>t. /\ sch.fakeLeaves \in Seq(Gids) /\ sch.fakePc \in [Gids -> Pcs \cup {None}]
      /\ sch.blacklist \in SUBSET (Pids \X Pcs)
  BY <1>1, FieldTypes DEF SchType
<1>2. ASSUME sch.fakeLeaves # <<>>
      PROVE  /\ Head(sch.fakeLeaves) \in Gids /\ sch.fakePc[Head(sch.fakeLeaves)] # None
             /\ sch.state[Head(sch.fakeLeaves)] = "RUNNING"
             /\ at[Head(sch.fakeLeaves)] \in {"ready", "dead"}
  <2>1. PICK g \in ToSet(sch.fakeLeaves) : g = Head(sch.fakeLeaves)
    BY <1>t, <1>2 DEF ToSet
  <2>2. g \in Gids /\ sch.fakePc[g] # None
    BY <1>1, <1>t, <2>1, Members DEF FakeInv
  <2> QED
    BY <1>1, <2>1, <2>2 DEF PlaceInv
\* The thread at the head has its fake leave ended and is left to the watchdog.
<1>3. ASSUME NEW g \in Gids, sch.fakePc[g] # None, Unfaked(sch, g, sch'), bar' = bar, at' = at,
             wd' \in WdType, wd'.pid \in Pids,
             "stall" \in Features, wd'.pc = "leave", wd'.th = g
      PROVE  Holds1(sch', bar', at', wd')
  <2>1. sch.state[g] = "RUNNING" /\ at[g] \in {"ready", "dead"}
    BY <1>1, <1>3 DEF PlaceInv
  <2>2. PlaceInv(sch', at')
    BY <1>1, <1>3, <2>1 DEF Unfaked, SameCore, PlaceInv
  <2>3. WdInv(sch', at', wd')
    BY <1>3, <2>1 DEF Unfaked, SameCore, WdInv
  <2>4. FakeInv(sch')
    <3>1. ToSet(sch.fakeLeaves) \in SUBSET Gids
      BY <1>1, Members
    <3> QED
      BY <1>1, <1>3, <3>1 DEF Unfaked, FakeInv
  <2> QED
    BY <1>1, <1>3, <2>2, <2>3, <2>4 DEF Holds1, RestInv, Unfaked
<1>4. CASE StallDetected
  <2>1. PICK g : g = Head(sch.fakeLeaves)
    OBVIOUS
  <2>2. PICK bl : bl = IF Len(sch.fakeLeaves) = 1
                         THEN sch.blacklist \cup {<<Pid[g], sch.fakePc[g]>>} ELSE sch.blacklist
    OBVIOUS
  <2>3. /\ "stall" \in Features /\ sch.fakeLeaves # <<>>
        /\ sch' = [FinishFakeLeave(sch, g) EXCEPT
                     !.blacklist = IF Len(sch.fakeLeaves) = 1
                                     THEN @ \cup {<<Pid[g], sch.fakePc[g]>>} ELSE @]
        /\ wd' = [pc |-> "leave", th |-> g, pid |-> Pid[g], at |-> sch.fakePc[g]]
        /\ bar' = bar /\ at' = at
    BY <1>4, <2>1 DEF StallDetected
  <2>4. g \in Gids /\ sch.fakePc[g] # None
    BY <1>2, <2>1, <2>3
  <2>5. sch.fakePc[g] \in Pcs /\ Pid[g] \in Pids
    BY <1>t, <2>4 DEF Pids
  <2>6. bl \in SUBSET (Pids \X Pcs)
    BY <1>t, <2>2, <2>5
  <2>7. FinishFakeLeave(sch, g).blacklist = sch.blacklist
    BY <1>1 DEF FinishFakeLeave, SchType
  <2>8. sch' = [FinishFakeLeave(sch, g) EXCEPT !.blacklist = bl]
    BY <2>2, <2>3, <2>7
  <2>9. Unfaked(sch, g, sch')
    BY <1>1, <2>4, <2>6, <2>8, FinishFakeLeaveKeeps
  <2>10. wd' \in WdType /\ wd'.pid \in Pids /\ wd'.pc = "leave" /\ wd'.th = g
    BY <2>3, <2>4, <2>5 DEF WdType
  <2> QED
    BY <1>3, <2>3, <2>4, <2>9, <2>10
<1>5. CASE WatchdogLeave
  <2>1. /\ wd.pc = "leave" /\ wd' = [wd EXCEPT !.pc = "next"] /\ at' = at
        /\ Leave(sch, wd.th) /\ sch.state[wd.th] = "RUNNING"
    BY <1>5 DEF WatchdogLeave, WatchdogAsserts, LeaveAsserts
  <2>2. /\ wd.th \in Gids /\ at[wd.th] \in {"ready", "dead"} /\ sch.fakePc[wd.th] = None
        /\ wd.pid \in Pids /\ "stall" \in Features
    BY <1>1, <2>1 DEF WdInv
  <2>3. PICK g \in Gids : g = wd.th
    BY <2>2
  <2>4. LeaveEffect(sch, g, bar, sch', bar')
    BY <1>1, <2>1, <2>3, LeaveStep
  <2>5. PICK v \in WdType : v = wd' /\ v.pc = "next" /\ v.pid \in Pids
    BY <1>1, <2>1, <2>2 DEF WdType
  <2>6. PICK p \in Places : p = at[g] /\ p \in {"ready", "dead"}
    BY <1>1, <2>2, <2>3
  <2>7. Holds1(sch', bar', [at EXCEPT ![g] = p], v)
    BY <2>1, <2>2, <2>3, <2>4, <2>5, <2>6, LeaveRest
  <2>8. [at EXCEPT ![g] = p] = at'
    BY <1>1, <2>1, <2>6
  <2> QED
    BY <2>5, <2>7, <2>8
<1>6. CASE WatchdogNext
  <2>1. wd.pc = "next" /\ bar' = bar /\ at' = at /\ wd.pid \in Pids /\ "stall" \in Features
    BY <1>1, <1>6 DEF WatchdogNext, WdInv
  <2>2. CASE wd' = Idle /\ sch' = sch
    <3>1. WdInv(sch', at', wd')
      BY <2>2 DEF WdInv, Idle, WdType
    <3> QED
      BY <1>1, <2>1, <2>2, <3>1 DEF Holds1, RestInv
  <2>3. CASE ~ (wd' = Idle /\ sch' = sch)
    <3>1. PICK g : g = Head(sch.fakeLeaves)
      OBVIOUS
    <3>2. /\ sch.fakeLeaves # <<>> /\ sch' = FinishFakeLeave(sch, g)
          /\ wd' = [wd EXCEPT !.pc = "leave", !.th = g]
      BY <1>6, <2>3, <3>1 DEF WatchdogNext
    <3>3. g \in Gids /\ sch.fakePc[g] # None
      BY <1>2, <3>1, <3>2
    <3>4. {} \in SUBSET (Pids \X Pcs)
      OBVIOUS
    <3>5. Unfaked(sch, g, sch')
      BY <1>1, <3>2, <3>3, <3>4, FinishFakeLeaveKeeps
    <3>6. wd' \in WdType /\ wd'.pid \in Pids /\ wd'.pc = "leave" /\ wd'.th = g
      BY <1>1, <2>1, <3>2, <3>3 DEF WdType
    <3> QED
      BY <1>3, <2>1, <3>3, <3>5, <3>6
  <2> QED
    BY <2>2, <2>3
<1> QED
  BY <1>4, <1>5, <1>6

LEMMA Init1 == SchedInit => Holds1(sch, bar, at, wd)
<1> SUFFICES ASSUME SchedInit PROVE Holds1(sch, bar, at, wd)
  OBVIOUS
<1> DEFINE fl == [i \in 1 .. NumCores |-> i - 1]
<1>1. NumCores \in Nat /\ NumCores > 0 /\ None \notin Gids /\ None \notin Cids /\ 0 \in Cids
  BY SchedulerAssumption DEF Cids
<1>2. fl \in Seq(Cids) /\ DOMAIN fl = 1 .. NumCores /\ ToSet(fl) = Cids /\ IsInjective(fl)
  <2>1. \A i \in 1 .. NumCores : i - 1 \in Cids
    BY <1>1 DEF Cids
  <2>2. fl \in Seq(Cids)
    BY <1>1, <2>1, IsASeq
  <2>3. ASSUME NEW c \in Cids PROVE c \in ToSet(fl)
    <3>1. c + 1 \in 1 .. NumCores /\ (c + 1) - 1 = c
      BY <1>1 DEF Cids
    <3> QED
      BY <3>1 DEF ToSet
  <2>4. IsInjective(fl)
    BY <1>1 DEF IsInjective
  <2> QED
    BY <2>1, <2>2, <2>3, <2>4 DEF ToSet
<1> HIDE DEF fl
<1>e. <<>> \in Seq(Gids) /\ ToSet(<<>>) = {}
  BY DEF ToSet
<1>3. sch = [state     |-> [g \in Gids |-> "none"],
             cid       |-> [g \in Gids |-> 0],
             handoff   |-> [g \in Gids |-> None],
             futexWord |-> [g \in Gids |-> 0],
             marked    |-> [g \in Gids |-> FALSE],
             sleep     |-> [g \in Gids |-> 0],
             fakePc    |-> [g \in Gids |-> None],
             curThread |-> [c \in Cids |-> None],
             freeList  |-> fl,
             runQueue  |-> <<>>, outQueue |-> <<>>, sleepQueue |-> <<>>,
             fakeLeaves |-> <<>>, blacklist |-> {},
             phase     |-> 0]
  BY DEF SchedInit, fl
<1>4. /\ sch.state = [g \in Gids |-> "none"] /\ sch.cid = [g \in Gids |-> 0]
      /\ sch.handoff = [g \in Gids |-> None] /\ sch.curThread = [c \in Cids |-> None]
      /\ sch.fakePc = [g \in Gids |-> None] /\ sch.freeList = fl
      /\ sch.runQueue = <<>> /\ sch.outQueue = <<>> /\ sch.sleepQueue = <<>> /\ sch.fakeLeaves = <<>>
  BY <1>3
<1>5. sch \in SchType
  BY <1>1, <1>2, <1>3, <1>e DEF SchType, States
<1>6. CtxInv(sch) /\ OutInv(sch) /\ RunInv(sch) /\ SleepInv(sch) /\ HandInv(sch) /\ FakeInv(sch)
  BY <1>1, <1>4, <1>e DEF CtxInv, OutInv, RunInv, SleepInv, HandInv, FakeInv
<1>7. FreeInv(sch)
  BY <1>2, <1>4 DEF FreeInv
<1>8. at = [g \in Gids |-> "off"] /\ wd = Idle /\ bar = [c \in Cids |-> "out"]
  BY DEF SchedInit, Barrier!Init
<1>9. PlaceInv(sch, at)
  BY <1>4, <1>8 DEF PlaceInv, InSim
<1>10. WdInv(sch, at, wd)
  BY <1>8 DEF WdInv, WdType, Idle
<1> QED
  BY <1>5, <1>6, <1>7, <1>8, <1>9, <1>10 DEF Holds1, RestInv, SchInv, BarType, Places

LEMMA Next1 ==
    ASSUME Disciplined, Holds1(sch, bar, at, wd), [SchedNext]_schedVars
    PROVE  Holds1(sch', bar', at', wd')
<1>1. CASE UNCHANGED schedVars
  BY <1>1 DEF schedVars
<1>2. CASE BarrierStep
  BY <1>2, BarrierKeeps1, PhaseKeeps1 DEF BarrierStep
<1>3. CASE Watchdog
  BY <1>3, WatchdogKeeps1, DriveKeeps1 DEF Watchdog
<1>4. ASSUME NEW g \in Gids, Start(g) \/ Join(g) \/ Handoff(g) \/ \E p \in Pcs : SyscallLeave(g, p)
      PROVE  Holds1(sch', bar', at', wd')
  BY <1>4, StartKeeps1, JoinKeeps1, HandoffKeeps1, SyscallLeaveKeeps1
<1>5. ASSUME NEW g \in Gids, MarkForSleep(g) \/ LeaveToSleep(g) \/ NotifySleepEnd(g)
      PROVE  Holds1(sch', bar', at', wd')
  BY <1>5, SleepKeeps1
<1>6. ASSUME NEW g \in Gids, Sync(g) \/ SleepInterrupted(g) \/ Resume(g)
      PROVE  Holds1(sch', bar', at', wd')
  BY <1>6, MoveKeeps1 DEF Resume
<1>7. ASSUME NEW g \in Gids, EnterFastForward(g) \/ FinishLeave(g)
      PROVE  Holds1(sch', bar', at', wd')
  BY <1>7, LeavesKeep1
<1>8. ASSUME NEW g \in Gids, Finish(g) \/ Cleanup(g)
      PROVE  Holds1(sch', bar', at', wd')
  BY <1>8, FinishKeeps1
<1>9. ASSUME NEW g \in Gids, FinishEnd(g)
      PROVE  Holds1(sch', bar', at', wd')
  BY <1>9, FinishEndKeeps1
<1>10. ASSUME NEW g \in Gids, Kill(Pid[g])
       PROVE  Holds1(sch', bar', at', wd')
  BY <1>10, KillKeeps1
<1> QED
  BY <1>1, <1>2, <1>3, <1>4, <1>5, <1>6, <1>7, <1>8, <1>9, <1>10 DEF SchedNext

\* Every handler keeps the agreement of threads, contexts and watchdog.
THEOREM ContextInvariance == ASSUME Disciplined PROVE SchedSpec => []Inv1
<1>1. SchedInit => Inv1
  BY Init1 DEF Inv1, Holds1, BarType
<1>2. Inv1 /\ [SchedNext]_schedVars => Inv1'
  <2> SUFFICES ASSUME Inv1, [SchedNext]_schedVars PROVE Inv1'
    OBVIOUS
  <2>1. Holds1(sch, bar, at, wd)
    BY DEF Inv1, Holds1, BarType
  <2>2. Holds1(sch', bar', at', wd')
    BY <2>1, Next1
  <2> QED
    BY <2>2 DEF Inv1, Holds1, BarType
<1> QED
  BY <1>1, <1>2, PTL DEF SchedSpec

\* Whatever the number of threads and contexts and the masks: a context is used
\* by exactly the thread that says so, and the free list has exactly the idle
\* contexts, after every locked section of every handler (schedule, deschedule,
\* leave, join, sync, finish and the watchdog's leaves).
THEOREM ContextsAlwaysAgree == ASSUME Disciplined PROVE SchedSpec => []ContextsAgree
<1>1. Inv1 => ContextsAgree
  BY DEF Inv1, SchInv, CtxInv, FreeInv, ContextsAgree
<1> QED
  BY <1>1, ContextInvariance, PTL

\* schedTick's note holds for every mask: a thread waits in the run queue only
\* while each context it may use is taken by a RUNNING thread.
THEOREM NoContextIsWasted == ASSUME Disciplined PROVE SchedSpec => []NoIdleContextForQueued
<1>1. Inv1 => NoIdleContextForQueued
  BY DEF Inv1, SchInv, RunInv, NoIdleContextForQueued
<1> QED
  BY <1>1, ContextInvariance, PTL

-----------------------------------------------------------------------------
(* The second layer: the barrier.  A killed thread stays in the barrier as *)
(* it was, so nobody is killed here.                                       *)

Holds2(s, b, a) == BarInv(s, b) /\ RunningInv(s, b, a) /\ JoiningInv(s, b, a)

\* What both layers say about a RUNNING thread and its context.
LEMMA OwnContext ==
    ASSUME NEW s, SchInv(s)
    PROVE  /\ \A g \in Gids : s.cid[g] \in Cids
           /\ \A c \in Cids : s.curThread[c] \in Gids \cup {None}
           /\ \A g \in Gids : s.state[g] \in {"RUNNING", "OUT"} => s.curThread[s.cid[g]] = g
           /\ \A c \in Cids : s.curThread[c] # None =>
                 /\ s.state[s.curThread[c]] \in {"RUNNING", "OUT"} /\ s.cid[s.curThread[c]] = c
           /\ \A g, h \in Gids :
                 s.state[g] \in {"RUNNING", "OUT"} /\ s.state[h] \in {"RUNNING", "OUT"}
                   /\ s.cid[g] = s.cid[h] => g = h
<1>1. /\ s \in SchType /\ CtxInv(s)
      /\ s.cid \in [Gids -> Cids] /\ s.curThread \in [Cids -> Gids \cup {None}] /\ None \notin Gids
  BY FieldTypes, Constants DEF SchInv
<1>2. \A g \in Gids : s.state[g] \in {"RUNNING", "OUT"} => s.curThread[s.cid[g]] = g
  BY <1>1 DEF CtxInv
<1>3. \A c \in Cids : s.curThread[c] # None =>
         /\ s.state[s.curThread[c]] \in {"RUNNING", "OUT"} /\ s.cid[s.curThread[c]] = c
  BY <1>1 DEF CtxInv
<1>4. \A g, h \in Gids :
         s.state[g] \in {"RUNNING", "OUT"} /\ s.state[h] \in {"RUNNING", "OUT"}
           /\ s.cid[g] = s.cid[h] => g = h
  BY <1>2
<1> QED
  BY <1>1, <1>2, <1>3, <1>4

\* Threads move from a to a2, but nobody gets or loses a context, and whoever
\* was in the barrier has been let through.
MovedOn(s, b, a, a2) ==
    \A x \in Gids : \/ a2[x] = a[x]
                    \/ /\ a2[x] # "joining"
                       /\ s.state[x] = "RUNNING" =>
                            a[x] \notin {"joining", "syncing"} \/ b[s.cid[x]] = "running"

LEMMA Quiet2 ==
    ASSUME NEW s, NEW b, NEW a, SchInv(s), Holds2(s, b, a),
           NEW t, t.curThread = s.curThread, t.cid = s.cid,
           \A x \in Gids : /\ t.state[x] = "RUNNING" <=> s.state[x] = "RUNNING"
                           /\ t.state[x] = "OUT" <=> s.state[x] = "OUT",
           NEW a2, MovedOn(s, b, a, a2)
    PROVE  Holds2(t, b, a2)
<1>1. \A c \in Cids : s.curThread[c] \in Gids \cup {None}
  BY OwnContext
<1>2. BarInv(t, b)
  BY <1>1 DEF Holds2, BarInv
<1>3. RunningInv(t, b, a2)
  BY DEF Holds2, RunningInv, MovedOn
<1>4. JoiningInv(t, b, a2)
  BY DEF Holds2, JoiningInv, MovedOn
<1> QED
  BY <1>2, <1>3, <1>4 DEF Holds2

LEMMA Leave2 ==
    ASSUME NEW s, NEW b, NEW a, NEW w, Holds1(s, b, a, w), Holds2(s, b, a),
           NEW g \in Gids, s.state[g] = "RUNNING", a[g] \notin {"joining", "syncing"},
           NEW t, NEW b2, LeaveEffect(s, g, b, t, b2),
           NEW p, p \notin {"joining", "syncing"}
    PROVE  Holds2(t, b2, [a EXCEPT ![g] = p])
<1> DEFINE a2 == [a EXCEPT ![g] = p]
           c == s.cid[g]
<1>1. /\ SchInv(s) /\ PlaceInv(s, a) /\ b \in BarType /\ a \in [Gids -> Places]
      /\ s \in SchType /\ ToSet(s.runQueue) \in SUBSET Gids
  BY Members DEF Holds1, RestInv, SchInv
<1>2. \A x \in Gids : a2[x] = IF x = g THEN p ELSE a[x]
  BY <1>1
<1> HIDE DEF a2
<1>3. /\ c \in Cids /\ s.curThread[c] = g /\ b[c] = "running" /\ None \notin Gids
      /\ \A d \in Cids : s.curThread[d] \in Gids \cup {None} /\ (s.curThread[d] = g => d = c)
      /\ \A x \in Gids : s.state[x] = "RUNNING" /\ x # g => s.cid[x] # c
  BY <1>1, OwnContext, Constants DEF Holds2, RunningInv
<1>4. \A x \in Gids : a[x] = "joining" => s.state[x] = "RUNNING" /\ x # g
  BY <1>1 DEF PlaceInv, InSim
<1>5. CASE b2 = b /\ \E h \in ToSet(s.runQueue) : s.cid[g] \in Mask[h] /\ HandedOver(s, g, h, t)
  <2>1. PICK h \in Gids : h \in ToSet(s.runQueue) /\ HandedOver(s, g, h, t)
    BY <1>1, <1>5
  <2>2. s.state[h] = "QUEUED" /\ h # g /\ \A d \in Cids : s.curThread[d] # h
    BY <1>1, <2>1 DEF SchInv, RunInv, CtxInv
  <2>3. a[h] \notin InSim
    BY <1>1, <2>2 DEF PlaceInv
  <2>4. BarInv(t, b2)
    BY <1>3, <1>5, <2>1, <2>2 DEF HandedOver, Holds2, BarInv
  <2>5. RunningInv(t, b2, a2)
    BY <1>2, <1>3, <1>5, <2>1, <2>2 DEF HandedOver, Holds2, RunningInv
  <2>6. JoiningInv(t, b2, a2)
    BY <1>2, <1>4, <1>5, <2>1, <2>3 DEF HandedOver, Holds2, JoiningInv, InSim
  <2> QED
    BY <2>4, <2>5, <2>6 DEF Holds2, a2
<1>6. CASE LeftBarrier(s, g, t) /\ b2 = [b EXCEPT ![s.cid[g]] = "out"]
  <2>1. \A d \in Cids : b2[d] = IF d = c THEN "out" ELSE b[d]
    BY <1>1, <1>3, <1>6 DEF BarType
  <2>2. /\ \A x \in Gids : t.state[x] = IF x = g THEN (IF s.marked[g] THEN "SLEEPING" ELSE "OUT") ELSE s.state[x]
        /\ \A d \in Cids : t.curThread[d] = IF d = c /\ s.marked[g] THEN None ELSE s.curThread[d]
        /\ t.cid = s.cid
    BY <1>6 DEF LeftBarrier
  <2>4. BarInv(t, b2)
    BY <1>3, <2>1, <2>2 DEF Holds2, BarInv
  <2>5. RunningInv(t, b2, a2)
    BY <1>1, <1>2, <1>3, <2>1, <2>2, OwnContext DEF Holds2, RunningInv
  <2>6. JoiningInv(t, b2, a2)
    BY <1>1, <1>2, <1>3, <1>4, <2>1, <2>2, OwnContext DEF Holds2, JoiningInv
  <2> QED
    BY <2>4, <2>5, <2>6 DEF Holds2, a2
<1> QED
  BY <1>5, <1>6 DEF LeaveEffect

LEMMA Placed2 ==
    ASSUME NEW s, NEW b, NEW a, NEW w, Holds1(s, b, a, w), Holds2(s, b, a), NEW g \in Gids,
           s.state[g] \notin {"RUNNING", "OUT"},
           NEW t, NEW b2, NEW a2, PlacedEffect(s, g, b, a, t, b2, a2)
    PROVE  Holds2(t, b2, a2)
<1>1. SchInv(s) /\ PlaceInv(s, a) /\ b \in BarType /\ a \in [Gids -> Places] /\ None \notin Gids
  BY Constants DEF Holds1, RestInv
<1>4. \A x \in Gids : a[x] = "joining" => s.state[x] = "RUNNING"
  BY <1>1 DEF PlaceInv, InSim
<1>2. ASSUME NEW c \in Cids, TookContext(s, g, c, t), b2 = [b EXCEPT ![c] = "waiting"],
             a2 = [a EXCEPT ![g] = "joining"]
      PROVE  Holds2(t, b2, a2)
  <2>1. /\ \A x \in Gids : a2[x] = IF x = g THEN "joining" ELSE a[x]
        /\ \A d \in Cids : b2[d] = IF d = c THEN "waiting" ELSE b[d]
    BY <1>1, <1>2 DEF BarType
  <2>2. /\ s.curThread[c] = None \/ s.state[s.curThread[c]] = "OUT"
        /\ \A x \in Gids :
             /\ t.state[x] = IF x = g THEN "RUNNING"
                             ELSE IF x = s.curThread[c] THEN "BLOCKED" ELSE s.state[x]
             /\ t.cid[x] = IF x = g THEN c ELSE s.cid[x]
        /\ \A d \in Cids : t.curThread[d] = IF d = c THEN g ELSE s.curThread[d]
    BY <1>2 DEF TookContext
  <2>3. /\ \A x \in Gids : s.state[x] = "RUNNING" => s.cid[x] # c /\ s.cid[x] \in Cids /\ x # s.curThread[c]
        /\ \A d \in Cids : d # c /\ s.curThread[d] # None =>
              s.curThread[d] # s.curThread[c] /\ s.curThread[d] # g /\ s.curThread[d] \in Gids
    BY <1>1, <2>2, OwnContext
  <2>4. BarInv(t, b2)
    BY <1>1, <2>1, <2>2, <2>3 DEF Holds2, BarInv
  <2>5. RunningInv(t, b2, a2)
    BY <2>1, <2>2, <2>3 DEF Holds2, RunningInv
  <2>6. JoiningInv(t, b2, a2)
    BY <1>4, <2>1, <2>2, <2>3 DEF Holds2, JoiningInv
  <2> QED
    BY <2>4, <2>5, <2>6 DEF Holds2
<1>3. ASSUME LinedUp(s, g, t), b2 = b, a2 = [a EXCEPT ![g] = "queued"]
      PROVE  Holds2(t, b2, a2)
  <2>1. \A x \in Gids : a2[x] = IF x = g THEN "queued" ELSE a[x]
    BY <1>1, <1>3
  <2>2. /\ t.curThread = s.curThread /\ t.cid = s.cid
        /\ \A x \in Gids : /\ t.state[x] = "RUNNING" <=> s.state[x] = "RUNNING"
                           /\ t.state[x] = "OUT" <=> s.state[x] = "OUT"
    BY <1>3 DEF LinedUp
  <2>m. MovedOn(s, b, a, a2)
    BY <2>1 DEF MovedOn
  <2>3. Holds2(t, b, a2)
    BY <1>1, <2>2, <2>m, Quiet2
  <2> QED
    BY <1>3, <2>3
<1> QED
  BY <1>2, <1>3 DEF PlacedEffect

LEMMA BarrierKeeps2 ==
    ASSUME Holds1(sch, bar, at, wd), Holds2(sch, bar, at), BarrierWake
    PROVE  Holds2(sch', bar', at')
<1>1. PICK c \in Cids : bar[c] = "waiting" /\ bar' = [bar EXCEPT ![c] = "running"]
  BY DEF BarrierWake, Barrier!Wake, Barrier!Move
<1>2. sch' = sch /\ at' = at /\ SchInv(sch) /\ bar \in BarType
  BY DEF BarrierWake, Holds1
<1>3. \A d \in Cids : bar'[d] = IF d = c THEN "running" ELSE bar[d]
  BY <1>1, <1>2 DEF BarType
<1>4. BarInv(sch', bar')
  BY <1>1, <1>2, <1>3 DEF Holds2, BarInv
<1>5. RunningInv(sch', bar', at')
  BY <1>1, <1>2, <1>3, OwnContext DEF Holds2, RunningInv
<1>6. JoiningInv(sch', bar', at')
  BY <1>1, <1>2, <1>3, OwnContext DEF Holds2, JoiningInv
<1> QED
  BY <1>4, <1>5, <1>6 DEF Holds2

\* The end of a phase moves sleepers and handoffs, but no thread with a context.
LEMMA CallbackQuiet ==
    ASSUME NEW s, SchInv(s), NEW t, CallbackEffect(s, t)
    PROVE  /\ t.curThread = s.curThread /\ t.cid = s.cid
           /\ \A x \in Gids : /\ t.state[x] = "RUNNING" <=> s.state[x] = "RUNNING"
                              /\ t.state[x] = "OUT" <=> s.state[x] = "OUT"
<1>1. \A x \in ToSet(s.sleepQueue) : s.state[x] = "SLEEPING"
  BY DEF SchInv, SleepInv
<1>2. ASSUME NEW u, Passed(s, u)
      PROVE  /\ u.curThread = s.curThread /\ u.cid = s.cid
             /\ \A x \in Gids : /\ u.state[x] = "RUNNING" <=> s.state[x] = "RUNNING"
                                /\ u.state[x] = "OUT" <=> s.state[x] = "OUT"
  BY <1>1, <1>2 DEF Passed
<1>3. ASSUME NEW u, NEW f, Ticked(u, f, t)
      PROVE  t.curThread = u.curThread /\ t.cid = u.cid /\ t.state = u.state
  BY <1>3 DEF Ticked
<1>4. CASE Passed(s, t)
  BY <1>2, <1>4
<1>5. CASE \E u : \E f \in Ticks(u) : Passed(s, u) /\ u.runQueue # <<>> /\ Ticked(u, f, t)
  <2>1. PICK u : \E f \in Ticks(u) : Passed(s, u) /\ Ticked(u, f, t)
    BY <1>5
  <2>2. PICK f \in Ticks(u) : Passed(s, u) /\ Ticked(u, f, t)
    BY <2>1
  <2> QED
    BY <1>2, <1>3, <2>2
<1> QED
  BY <1>4, <1>5 DEF CallbackEffect

LEMMA PhaseKeeps2 ==
    ASSUME Holds1(sch, bar, at, wd), Holds2(sch, bar, at), EndOfPhase
    PROVE  Holds2(sch', bar', at')
<1>1. SchInv(sch) /\ bar \in BarType /\ at' = at /\ Callback
  BY DEF Holds1, EndOfPhase
<1>2. CallbackEffect(sch, sch')
  BY <1>1, CallbackStep
<1>3. /\ sch'.curThread = sch.curThread /\ sch'.cid = sch.cid
      /\ \A x \in Gids : /\ sch'.state[x] = "RUNNING" <=> sch.state[x] = "RUNNING"
                         /\ sch'.state[x] = "OUT" <=> sch.state[x] = "OUT"
  BY <1>1, <1>2, CallbackQuiet
<1>m. MovedOn(sch, bar, at, at')
  BY <1>1 DEF MovedOn
<1>4. Holds2(sch', bar, at')
  BY <1>1, <1>3, <1>m, Quiet2
<1>5. /\ \A c \in Cids : bar'[c] = IF bar[c] = "done" THEN "waiting" ELSE bar[c]
      /\ \A c \in Cids : bar[c] # "running"
  BY DEF EndOfPhase, Barrier!EndPhase, Barrier!In
<1>c. \A x \in Gids : sch'.cid[x] \in Cids
  BY <1>1, <1>3, OwnContext
<1>6. BarInv(sch', bar')
  BY <1>4, <1>5 DEF Holds2, BarInv
<1>7. RunningInv(sch', bar', at')
  BY <1>4, <1>5, <1>c DEF Holds2, RunningInv
<1>8. JoiningInv(sch', bar', at')
  BY <1>4, <1>5, <1>c DEF Holds2, JoiningInv
<1> QED
  BY <1>6, <1>7, <1>8 DEF Holds2

LEMMA DriveKeeps2 ==
    ASSUME Holds1(sch, bar, at, wd), Holds2(sch, bar, at), DriveTime
    PROVE  Holds2(sch', bar', at')
<1>1. SchInv(sch) /\ at' = at /\ bar' = bar /\ Callback
  BY DEF Holds1, DriveTime
<1>2. CallbackEffect(sch, sch')
  BY <1>1, CallbackStep
<1>3. /\ sch'.curThread = sch.curThread /\ sch'.cid = sch.cid
      /\ \A x \in Gids : /\ sch'.state[x] = "RUNNING" <=> sch.state[x] = "RUNNING"
                         /\ sch'.state[x] = "OUT" <=> sch.state[x] = "OUT"
  BY <1>1, <1>2, CallbackQuiet
<1>m. MovedOn(sch, bar, at, at')
  BY <1>1 DEF MovedOn
<1>4. Holds2(sch', bar, at')
  BY <1>1, <1>3, <1>m, Quiet2
<1> QED
  BY <1>1, <1>4

LEMMA HandoffKeeps2 ==
    ASSUME Holds1(sch, bar, at, wd), Holds2(sch, bar, at), NEW g \in Gids, Handoff(g)
    PROVE  Holds2(sch', bar', at')
<1>1. SchInv(sch) /\ PlaceInv(sch, at) /\ at \in [Gids -> Places] /\ None \notin Gids
  BY Constants DEF Holds1, RestInv
<1>2. at[g] = "handoff" /\ sch.state[g] = "RUNNING"
  BY <1>1 DEF Handoff, PlaceInv, InSim
<1>3. PICK h, u : /\ h \in Gids /\ h = sch.handoff[g] /\ sch.state[h] = "QUEUED"
                  /\ Switched(sch, g, h, u)
                  /\ PlacedEffect(u, g, bar, at, sch', bar', at')
  BY <1>1, HandoffStep DEF HandoffEffect
<1>4. PICK a : a = [at EXCEPT ![g] = "ready"]
  OBVIOUS
<1>5. Holds1(u, bar, a, wd) /\ h # g
  BY <1>2, <1>3, <1>4, SwitchedKeeps1
<1>6. /\ [a EXCEPT ![g] = "joining"] = [at EXCEPT ![g] = "joining"]
      /\ [a EXCEPT ![g] = "queued"] = [at EXCEPT ![g] = "queued"]
  BY <1>1, <1>4
<1>7. PlacedEffect(u, g, bar, a, sch', bar', at')
  BY <1>3, <1>6, Zenon DEF PlacedEffect
<1>8. u.state[g] = "QUEUED"
  BY <1>3, <1>5 DEF Switched
<1>9. Holds2(u, bar, a)
  <2>1. \A x \in Gids : a[x] = IF x = g THEN "ready" ELSE at[x]
    BY <1>1, <1>4
  <2>2. /\ \A x \in Gids :
             /\ u.state[x] = IF x = h THEN "RUNNING" ELSE IF x = g THEN "QUEUED" ELSE sch.state[x]
             /\ u.cid[x] = IF x = h THEN sch.cid[g] ELSE sch.cid[x]
        /\ \A d \in Cids : u.curThread[d] = IF d = sch.cid[g] THEN h ELSE sch.curThread[d]
    BY <1>3 DEF Switched
  <2>3. /\ sch.cid[g] \in Cids /\ bar[sch.cid[g]] = "running" /\ at[h] \notin InSim
        /\ \A d \in Cids : d # sch.cid[g] /\ sch.curThread[d] # None =>
              sch.curThread[d] \in Gids /\ sch.curThread[d] # g /\ sch.curThread[d] # h
    BY <1>1, <1>2, <1>3, OwnContext DEF Holds2, RunningInv, PlaceInv
  <2>4. BarInv(u, bar)
    BY <1>1, <1>3, <2>2, <2>3 DEF Holds2, BarInv
  <2>5. RunningInv(u, bar, a)
    BY <2>1, <2>2, <2>3 DEF Holds2, RunningInv
  <2>6. JoiningInv(u, bar, a)
    BY <2>1, <2>2, <2>3 DEF Holds2, JoiningInv, InSim
  <2> QED
    BY <2>4, <2>5, <2>6 DEF Holds2
<1> QED
  BY <1>5, <1>7, <1>8, <1>9, Placed2

LEMMA JoinKeeps2 ==
    ASSUME Holds1(sch, bar, at, wd), Holds2(sch, bar, at), NEW g \in Gids, Join(g)
    PROVE  Holds2(sch', bar', at')
<1>1. /\ SchInv(sch) /\ PlaceInv(sch, at) /\ at \in [Gids -> Places] /\ bar \in BarType
      /\ at[g] = "ready"
  BY DEF Holds1, RestInv, Join
<1>3. CASE JoinAfterFakeLeave(g)
  <2>1. /\ sch' = FinishFakeLeave(sch, g) /\ bar' = bar /\ at' = [at EXCEPT ![g] = "sim"]
    BY <1>3 DEF JoinAfterFakeLeave, Goto
  <2>2. {} \in SUBSET (Pids \X Pcs)
    OBVIOUS
  <2>3. Unfaked(sch, g, sch')
    BY <1>1, <2>1, <2>2, FinishFakeLeaveKeeps
  <2>4. \A x \in Gids : at'[x] = IF x = g THEN "sim" ELSE at[x]
    BY <1>1, <2>1
  <2>5. sch'.curThread = sch.curThread /\ sch'.cid = sch.cid /\ sch'.state = sch.state
    BY <2>3 DEF Unfaked, SameCore
  <2>m. MovedOn(sch, bar, at, at')
    BY <1>1, <2>4 DEF MovedOn
  <2>6. Holds2(sch', bar, at')
    BY <1>1, <2>5, <2>m, Quiet2
  <2> QED
    BY <2>1, <2>6
<1>4. CASE JoinFromOut(g)
  <2>1. /\ sch.state[g] = "OUT"
        /\ sch' = [sch EXCEPT !.state[g] = "RUNNING", !.outQueue = Without(@, g)]
        /\ bar' = [bar EXCEPT ![sch.cid[g]] = "waiting"]
        /\ at' = [at EXCEPT ![g] = "joining"]
    BY <1>4 DEF JoinFromOut, Goto, BarJoin
  <2>3. Rejoined(sch, g, sch')
    BY <1>1, <2>1, RejoinKeeps
  <2>4. /\ \A x \in Gids : at'[x] = IF x = g THEN "joining" ELSE at[x]
        /\ \A d \in Cids : bar'[d] = IF d = sch.cid[g] THEN "waiting" ELSE bar[d]
    BY <1>1, <2>1 DEF BarType
  <2>5. /\ \A x \in Gids : sch'.state[x] = IF x = g THEN "RUNNING" ELSE sch.state[x]
        /\ sch'.cid = sch.cid /\ sch'.curThread = sch.curThread
    BY <2>3 DEF Rejoined
  <2>6. /\ sch.cid[g] \in Cids /\ sch.curThread[sch.cid[g]] = g /\ None \notin Gids
        /\ \A d \in Cids : d # sch.cid[g] => sch.curThread[d] # g
        /\ \A d \in Cids : sch.curThread[d] \in Gids \cup {None}
        /\ \A x \in Gids : sch.state[x] = "RUNNING" => sch.cid[x] # sch.cid[g] /\ sch.cid[x] \in Cids
    BY <1>1, <2>1, OwnContext, Constants
  <2>7. BarInv(sch', bar')
    BY <2>4, <2>5, <2>6 DEF Holds2, BarInv
  <2>8. RunningInv(sch', bar', at')
    BY <2>4, <2>5, <2>6 DEF Holds2, RunningInv
  <2>9. JoiningInv(sch', bar', at')
    BY <1>1, <2>4, <2>5, <2>6 DEF Holds2, JoiningInv, PlaceInv, InSim
  <2> QED
    BY <2>7, <2>8, <2>9 DEF Holds2
<1>5. CASE JoinElsewhere(g)
  <2>1. sch.state[g] \notin {"RUNNING", "OUT"}
    BY <1>5 DEF JoinElsewhere, JoinAllowed
  <2>2. PlacedEffect(sch, g, bar, at, sch', bar', at')
    BY <1>1, <1>5, JoinElsewhereStep
  <2> QED
    BY <2>1, <2>2, Placed2
<1> QED
  BY <1>3, <1>4, <1>5 DEF Join

LEMMA SyncKeeps2 ==
    ASSUME Holds1(sch, bar, at, wd), Holds2(sch, bar, at), NEW g \in Gids, Sync(g)
    PROVE  Holds2(sch', bar', at')
<1>1. SchInv(sch) /\ PlaceInv(sch, at) /\ at \in [Gids -> Places] /\ bar \in BarType
  BY DEF Holds1, RestInv
<1>2. /\ at[g] = "sim" /\ bar[sch.cid[g]] = "running" /\ sch' = sch
      /\ bar' = [bar EXCEPT ![sch.cid[g]] = "done"] /\ at' = [at EXCEPT ![g] = "syncing"]
  BY DEF Sync, Goto
<1>3. /\ \A x \in Gids : at'[x] = IF x = g THEN "syncing" ELSE at[x]
      /\ \A d \in Cids : bar'[d] = IF d = sch.cid[g] THEN "done" ELSE bar[d]
  BY <1>1, <1>2 DEF BarType
<1>4. /\ sch.state[g] = "RUNNING"
      /\ \A x \in Gids : sch.state[x] = "RUNNING" /\ x # g => sch.cid[x] # sch.cid[g]
      /\ \A x \in Gids : at[x] = "joining" => sch.state[x] = "RUNNING"
      /\ \A x \in Gids : sch.cid[x] \in Cids
  BY <1>1, <1>2, OwnContext DEF PlaceInv, InSim
<1>5. BarInv(sch', bar')
  BY <1>2, <1>3 DEF Holds2, BarInv
<1>6. RunningInv(sch', bar', at')
  BY <1>2, <1>3, <1>4 DEF Holds2, RunningInv
<1>7. JoiningInv(sch', bar', at')
  BY <1>2, <1>3, <1>4 DEF Holds2, JoiningInv
<1> QED
  BY <1>5, <1>6, <1>7 DEF Holds2

\* The steps after which g stands elsewhere but everybody's context is the same.
LEMMA MovesKeep2 ==
    ASSUME Holds1(sch, bar, at, wd), Holds2(sch, bar, at), NEW g \in Gids,
           \/ Start(g) \/ MarkForSleep(g) \/ NotifySleepEnd(g)
           \/ SleepOver(g) \/ SleepInterrupted(g) \/ BarrierReturn(g) \/ ContextReturn(g)
           \/ Finish(g) \/ Cleanup(g)
    PROVE  Holds2(sch', bar', at')
<1>1. SchInv(sch) /\ PlaceInv(sch, at) /\ at \in [Gids -> Places] /\ bar \in BarType
  BY DEF Holds1, RestInv
<1>2. PICK p : p # "joining" /\ at' = [at EXCEPT ![g] = p]
  <2>1. CASE Start(g) \/ MarkForSleep(g) \/ NotifySleepEnd(g)
    BY <2>1 DEF Start, MarkForSleep, NotifySleepEnd, Goto
  <2>2. CASE SleepOver(g) \/ SleepInterrupted(g) \/ BarrierReturn(g) \/ ContextReturn(g)
    BY <2>2 DEF SleepOver, SleepInterrupted, BarrierReturn, ContextReturn, Goto
  <2>3. CASE Finish(g) \/ Cleanup(g)
    BY <2>3 DEF Finish, Cleanup, FinishStart, Goto
  <2> QED
    BY <2>1, <2>2, <2>3
<1>3. bar' = bar
  BY DEF Start, MarkForSleep, NotifySleepEnd, SleepOver, SleepInterrupted, BarrierReturn,
         ContextReturn, Finish, Cleanup, FinishStart
<1>4. at[g] \in {"joining", "syncing"} => bar[sch.cid[g]] = "running"
  BY DEF Start, MarkForSleep, NotifySleepEnd, SleepOver, SleepInterrupted, BarrierReturn,
         ContextReturn, Finish, Cleanup, FinishStart
<1>5. /\ sch'.curThread = sch.curThread /\ sch'.cid = sch.cid
      /\ \A x \in Gids : /\ sch'.state[x] = "RUNNING" <=> sch.state[x] = "RUNNING"
                         /\ sch'.state[x] = "OUT" <=> sch.state[x] = "OUT"
  <2>1. CASE Start(g)
    <3>1. sch' = [sch EXCEPT !.state[g] = "STARTED"] /\ sch.state[g] = "none"
      BY <1>1, <2>1 DEF Start, PlaceInv
    <3>2. Started(sch, g, sch')
      BY <1>1, <3>1, StartKeeps
    <3> QED
      BY <3>1, <3>2 DEF Started
  <2>2. CASE MarkForSleep(g)
    <3>1. PICK n \in 1 .. MaxSleep :
            sch' = [sch EXCEPT !.marked[g] = TRUE, !.sleep[g] = n, !.futexWord[g] = 1]
      BY <2>2 DEF MarkForSleep
    <3> QED
      BY <1>1, <3>1 DEF SchInv, SchType
  <2>3. CASE NotifySleepEnd(g)
    <3>1. sch.state[g] \in {"SLEEPING", "BLOCKED"} /\ sch' = AwakenEarly(sch, g)
      BY <1>1, <2>3 DEF NotifySleepEnd, PlaceInv
    <3>2. Awakened(sch, g, sch')
      BY <1>1, <3>1, AwakenEarlyKeeps
    <3> QED
      BY <3>1, <3>2 DEF Awakened
  <2>4. CASE SleepOver(g) \/ SleepInterrupted(g) \/ BarrierReturn(g) \/ ContextReturn(g)
    BY <2>4 DEF SleepOver, SleepInterrupted, BarrierReturn, ContextReturn
  <2>5. CASE Finish(g) \/ Cleanup(g)
    <3>1. PICK from : FinishStart(g, from)
      BY <2>5 DEF Finish, Cleanup
    <3>2. FinishEffect(sch, g, from, sch')
      BY <1>1, <3>1, FinishStep
    <3> QED
      BY <3>2 DEF FinishEffect, Awakened, Unfaked, SameCore
  <2> QED
    BY <2>1, <2>2, <2>3, <2>4, <2>5
<1>6. \A x \in Gids : at'[x] = IF x = g THEN p ELSE at[x]
  BY <1>1, <1>2
<1>m. MovedOn(sch, bar, at, at')
  BY <1>2, <1>4, <1>6 DEF MovedOn
<1>7. Holds2(sch', bar, at')
  BY <1>1, <1>5, <1>m, Quiet2
<1> QED
  BY <1>3, <1>7

\* The handlers that leave.
LEMMA LeavesKeep2 ==
    ASSUME Holds1(sch, bar, at, wd), Holds2(sch, bar, at), NEW g \in Gids,
           \/ \E p \in Pcs : SyscallLeave(g, p)
           \/ LeaveToSleep(g) \/ FinishLeave(g) \/ EnterFastForward(g)
    PROVE  Holds2(sch', bar', at')
<1>1. SchInv(sch) /\ PlaceInv(sch, at) /\ at \in [Gids -> Places] /\ bar \in BarType
  BY DEF Holds1, RestInv
<1>2. /\ sch.state[g] = "RUNNING" /\ at[g] \in {"sim", "marked", "finishing"}
      /\ \/ at' = [at EXCEPT ![g] = "ready"] \/ at' = [at EXCEPT ![g] = "asleep"]
         \/ at' = [at EXCEPT ![g] = "finished"] \/ at' = [at EXCEPT ![g] = "leaving"]
  BY DEF SyscallLeave, LeaveToSleep, FinishLeave, EnterFastForward, LeaveAsserts, Goto
<1>3. PICK p : p \in {"ready", "asleep", "finished", "leaving"} /\ at' = [at EXCEPT ![g] = p]
  BY <1>2
<1>4. CASE Leave(sch, g)
  <2>1. LeaveEffect(sch, g, bar, sch', bar')
    BY <1>1, <1>2, <1>4, LeaveStep
  <2>2. p \notin {"joining", "syncing"} /\ at[g] \notin {"joining", "syncing"}
    BY <1>2, <1>3
  <2>3. Holds2(sch', bar', [at EXCEPT ![g] = p])
    BY <1>2, <2>1, <2>2, Leave2
  <2> QED
    BY <1>3, <2>3
<1>5. CASE ~ Leave(sch, g)
  <2>1. PICK q \in Pcs : /\ sch' = [sch EXCEPT !.fakePc[g] = q, !.fakeLeaves = Append(@, g)]
                         /\ bar' = bar
    BY <1>5 DEF SyscallLeave, LeaveToSleep, FinishLeave, EnterFastForward
  <2>2. FakeLeft(sch, g, q, sch')
    BY <1>1, <2>1, FakeLeaveKeeps
  <2>3. sch'.curThread = sch.curThread /\ sch'.cid = sch.cid /\ sch'.state = sch.state
    BY <2>2 DEF FakeLeft, SameCore
  <2>4. \A x \in Gids : at'[x] = IF x = g THEN p ELSE at[x]
    BY <1>1, <1>3
  <2>m. MovedOn(sch, bar, at, at')
    BY <1>2, <1>3, <2>4 DEF MovedOn
  <2>5. Holds2(sch', bar, at')
    BY <1>1, <2>3, <2>m, Quiet2
  <2> QED
    BY <2>1, <2>5
<1> QED
  BY <1>4, <1>5

LEMMA FinishEndKeeps2 ==
    ASSUME Holds1(sch, bar, at, wd), Holds2(sch, bar, at), NEW g \in Gids, FinishEnd(g)
    PROVE  Holds2(sch', bar', at')
<1>1. SchInv(sch) /\ PlaceInv(sch, at) /\ at \in [Gids -> Places] /\ bar \in BarType
  BY DEF Holds1, RestInv
<1>2. PICK u : u = Detach(sch, g)
  OBVIOUS
<1>3. /\ at' = [at EXCEPT ![g] = "off"] /\ bar' = bar
      /\ sch' = [u EXCEPT !.state[g] = "none", !.cid[g] = 0, !.handoff[g] = None,
                          !.futexWord[g] = 0, !.sleep[g] = 0, !.marked[g] = FALSE]
      /\ \/ sch.state[g] \in {"STARTED", "OUT", "BLOCKED"}
         \/ sch.state[g] = "QUEUED" /\ g \in ToSet(sch.runQueue)
  BY <1>2 DEF FinishEnd, Goto, Detach, FinishAsserts
<1>4. Removed(sch, g, sch')
  BY <1>1, <1>2, <1>3, RemoveKeeps
<1>5. \A x \in Gids : at'[x] = IF x = g THEN "off" ELSE at[x]
  BY <1>1, <1>3
<1>6. /\ \A x \in Gids : /\ sch'.state[x] = IF x = g THEN "none" ELSE sch.state[x]
                         /\ sch'.cid[x] = IF x = g THEN 0 ELSE sch.cid[x]
      /\ \A d \in Cids : sch'.curThread[d] = IF sch.curThread[d] = g THEN None ELSE sch.curThread[d]
  BY <1>4 DEF Removed
<1>7. \A d \in Cids : sch.curThread[d] \in Gids \cup {None} /\ (sch.curThread[d] = g => bar[d] = "out")
  BY <1>1, <1>3, OwnContext DEF Holds2, BarInv
<1>8. BarInv(sch', bar')
  BY <1>3, <1>6, <1>7 DEF Holds2, BarInv
<1>9. RunningInv(sch', bar', at')
  BY <1>3, <1>5, <1>6 DEF Holds2, RunningInv
<1>10. JoiningInv(sch', bar', at')
  BY <1>3, <1>5, <1>6 DEF Holds2, JoiningInv
<1> QED
  BY <1>8, <1>9, <1>10 DEF Holds2

LEMMA WatchdogKeeps2 ==
    ASSUME Holds1(sch, bar, at, wd), Holds2(sch, bar, at), StallDetected \/ WatchdogLeave \/ WatchdogNext
    PROVE  Holds2(sch', bar', at')
<1>1. SchInv(sch) /\ PlaceInv(sch, at) /\ WdInv(sch, at, wd) /\ at \in [Gids -> Places] /\ sch \in SchType
  BY DEF Holds1, RestInv, SchInv
<1>2. CASE WatchdogLeave
  <2>1. /\ wd.pc = "leave" /\ at' = at /\ Leave(sch, wd.th) /\ sch.state[wd.th] = "RUNNING"
    BY <1>2 DEF WatchdogLeave, WatchdogAsserts, LeaveAsserts
  <2>2. PICK g \in Gids : g = wd.th /\ at[g] \in {"ready", "dead"}
    BY <1>1, <2>1 DEF WdInv
  <2>3. LeaveEffect(sch, g, bar, sch', bar')
    BY <1>1, <2>1, <2>2, LeaveStep
  <2>4. PICK p : p = at[g] /\ p \notin {"joining", "syncing"}
    BY <2>2
  <2>5. Holds2(sch', bar', [at EXCEPT ![g] = p])
    BY <2>1, <2>2, <2>3, <2>4, Leave2
  <2>6. [at EXCEPT ![g] = p] = at'
    BY <1>1, <2>1, <2>4
  <2> QED
    BY <2>5, <2>6
<1>3. CASE StallDetected \/ WatchdogNext
  <2>1. bar' = bar /\ at' = at
    BY <1>3 DEF StallDetected, WatchdogNext
  <2>2. sch'.curThread = sch.curThread /\ sch'.cid = sch.cid /\ sch'.state = sch.state
    BY <1>1, <1>3 DEF StallDetected, WatchdogNext, FinishFakeLeave, SchType
  <2>m. MovedOn(sch, bar, at, at')
    BY <2>1 DEF MovedOn
  <2>3. Holds2(sch', bar, at')
    BY <1>1, <2>2, <2>m, Quiet2
  <2> QED
    BY <2>1, <2>3
<1> QED
  BY <1>2, <1>3

LEMMA Next2 ==
    ASSUME "kill" \notin Features, Holds1(sch, bar, at, wd), Holds2(sch, bar, at),
           [SchedNext]_schedVars
    PROVE  Holds2(sch', bar', at')
<1>1. CASE UNCHANGED schedVars
  BY <1>1 DEF schedVars
<1>2. CASE BarrierStep
  BY <1>2, BarrierKeeps2, PhaseKeeps2 DEF BarrierStep
<1>3. CASE Watchdog
  BY <1>3, WatchdogKeeps2, DriveKeeps2 DEF Watchdog
<1>4. ASSUME NEW g \in Gids, Join(g) \/ Handoff(g) \/ Sync(g)
      PROVE  Holds2(sch', bar', at')
  BY <1>4, JoinKeeps2, HandoffKeeps2, SyncKeeps2
<1>5. ASSUME NEW g \in Gids,
             \/ Start(g) \/ MarkForSleep(g) \/ NotifySleepEnd(g) \/ SleepInterrupted(g) \/ Resume(g)
             \/ Finish(g) \/ Cleanup(g)
      PROVE  Holds2(sch', bar', at')
  BY <1>5, MovesKeep2 DEF Resume
<1>6. ASSUME NEW g \in Gids,
             \/ \E p \in Pcs : SyscallLeave(g, p)
             \/ LeaveToSleep(g) \/ FinishLeave(g) \/ EnterFastForward(g)
      PROVE  Holds2(sch', bar', at')
  BY <1>6, LeavesKeep2
<1>7. ASSUME NEW g \in Gids, FinishEnd(g) PROVE Holds2(sch', bar', at')
  BY <1>7, FinishEndKeeps2
<1>8. \A g \in Gids : ~ Kill(Pid[g])
  BY DEF Kill
<1> QED
  BY <1>1, <1>2, <1>3, <1>4, <1>5, <1>6, <1>7, <1>8 DEF SchedNext

\* Every handler and every step of the barrier keeps their agreement.
THEOREM BarrierInvariance ==
    ASSUME Disciplined, "kill" \notin Features
    PROVE  SchedSpec => [](Inv1 /\ Inv2)
<1>1. SchedInit => Inv1 /\ Inv2
  <2> SUFFICES ASSUME SchedInit PROVE Inv1 /\ Inv2
    OBVIOUS
  <2>1. Inv1
    BY Init1 DEF Inv1, Holds1, BarType
  <2>2. /\ \A g \in Gids : sch.state[g] = "none" /\ at[g] = "off"
        /\ \A c \in Cids : bar[c] = "out" /\ sch.curThread[c] = None
    BY DEF SchedInit, Barrier!Init
  <2> QED
    BY <2>1, <2>2 DEF Inv2, BarInv, RunningInv, JoiningInv
<1>2. Inv1 /\ Inv2 /\ [SchedNext]_schedVars => (Inv1 /\ Inv2)'
  <2> SUFFICES ASSUME Inv1, Inv2, [SchedNext]_schedVars PROVE (Inv1 /\ Inv2)'
    OBVIOUS
  <2>1. Holds1(sch, bar, at, wd) /\ Holds2(sch, bar, at)
    BY DEF Inv1, Inv2, Holds1, Holds2, BarType
  <2>2. Holds1(sch', bar', at', wd') /\ Holds2(sch', bar', at')
    BY <2>1, Next1, Next2
  <2> QED
    BY <2>2 DEF Inv1, Inv2, Holds1, Holds2, BarType
<1> QED
  BY <1>1, <1>2, PTL DEF SchedSpec

\* The scheduler and the barrier agree on every context whatever the width, the
\* masks and the number of threads, although join, sync and the wakeups of the
\* barrier are steps of different threads and the handoff of sync reads its
\* target without the lock.
THEOREM BarrierAlwaysAgrees ==
    ASSUME Disciplined, "kill" \notin Features
    PROVE  SchedSpec => []BarrierAgrees
<1>1. Inv1 /\ Inv2 => BarrierAgrees
  <2> SUFFICES ASSUME Inv1, Inv2 PROVE BarrierAgrees
    OBVIOUS
  <2>1. SchInv(sch) /\ PlaceInv(sch, at)
    BY DEF Inv1, RestInv
  <2>2. \A c \in Cids : bar[c] = "out" <=> \/ sch.curThread[c] = None
                                           \/ sch.state[sch.curThread[c]] = "OUT"
    BY DEF Inv2, BarInv
  <2>3. \A g \in Gids : at[g] \in {"sim", "marked", "handoff"} /\ sch.state[g] = "RUNNING"
                          => bar[sch.cid[g]] = "running"
    BY DEF Inv2, RunningInv
  <2>4. \A g \in Gids : at[g] \in {"sim", "syncing", "joining", "handoff", "marked"}
                          => sch.curThread[sch.cid[g]] = g /\ sch.state[g] = "RUNNING"
    BY <2>1, OwnContext DEF PlaceInv, InSim
  <2> QED
    BY <2>2, <2>3, <2>4 DEF BarrierAgrees
<1> QED
  BY <1>1, BarrierInvariance, PTL

-----------------------------------------------------------------------------
(* The third layer: the queues.  A thread may finish, but no signal cuts a *)
(* sleep short, no process is killed and the watchdog forces no leave.     *)

Holds3(s, b, a) == NoRepeats(s) /\ Sorted(s) /\ \A g \in Gids : ThreadInv(s, b, a, g)

\* What ThreadInv looks at is the same for thread x after a step as before.
SameFor(s, b, a, t, b2, a2, x) ==
    /\ t.state[x] = s.state[x] /\ t.cid[x] = s.cid[x] /\ t.sleep[x] = s.sleep[x]
    /\ t.futexWord[x] = s.futexWord[x] /\ (t.marked[x] <=> s.marked[x])
    /\ t.fakePc[x] = s.fakePc[x] /\ t.handoff[x] = s.handoff[x]
    /\ a2[x] = a[x]
    /\ s.handoff[x] # None =>
         (b[s.cid[x]] \in {"waiting", "running"} => b2[s.cid[x]] \in {"waiting", "running"})
    /\ x \in ToSet(s.sleepQueue) => x \in ToSet(t.sleepQueue)
    /\ x \in ToSet(s.runQueue) => x \in ToSet(t.runQueue)
    /\ x \in ToSet(s.fakeLeaves) => x \in ToSet(t.fakeLeaves)
    /\ \A h \in Gids : s.handoff[h] = x => t.handoff[h] = x

LEMMA Frame3 ==
    ASSUME NEW s, NEW b, NEW a, NEW t, NEW b2, NEW a2, NEW x \in Gids,
           ThreadInv(s, b, a, x), SameFor(s, b, a, t, b2, a2, x)
    PROVE  ThreadInv(t, b2, a2, x)
<1>1. SleeperInv(t, a2, x)
  BY DEF ThreadInv, SameFor, SleeperInv
<1>2. QueuedInv(t, a2, x)
  BY DEF ThreadInv, SameFor, QueuedInv
<1>3. PromiseInv(t, b2, a2, x)
  BY DEF ThreadInv, SameFor, PromiseInv
<1>4. ReadyInv(t, a2, x)
  BY DEF ThreadInv, SameFor, ReadyInv
<1> QED
  BY <1>1, <1>2, <1>3, <1>4 DEF ThreadInv

\* A thread that hands its context over is RUNNING; so a context that nobody
\* RUNNING has can be given a new place in the barrier.
LEMMA HandsOver ==
    ASSUME NEW s, NEW b, NEW a, NEW w, Holds1(s, b, a, w), NEW x \in Gids, PromiseInv(s, b, a, x),
           s.handoff[x] # None
    PROVE  s.state[x] = "RUNNING" /\ a[x] \in {"handoff", "syncing"}
BY DEF Holds1, RestInv, PlaceInv, InSim, PromiseInv

LEMMA Leave3 ==
    ASSUME NEW s, NEW b, NEW a, NEW w, Holds1(s, b, a, w), Holds3(s, b, a),
           NEW g \in Gids, s.state[g] = "RUNNING", s.fakePc[g] = None, s.handoff[g] = None,
           NEW t, NEW b2, LeaveEffect(s, g, b, t, b2),
           NEW p, \/ p \in {"ready", "finished", "leaving"} /\ ~ s.marked[g]
                  \/ p = "asleep" /\ s.marked[g]
    PROVE  Holds3(t, b2, [a EXCEPT ![g] = p])
<1> DEFINE a2 == [a EXCEPT ![g] = p]
           c == s.cid[g]
<1>1. /\ SchInv(s) /\ PlaceInv(s, a) /\ b \in BarType /\ a \in [Gids -> Places]
      /\ s \in SchType /\ ToSet(s.runQueue) \in SUBSET Gids /\ None \notin Gids
  BY Members, Constants DEF Holds1, RestInv, SchInv
<1>2. \A x \in Gids : a2[x] = IF x = g THEN p ELSE a[x]
  BY <1>1
<1> HIDE DEF a2
<1>3. \A x \in Gids : ThreadInv(s, b, a, x)
  BY DEF Holds3
<1>4. \A x \in Gids : x # g /\ s.handoff[x] # None => s.cid[x] # c
  BY <1>1, <1>3, OwnContext, HandsOver DEF ThreadInv
<1>5. CASE b2 = b /\ \E h \in ToSet(s.runQueue) : s.cid[g] \in Mask[h] /\ HandedOver(s, g, h, t)
  <2>1. PICK h \in Gids : h \in ToSet(s.runQueue) /\ HandedOver(s, g, h, t)
    BY <1>1, <1>5
  <2>2. s.state[h] = "QUEUED" /\ h # g /\ s.fakePc[h] = None
    BY <1>1, <2>1 DEF SchInv, RunInv, PlaceInv
  <2>3. a[h] = "queued" /\ s.handoff[h] = None /\ ~ s.marked[h] /\ s.sleep[h] \in 0 .. MaxSleep
    BY <1>3, <2>2 DEF ThreadInv, QueuedInv, PromiseInv, SleeperInv
  <2>m. /\ ~ t.marked[g] /\ ~ t.marked[h]
        /\ \A x \in Gids : x # g => (t.marked[x] <=> s.marked[x])
    BY <2>1, <2>2, <2>3, Zenon DEF HandedOver
  <2>v. /\ \A x \in Gids :
             /\ t.state[x] = IF x = h THEN "RUNNING"
                             ELSE IF x = g THEN (IF s.marked[g] THEN "SLEEPING" ELSE "BLOCKED")
                             ELSE s.state[x]
             /\ t.cid[x] = IF x = h THEN s.cid[g] ELSE s.cid[x]
             /\ t.futexWord[x] = IF x = h THEN 0 ELSE s.futexWord[x]
        /\ ToSet(t.runQueue) = ToSet(s.runQueue) \ {h}
        /\ ToSet(t.sleepQueue) = IF s.marked[g] THEN ToSet(s.sleepQueue) \cup {g} ELSE ToSet(s.sleepQueue)
        /\ t.handoff = s.handoff /\ t.sleep = s.sleep
        /\ t.fakePc = s.fakePc /\ t.fakeLeaves = s.fakeLeaves
    BY <2>1 DEF HandedOver
  <2>4. ASSUME NEW x \in Gids, x # g, x # h PROVE ThreadInv(t, b2, a2, x)
    <3>1. SameFor(s, b, a, t, b2, a2, x)
      BY <1>2, <1>5, <2>m, <2>v, <2>4 DEF SameFor
    <3> QED
      BY <1>3, <3>1, Frame3
  <2>5. ThreadInv(t, b2, a2, h)
    BY <1>2, <2>2, <2>3, <2>m, <2>v DEF ThreadInv, SleeperInv, QueuedInv, PromiseInv, ReadyInv
  <2>6. ThreadInv(t, b2, a2, g)
    BY <1>2, <1>3, <2>2, <2>m, <2>v DEF ThreadInv, SleeperInv, QueuedInv, PromiseInv, ReadyInv
  <2>7. NoRepeats(t) /\ Sorted(t)
    BY <2>1 DEF HandedOver, Holds3
  <2> QED
    BY <2>4, <2>5, <2>6, <2>7 DEF Holds3, a2
<1>6. CASE LeftBarrier(s, g, t) /\ b2 = [b EXCEPT ![s.cid[g]] = "out"]
  <2>1. \A d \in Cids : b2[d] = IF d = c THEN "out" ELSE b[d]
    BY <1>1, <1>6, OwnContext DEF BarType
  <2>m. /\ ~ t.marked[g]
        /\ \A x \in Gids : x # g => (t.marked[x] <=> s.marked[x])
    BY <1>6, Zenon DEF LeftBarrier
  <2>v. /\ \A x \in Gids : t.state[x] = IF x = g THEN (IF s.marked[g] THEN "SLEEPING" ELSE "OUT") ELSE s.state[x]
        /\ t.cid = s.cid /\ t.futexWord = s.futexWord /\ t.runQueue = s.runQueue
        /\ ToSet(t.sleepQueue) = IF s.marked[g] THEN ToSet(s.sleepQueue) \cup {g} ELSE ToSet(s.sleepQueue)
        /\ t.handoff = s.handoff /\ t.sleep = s.sleep
        /\ t.fakePc = s.fakePc /\ t.fakeLeaves = s.fakeLeaves
    BY <1>6 DEF LeftBarrier
  <2>4. ASSUME NEW x \in Gids, x # g PROVE ThreadInv(t, b2, a2, x)
    <3>0. s.cid[x] \in Cids
      BY <1>1, OwnContext
    <3>1. SameFor(s, b, a, t, b2, a2, x)
      BY <1>2, <1>4, <2>1, <2>m, <2>v, <2>4, <3>0 DEF SameFor
    <3> QED
      BY <1>3, <3>1, Frame3
  <2>6. ThreadInv(t, b2, a2, g)
    BY <1>2, <1>3, <2>m, <2>v DEF ThreadInv, SleeperInv, QueuedInv, PromiseInv, ReadyInv
  <2>7. NoRepeats(t) /\ Sorted(t)
    BY <1>6 DEF LeftBarrier, Holds3
  <2> QED
    BY <2>4, <2>6, <2>7 DEF Holds3, a2
<1> QED
  BY <1>5, <1>6 DEF LeaveEffect

\* g is on its way to a context or the run queue; everybody else is as the
\* invariant says.
Searching(s, g) ==
    /\ s.state[g] \notin {"RUNNING", "OUT", "SLEEPING"} /\ g \notin ToSet(s.runQueue)
    /\ s.handoff[g] = None /\ s.fakePc[g] = None /\ ~ s.marked[g] /\ s.sleep[g] \in 0 .. MaxSleep

LEMMA Placed3 ==
    ASSUME NEW s, NEW b, NEW a, NEW w, Holds1(s, b, a, w), NEW g \in Gids, Searching(s, g),
           NoRepeats(s), Sorted(s), \A x \in Gids : x # g => ThreadInv(s, b, a, x),
           NEW t, NEW b2, NEW a2, PlacedEffect(s, g, b, a, t, b2, a2)
    PROVE  Holds3(t, b2, a2)
<1>1. SchInv(s) /\ PlaceInv(s, a) /\ b \in BarType /\ a \in [Gids -> Places] /\ None \notin Gids
  BY Constants DEF Holds1, RestInv
<1>2. ASSUME NEW c \in Cids, TookContext(s, g, c, t), b2 = [b EXCEPT ![c] = "waiting"],
             a2 = [a EXCEPT ![g] = "joining"]
      PROVE  Holds3(t, b2, a2)
  <2>1. /\ \A x \in Gids : a2[x] = IF x = g THEN "joining" ELSE a[x]
        /\ \A d \in Cids : b2[d] = IF d = c THEN "waiting" ELSE b[d]
    BY <1>1, <1>2 DEF BarType
  <2>v. /\ s.curThread[c] = None \/ s.state[s.curThread[c]] = "OUT"
        /\ \A x \in Gids :
             /\ t.state[x] = IF x = g THEN "RUNNING"
                             ELSE IF x = s.curThread[c] THEN "BLOCKED" ELSE s.state[x]
             /\ t.cid[x] = IF x = g THEN c ELSE s.cid[x]
        /\ ToSet(t.runQueue) = ToSet(s.runQueue) \ {g}
        /\ ToSet(t.sleepQueue) = ToSet(s.sleepQueue) \ {g}
        /\ t.handoff = s.handoff /\ t.futexWord = s.futexWord /\ t.marked = s.marked
        /\ t.sleep = s.sleep /\ t.fakePc = s.fakePc /\ t.fakeLeaves = s.fakeLeaves
    BY <1>2 DEF TookContext
  <2>4. ASSUME NEW x \in Gids, x # g, x # s.curThread[c] PROVE ThreadInv(t, b2, a2, x)
    <3>1. s.cid[x] \in Cids
      BY <1>1, OwnContext
    <3>2. SameFor(s, b, a, t, b2, a2, x)
      BY <2>1, <2>4, <2>v, <3>1 DEF SameFor
    <3> QED
      BY <2>4, <3>2, Frame3
  <2>5. ASSUME NEW x \in Gids, x # g, x = s.curThread[c] PROVE ThreadInv(t, b2, a2, x)
    <3>1. s.state[x] = "OUT" /\ t.state[x] = "BLOCKED" /\ ThreadInv(s, b, a, x)
      BY <1>1, <2>5, <2>v
    <3>2. s.fakePc[x] = None /\ s.handoff[x] = None
      BY <1>1, <3>1, HandsOver DEF PlaceInv, ThreadInv
    <3> QED
      BY <2>1, <2>5, <2>v, <3>1, <3>2 DEF ThreadInv, SleeperInv, QueuedInv, PromiseInv, ReadyInv
  <2>6. ThreadInv(t, b2, a2, g)
    BY <2>1, <2>v DEF Searching, ThreadInv, SleeperInv, QueuedInv, PromiseInv, ReadyInv
  <2>7. NoRepeats(t) /\ Sorted(t)
    BY <1>2 DEF TookContext
  <2> QED
    BY <2>4, <2>5, <2>6, <2>7 DEF Holds3
<1>3. ASSUME LinedUp(s, g, t), b2 = b, a2 = [a EXCEPT ![g] = "queued"]
      PROVE  Holds3(t, b2, a2)
  <2>1. \A x \in Gids : a2[x] = IF x = g THEN "queued" ELSE a[x]
    BY <1>1, <1>3
  <2>v. /\ \A x \in Gids : /\ t.state[x] = IF x = g THEN "QUEUED" ELSE s.state[x]
                           /\ t.futexWord[x] = IF x = g THEN 1 ELSE s.futexWord[x]
        /\ ToSet(t.runQueue) = ToSet(s.runQueue) \cup {g}
        /\ ToSet(t.sleepQueue) = ToSet(s.sleepQueue) \ {g}
        /\ t.cid = s.cid /\ t.handoff = s.handoff /\ t.marked = s.marked
        /\ t.sleep = s.sleep /\ t.fakePc = s.fakePc /\ t.fakeLeaves = s.fakeLeaves
    BY <1>3 DEF LinedUp
  <2>4. ASSUME NEW x \in Gids, x # g PROVE ThreadInv(t, b2, a2, x)
    <3>2. SameFor(s, b, a, t, b2, a2, x)
      BY <1>3, <2>1, <2>4, <2>v DEF SameFor
    <3> QED
      BY <2>4, <3>2, Frame3
  <2>6. ThreadInv(t, b2, a2, g)
    BY <2>1, <2>v DEF Searching, ThreadInv, SleeperInv, QueuedInv, PromiseInv, ReadyInv
  <2>7. NoRepeats(t) /\ Sorted(t)
    BY <1>3 DEF LinedUp, Searching
  <2> QED
    BY <2>4, <2>6, <2>7 DEF Holds3
<1> QED
  BY <1>2, <1>3 DEF PlacedEffect

LEMMA HandoffKeeps3 ==
    ASSUME Holds1(sch, bar, at, wd), Holds3(sch, bar, at), NEW g \in Gids, Handoff(g)
    PROVE  Holds3(sch', bar', at')
<1>1. SchInv(sch) /\ PlaceInv(sch, at) /\ at \in [Gids -> Places] /\ None \notin Gids
  BY Constants DEF Holds1, RestInv
<1>2. at[g] = "handoff" /\ sch.state[g] = "RUNNING" /\ sch.fakePc[g] = None
  BY <1>1 DEF Handoff, PlaceInv, InSim
<1>3. PICK h, u : /\ h \in Gids /\ h = sch.handoff[g] /\ sch.state[h] = "QUEUED" /\ h \notin ToSet(sch.runQueue)
                  /\ Switched(sch, g, h, u)
                  /\ PlacedEffect(u, g, bar, at, sch', bar', at')
  BY <1>1, HandoffStep DEF HandoffEffect
<1>4. PICK a : a = [at EXCEPT ![g] = "ready"]
  OBVIOUS
<1>5. Holds1(u, bar, a, wd) /\ h # g
  BY <1>2, <1>3, <1>4, SwitchedKeeps1
<1>6. /\ [a EXCEPT ![g] = "joining"] = [at EXCEPT ![g] = "joining"]
      /\ [a EXCEPT ![g] = "queued"] = [at EXCEPT ![g] = "queued"]
      /\ \A x \in Gids : a[x] = IF x = g THEN "ready" ELSE at[x]
  BY <1>1, <1>4
<1>7. PlacedEffect(u, g, bar, a, sch', bar', at')
  BY <1>3, <1>6, Zenon DEF PlacedEffect
<1>8. \A x \in Gids : ThreadInv(sch, bar, at, x)
  BY DEF Holds3
<1>v. /\ \A x \in Gids :
           /\ u.state[x] = IF x = h THEN "RUNNING" ELSE IF x = g THEN "QUEUED" ELSE sch.state[x]
           /\ u.cid[x] = IF x = h THEN sch.cid[g] ELSE sch.cid[x]
           /\ u.futexWord[x] = IF x = h THEN 0 ELSE sch.futexWord[x]
           /\ u.handoff[x] = IF x = g THEN None ELSE sch.handoff[x]
      /\ ToSet(u.runQueue) = ToSet(sch.runQueue) /\ u.sleepQueue = sch.sleepQueue
      /\ u.marked = sch.marked /\ u.sleep = sch.sleep
      /\ u.fakePc = sch.fakePc /\ u.fakeLeaves = sch.fakeLeaves
      /\ NoRepeats(u) /\ Sorted(u)
  BY <1>3 DEF Switched, Holds3
<1>9. Searching(u, g)
  <2>1. g \notin ToSet(sch.runQueue)
    BY <1>1, <1>2 DEF SchInv, RunInv
  <2>2. ~ sch.marked[g] /\ sch.sleep[g] \in 0 .. MaxSleep
    BY <1>2, <1>8 DEF ThreadInv, SleeperInv
  <2> QED
    BY <1>2, <1>5, <1>v, <2>1, <2>2 DEF Searching
<1>10. ASSUME NEW x \in Gids, x # g, x # h PROVE ThreadInv(u, bar, a, x)
  <2>1. SameFor(sch, bar, at, u, bar, a, x)
    BY <1>3, <1>6, <1>10, <1>v DEF SameFor
  <2> QED
    BY <1>8, <2>1, Frame3
<1>11. ThreadInv(u, bar, a, h)
  <2>1. /\ at[h] = "queued" /\ sch.handoff[h] = None /\ ~ sch.marked[h] /\ sch.sleep[h] \in 0 .. MaxSleep
        /\ sch.fakePc[h] = None
    BY <1>1, <1>3, <1>8 DEF ThreadInv, QueuedInv, PromiseInv, SleeperInv, PlaceInv
  <2> QED
    BY <1>3, <1>5, <1>6, <1>v, <2>1 DEF ThreadInv, SleeperInv, QueuedInv, PromiseInv, ReadyInv
<1>12. \A x \in Gids : x # g => ThreadInv(u, bar, a, x)
  BY <1>10, <1>11
<1> QED
  BY <1>5, <1>7, <1>9, <1>12, <1>v, Placed3

LEMMA JoinKeeps3 ==
    ASSUME Holds1(sch, bar, at, wd), Holds3(sch, bar, at), NEW g \in Gids, Join(g)
    PROVE  Holds3(sch', bar', at')
<1>1. /\ SchInv(sch) /\ PlaceInv(sch, at) /\ at \in [Gids -> Places] /\ bar \in BarType
      /\ at[g] = "ready" /\ None \notin Gids
  BY Constants DEF Holds1, RestInv, Join
<1>2. \A x \in Gids : ThreadInv(sch, bar, at, x)
  BY DEF Holds3
<1>g. /\ sch.handoff[g] = None /\ ~ sch.marked[g] /\ sch.sleep[g] \in 0 .. MaxSleep
      /\ sch.state[g] \in {"STARTED", "RUNNING", "OUT", "BLOCKED"}
  BY <1>1, <1>2 DEF ThreadInv, PromiseInv, SleeperInv, ReadyInv
<1>3. CASE JoinAfterFakeLeave(g)
  <2>1. /\ sch' = FinishFakeLeave(sch, g) /\ bar' = bar /\ at' = [at EXCEPT ![g] = "sim"]
        /\ sch.fakePc[g] # None
    BY <1>3 DEF JoinAfterFakeLeave, Goto
  <2>2. {} \in SUBSET (Pids \X Pcs)
    OBVIOUS
  <2>3. Unfaked(sch, g, sch')
    BY <1>1, <2>1, <2>2, FinishFakeLeaveKeeps
  <2>4. \A x \in Gids : at'[x] = IF x = g THEN "sim" ELSE at[x]
    BY <1>1, <2>1
  <2>r. sch.state[g] = "RUNNING"
    BY <1>1, <2>1 DEF PlaceInv
  <2>5. ASSUME NEW x \in Gids, x # g PROVE ThreadInv(sch', bar', at', x)
    <3>1. SameFor(sch, bar, at, sch', bar', at', x)
      BY <2>1, <2>3, <2>4, <2>5 DEF SameFor, Unfaked, SameCore
    <3> QED
      BY <1>2, <3>1, Frame3
  <2>6. ThreadInv(sch', bar', at', g)
    BY <1>g, <2>3, <2>4, <2>r
       DEF Unfaked, SameCore, ThreadInv, SleeperInv, QueuedInv, PromiseInv, ReadyInv
  <2>7. NoRepeats(sch') /\ Sorted(sch')
    BY <2>3 DEF Unfaked, SameCore, Holds3, Sorted
  <2> QED
    BY <2>5, <2>6, <2>7 DEF Holds3
<1>4. CASE JoinFromOut(g)
  <2>1. /\ sch.state[g] = "OUT" /\ sch.fakePc[g] = None
        /\ sch' = [sch EXCEPT !.state[g] = "RUNNING", !.outQueue = Without(@, g)]
        /\ bar' = [bar EXCEPT ![sch.cid[g]] = "waiting"]
        /\ at' = [at EXCEPT ![g] = "joining"]
    BY <1>4 DEF JoinFromOut, Goto, BarJoin
  <2>3. Rejoined(sch, g, sch')
    BY <1>1, <2>1, RejoinKeeps
  <2>4. /\ \A x \in Gids : at'[x] = IF x = g THEN "joining" ELSE at[x]
        /\ \A d \in Cids : bar'[d] = IF d = sch.cid[g] THEN "waiting" ELSE bar[d]
        /\ \A x \in Gids : sch.cid[x] \in Cids
    BY <1>1, <2>1, OwnContext DEF BarType
  <2>5. ASSUME NEW x \in Gids, x # g PROVE ThreadInv(sch', bar', at', x)
    <3>1. SameFor(sch, bar, at, sch', bar', at', x)
      BY <2>3, <2>4, <2>5 DEF SameFor, Rejoined
    <3> QED
      BY <1>2, <3>1, Frame3
  <2>6. ThreadInv(sch', bar', at', g)
    BY <1>g, <2>1, <2>3, <2>4
       DEF Rejoined, ThreadInv, SleeperInv, QueuedInv, PromiseInv, ReadyInv
  <2>7. NoRepeats(sch') /\ Sorted(sch')
    BY <2>3 DEF Rejoined, Holds3, Sorted
  <2> QED
    BY <2>5, <2>6, <2>7 DEF Holds3
<1>5. CASE JoinElsewhere(g)
  <2>1. sch.state[g] \in {"STARTED", "BLOCKED"} /\ sch.fakePc[g] = None
    BY <1>5, <1>g DEF JoinElsewhere, JoinAllowed
  <2>2. PlacedEffect(sch, g, bar, at, sch', bar', at')
    BY <1>1, <1>5, JoinElsewhereStep
  <2>3. g \notin ToSet(sch.runQueue)
    BY <1>1, <2>1 DEF SchInv, RunInv
  <2>4. Searching(sch, g)
    BY <1>g, <2>1, <2>3 DEF Searching
  <2>5. NoRepeats(sch) /\ Sorted(sch)
    BY DEF Holds3
  <2> QED
    BY <1>2, <2>2, <2>4, <2>5, Placed3
<1> QED
  BY <1>3, <1>4, <1>5 DEF Join

LEMMA BarrierKeeps3 ==
    ASSUME Holds1(sch, bar, at, wd), Holds3(sch, bar, at), BarrierWake
    PROVE  Holds3(sch', bar', at')
<1>1. PICK c \in Cids : bar[c] = "waiting" /\ bar' = [bar EXCEPT ![c] = "running"]
  BY DEF BarrierWake, Barrier!Wake, Barrier!Move
<1>2. sch' = sch /\ at' = at /\ SchInv(sch) /\ bar \in BarType
  BY DEF BarrierWake, Holds1
<1>3. \A d \in Cids : bar'[d] = IF d = c THEN "running" ELSE bar[d]
  BY <1>1, <1>2 DEF BarType
<1>4. ASSUME NEW x \in Gids PROVE ThreadInv(sch', bar', at', x)
  <2>1. sch.cid[x] \in Cids
    BY <1>2, OwnContext
  <2>2. SameFor(sch, bar, at, sch', bar', at', x)
    BY <1>2, <1>3, <2>1 DEF SameFor
  <2> QED
    BY <2>2, Frame3 DEF Holds3
<1> QED
  BY <1>2, <1>4 DEF Holds3

\* The steps that only move one host thread, one of them into the barrier.
LEMMA MovesKeep3 ==
    ASSUME Features \subseteq {"finish"},
           Holds1(sch, bar, at, wd), Holds3(sch, bar, at), NEW g \in Gids,
           \/ SleepOver(g) \/ SleepInterrupted(g) \/ Sync(g) \/ BarrierReturn(g) \/ ContextReturn(g)
    PROVE  Holds3(sch', bar', at')
<1>1. /\ SchInv(sch) /\ PlaceInv(sch, at) /\ at \in [Gids -> Places] /\ bar \in BarType
      /\ \A x \in Gids : sch.cid[x] \in Cids
  BY OwnContext DEF Holds1, RestInv
<1>2. \A x \in Gids : ThreadInv(sch, bar, at, x)
  BY DEF Holds3
<1>s. sch' = sch
  BY DEF SleepOver, SleepInterrupted, Sync, BarrierReturn, ContextReturn
<1>3. ASSUME NEW p, at' = [at EXCEPT ![g] = p], ThreadInv(sch', bar', at', g),
             \A x \in Gids : x # g /\ sch.handoff[x] # None => bar'[sch.cid[x]] = bar[sch.cid[x]]
      PROVE  Holds3(sch', bar', at')
  <2>1. \A x \in Gids : at'[x] = IF x = g THEN p ELSE at[x]
    BY <1>1, <1>3
  <2>2. ASSUME NEW x \in Gids, x # g PROVE ThreadInv(sch', bar', at', x)
    <3>1. SameFor(sch, bar, at, sch', bar', at', x)
      BY <1>3, <1>s, <2>1, <2>2 DEF SameFor
    <3> QED
      BY <1>2, <3>1, Frame3
  <2> QED
    BY <1>3, <1>s, <2>2 DEF Holds3
<1>4. CASE SleepOver(g)
  <2>1. at[g] = "asleep" /\ sch.futexWord[g] = 0 /\ at' = [at EXCEPT ![g] = "ready"] /\ bar' = bar
    BY <1>4 DEF SleepOver, Goto
  <2>2. sch.state[g] = "BLOCKED" /\ sch.fakePc[g] = None /\ at'[g] = "ready"
    BY <1>1, <1>2, <2>1 DEF PlaceInv, ThreadInv, SleeperInv
  <2>3. ThreadInv(sch', bar', at', g)
    BY <1>2, <1>s, <2>1, <2>2 DEF ThreadInv, SleeperInv, QueuedInv, PromiseInv, ReadyInv
  <2> QED
    BY <1>3, <2>1, <2>3
<1>5. CASE Sync(g)
  <2>1. /\ at[g] = "sim" /\ at' = [at EXCEPT ![g] = "syncing"]
        /\ bar' = [bar EXCEPT ![sch.cid[g]] = "done"]
    BY <1>5 DEF Sync, Goto
  <2>2. sch.state[g] = "RUNNING" /\ sch.fakePc[g] = None /\ at'[g] = "syncing"
    BY <1>1, <2>1 DEF PlaceInv, InSim
  <2>3. ThreadInv(sch', bar', at', g)
    BY <1>2, <1>s, <2>1, <2>2 DEF ThreadInv, SleeperInv, QueuedInv, PromiseInv, ReadyInv
  <2>4. ASSUME NEW x \in Gids, x # g, sch.handoff[x] # None
        PROVE  bar'[sch.cid[x]] = bar[sch.cid[x]]
    <3>1. sch.state[x] = "RUNNING"
      BY <1>2, <2>4, HandsOver DEF ThreadInv
    <3>2. sch.cid[x] # sch.cid[g]
      BY <1>1, <2>2, <2>4, <3>1, OwnContext
    <3> QED
      BY <1>1, <2>1, <3>2 DEF BarType
  <2> QED
    BY <1>3, <2>1, <2>3, <2>4
<1>6. CASE BarrierReturn(g)
  <2>1. PICK p : p = IF at[g] = "syncing" /\ sch.handoff[g] # None THEN "handoff" ELSE "sim"
    OBVIOUS
  <2>2. at[g] \in {"joining", "syncing"} /\ at' = [at EXCEPT ![g] = p] /\ bar' = bar
    BY <1>6, <2>1 DEF BarrierReturn, Goto
  <2>3. sch.state[g] = "RUNNING" /\ sch.fakePc[g] = None /\ at'[g] = p
    BY <1>1, <2>2 DEF PlaceInv, InSim
  <2>4. ThreadInv(sch', bar', at', g)
    BY <1>2, <1>s, <2>1, <2>2, <2>3 DEF ThreadInv, SleeperInv, QueuedInv, PromiseInv, ReadyInv
  <2> QED
    BY <1>3, <2>2, <2>4
<1>7. CASE ContextReturn(g)
  <2>1. at[g] = "queued" /\ sch.futexWord[g] = 0 /\ at' = [at EXCEPT ![g] = "sim"] /\ bar' = bar
    BY <1>7 DEF ContextReturn, Goto
  <2>2. sch.state[g] = "RUNNING" /\ sch.fakePc[g] = None /\ at'[g] = "sim"
    BY <1>1, <2>1 DEF PlaceInv
  <2>3. ThreadInv(sch', bar', at', g)
    BY <1>2, <1>s, <2>1, <2>2 DEF ThreadInv, SleeperInv, QueuedInv, PromiseInv, ReadyInv
  <2> QED
    BY <1>3, <2>1, <2>3
<1>8. ~ SleepInterrupted(g)
  BY DEF SleepInterrupted
<1> QED
  BY <1>4, <1>5, <1>6, <1>7, <1>8

LEMMA LeavesKeep3 ==
    ASSUME Holds1(sch, bar, at, wd), Holds3(sch, bar, at), NEW g \in Gids,
           \/ \E p \in Pcs : SyscallLeave(g, p)
           \/ LeaveToSleep(g) \/ FinishLeave(g) \/ EnterFastForward(g)
    PROVE  Holds3(sch', bar', at')
<1>1. SchInv(sch) /\ PlaceInv(sch, at) /\ FakeInv(sch) /\ at \in [Gids -> Places] /\ None \notin Pcs
  BY Constants DEF Holds1, RestInv
<1>2. \A x \in Gids : ThreadInv(sch, bar, at, x)
  BY DEF Holds3
<1>3. /\ sch.state[g] = "RUNNING" /\ at[g] \in {"sim", "marked", "finishing"}
      /\ \/ at' = [at EXCEPT ![g] = "ready"] /\ at[g] # "marked"
         \/ at' = [at EXCEPT ![g] = "asleep"] /\ at[g] = "marked"
         \/ at' = [at EXCEPT ![g] = "finished"] /\ at[g] # "marked"
         \/ at' = [at EXCEPT ![g] = "leaving"] /\ at[g] # "marked"
  BY DEF SyscallLeave, LeaveToSleep, FinishLeave, EnterFastForward, LeaveAsserts, Goto
<1>4. /\ sch.fakePc[g] = None /\ sch.handoff[g] = None /\ (sch.marked[g] <=> at[g] = "marked")
      /\ sch.sleep[g] \in 0 .. MaxSleep
  BY <1>1, <1>2, <1>3 DEF PlaceInv, ThreadInv, PromiseInv, SleeperInv
<1>5. PICK p : /\ at' = [at EXCEPT ![g] = p]
               /\ \/ p \in {"ready", "finished", "leaving"} /\ ~ sch.marked[g]
                  \/ p = "asleep" /\ sch.marked[g]
  BY <1>3, <1>4
<1>6. CASE Leave(sch, g)
  <2>1. LeaveEffect(sch, g, bar, sch', bar')
    BY <1>1, <1>3, <1>6, LeaveStep
  <2>2. Holds3(sch', bar', [at EXCEPT ![g] = p])
    BY <1>3, <1>4, <1>5, <2>1, Leave3
  <2> QED
    BY <1>5, <2>2
<1>7. CASE ~ Leave(sch, g)
  <2>1. PICK q \in Pcs : /\ sch' = [sch EXCEPT !.fakePc[g] = q, !.fakeLeaves = Append(@, g)]
                         /\ bar' = bar /\ at' = [at EXCEPT ![g] = "ready"] /\ at[g] # "marked"
    BY <1>3, <1>7 DEF SyscallLeave, LeaveToSleep, FinishLeave, EnterFastForward, Goto
  <2>2. FakeLeft(sch, g, q, sch')
    BY <1>1, <2>1, FakeLeaveKeeps
  <2>3. \A x \in Gids : at'[x] = IF x = g THEN "ready" ELSE at[x]
    BY <1>1, <2>1
  <2>4. ASSUME NEW x \in Gids, x # g PROVE ThreadInv(sch', bar', at', x)
    <3>1. SameFor(sch, bar, at, sch', bar', at', x)
      BY <2>1, <2>2, <2>3, <2>4 DEF SameFor, FakeLeft, SameCore
    <3> QED
      BY <1>2, <3>1, Frame3
  <2>5. ThreadInv(sch', bar', at', g)
    BY <1>1, <1>3, <1>4, <2>1, <2>2, <2>3
       DEF FakeLeft, SameCore, ThreadInv, SleeperInv, QueuedInv, PromiseInv, ReadyInv
  <2>6. g \notin ToSet(sch.fakeLeaves)
    BY <1>1, <1>4 DEF FakeInv
  <2>7. NoRepeats(sch') /\ Sorted(sch')
    BY <2>2, <2>6 DEF FakeLeft, SameCore, Holds3, Sorted
  <2> QED
    BY <2>4, <2>5, <2>7 DEF Holds3
<1> QED
  BY <1>6, <1>7

LEMMA SleepKeeps3 ==
    ASSUME Holds1(sch, bar, at, wd), Holds3(sch, bar, at), NEW g \in Gids,
           Start(g) \/ MarkForSleep(g) \/ NotifySleepEnd(g)
    PROVE  Holds3(sch', bar', at')
<1>1. SchInv(sch) /\ PlaceInv(sch, at) /\ at \in [Gids -> Places]
  BY DEF Holds1, RestInv
<1>2. \A x \in Gids : ThreadInv(sch, bar, at, x)
  BY DEF Holds3
<1>3. bar' = bar
  BY DEF Start, MarkForSleep, NotifySleepEnd
<1>4. CASE Start(g)
  <2>1. /\ at[g] = "off" /\ at' = [at EXCEPT ![g] = "ready"]
        /\ sch' = [sch EXCEPT !.state[g] = "STARTED"]
    BY <1>4 DEF Start, Goto
  <2>2. sch.state[g] = "none" /\ sch.fakePc[g] = None
    BY <1>1, <2>1 DEF PlaceInv
  <2>3. Started(sch, g, sch')
    BY <1>1, <2>1, <2>2, StartKeeps
  <2>4. \A x \in Gids : at'[x] = IF x = g THEN "ready" ELSE at[x]
    BY <1>1, <2>1
  <2>5. ASSUME NEW x \in Gids, x # g PROVE ThreadInv(sch', bar', at', x)
    <3>1. SameFor(sch, bar, at, sch', bar', at', x)
      BY <1>3, <2>3, <2>4, <2>5 DEF SameFor, Started
    <3> QED
      BY <1>2, <3>1, Frame3
  <2>6. ThreadInv(sch', bar', at', g)
    BY <1>2, <2>1, <2>2, <2>3, <2>4
       DEF Started, ThreadInv, SleeperInv, QueuedInv, PromiseInv, ReadyInv
  <2>7. NoRepeats(sch') /\ Sorted(sch')
    BY <2>3 DEF Started, Holds3, Sorted, NoRepeats
  <2> QED
    BY <2>5, <2>6, <2>7 DEF Holds3
<1>5. CASE MarkForSleep(g)
  <2>0. MaxSleep \in Int
    BY SchedulerAssumption
  <2>1. PICK n \in 1 .. MaxSleep :
          sch' = [sch EXCEPT !.marked[g] = TRUE, !.sleep[g] = n, !.futexWord[g] = 1]
    BY <1>5 DEF MarkForSleep
  <2>n. n \in Int /\ n > 0 /\ n \in 0 .. MaxSleep
    BY <2>0
  <2>2. at[g] = "sim" /\ at' = [at EXCEPT ![g] = "marked"]
    BY <1>5 DEF MarkForSleep, Goto
  <2>3. sch.state[g] = "RUNNING" /\ sch.fakePc[g] = None
    BY <1>1, <2>2 DEF PlaceInv, InSim
  <2>4. MarkedFor(sch, g, n, sch')
    BY <1>1, <2>n, <2>1, <2>3, MarkKeeps
  <2>5. \A x \in Gids : at'[x] = IF x = g THEN "marked" ELSE at[x]
    BY <1>1, <2>2
  <2>m. sch'.marked[g] /\ \A x \in Gids : x # g => (sch'.marked[x] <=> sch.marked[x])
    BY <2>4, Zenon DEF MarkedFor
  <2>v. /\ SameCore(sch, sch') /\ sch'.fakePc = sch.fakePc /\ sch'.fakeLeaves = sch.fakeLeaves
        /\ \A x \in Gids : /\ sch'.sleep[x] = IF x = g THEN n ELSE sch.sleep[x]
                           /\ sch'.futexWord[x] = IF x = g THEN 1 ELSE sch.futexWord[x]
        /\ NoRepeats(sch') /\ Sorted(sch')
    BY <2>4 DEF MarkedFor, Holds3
  <2>6. ASSUME NEW x \in Gids, x # g PROVE ThreadInv(sch', bar', at', x)
    <3>1. SameFor(sch, bar, at, sch', bar', at', x)
      BY <1>3, <2>5, <2>6, <2>m, <2>v DEF SameFor, SameCore
    <3> QED
      BY <1>2, <3>1, Frame3
  <2>7. ThreadInv(sch', bar', at', g)
    BY <1>2, <2>n, <2>2, <2>3, <2>5, <2>m, <2>v
       DEF SameCore, ThreadInv, SleeperInv, QueuedInv, PromiseInv, ReadyInv
  <2> QED
    BY <2>6, <2>7, <2>v DEF Holds3
<1>6. CASE NotifySleepEnd(g)
  <2>1. at[g] = "asleep" /\ at' = [at EXCEPT ![g] = "ready"] /\ sch' = AwakenEarly(sch, g)
    BY <1>6 DEF NotifySleepEnd, Goto
  <2>2. sch.state[g] \in {"SLEEPING", "BLOCKED"} /\ sch.fakePc[g] = None
    BY <1>1, <2>1 DEF PlaceInv
  <2>3. Awakened(sch, g, sch')
    BY <1>1, <2>1, <2>2, AwakenEarlyKeeps
  <2>4. \A x \in Gids : at'[x] = IF x = g THEN "ready" ELSE at[x]
    BY <1>1, <2>1
  <2>5. ASSUME NEW x \in Gids, x # g PROVE ThreadInv(sch', bar', at', x)
    <3>1. SameFor(sch, bar, at, sch', bar', at', x)
      BY <1>3, <2>3, <2>4, <2>5 DEF SameFor, Awakened
    <3> QED
      BY <1>2, <3>1, Frame3
  <2>6. ThreadInv(sch', bar', at', g)
    BY <1>2, <2>1, <2>2, <2>3, <2>4
       DEF Awakened, ThreadInv, SleeperInv, QueuedInv, PromiseInv, ReadyInv
  <2>7. NoRepeats(sch') /\ Sorted(sch')
    BY <2>3 DEF Awakened, Holds3
  <2> QED
    BY <2>5, <2>6, <2>7 DEF Holds3
<1> QED
  BY <1>4, <1>5, <1>6

LEMMA FinishKeeps3 ==
    ASSUME Holds1(sch, bar, at, wd), Holds3(sch, bar, at), NEW g \in Gids, Finish(g)
    PROVE  Holds3(sch', bar', at')
<1>1. SchInv(sch) /\ PlaceInv(sch, at) /\ at \in [Gids -> Places]
  BY DEF Holds1, RestInv
<1>2. \A x \in Gids : ThreadInv(sch, bar, at, x)
  BY DEF Holds3
<1>3. PICK from : from \in {"ready", "leaving"} /\ FinishStart(g, from)
  BY DEF Finish
<1>4. PICK p : p = IF sch.state[g] = "RUNNING" THEN "finishing" ELSE "finished"
  OBVIOUS
<1>5. at[g] \in {"ready", "leaving"} /\ at' = [at EXCEPT ![g] = p] /\ bar' = bar
  BY <1>3, <1>4 DEF FinishStart, Goto
<1>6. FinishEffect(sch, g, from, sch')
  BY <1>1, <1>3, FinishStep
<1>7. \/ sch' = sch /\ sch.fakePc[g] = None
      \/ sch.fakePc[g] # None /\ Unfaked(sch, g, sch')
  <2>1. PICK u : /\ \/ u = sch
                    \/ from = "dead"
                 /\ \/ sch' = u /\ u.fakePc[g] = None
                    \/ u.fakePc[g] # None /\ Unfaked(u, g, sch')
    BY <1>6 DEF FinishEffect
  <2> QED
    BY <1>3, <2>1
<1>8. /\ SameCore(sch, sch') /\ sch'.futexWord = sch.futexWord /\ sch'.marked = sch.marked
      /\ sch'.sleep = sch.sleep /\ sch'.fakePc[g] = None
      /\ \A x \in Gids : x # g => /\ sch'.fakePc[x] = sch.fakePc[x]
                                  /\ x \in ToSet(sch.fakeLeaves) => x \in ToSet(sch'.fakeLeaves)
      /\ NoRepeats(sch')
  BY <1>7 DEF SameCore, Unfaked, Holds3
<1>9. \A x \in Gids : at'[x] = IF x = g THEN p ELSE at[x]
  BY <1>1, <1>5
<1>10. ASSUME NEW x \in Gids, x # g PROVE ThreadInv(sch', bar', at', x)
  <2>1. SameFor(sch, bar, at, sch', bar', at', x)
    BY <1>5, <1>8, <1>9, <1>10 DEF SameFor, SameCore
  <2> QED
    BY <1>2, <2>1, Frame3
<1>11. ThreadInv(sch', bar', at', g)
  BY <1>2, <1>4, <1>5, <1>8, <1>9
     DEF SameCore, ThreadInv, SleeperInv, QueuedInv, PromiseInv, ReadyInv
<1>12. Sorted(sch')
  BY <1>8 DEF SameCore, Holds3, Sorted
<1> QED
  BY <1>8, <1>10, <1>11, <1>12 DEF Holds3

LEMMA FinishEndKeeps3 ==
    ASSUME Holds1(sch, bar, at, wd), Holds3(sch, bar, at), NEW g \in Gids, FinishEnd(g)
    PROVE  Holds3(sch', bar', at')
<1>1. /\ SchInv(sch) /\ PlaceInv(sch, at) /\ at \in [Gids -> Places] /\ None \notin Gids
      /\ \A x \in Gids : sch.cid[x] \in Cids
  BY Constants, OwnContext DEF Holds1, RestInv
<1>2. \A x \in Gids : ThreadInv(sch, bar, at, x)
  BY DEF Holds3
<1>3. PICK u : u = Detach(sch, g)
  OBVIOUS
<1>4. /\ at[g] = "finished" /\ at' = [at EXCEPT ![g] = "off"] /\ bar' = bar
      /\ sch' = [u EXCEPT !.state[g] = "none", !.cid[g] = 0, !.handoff[g] = None,
                          !.futexWord[g] = 0, !.sleep[g] = 0, !.marked[g] = FALSE]
      /\ \/ sch.state[g] \in {"STARTED", "OUT", "BLOCKED"}
         \/ sch.state[g] = "QUEUED" /\ g \in ToSet(sch.runQueue)
  BY <1>3 DEF FinishEnd, Goto, Detach, FinishAsserts
<1>5. Removed(sch, g, sch')
  BY <1>1, <1>3, <1>4, RemoveKeeps
<1>6. \A x \in Gids : at'[x] = IF x = g THEN "off" ELSE at[x]
  BY <1>1, <1>4
<1>m. ~ sch'.marked[g] /\ \A x \in Gids : x # g => (sch'.marked[x] <=> sch.marked[x])
  BY <1>5, Zenon DEF Removed
<1>7. /\ sch'.fakePc = sch.fakePc /\ sch'.fakeLeaves = sch.fakeLeaves /\ sch'.sleepQueue = sch.sleepQueue
      /\ ToSet(sch'.runQueue) = ToSet(sch.runQueue) \ {g}
      /\ NoRepeats(sch') /\ Sorted(sch')
      /\ \A x \in Gids : /\ sch'.state[x] = IF x = g THEN "none" ELSE sch.state[x]
                         /\ sch'.cid[x] = IF x = g THEN 0 ELSE sch.cid[x]
                         /\ sch'.handoff[x] = IF x = g THEN None ELSE sch.handoff[x]
                         /\ sch'.futexWord[x] = IF x = g THEN 0 ELSE sch.futexWord[x]
                         /\ sch'.sleep[x] = IF x = g THEN 0 ELSE sch.sleep[x]
  BY <1>5 DEF Removed, Holds3
<1>8. sch.handoff[g] = None /\ sch.fakePc[g] = None
  BY <1>1, <1>2, <1>4 DEF ThreadInv, PromiseInv, PlaceInv
<1>9. ASSUME NEW x \in Gids, x # g PROVE ThreadInv(sch', bar', at', x)
  <2>1. SameFor(sch, bar, at, sch', bar', at', x)
    BY <1>1, <1>4, <1>6, <1>7, <1>8, <1>9, <1>m DEF SameFor
  <2> QED
    BY <1>2, <2>1, Frame3
<1>10. ThreadInv(sch', bar', at', g)
  <2>1. MaxSleep \in Nat
    BY SchedulerAssumption
  <2>2. sch'.sleep[g] \in 0 .. MaxSleep
    BY <1>7, <2>1
  <2> QED
    BY <1>6, <1>7, <1>8, <1>m, <2>2 DEF ThreadInv, SleeperInv, QueuedInv, PromiseInv, ReadyInv
<1> QED
  BY <1>7, <1>9, <1>10 DEF Holds3

\* Nobody holds a promise and nobody is on its way to sleep.
Still(s) == \A x \in Gids : s.handoff[x] = None /\ ~ s.marked[x]

LEMMA Passed3 ==
    ASSUME NEW s, NEW b, NEW a, Holds3(s, b, a), SchInv(s), Still(s), NEW t, Passed(s, t), NEW b2
    PROVE  Holds3(t, b2, a) /\ Still(t)
<1>0. MaxSleep \in Int
  BY SchedulerAssumption
<1>1. \A x \in Gids : ThreadInv(s, b, a, x)
  BY DEF Holds3
<1>2. \A x \in ToSet(s.sleepQueue) : s.state[x] = "SLEEPING"
  BY DEF SchInv, SleepInv
<1>3. NoRepeats(t) /\ Sorted(t)
  BY DEF Passed, Holds3
<1>4. t.handoff = s.handoff /\ t.marked = s.marked /\ t.runQueue = s.runQueue /\ t.fakePc = s.fakePc
      /\ t.fakeLeaves = s.fakeLeaves
  BY DEF Passed
<1>5. ASSUME NEW x \in Gids PROVE ThreadInv(t, b2, a, x)
  <2>s. s.sleep[x] \in 0 .. MaxSleep
    BY <1>1 DEF ThreadInv, SleeperInv
  <2>m. ~ s.marked[x] /\ s.handoff[x] = None
    BY DEF Still
  <2>1. CASE x \in ToSet(s.sleepQueue)
    <3>1. s.state[x] = "SLEEPING" /\ s.sleep[x] > 0 /\ s.futexWord[x] = 1 /\ a[x] = "asleep"
      BY <1>1, <1>2, <2>1 DEF ThreadInv, SleeperInv
    <3>2. /\ t.sleep[x] = s.sleep[x] - 1
          /\ t.state[x] = IF t.sleep[x] <= 0 THEN "BLOCKED" ELSE s.state[x]
          /\ t.futexWord[x] = IF t.sleep[x] <= 0 THEN 0 ELSE s.futexWord[x]
          /\ ~ (t.sleep[x] <= 0) => x \in ToSet(t.sleepQueue)
      BY <2>1 DEF Passed
    <3>3. t.sleep[x] \in 0 .. MaxSleep
      BY <1>0, <2>s, <3>1, <3>2
    <3>4. /\ t.state[x] \in {"BLOCKED", "SLEEPING"}
          /\ t.state[x] = "SLEEPING" => t.sleep[x] > 0 /\ t.futexWord[x] = 1 /\ x \in ToSet(t.sleepQueue)
      BY <1>0, <3>1, <3>2, <3>3
    <3>5. SleeperInv(t, a, x)
      BY <1>4, <2>m, <3>1, <3>3, <3>4 DEF SleeperInv
    <3>6. QueuedInv(t, a, x) /\ PromiseInv(t, b2, a, x)
      BY <1>4, <2>m, <3>4 DEF QueuedInv, PromiseInv
    <3>7. ReadyInv(t, a, x)
      BY <1>1, <1>4, <3>1 DEF ThreadInv, ReadyInv
    <3> QED
      BY <3>5, <3>6, <3>7 DEF ThreadInv
  <2>2. CASE x \notin ToSet(s.sleepQueue)
    <3>1. t.sleep[x] = s.sleep[x] /\ t.state[x] = s.state[x] /\ t.futexWord[x] = s.futexWord[x]
      BY <2>m, <2>2 DEF Passed
    <3>2. s.state[x] # "SLEEPING"
      BY <1>1, <2>2 DEF ThreadInv, SleeperInv
    <3> QED
      BY <1>1, <1>4, <2>m, <3>1, <3>2 DEF ThreadInv, SleeperInv, QueuedInv, PromiseInv, ReadyInv
  <2> QED
    BY <2>1, <2>2
<1> QED
  BY <1>3, <1>4, <1>5 DEF Holds3, Still

\* schedTick promises contexts of threads that wait for the next phase.
LEMMA Ticked3 ==
    ASSUME NEW s, NEW b, NEW a, Holds3(s, b, a), SchInv(s), Still(s),
           \A x \in Gids : s.state[x] = "RUNNING" => a[x] = "syncing" /\ b[s.cid[x]] = "waiting",
           NEW f \in Ticks(s), NEW t, Ticked(s, f, t)
    PROVE  Holds3(t, b, a)
<1>1. /\ \A x \in Gids : ThreadInv(s, b, a, x)
      /\ None \notin Gids /\ s.runQueue \in Seq(Gids)
  BY Constants, FieldTypes DEF Holds3, SchInv
<1>2. NoRepeats(t) /\ Sorted(t)
  BY DEF Ticked, Holds3, Sorted
<1>3. ASSUME NEW h \in ToSet(s.runQueue), f[h] # None
      PROVE  s.state[s.curThread[f[h]]] = "RUNNING"
  <2>1. PICK i \in 1 .. Len(s.runQueue) : s.runQueue[i] = h
    BY <1>1 DEF ToSet
  <2>2. f[h] \in Mask[h]
    BY <1>3, <2>1 DEF Ticks
  <2> QED
    BY <2>2 DEF SchInv, RunInv
<1>4. /\ t.state = s.state /\ t.cid = s.cid /\ t.futexWord = s.futexWord /\ t.sleepQueue = s.sleepQueue
      /\ t.marked = s.marked /\ t.sleep = s.sleep /\ t.fakePc = s.fakePc /\ t.fakeLeaves = s.fakeLeaves
  BY DEF Ticked
<1>5. ASSUME NEW x \in Gids PROVE ThreadInv(t, b, a, x)
  <2>0. SleeperInv(s, a, x) /\ QueuedInv(s, a, x) /\ ReadyInv(s, a, x) /\ s.handoff[x] = None
    BY <1>1 DEF ThreadInv, Still
  <2>1. SleeperInv(t, a, x) /\ ReadyInv(t, a, x)
    BY <1>4, <2>0 DEF SleeperInv, ReadyInv
  <2>2. PromiseInv(t, b, a, x)
    <3>1. t.handoff[x] # None => s.state[x] = "RUNNING"
      BY <1>3, <2>0 DEF Ticked
    <3> QED
      BY <1>4, <3>1 DEF PromiseInv
  <2>3. QueuedInv(t, a, x)
    <3> SUFFICES ASSUME s.state[x] = "QUEUED"
                 PROVE  x \in ToSet(t.runQueue) \/ \E h \in Gids : t.handoff[h] = x
      BY <1>4, <2>0 DEF QueuedInv
    <3>1. x \in ToSet(s.runQueue)
      BY <1>1, <2>0 DEF QueuedInv, Still
    <3> QED
      BY <3>1 DEF Ticked
  <2> QED
    BY <2>1, <2>2, <2>3 DEF ThreadInv
<1> QED
  BY <1>2, <1>5 DEF Holds3

LEMMA PhaseKeeps3 ==
    ASSUME Holds1(sch, bar, at, wd), Holds2(sch, bar, at), Holds3(sch, bar, at), EndOfPhase
    PROVE  Holds3(sch', bar', at')
<1>1. /\ SchInv(sch) /\ PlaceInv(sch, at) /\ bar \in BarType /\ at' = at /\ Callback
      /\ None \notin Gids
  BY Constants DEF Holds1, RestInv, EndOfPhase
<1>2. /\ \A c \in Cids : bar'[c] = IF bar[c] = "done" THEN "waiting" ELSE bar[c]
      /\ \A c \in Cids : bar[c] \in {"out", "done"}
  BY <1>1 DEF EndOfPhase, Barrier!EndPhase, Barrier!In, BarType
<1>3. \A x \in Gids : ThreadInv(sch, bar, at, x) /\ sch.cid[x] \in Cids
  BY <1>1, OwnContext DEF Holds3
<1>4. ASSUME NEW x \in Gids, sch.state[x] = "RUNNING"
      PROVE  at[x] = "syncing" /\ bar[sch.cid[x]] = "done"
  <2>1. sch.cid[x] \in Cids /\ sch.curThread[sch.cid[x]] = x
    BY <1>1, <1>4, OwnContext
  <2>2. bar[sch.cid[x]] # "out"
    BY <1>1, <1>4, <2>1 DEF Holds2, BarInv
  <2>3. at[x] \in {"joining", "syncing"}
    BY <1>2, <1>4, <2>1 DEF Holds2, RunningInv
  <2> QED
    BY <1>2, <2>1, <2>2, <2>3 DEF Holds2, JoiningInv
<1>5. Still(sch)
  <2> SUFFICES ASSUME NEW x \in Gids PROVE sch.handoff[x] = None /\ ~ sch.marked[x]
    BY DEF Still
  <2>1. sch.handoff[x] = None
    <3> SUFFICES ASSUME sch.handoff[x] # None PROVE FALSE
      OBVIOUS
    <3>1. PromiseInv(sch, bar, at, x)
      BY <1>3 DEF ThreadInv
    <3>2. sch.state[x] = "RUNNING"
      BY <3>1, HandsOver
    <3> QED
      BY <1>4, <3>1, <3>2 DEF PromiseInv
  <2>2. ~ sch.marked[x]
    BY <1>1, <1>3, <1>4 DEF ThreadInv, SleeperInv, PlaceInv, InSim
  <2> QED
    BY <2>1, <2>2
<1>6. CallbackEffect(sch, sch')
  BY <1>1, CallbackStep
<1>7. CASE Passed(sch, sch')
  BY <1>1, <1>5, <1>7, Passed3
<1>8. CASE \E u : \E f \in Ticks(u) : Passed(sch, u) /\ u.runQueue # <<>> /\ Ticked(u, f, sch')
  <2>1. PICK u : \E f \in Ticks(u) : Passed(sch, u) /\ Ticked(u, f, sch')
    BY <1>8
  <2>2. PICK f \in Ticks(u) : Passed(sch, u) /\ Ticked(u, f, sch')
    BY <2>1
  <2>3. Holds3(u, bar', at) /\ Still(u)
    BY <1>1, <1>5, <2>2, Passed3
  <2>4. SchInv(u) /\ CallbackEffect(sch, u)
    BY <2>2 DEF Passed, CallbackEffect
  <2>5. u.cid = sch.cid /\ \A x \in Gids : u.state[x] = "RUNNING" <=> sch.state[x] = "RUNNING"
    BY <1>1, <2>4, CallbackQuiet
  <2>6. \A x \in Gids : u.state[x] = "RUNNING" => at[x] = "syncing" /\ bar'[u.cid[x]] = "waiting"
    BY <1>2, <1>3, <1>4, <2>5
  <2> QED
    BY <1>1, <2>2, <2>3, <2>4, <2>6, Ticked3
<1> QED
  BY <1>6, <1>7, <1>8 DEF CallbackEffect

\* When as many threads are scheduled as are OUT, no thread is RUNNING.
LEMMA NobodyRuns ==
    ASSUME SchInv(sch), IsInjective(sch.outQueue), AllScheduledAreOut
    PROVE  \A g \in Gids : sch.state[g] # "RUNNING"
<1> DEFINE C == {c \in Cids : sch.curThread[c] # None}
           q == sch.outQueue
           n == Len(q)
           F == [i \in 1 .. n |-> sch.cid[q[i]]]
<1>1. None \notin Gids /\ q \in Seq(Gids) /\ n \in Nat /\ DOMAIN q = 1 .. n
  BY Constants, FieldTypes DEF SchInv
<1>2. IsFiniteSet(C) /\ Cardinality(C) = n
  <2>1. NumCores \in Nat
    BY SchedulerAssumption
  <2>2. 0 \in Int /\ NumCores - 1 \in Int
    BY <2>1
  <2>3. IsFiniteSet(Cids)
    BY <2>2, FS_Interval DEF Cids
  <2> QED
    BY <2>3, FS_Subset DEF AllScheduledAreOut
<1>3. ASSUME NEW x \in Gids, sch.state[x] \in {"RUNNING", "OUT"}
      PROVE  sch.cid[x] \in C /\ sch.curThread[sch.cid[x]] = x
  BY <1>1, <1>3, OwnContext DEF SchInv, CtxInv
<1>4. \A i \in 1 .. n : q[i] \in Gids /\ sch.state[q[i]] = "OUT"
  BY <1>1 DEF SchInv, OutInv, ToSet
<1> HIDE DEF C, q, n
<1>5. F \in Injection(1 .. n, C)
  <2>1. F \in [1 .. n -> C]
    BY <1>3, <1>4
  <2>2. \A i, j \in 1 .. n : F[i] = F[j] => i = j
    <3> SUFFICES ASSUME NEW i \in 1 .. n, NEW j \in 1 .. n, sch.cid[q[i]] = sch.cid[q[j]]
                 PROVE  i = j
      OBVIOUS
    <3>1. q[i] = q[j]
      BY <1>3, <1>4
    <3> QED
      BY <1>1, <3>1 DEF IsInjective, q
  <2> QED
    BY <2>1, <2>2 DEF Injection, IsInjective
<1>6. F \in Surjection(1 .. n, C)
  <2>1. IsFiniteSet(1 .. n) /\ Cardinality(1 .. n) = n
    BY <1>1, FS_Interval
  <2> HIDE DEF F
  <2> QED
    BY <1>2, <1>5, <2>1, FS_Injection
<1>7. ASSUME NEW g \in Gids, sch.state[g] = "RUNNING" PROVE FALSE
  <2>1. sch.cid[g] \in C /\ sch.curThread[sch.cid[g]] = g
    BY <1>3, <1>7
  <2>2. \E i \in 1 .. n : F[i] = sch.cid[g]
    <3> HIDE DEF F
    <3> QED
      BY <1>6, <2>1 DEF Surjection
  <2>3. PICK i \in 1 .. n : sch.cid[q[i]] = sch.cid[g]
    BY <2>2
  <2> QED
    BY <1>3, <1>4, <1>7, <2>1, <2>3
<1> QED
  BY <1>7

\* The watchdog drives time only while nobody runs: no quantum can end then,
\* because the run queue is empty, and no thread is on its way to sleep.
LEMMA DriveKeeps3 ==
    ASSUME Holds1(sch, bar, at, wd), Holds3(sch, bar, at), DriveTime
    PROVE  Holds3(sch', bar', at')
<1>1. /\ SchInv(sch) /\ PlaceInv(sch, at) /\ at' = at /\ bar' = bar /\ Callback /\ AllScheduledAreOut
      /\ None \notin Gids /\ sch.curThread \in [Cids -> Gids \cup {None}] /\ sch.runQueue \in Seq(Gids)
  BY Constants, FieldTypes DEF Holds1, RestInv, DriveTime, SchInv
<1>2. \A x \in Gids : sch.state[x] # "RUNNING"
  BY <1>1, NobodyRuns DEF Holds3, NoRepeats
<1>3. Still(sch)
  <2> SUFFICES ASSUME NEW x \in Gids PROVE sch.handoff[x] = None /\ ~ sch.marked[x]
    BY DEF Still
  <2>1. ThreadInv(sch, bar, at, x)
    BY DEF Holds3
  <2>2. sch.handoff[x] = None
    BY <1>2, <2>1, HandsOver DEF ThreadInv
  <2>3. ~ sch.marked[x]
    BY <1>1, <1>2, <2>1 DEF ThreadInv, SleeperInv, PlaceInv, InSim
  <2> QED
    BY <2>2, <2>3
<1>4. sch.runQueue = <<>>
  <2> SUFFICES ASSUME sch.runQueue # <<>> PROVE FALSE
    OBVIOUS
  <2>1. PICK g \in Gids : g \in ToSet(sch.runQueue)
    <3>1. 1 \in DOMAIN sch.runQueue /\ sch.runQueue[1] \in Gids
      BY <1>1
    <3> QED
      BY <3>1 DEF ToSet
  <2>2. PICK c \in Cids : c \in Mask[g]
    BY SchedulerAssumption
  <2>3. sch.curThread[c] # None /\ sch.state[sch.curThread[c]] = "RUNNING"
    BY <1>1, <2>1, <2>2 DEF SchInv, RunInv
  <2> QED
    BY <1>1, <1>2, <2>2, <2>3
<1>5. CallbackEffect(sch, sch')
  BY <1>1, CallbackStep
<1>6. Passed(sch, sch')
  BY <1>4, <1>5 DEF CallbackEffect, Passed
<1> QED
  BY <1>1, <1>3, <1>6, Passed3

LEMMA Init3 == SchedInit => Holds3(sch, bar, at)
<1> SUFFICES ASSUME SchedInit PROVE Holds3(sch, bar, at)
  OBVIOUS
<1>0. MaxSleep \in Nat /\ 0 \in 0 .. MaxSleep
  BY SchedulerAssumption
<1>1. /\ sch.runQueue = <<>> /\ sch.outQueue = <<>> /\ sch.sleepQueue = <<>> /\ sch.fakeLeaves = <<>>
      /\ \A g \in Gids : /\ sch.state[g] = "none" /\ sch.handoff[g] = None /\ sch.fakePc[g] = None
                         /\ sch.sleep[g] = 0 /\ at[g] = "off"
  BY DEF SchedInit
<1>2. \A g \in Gids : ~ sch.marked[g]
  BY DEF SchedInit
<1>3. NoRepeats(sch) /\ Sorted(sch)
  BY <1>1 DEF NoRepeats, Sorted, IsInjective
<1>4. ASSUME NEW g \in Gids PROVE ThreadInv(sch, bar, at, g)
  BY <1>0, <1>1, <1>2 DEF ThreadInv, SleeperInv, QueuedInv, PromiseInv, ReadyInv
<1> QED
  BY <1>3, <1>4 DEF Holds3

LEMMA Next3 ==
    ASSUME Features \subseteq {"finish"},
           Holds1(sch, bar, at, wd), Holds2(sch, bar, at), Holds3(sch, bar, at),
           [SchedNext]_schedVars
    PROVE  Holds3(sch', bar', at')
<1>f. "stall" \notin Features /\ "kill" \notin Features
  OBVIOUS
<1>1. CASE UNCHANGED schedVars
  BY <1>1 DEF schedVars
<1>2. CASE BarrierStep
  BY <1>2, BarrierKeeps3, PhaseKeeps3 DEF BarrierStep
<1>3. CASE Watchdog
  <2>1. wd.pc \notin {"leave", "next"}
    BY <1>f DEF Holds1, RestInv, WdInv
  <2>2. DriveTime
    BY <1>3, <1>f, <2>1 DEF Watchdog, StallDetected, WatchdogLeave, WatchdogNext
  <2> QED
    BY <2>2, DriveKeeps3
<1>4. ASSUME NEW g \in Gids, Join(g) \/ Handoff(g)
      PROVE  Holds3(sch', bar', at')
  BY <1>4, JoinKeeps3, HandoffKeeps3
<1>5. ASSUME NEW g \in Gids, Sync(g) \/ SleepInterrupted(g) \/ Resume(g)
      PROVE  Holds3(sch', bar', at')
  BY <1>5, MovesKeep3 DEF Resume
<1>6. ASSUME NEW g \in Gids,
             \/ \E p \in Pcs : SyscallLeave(g, p)
             \/ LeaveToSleep(g) \/ FinishLeave(g) \/ EnterFastForward(g)
      PROVE  Holds3(sch', bar', at')
  BY <1>6, LeavesKeep3
<1>7. ASSUME NEW g \in Gids, Start(g) \/ MarkForSleep(g) \/ NotifySleepEnd(g)
      PROVE  Holds3(sch', bar', at')
  BY <1>7, SleepKeeps3
<1>8. ASSUME NEW g \in Gids, Finish(g) \/ FinishEnd(g)
      PROVE  Holds3(sch', bar', at')
  BY <1>8, FinishKeeps3, FinishEndKeeps3
<1>9. ASSUME NEW g \in Gids PROVE ~ Cleanup(g)
  <2>1. at[g] # "dead"
    BY DEF Holds3, ThreadInv, ReadyInv
  <2> QED
    BY <2>1 DEF Cleanup, FinishStart
<1>10. \A g \in Gids : ~ Kill(Pid[g])
  BY <1>f DEF Kill
<1> QED
  BY <1>1, <1>2, <1>3, <1>4, <1>5, <1>6, <1>7, <1>8, <1>9, <1>10 DEF SchedNext

\* Every handler keeps every thread in the queue its state names.
THEOREM QueueInvariance ==
    ASSUME Features \subseteq {"finish"}
    PROVE  SchedSpec => [](Inv1 /\ Inv2 /\ Inv3)
<1>0. Disciplined /\ "kill" \notin Features
  BY DEF Disciplined
<1>1. SchedSpec => [](Inv1 /\ Inv2)
  BY <1>0, BarrierInvariance
<1>2. SchedInit => Inv3
  BY Init3 DEF Inv3, Holds3
<1>3. Inv1 /\ Inv2 /\ Inv3 /\ [SchedNext]_schedVars => Inv3'
  <2> SUFFICES ASSUME Inv1, Inv2, Inv3, [SchedNext]_schedVars PROVE Inv3'
    OBVIOUS
  <2>1. Holds1(sch, bar, at, wd) /\ Holds2(sch, bar, at) /\ Holds3(sch, bar, at)
    BY DEF Inv1, Inv2, Inv3, Holds1, Holds2, Holds3, BarType
  <2>2. Holds3(sch', bar', at')
    BY <2>1, Next3
  <2> QED
    BY <2>2 DEF Inv3, Holds3
<1> QED
  BY <1>1, <1>2, <1>3, PTL DEF SchedSpec

\* Every thread is in the queue its state names, once; a QUEUED thread that has
\* left the run queue is promised a context by exactly one thread that will hand
\* it over; the sleep queue is ordered and callback wakes each sleeper in the
\* very phase it asked for, also when the watchdog drives time forward.
THEOREM QueuesAlwaysAgree ==
    ASSUME Features \subseteq {"finish"}
    PROVE  SchedSpec => []QueuesAgree
<1>1. Inv1 /\ Inv2 /\ Inv3 => QueuesAgree
  <2> SUFFICES ASSUME Inv1, Inv3 PROVE QueuesAgree
    OBVIOUS
  <2>1. /\ SchInv(sch) /\ sch \in SchType /\ wd \in WdType /\ FakeInv(sch) /\ None \notin Gids
        /\ bar \in [Cids -> {"out", "waiting", "running", "done"}] /\ at \in [Gids -> Places]
    BY Constants DEF Inv1, RestInv, WdInv, SchInv
  <2>2. \A x \in Gids : ThreadInv(sch, bar, at, x)
    BY DEF Inv3
  <2>3. \A x \in Gids : sch.sleep[x] \in 0 .. MaxSleep
    BY <2>2 DEF ThreadInv, SleeperInv
  <2>t. /\ sch.sleep \in [Gids -> Int] /\ sch.handoff \in [Gids -> Gids \cup {None}]
        /\ sch.sleepQueue \in Seq(Gids) /\ sch.runQueue \in Seq(Gids) /\ sch.fakeLeaves \in Seq(Gids)
    BY <2>1, FieldTypes
  <2>4. SchedTypeOK
    <3>1. sch.sleep \in [Gids -> 0 .. MaxSleep]
      BY <2>t, <2>3
    <3>2. wd.pc \in {"idle", "leave", "next", "cleanup"}
      BY <2>1 DEF WdType
    <3> QED
      BY <2>1, <3>1, <3>2, FieldTypes DEF SchedTypeOK, States, Places
  <2>5. \A q \in {sch.runQueue, sch.outQueue, sch.sleepQueue, sch.fakeLeaves} : IsInjective(q)
    BY DEF Inv3, NoRepeats
  <2>6. ToSet(sch.outQueue) = InState("OUT")
    BY <2>1 DEF SchInv, OutInv, InState
  <2>7. ToSet(sch.sleepQueue) = InState("SLEEPING")
    BY <2>1, <2>2, <2>t, Members DEF SchInv, SleepInv, InState, ThreadInv, SleeperInv
  <2>8. \A i, j \in 1 .. Len(sch.sleepQueue) :
          i < j => sch.sleep[sch.sleepQueue[i]] <= sch.sleep[sch.sleepQueue[j]]
    <3>1. DOMAIN sch.sleepQueue = 1 .. Len(sch.sleepQueue)
      BY <2>t
    <3>2. Sorted(sch)
      BY DEF Inv3
    <3> QED
      BY <3>1, <3>2, Zenon DEF Sorted
  <2>9. ToSet(sch.fakeLeaves) = {g \in Gids : sch.fakePc[g] # None}
    BY <2>1, <2>2, <2>t, Members DEF FakeInv, ThreadInv, ReadyInv
  <2> DEFINE promised == {sch.handoff[g] : g \in Gids} \ {None}
  <2>10. ToSet(sch.runQueue) \cup promised = InState("QUEUED")
    <3>1. ToSet(sch.runQueue) \cup promised \subseteq InState("QUEUED")
      BY <2>1, <2>t, Members DEF SchInv, RunInv, HandInv, InState
    <3>2. InState("QUEUED") \subseteq ToSet(sch.runQueue) \cup promised
      BY <2>1, <2>2 DEF ThreadInv, QueuedInv, InState
    <3> QED
      BY <3>1, <3>2
  <2>11. ToSet(sch.runQueue) \cap promised = {}
    BY <2>1 DEF SchInv, HandInv
  <2>12. \A g, h \in Gids : sch.handoff[g] = sch.handoff[h] /\ sch.handoff[g] # None => g = h
    BY <2>1 DEF SchInv, HandInv
  <2>13. \A g \in InState("SLEEPING") : sch.sleep[g] > 0 /\ sch.futexWord[g] = 1
    BY <2>2 DEF ThreadInv, SleeperInv, InState
  <2>14. \A g \in InState("QUEUED") : at[g] = "queued" => sch.futexWord[g] = 1
    BY <2>2 DEF ThreadInv, QueuedInv, InState
  <2> QED
    BY <2>4, <2>5, <2>6, <2>7, <2>8, <2>9, <2>10, <2>11, <2>12, <2>13, <2>14 DEF QueuesAgree
<1> QED
  BY <1>1, QueueInvariance, PTL

-----------------------------------------------------------------------------
(* What join and finish find.  Signals, kills and the watchdog's leaves are *)
(* allowed: this part needs the first layer only.                          *)

Calls(s, a, w) == \A x \in Gids : CallInv(s, a, w, x)

\* What CallInv looks at is the same for thread x after a step, or only better.
SameCall(s, a, w, t, a2, w2, x) ==
    /\ t.state[x] = s.state[x] /\ t.fakePc[x] = s.fakePc[x] /\ a2[x] = a[x]
    /\ s.state[x] = "SLEEPING" \/ s.marked[x] => t.futexWord[x] = s.futexWord[x]
    /\ t.marked[x] => s.marked[x]
    /\ Cleaned(w, x) => Cleaned(w2, x)
    /\ LeftFor(w, x) => LeftFor(w2, x)

LEMMA CallFrame ==
    ASSUME NEW s, NEW a, NEW w, NEW t, NEW a2, NEW w2, NEW x \in Gids,
           CallInv(s, a, w, x), SameCall(s, a, w, t, a2, w2, x)
    PROVE  CallInv(t, a2, w2, x)
BY DEF CallInv, SameCall, Rests

\* A thread that is not marked, in a place where join and finish may be called
\* and in a state they take.
LEMMA CallFits ==
    ASSUME NEW s, NEW a, NEW w, NEW x \in Gids, ~ s.marked[x],
           s.state[x] \in {"STARTED", "OUT", "BLOCKED"}, a[x] # "finishing"
    PROVE  CallInv(s, a, w, x)
BY DEF CallInv, Rests

\* A thread that simulates or waits is RUNNING or in a queue, and asks nothing.
LEMMA CallQuiet ==
    ASSUME NEW s, NEW a, NEW w, NEW x \in Gids, ~ s.marked[x],
           \/ s.state[x] = "RUNNING" /\ a[x] \notin {"ready", "leaving", "finished"}
           \/ s.state[x] = "QUEUED" /\ a[x] = "queued"
    PROVE  CallInv(s, a, w, x)
BY DEF CallInv

\* Scheduler::leave for thread g, which goes to p; the watchdog goes on as v.
LEMMA LeaveCalls ==
    ASSUME NEW s, NEW b, NEW a, NEW w, Holds1(s, b, a, w), Calls(s, a, w),
           NEW g \in Gids, s.state[g] = "RUNNING",
           NEW t, NEW b2, LeaveEffect(s, g, b, t, b2),
           NEW p \in Places, p # "finishing", p # "off",
           p \in {"ready", "leaving"} => ~ s.marked[g],
           NEW v, p = "finished" => ~ s.marked[g] \/ Cleaned(v, g),
           \A x \in Gids : /\ Cleaned(w, x) => Cleaned(v, x)
                           /\ x # g /\ LeftFor(w, x) => LeftFor(v, x)
    PROVE  Calls(t, [a EXCEPT ![g] = p], v)
<1> DEFINE a2 == [a EXCEPT ![g] = p]
<1>1. /\ SchInv(s) /\ RestInv(s, a, w) /\ a \in [Gids -> Places] /\ ToSet(s.runQueue) \in SUBSET Gids
      /\ s.marked \in [Gids -> BOOLEAN]
  BY FieldTypes, Members DEF Holds1, SchInv
<1>2. \A x \in Gids : a2[x] = IF x = g THEN p ELSE a[x]
  BY <1>1
<1> HIDE DEF a2
<1>3. s.marked[g] => s.futexWord[g] = 1
  BY DEF Calls, CallInv
<1>4. CASE \E h \in ToSet(s.runQueue) : s.cid[g] \in Mask[h] /\ HandedOver(s, g, h, t)
  <2>1. PICK h \in Gids : h \in ToSet(s.runQueue) /\ HandedOver(s, g, h, t)
    BY <1>1, <1>4
  <2>2. s.state[h] = "QUEUED" /\ h # g
    BY <1>1, <2>1 DEF SchInv, RunInv
  <2>m. ~ t.marked[g] /\ \A x \in Gids : t.marked[x] => s.marked[x]
    BY <2>1, Zenon DEF HandedOver
  <2>3. CallInv(t, a2, v, g)
    <3>1. /\ t.state[g] = IF s.marked[g] THEN "SLEEPING" ELSE "BLOCKED"
          /\ t.futexWord[g] = s.futexWord[g] /\ a2[g] = p
      BY <1>2, <2>1, <2>2 DEF HandedOver
    <3>2. CASE s.marked[g]
      BY <1>3, <2>m, <3>1, <3>2 DEF CallInv
    <3>3. CASE ~ s.marked[g]
      BY <2>m, <3>1, <3>3, CallFits
    <3> QED
      BY <3>2, <3>3
  <2>4. CallInv(t, a2, v, h)
    <3>1. ~ s.marked[h] /\ a[h] \in {"queued", "dead", "finished"}
          /\ (a[h] = "finished" => Cleaned(w, h))
      BY <2>2 DEF Calls, CallInv
    <3>2. ~ t.marked[h] /\ t.state[h] = "RUNNING" /\ a2[h] = a[h]
      BY <1>2, <2>1, <2>2, <2>m, <3>1 DEF HandedOver
    <3> QED
      BY <3>1, <3>2 DEF CallInv
  <2>5. ASSUME NEW x \in Gids, x # g, x # h PROVE CallInv(t, a2, v, x)
    <3>1. SameCall(s, a, w, t, a2, v, x)
      BY <1>2, <2>1, <2>5, <2>m DEF HandedOver, SameCall
    <3> QED
      BY <3>1, CallFrame DEF Calls
  <2> QED
    BY <2>3, <2>4, <2>5 DEF Calls, a2
<1>5. CASE LeftBarrier(s, g, t)
  <2>m. ~ t.marked[g] /\ \A x \in Gids : t.marked[x] => s.marked[x]
    BY <1>5, Zenon DEF LeftBarrier
  <2>3. CallInv(t, a2, v, g)
    <3>1. /\ t.state[g] = IF s.marked[g] THEN "SLEEPING" ELSE "OUT"
          /\ t.futexWord[g] = s.futexWord[g] /\ a2[g] = p
      BY <1>2, <1>5 DEF LeftBarrier
    <3>2. CASE s.marked[g]
      BY <1>3, <2>m, <3>1, <3>2 DEF CallInv
    <3>3. CASE ~ s.marked[g]
      BY <2>m, <3>1, <3>3, CallFits
    <3> QED
      BY <3>2, <3>3
  <2>5. ASSUME NEW x \in Gids, x # g PROVE CallInv(t, a2, v, x)
    <3>1. SameCall(s, a, w, t, a2, v, x)
      BY <1>2, <1>5, <2>5, <2>m DEF LeftBarrier, SameCall
    <3> QED
      BY <3>1, CallFrame DEF Calls
  <2> QED
    BY <2>3, <2>5 DEF Calls, a2
<1> QED
  BY <1>4, <1>5 DEF LeaveEffect

\* A thread that has given its context up, or had none, gets one or queues up.
LEMMA PlacedCalls ==
    ASSUME NEW s, NEW b, NEW a, NEW w, SchInv(s), a \in [Gids -> Places], NEW g \in Gids,
           s.state[g] # "RUNNING", ~ s.marked[g],
           \A x \in Gids : x # g => CallInv(s, a, w, x),
           NEW t, NEW b2, NEW a2, PlacedEffect(s, g, b, a, t, b2, a2)
    PROVE  Calls(t, a2, w)
<1>1. CASE \E c \in Cids : TookContext(s, g, c, t) /\ a2 = [a EXCEPT ![g] = "joining"]
  <2>1. PICK c \in Cids : TookContext(s, g, c, t) /\ a2 = [a EXCEPT ![g] = "joining"]
    BY <1>1
  <2>2. \A x \in Gids : a2[x] = IF x = g THEN "joining" ELSE a[x]
    BY <2>1
  <2>3. CallInv(t, a2, w, g)
    <3>1. t.state[g] = "RUNNING" /\ ~ t.marked[g] /\ a2[g] = "joining"
      BY <2>1, <2>2 DEF TookContext
    <3> QED
      BY <3>1, CallQuiet
  <2>4. ASSUME NEW x \in Gids, x # g PROVE CallInv(t, a2, w, x)
    <3>1. CASE x = s.curThread[c]
      <4>1. s.state[x] = "OUT" /\ t.state[x] = "BLOCKED"
        BY <2>1, <2>4, <3>1, Constants DEF TookContext
      <4>2. ~ s.marked[x] /\ a[x] # "finishing"
        BY <2>4, <4>1 DEF CallInv
      <4>3. ~ t.marked[x] /\ a2[x] = a[x]
        BY <2>1, <2>2, <2>4, <4>2 DEF TookContext
      <4> QED
        BY <4>1, <4>2, <4>3, CallFits
    <3>2. CASE x # s.curThread[c]
      <4>1. SameCall(s, a, w, t, a2, w, x)
        BY <2>1, <2>2, <2>4, <3>2 DEF TookContext, SameCall
      <4> QED
        BY <2>4, <4>1, CallFrame
    <3> QED
      BY <3>1, <3>2
  <2> QED
    BY <2>3, <2>4 DEF Calls
<1>2. CASE LinedUp(s, g, t) /\ a2 = [a EXCEPT ![g] = "queued"]
  <2>2. \A x \in Gids : a2[x] = IF x = g THEN "queued" ELSE a[x]
    BY <1>2
  <2>3. CallInv(t, a2, w, g)
    <3>1. t.state[g] = "QUEUED" /\ ~ t.marked[g] /\ a2[g] = "queued"
      BY <1>2, <2>2 DEF LinedUp
    <3> QED
      BY <3>1, CallQuiet
  <2>4. ASSUME NEW x \in Gids, x # g PROVE CallInv(t, a2, w, x)
    <3>1. SameCall(s, a, w, t, a2, w, x)
      BY <1>2, <2>2, <2>4 DEF LinedUp, SameCall
    <3> QED
      BY <2>4, <3>1, CallFrame
  <2> QED
    BY <2>3, <2>4 DEF Calls
<1> QED
  BY <1>1, <1>2 DEF PlacedEffect

LEMMA HandoffCalls ==
    ASSUME Holds1(sch, bar, at, wd), Calls(sch, at, wd), NEW g \in Gids, Handoff(g)
    PROVE  Calls(sch', at', wd')
<1>1. SchInv(sch) /\ PlaceInv(sch, at) /\ at \in [Gids -> Places] /\ at[g] = "handoff" /\ wd' = wd
  BY DEF Holds1, RestInv, Handoff
<1>2. PICK h, u : /\ h \in Gids /\ h = sch.handoff[g] /\ sch.state[h] = "QUEUED"
                  /\ Switched(sch, g, h, u)
                  /\ PlacedEffect(u, g, bar, at, sch', bar', at')
  BY <1>1, HandoffStep DEF HandoffEffect
<1>3. h # g /\ ~ sch.marked[g]
  BY <1>1, <1>2 DEF PlaceInv, InSim, Calls, CallInv
<1>4. u.marked = sch.marked /\ SchInv(u) /\ u.state[g] = "QUEUED"
  BY <1>2, <1>3 DEF Switched
<1>5. CallInv(u, at, wd, h)
  <2>1. ~ sch.marked[h] /\ at[h] \in {"queued", "dead", "finished"}
        /\ (at[h] = "finished" => Cleaned(wd, h))
    BY <1>2 DEF Calls, CallInv
  <2>2. ~ u.marked[h] /\ u.state[h] = "RUNNING"
    BY <1>2, <1>4, <2>1 DEF Switched
  <2> QED
    BY <2>1, <2>2 DEF CallInv
<1>6. ASSUME NEW x \in Gids, x # g, x # h PROVE CallInv(u, at, wd, x)
  <2>1. SameCall(sch, at, wd, u, at, wd, x)
    BY <1>2, <1>6 DEF Switched, SameCall
  <2> QED
    BY <2>1, CallFrame DEF Calls
<1> QED
  BY <1>1, <1>2, <1>3, <1>4, <1>5, <1>6, PlacedCalls

LEMMA JoinCalls ==
    ASSUME Holds1(sch, bar, at, wd), Calls(sch, at, wd), NEW g \in Gids, Join(g)
    PROVE  Calls(sch', at', wd')
<1>1. /\ SchInv(sch) /\ PlaceInv(sch, at) /\ at \in [Gids -> Places] /\ at[g] = "ready" /\ wd' = wd
  BY DEF Holds1, RestInv, Join
<1>2. ~ sch.marked[g]
  BY <1>1 DEF Calls, CallInv
<1>3. CASE JoinAfterFakeLeave(g)
  <2>1. /\ sch.fakePc[g] # None /\ sch' = FinishFakeLeave(sch, g) /\ at' = [at EXCEPT ![g] = "sim"]
    BY <1>3 DEF JoinAfterFakeLeave, Goto
  <2>2. {} \in SUBSET (Pids \X Pcs)
    OBVIOUS
  <2>3. Unfaked(sch, g, sch')
    BY <1>1, <2>1, <2>2, FinishFakeLeaveKeeps
  <2>4. \A x \in Gids : at'[x] = IF x = g THEN "sim" ELSE at[x]
    BY <1>1, <2>1
  <2>5. ASSUME NEW x \in Gids PROVE CallInv(sch', at', wd', x)
    <3>1. CASE x = g
      <4>1. sch'.state[g] = "RUNNING" /\ ~ sch'.marked[g] /\ at'[g] = "sim"
        BY <1>1, <1>2, <2>1, <2>3, <2>4 DEF PlaceInv, Unfaked, SameCore
      <4> QED
        BY <3>1, <4>1, CallQuiet
    <3>2. CASE x # g
      <4>1. SameCall(sch, at, wd, sch', at', wd', x)
        BY <1>1, <2>3, <2>4, <3>2 DEF Unfaked, SameCore, SameCall
      <4> QED
        BY <4>1, CallFrame DEF Calls
    <3> QED
      BY <3>1, <3>2
  <2> QED
    BY <2>5 DEF Calls
<1>4. CASE JoinFromOut(g)
  <2>1. /\ sch.fakePc[g] = None /\ sch.state[g] = "OUT"
        /\ sch' = [sch EXCEPT !.state[g] = "RUNNING", !.outQueue = Without(@, g)]
        /\ at' = [at EXCEPT ![g] = "joining"]
    BY <1>4 DEF JoinFromOut, Goto
  <2>3. Rejoined(sch, g, sch')
    BY <1>1, <2>1, RejoinKeeps
  <2>4. \A x \in Gids : at'[x] = IF x = g THEN "joining" ELSE at[x]
    BY <1>1, <2>1
  <2>5. ASSUME NEW x \in Gids PROVE CallInv(sch', at', wd', x)
    <3>1. CASE x = g
      <4>1. sch'.state[g] = "RUNNING" /\ ~ sch'.marked[g] /\ at'[g] = "joining"
        BY <1>2, <2>3, <2>4 DEF Rejoined
      <4> QED
        BY <3>1, <4>1, CallQuiet
    <3>2. CASE x # g
      <4>1. SameCall(sch, at, wd, sch', at', wd', x)
        BY <1>1, <2>3, <2>4, <3>2 DEF Rejoined, SameCall
      <4> QED
        BY <4>1, CallFrame DEF Calls
    <3> QED
      BY <3>1, <3>2
  <2> QED
    BY <2>5 DEF Calls
<1>5. CASE JoinElsewhere(g)
  <2>1. sch.state[g] # "RUNNING"
    BY <1>5 DEF JoinElsewhere, JoinAllowed
  <2>2. PlacedEffect(sch, g, bar, at, sch', bar', at')
    BY <1>1, <1>5, JoinElsewhereStep DEF PlaceInv
  <2> QED
    BY <1>1, <1>2, <2>1, <2>2, PlacedCalls DEF Calls
<1> QED
  BY <1>3, <1>4, <1>5 DEF Join

\* Handlers that change nothing but the place of one thread, or its fields.
LEMMA MovesCall ==
    ASSUME Holds1(sch, bar, at, wd), Calls(sch, at, wd), NEW g \in Gids,
           \/ SleepOver(g) \/ SleepInterrupted(g) \/ Sync(g) \/ BarrierReturn(g) \/ ContextReturn(g)
    PROVE  Calls(sch', at', wd')
<1>1. /\ PlaceInv(sch, at) /\ at \in [Gids -> Places] /\ sch' = sch /\ wd' = wd
  BY DEF Holds1, RestInv, SleepOver, SleepInterrupted, Sync, BarrierReturn, ContextReturn
<1>2. CallInv(sch, at, wd, g)
  BY DEF Calls
<1>3. PICK p : /\ at' = [at EXCEPT ![g] = p]
               /\ at'[g] = p
               /\ ~ sch.marked[g]
               /\ \/ p = "ready" /\ Rests(sch, g) /\ sch.state[g] # "QUEUED"
                  \/ p \in {"sim", "syncing", "handoff"} /\ sch.state[g] = "RUNNING"
  <2>1. CASE SleepOver(g) \/ SleepInterrupted(g)
    <3>1. at[g] = "asleep" /\ at' = [at EXCEPT ![g] = "ready"]
          /\ (sch.state[g] = "SLEEPING" => sch.futexWord[g] = 0 \/ "signal" \in Features)
      BY <2>1 DEF SleepOver, SleepInterrupted, Goto
    <3>2. sch.state[g] \in {"SLEEPING", "BLOCKED"} /\ ~ sch.marked[g]
      BY <1>1, <1>2, <3>1 DEF PlaceInv, CallInv
    <3>3. Rests(sch, g)
      BY <1>2, <3>1, <3>2 DEF CallInv, Rests
    <3> QED
      BY <1>1, <3>1, <3>2, <3>3
  <2>2. CASE Sync(g) \/ BarrierReturn(g)
    <3>1. PICK p \in {"sim", "syncing", "handoff"} : at' = [at EXCEPT ![g] = p]
      BY <2>2 DEF Sync, BarrierReturn, Goto
    <3>2. at[g] \in {"sim", "joining", "syncing"}
      BY <2>2 DEF Sync, BarrierReturn
    <3>3. sch.state[g] = "RUNNING" /\ ~ sch.marked[g]
      BY <1>1, <1>2, <3>2 DEF PlaceInv, InSim, CallInv
    <3> QED
      BY <1>1, <3>1, <3>3
  <2>3. CASE ContextReturn(g)
    <3>1. at[g] = "queued" /\ sch.futexWord[g] = 0 /\ at' = [at EXCEPT ![g] = "sim"]
      BY <2>3 DEF ContextReturn, Goto
    <3>2. sch.state[g] = "RUNNING" /\ ~ sch.marked[g]
      BY <1>1, <1>2, <3>1 DEF PlaceInv, CallInv
    <3> QED
      BY <1>1, <3>1, <3>2
  <2> QED
    BY <2>1, <2>2, <2>3
<1>4. CallInv(sch, at', wd, g)
  BY <1>2, <1>3 DEF CallInv, Rests
<1>5. ASSUME NEW x \in Gids, x # g PROVE CallInv(sch, at', wd, x)
  <2>1. SameCall(sch, at, wd, sch, at', wd, x)
    BY <1>1, <1>3, <1>5 DEF SameCall
  <2> QED
    BY <2>1, CallFrame DEF Calls
<1> QED
  BY <1>1, <1>4, <1>5 DEF Calls

LEMMA SyscallCalls ==
    ASSUME Holds1(sch, bar, at, wd), Calls(sch, at, wd), NEW g \in Gids,
           Start(g) \/ \E p \in Pcs : SyscallLeave(g, p)
    PROVE  Calls(sch', at', wd')
<1>1. /\ SchInv(sch) /\ PlaceInv(sch, at) /\ at \in [Gids -> Places]
      /\ wd' = wd /\ at' = [at EXCEPT ![g] = "ready"]
  BY DEF Holds1, RestInv, Start, SyscallLeave, Goto
<1>2. \A x \in Gids : at'[x] = IF x = g THEN "ready" ELSE at[x]
  BY <1>1
<1>3. CASE Start(g)
  <2>1. at[g] = "off" /\ sch' = [sch EXCEPT !.state[g] = "STARTED"]
    BY <1>3 DEF Start
  <2>2. sch.state[g] = "none"
    BY <1>1, <2>1 DEF PlaceInv
  <2>3. Started(sch, g, sch')
    BY <1>1, <2>1, <2>2, StartKeeps
  <2>4. ~ sch'.marked[g] /\ sch'.state[g] = "STARTED" /\ at'[g] = "ready"
    BY <1>2, <2>1, <2>3 DEF Started, Calls, CallInv
  <2>5. ASSUME NEW x \in Gids, x # g PROVE CallInv(sch', at', wd', x)
    <3>1. SameCall(sch, at, wd, sch', at', wd', x)
      BY <1>1, <1>2, <2>3, <2>5 DEF Started, SameCall
    <3> QED
      BY <3>1, CallFrame DEF Calls
  <2> QED
    BY <2>4, <2>5, CallFits DEF Calls
<1>4. ASSUME NEW p \in Pcs, SyscallLeave(g, p) PROVE Calls(sch', at', wd')
  <2>1. at[g] = "sim" /\ sch.state[g] = "RUNNING"
    BY <1>4 DEF SyscallLeave, LeaveAsserts
  <2>2. ~ sch.marked[g]
    BY <2>1 DEF Calls, CallInv
  <2>3. CASE <<Pid[g], p>> \in sch.blacklist
    <3>1. LeaveEffect(sch, g, bar, sch', bar')
      BY <1>1, <1>4, <2>1, <2>3, LeaveStep DEF SyscallLeave
    <3>2. "ready" \in Places
      BY DEF Places
    <3>3. Calls(sch', [at EXCEPT ![g] = "ready"], wd)
      BY <2>1, <2>2, <3>1, <3>2, LeaveCalls
    <3> QED
      BY <1>1, <3>3
  <2>4. CASE <<Pid[g], p>> \notin sch.blacklist
    <3>1. sch' = [sch EXCEPT !.fakePc[g] = p, !.fakeLeaves = Append(@, g)]
      BY <1>4, <2>4 DEF SyscallLeave
    <3>2. FakeLeft(sch, g, p, sch')
      BY <1>1, <3>1, FakeLeaveKeeps
    <3>3. /\ sch'.state[g] = "RUNNING" /\ ~ sch'.marked[g] /\ at'[g] = "ready"
          /\ sch'.fakePc[g] # None
      BY <1>2, <2>1, <2>2, <3>2, Constants DEF FakeLeft, SameCore
    <3>4. CallInv(sch', at', wd', g)
      BY <3>3 DEF CallInv
    <3>5. ASSUME NEW x \in Gids, x # g PROVE CallInv(sch', at', wd', x)
      <4>1. SameCall(sch, at, wd, sch', at', wd', x)
        BY <1>1, <1>2, <3>2, <3>5 DEF FakeLeft, SameCore, SameCall
      <4> QED
        BY <4>1, CallFrame DEF Calls
    <3> QED
      BY <3>4, <3>5 DEF Calls
  <2> QED
    BY <2>3, <2>4
<1> QED
  BY <1>3, <1>4

LEMMA SleepCalls ==
    ASSUME Holds1(sch, bar, at, wd), Calls(sch, at, wd), NEW g \in Gids,
           MarkForSleep(g) \/ LeaveToSleep(g) \/ NotifySleepEnd(g)
    PROVE  Calls(sch', at', wd')
<1>1. /\ SchInv(sch) /\ PlaceInv(sch, at) /\ at \in [Gids -> Places] /\ wd' = wd
  BY DEF Holds1, RestInv, MarkForSleep, LeaveToSleep, NotifySleepEnd
<1>2. CASE MarkForSleep(g)
  <2>1. PICK n \in 1 .. MaxSleep :
          sch' = [sch EXCEPT !.marked[g] = TRUE, !.sleep[g] = n, !.futexWord[g] = 1]
    BY <1>2 DEF MarkForSleep
  <2>2. at[g] = "sim" /\ at' = [at EXCEPT ![g] = "marked"]
    BY <1>2 DEF MarkForSleep, Goto
  <2>3. sch.state[g] = "RUNNING"
    BY <1>1, <2>2 DEF PlaceInv, InSim
  <2>n. MaxSleep \in Int /\ n \in Int
    BY SchedulerAssumption
  <2>4. MarkedFor(sch, g, n, sch')
    BY <1>1, <2>n, <2>1, <2>2, <2>3, MarkKeeps
  <2>5. \A x \in Gids : at'[x] = IF x = g THEN "marked" ELSE at[x]
    BY <1>1, <2>2
  <2>6. sch'.state[g] = "RUNNING" /\ sch'.futexWord[g] = 1 /\ at'[g] = "marked"
    BY <2>3, <2>4, <2>5 DEF MarkedFor, SameCore
  <2>7. CallInv(sch', at', wd', g)
    BY <2>6 DEF CallInv
  <2>m. \A x \in Gids : x # g => (sch'.marked[x] => sch.marked[x])
    BY <2>4, Zenon DEF MarkedFor
  <2>8. ASSUME NEW x \in Gids, x # g PROVE CallInv(sch', at', wd', x)
    <3>1. SameCall(sch, at, wd, sch', at', wd', x)
      BY <1>1, <2>4, <2>5, <2>8, <2>m DEF MarkedFor, SameCore, SameCall
    <3> QED
      BY <3>1, CallFrame DEF Calls
  <2> QED
    BY <2>7, <2>8 DEF Calls
<1>3. CASE LeaveToSleep(g)
  <2>1. /\ at[g] = "marked" /\ at' = [at EXCEPT ![g] = "asleep"] /\ Leave(sch, g)
        /\ sch.state[g] = "RUNNING"
    BY <1>3 DEF LeaveToSleep, Goto, LeaveAsserts
  <2>2. LeaveEffect(sch, g, bar, sch', bar')
    BY <1>1, <2>1, LeaveStep
  <2>3. "asleep" \in Places
    BY DEF Places
  <2>4. Calls(sch', [at EXCEPT ![g] = "asleep"], wd)
    BY <2>1, <2>2, <2>3, LeaveCalls
  <2> QED
    BY <1>1, <2>1, <2>4
<1>4. CASE NotifySleepEnd(g)
  <2>1. at[g] = "asleep" /\ at' = [at EXCEPT ![g] = "ready"] /\ sch' = AwakenEarly(sch, g)
    BY <1>4 DEF NotifySleepEnd, Goto
  <2>2. sch.state[g] \in {"SLEEPING", "BLOCKED"} /\ ~ sch.marked[g]
    BY <1>1, <2>1 DEF PlaceInv, Calls, CallInv
  <2>3. Awakened(sch, g, sch')
    BY <1>1, <2>1, <2>2, AwakenEarlyKeeps
  <2>4. \A x \in Gids : at'[x] = IF x = g THEN "ready" ELSE at[x]
    BY <1>1, <2>1
  <2>5. ~ sch'.marked[g] /\ sch'.state[g] = "BLOCKED" /\ at'[g] = "ready"
    BY <2>2, <2>3, <2>4 DEF Awakened
  <2>6. ASSUME NEW x \in Gids, x # g PROVE CallInv(sch', at', wd', x)
    <3>1. SameCall(sch, at, wd, sch', at', wd', x)
      BY <1>1, <2>3, <2>4, <2>6 DEF Awakened, SameCall
    <3> QED
      BY <3>1, CallFrame DEF Calls
  <2> QED
    BY <2>5, <2>6, CallFits DEF Calls
<1> QED
  BY <1>2, <1>3, <1>4

LEMMA CallbackCalls ==
    ASSUME Holds1(sch, bar, at, wd), Calls(sch, at, wd), Callback, UNCHANGED <<at, wd>>
    PROVE  Calls(sch', at', wd')
<1>1. /\ SchInv(sch) /\ SleepInv(sch) /\ ToSet(sch.sleepQueue) \in SUBSET Gids /\ at' = at /\ wd' = wd
  BY Members DEF Holds1, SchInv
<1>2. ASSUME NEW u, Passed(sch, u) PROVE Calls(u, at, wd)
  <2>1. ASSUME NEW x \in Gids PROVE CallInv(u, at, wd, x)
    <3>1. CallInv(sch, at, wd, x)
      BY DEF Calls
    <3>2. CASE x \in ToSet(sch.sleepQueue) /\ u.sleep[x] <= 0
      <4>1. sch.state[x] = "SLEEPING" /\ u.state[x] = "BLOCKED" /\ u.marked = sch.marked
        BY <1>1, <1>2, <3>2 DEF SleepInv, Passed
      <4>2. ~ sch.marked[x] /\ at[x] # "finishing"
        BY <3>1, <4>1 DEF CallInv
      <4> QED
        BY <4>1, <4>2, CallFits
    <3>3. CASE ~ (x \in ToSet(sch.sleepQueue) /\ u.sleep[x] <= 0)
      <4>1. SameCall(sch, at, wd, u, at, wd, x)
        BY <1>2, <3>3 DEF Passed, SameCall
      <4> QED
        BY <3>1, <4>1, CallFrame
    <3> QED
      BY <3>2, <3>3
  <2> QED
    BY <2>1 DEF Calls
<1>3. ASSUME NEW u, NEW f, Calls(u, at, wd), NEW t, Ticked(u, f, t) PROVE Calls(t, at, wd)
  <2>1. ASSUME NEW x \in Gids PROVE CallInv(t, at, wd, x)
    <3>1. SameCall(u, at, wd, t, at, wd, x)
      BY <1>3 DEF Ticked, SameCall
    <3> QED
      BY <1>3, <3>1, CallFrame DEF Calls
  <2> QED
    BY <2>1 DEF Calls
<1> QED
  BY <1>1, <1>2, <1>3, CallbackStep DEF CallbackEffect

LEMMA FinishCalls ==
    ASSUME Holds1(sch, bar, at, wd), Calls(sch, at, wd), NEW g \in Gids, Finish(g) \/ Cleanup(g)
    PROVE  Calls(sch', at', wd')
<1>1. SchInv(sch) /\ PlaceInv(sch, at) /\ at \in [Gids -> Places] /\ CallInv(sch, at, wd, g)
  BY DEF Holds1, RestInv, Calls
<1>2. PICK from \in {"ready", "leaving", "dead"} :
        /\ FinishStart(g, from) /\ at[g] = from
        /\ \/ from # "dead" /\ wd' = wd
           \/ from = "dead" /\ wd.pc = "idle" /\ wd' = [Idle EXCEPT !.pc = "cleanup", !.th = g]
  BY DEF Finish, Cleanup, FinishStart
<1>3. PICK p : /\ p = IF sch.state[g] = "RUNNING" THEN "finishing" ELSE "finished"
               /\ at' = [at EXCEPT ![g] = p]
  BY <1>2 DEF FinishStart, Goto
<1>4. \A x \in Gids : at'[x] = IF x = g THEN p ELSE at[x]
  BY <1>1, <1>3
<1>5. /\ from = "dead" => Cleaned(wd', g)
      /\ \A x \in Gids : (Cleaned(wd, x) => Cleaned(wd', x)) /\ (LeftFor(wd, x) => LeftFor(wd', x))
  BY <1>2 DEF Idle, Cleaned, LeftFor
<1>6. PICK u : /\ \/ u = sch /\ ~ (sch.state[g] = "SLEEPING" /\ from = "dead")
                  \/ sch.state[g] = "SLEEPING" /\ from = "dead" /\ Awakened(sch, g, u)
               /\ \/ sch' = u /\ u.fakePc[g] = None
                  \/ u.fakePc[g] # None /\ Unfaked(u, g, sch')
  BY <1>1, <1>2, FinishStep DEF FinishEffect
<1>7. /\ sch'.marked = sch.marked /\ sch'.futexWord = sch.futexWord
      /\ \A x \in Gids : x # g => sch'.state[x] = sch.state[x] /\ sch'.fakePc[x] = sch.fakePc[x]
      /\ sch'.state[g] \in {sch.state[g], "BLOCKED"}
      /\ sch.state[g] # "SLEEPING" => sch'.state[g] = sch.state[g]
  BY <1>6 DEF Awakened, Unfaked, SameCore
<1>8. CallInv(sch', at', wd', g)
  <2>1. CASE from = "dead"
    BY <1>1, <1>2, <1>3, <1>4, <1>5, <1>7, <2>1 DEF CallInv
  <2>2. CASE from # "dead"
    <3>1. sch'.state[g] = sch.state[g] /\ ~ sch.marked[g]
          /\ (sch.state[g] # "RUNNING" => Rests(sch, g)) /\ sch.state[g] \notin {"none", "QUEUED"}
      BY <1>1, <1>2, <1>6, <1>7, <2>2 DEF CallInv, Unfaked, SameCore, Rests
    <3> QED
      BY <1>1, <1>2, <1>3, <1>4, <1>7, <3>1 DEF CallInv, Rests
  <2> QED
    BY <2>1, <2>2
<1>9. ASSUME NEW x \in Gids, x # g PROVE CallInv(sch', at', wd', x)
  <2>1. SameCall(sch, at, wd, sch', at', wd', x)
    BY <1>4, <1>5, <1>7, <1>9 DEF SameCall
  <2> QED
    BY <2>1, CallFrame DEF Calls
<1> QED
  BY <1>8, <1>9 DEF Calls

LEMMA FinishEndCalls ==
    ASSUME Holds1(sch, bar, at, wd), Calls(sch, at, wd), NEW g \in Gids,
           FinishLeave(g) \/ EnterFastForward(g) \/ FinishEnd(g) \/ Kill(Pid[g])
    PROVE  Calls(sch', at', wd')
<1>1. SchInv(sch) /\ PlaceInv(sch, at) /\ at \in [Gids -> Places] /\ CallInv(sch, at, wd, g)
  BY DEF Holds1, RestInv, Calls
<1>2. CASE FinishLeave(g) \/ EnterFastForward(g)
  <2>1. /\ sch.state[g] = "RUNNING" /\ Leave(sch, g) /\ wd' = wd
        /\ \/ at[g] = "finishing" /\ at' = [at EXCEPT ![g] = "finished"]
           \/ at[g] = "sim" /\ at' = [at EXCEPT ![g] = "leaving"]
    BY <1>2 DEF FinishLeave, EnterFastForward, LeaveAsserts, Goto
  <2>2. LeaveEffect(sch, g, bar, sch', bar')
    BY <1>1, <2>1, LeaveStep
  <2>3. PICK p \in {"finished", "leaving"} :
          /\ at' = [at EXCEPT ![g] = p]
          /\ p = "leaving" => ~ sch.marked[g]
          /\ p = "finished" => ~ sch.marked[g] \/ Cleaned(wd, g)
    BY <1>1, <2>1 DEF CallInv
  <2>4. p \in Places
    BY DEF Places
  <2>5. Calls(sch', [at EXCEPT ![g] = p], wd)
    BY <2>1, <2>2, <2>3, <2>4, LeaveCalls
  <2> QED
    BY <2>1, <2>3, <2>5
<1>3. CASE FinishEnd(g)
  <2>1. PICK u : u = Detach(sch, g)
    OBVIOUS
  <2>2. /\ at[g] = "finished" /\ at' = [at EXCEPT ![g] = "off"]
        /\ sch' = [u EXCEPT !.state[g] = "none", !.cid[g] = 0, !.handoff[g] = None,
                            !.futexWord[g] = 0, !.sleep[g] = 0, !.marked[g] = FALSE]
        /\ wd' = IF wd.pc = "cleanup" /\ wd.th = g THEN Idle ELSE wd
        /\ \/ sch.state[g] \in {"STARTED", "OUT", "BLOCKED"}
           \/ sch.state[g] = "QUEUED" /\ g \in ToSet(sch.runQueue)
    BY <1>3, <2>1 DEF FinishEnd, Goto, Detach, FinishAsserts
  <2>3. Removed(sch, g, sch')
    BY <1>1, <2>1, <2>2, RemoveKeeps
  <2>4. \A x \in Gids : at'[x] = IF x = g THEN "off" ELSE at[x]
    BY <1>1, <2>2
  <2>m. ~ sch'.marked[g] /\ \A x \in Gids : sch'.marked[x] => sch.marked[x]
    BY <2>3, Zenon DEF Removed
  <2>5. CallInv(sch', at', wd', g)
    <3>1. sch'.state[g] = "none" /\ at'[g] = "off"
      BY <2>3, <2>4 DEF Removed
    <3> QED
      BY <2>m, <3>1 DEF CallInv
  <2>6. ASSUME NEW x \in Gids, x # g PROVE CallInv(sch', at', wd', x)
    <3>1. (Cleaned(wd, x) => Cleaned(wd', x)) /\ (LeftFor(wd, x) => LeftFor(wd', x))
      BY <2>2, <2>6 DEF Cleaned, LeftFor
    <3>2. SameCall(sch, at, wd, sch', at', wd', x)
      BY <2>3, <2>4, <2>6, <2>m, <3>1 DEF Removed, SameCall
    <3> QED
      BY <3>2, CallFrame DEF Calls
  <2> QED
    BY <2>5, <2>6 DEF Calls
<1>4. CASE Kill(Pid[g])
  <2>1. /\ sch' = sch /\ wd' = wd
        /\ \A x \in Gids : Pid[x] = Pid[g] => at[x] \notin {"finishing", "finished"}
        /\ at' = [x \in Gids |-> IF Pid[x] = Pid[g] /\ at[x] # "off" THEN "dead" ELSE at[x]]
    BY <1>4 DEF Kill
  <2>2. ASSUME NEW x \in Gids PROVE CallInv(sch', at', wd', x)
    <3>1. CallInv(sch, at, wd, x)
      BY DEF Calls
    <3>2. \/ at'[x] = at[x]
          \/ at'[x] = "dead" /\ at[x] \notin {"off", "finishing", "finished"}
      BY <2>1
    <3> QED
      BY <2>1, <3>1, <3>2 DEF CallInv, Rests
  <2> QED
    BY <2>2 DEF Calls
<1> QED
  BY <1>2, <1>3, <1>4

LEMMA WatchdogCalls ==
    ASSUME Holds1(sch, bar, at, wd), Calls(sch, at, wd),
           StallDetected \/ WatchdogLeave \/ WatchdogNext
    PROVE  Calls(sch', at', wd')
<1>1. /\ SchInv(sch) /\ FakeInv(sch) /\ PlaceInv(sch, at) /\ WdInv(sch, at, wd)
      /\ at \in [Gids -> Places] /\ sch \in SchType
  BY DEF Holds1, RestInv, SchInv
<1>t. /\ sch.fakeLeaves \in Seq(Gids) /\ sch.fakePc \in [Gids -> Pcs \cup {None}]
      /\ sch.blacklist \in SUBSET (Pids \X Pcs)
  BY <1>1, FieldTypes DEF SchType
<1>2. ASSUME NEW g \in Gids, Unfaked(sch, g, sch'), at' = at, LeftFor(wd', g), wd.pc # "leave",
             wd.pc # "cleanup", sch.state[g] = "RUNNING", at[g] \in {"ready", "dead"}
      PROVE  Calls(sch', at', wd')
  <2>1. CallInv(sch', at', wd', g)
    BY <1>2 DEF Calls, CallInv, Unfaked, SameCore
  <2>2. ASSUME NEW x \in Gids, x # g PROVE CallInv(sch', at', wd', x)
    <3>1. SameCall(sch, at, wd, sch', at', wd', x)
      BY <1>2, <2>2 DEF Unfaked, SameCore, SameCall, Cleaned, LeftFor
    <3> QED
      BY <3>1, CallFrame DEF Calls
  <2> QED
    BY <2>1, <2>2 DEF Calls
<1>3. ASSUME sch.fakeLeaves # <<>>
      PROVE  /\ Head(sch.fakeLeaves) \in Gids /\ sch.fakePc[Head(sch.fakeLeaves)] # None
             /\ sch.state[Head(sch.fakeLeaves)] = "RUNNING"
             /\ at[Head(sch.fakeLeaves)] \in {"ready", "dead"}
  <2>1. PICK g \in ToSet(sch.fakeLeaves) : g = Head(sch.fakeLeaves)
    BY <1>t, <1>3 DEF ToSet
  <2>2. g \in Gids /\ sch.fakePc[g] # None
    BY <1>1, <1>t, <2>1, Members DEF FakeInv
  <2> QED
    BY <1>1, <2>1, <2>2 DEF PlaceInv
<1>4. CASE StallDetected
  <2>1. PICK g : g = Head(sch.fakeLeaves)
    OBVIOUS
  <2>2. PICK bl : bl = IF Len(sch.fakeLeaves) = 1
                         THEN sch.blacklist \cup {<<Pid[g], sch.fakePc[g]>>} ELSE sch.blacklist
    OBVIOUS
  <2>3. /\ sch.fakeLeaves # <<>> /\ wd.pc = "idle"
        /\ sch' = [FinishFakeLeave(sch, g) EXCEPT
                     !.blacklist = IF Len(sch.fakeLeaves) = 1
                                     THEN @ \cup {<<Pid[g], sch.fakePc[g]>>} ELSE @]
        /\ LeftFor(wd', g) /\ at' = at
    BY <1>4, <2>1 DEF StallDetected, LeftFor
  <2>4. g \in Gids /\ sch.fakePc[g] # None /\ sch.state[g] = "RUNNING" /\ at[g] \in {"ready", "dead"}
    BY <1>3, <2>1, <2>3
  <2>5. sch.fakePc[g] \in Pcs /\ Pid[g] \in Pids
    BY <1>t, <2>4 DEF Pids
  <2>6. bl \in SUBSET (Pids \X Pcs)
    BY <1>t, <2>2, <2>5
  <2>7. FinishFakeLeave(sch, g).blacklist = sch.blacklist
    BY <1>1 DEF FinishFakeLeave, SchType
  <2>8. sch' = [FinishFakeLeave(sch, g) EXCEPT !.blacklist = bl]
    BY <2>2, <2>3, <2>7
  <2>9. Unfaked(sch, g, sch')
    BY <1>1, <2>4, <2>6, <2>8, FinishFakeLeaveKeeps
  <2> QED
    BY <1>2, <2>3, <2>4, <2>9
<1>5. CASE WatchdogLeave
  <2>1. /\ wd.pc = "leave" /\ wd' = [wd EXCEPT !.pc = "next"] /\ at' = at
        /\ Leave(sch, wd.th) /\ sch.state[wd.th] = "RUNNING"
    BY <1>5 DEF WatchdogLeave, WatchdogAsserts, LeaveAsserts
  <2>2. PICK g \in Gids : g = wd.th /\ at[g] \in {"ready", "dead"}
    BY <1>1, <2>1 DEF WdInv
  <2>3. LeaveEffect(sch, g, bar, sch', bar')
    BY <1>1, <2>1, <2>2, LeaveStep
  <2>4. PICK p \in Places : p = at[g]
    BY <1>1
  <2>5. p = "ready" => ~ sch.marked[g]
    BY <2>4 DEF Calls, CallInv
  <2>6. \A x \in Gids : /\ Cleaned(wd, x) => Cleaned(wd', x)
                        /\ x # g /\ LeftFor(wd, x) => LeftFor(wd', x)
    BY <2>1, <2>2 DEF Cleaned, LeftFor
  <2>7. PICK v : v = wd'
    OBVIOUS
  <2>8. /\ p # "finishing" /\ p # "off"
        /\ p \in {"ready", "leaving"} => ~ sch.marked[g]
        /\ p = "finished" => ~ sch.marked[g] \/ Cleaned(v, g)
        /\ sch.state[g] = "RUNNING"
    BY <2>1, <2>2, <2>4, <2>5
  <2>9. Calls(sch', [at EXCEPT ![g] = p], v)
    BY <2>3, <2>6, <2>7, <2>8, LeaveCalls
  <2>10. [at EXCEPT ![g] = p] = at'
    BY <1>1, <2>1, <2>4
  <2> QED
    BY <2>7, <2>9, <2>10
<1>6. CASE WatchdogNext
  <2>1. wd.pc = "next" /\ at' = at
    BY <1>6 DEF WatchdogNext
  <2>2. CASE wd' = Idle /\ sch' = sch
    <3>1. ASSUME NEW x \in Gids PROVE CallInv(sch', at', wd', x)
      <4>1. SameCall(sch, at, wd, sch', at', wd', x)
        BY <2>1, <2>2 DEF SameCall, Cleaned, LeftFor
      <4> QED
        BY <4>1, CallFrame DEF Calls
    <3> QED
      BY <3>1 DEF Calls
  <2>3. CASE ~ (wd' = Idle /\ sch' = sch)
    <3>1. PICK g : g = Head(sch.fakeLeaves)
      OBVIOUS
    <3>2. /\ sch.fakeLeaves # <<>> /\ sch' = FinishFakeLeave(sch, g)
          /\ wd' = [wd EXCEPT !.pc = "leave", !.th = g]
      BY <1>6, <2>3, <3>1 DEF WatchdogNext
    <3>3. g \in Gids /\ sch.fakePc[g] # None /\ sch.state[g] = "RUNNING" /\ at[g] \in {"ready", "dead"}
      BY <1>3, <3>1, <3>2
    <3>4. {} \in SUBSET (Pids \X Pcs)
      OBVIOUS
    <3>5. Unfaked(sch, g, sch')
      BY <1>1, <3>2, <3>3, <3>4, FinishFakeLeaveKeeps
    <3>6. LeftFor(wd', g)
      BY <1>1, <3>2 DEF LeftFor, WdInv, WdType
    <3> QED
      BY <1>2, <2>1, <3>3, <3>5, <3>6
  <2> QED
    BY <2>2, <2>3
<1> QED
  BY <1>4, <1>5, <1>6

LEMMA InitCalls == SchedInit => Calls(sch, at, wd)
<1> SUFFICES ASSUME SchedInit, NEW x \in Gids PROVE CallInv(sch, at, wd, x)
  BY DEF Calls
<1>1. sch.state[x] = "none" /\ ~ sch.marked[x] /\ at[x] = "off"
  BY DEF SchedInit
<1> QED
  BY <1>1 DEF CallInv

LEMMA NextCalls ==
    ASSUME Holds1(sch, bar, at, wd), Calls(sch, at, wd), [SchedNext]_schedVars
    PROVE  Calls(sch', at', wd')
<1>1. CASE UNCHANGED <<sch, at, wd>>
  <2>1. ASSUME NEW x \in Gids PROVE CallInv(sch', at', wd', x)
    <3>1. SameCall(sch, at, wd, sch', at', wd', x)
      BY <1>1 DEF SameCall
    <3> QED
      BY <3>1, CallFrame DEF Calls
  <2> QED
    BY <2>1 DEF Calls
<1>2. CASE BarrierStep
  BY <1>1, <1>2, CallbackCalls DEF BarrierStep, BarrierWake, EndOfPhase
<1>3. CASE Watchdog
  BY <1>3, WatchdogCalls, CallbackCalls DEF Watchdog, DriveTime
<1>4. ASSUME NEW g \in Gids, Start(g) \/ Join(g) \/ Handoff(g) \/ \E p \in Pcs : SyscallLeave(g, p)
      PROVE  Calls(sch', at', wd')
  BY <1>4, JoinCalls, HandoffCalls, SyscallCalls
<1>5. ASSUME NEW g \in Gids, MarkForSleep(g) \/ LeaveToSleep(g) \/ NotifySleepEnd(g)
      PROVE  Calls(sch', at', wd')
  BY <1>5, SleepCalls
<1>6. ASSUME NEW g \in Gids, Sync(g) \/ SleepInterrupted(g) \/ Resume(g)
      PROVE  Calls(sch', at', wd')
  BY <1>6, MovesCall DEF Resume
<1>7. ASSUME NEW g \in Gids, EnterFastForward(g) \/ FinishLeave(g) \/ FinishEnd(g) \/ Kill(Pid[g])
      PROVE  Calls(sch', at', wd')
  BY <1>7, FinishEndCalls
<1>8. ASSUME NEW g \in Gids, Finish(g) \/ Cleanup(g)
      PROVE  Calls(sch', at', wd')
  BY <1>8, FinishCalls
<1> QED
  BY <1>1, <1>2, <1>3, <1>4, <1>5, <1>6, <1>7, <1>8 DEF SchedNext, schedVars

\* The assertions of join and finish, with stalls, signals and kills: join meets
\* only threads that are out in a real or a fake syscall, except between the two
\* halves of the watchdog's leave (scheduler.cpp:158), and finish only threads it
\* can take out, except a sleeper that a signal woke and a dead thread that is
\* RUNNING, QUEUED or asleep.
THEOREM SchedulerAssertionsHold ==
    ASSUME Disciplined
    PROVE  SchedSpec => []SchedulerAsserts
<1> DEFINE I == Inv1 /\ Calls(sch, at, wd)
<1>1. SchedInit => I
  BY Init1, InitCalls DEF Inv1, Holds1, BarType
<1>2. I /\ [SchedNext]_schedVars => I'
  <2> SUFFICES ASSUME I, [SchedNext]_schedVars PROVE I'
    OBVIOUS
  <2>1. Holds1(sch, bar, at, wd) /\ Calls(sch, at, wd)
    BY DEF Inv1, Holds1, BarType
  <2>2. Holds1(sch', bar', at', wd') /\ Calls(sch', at', wd')
    BY <2>1, Next1, NextCalls
  <2>3. Inv1'
    BY <2>2 DEF Inv1, Holds1, BarType
  <2> QED
    BY <2>2, <2>3
<1>3. I => SchedulerAsserts
  <2> SUFFICES ASSUME I, NEW g \in Gids
               PROVE  /\ at[g] = "ready" =>
                           \/ Rests(sch, g)
                           \/ /\ sch.state[g] = "RUNNING"
                              /\ sch.fakePc[g] # None \/ LeftFor(wd, g)
                      /\ at[g] = "finished" =>
                           \/ FinishAsserts(g)
                           \/ sch.state[g] = "SLEEPING" /\ "signal" \in Features
                           \/ sch.state[g] \in {"QUEUED", "RUNNING", "SLEEPING"} /\ Cleaned(wd, g)
    BY DEF SchedulerAsserts
  <2>1. CallInv(sch, at, wd, g) /\ sch.state[g] \in States
    BY FieldTypes DEF Calls, Inv1, SchInv
  <2> QED
    BY <2>1 DEF CallInv, Rests, FinishAsserts, States
<1> QED
  BY <1>1, <1>2, <1>3, PTL DEF SchedSpec
=============================================================================
