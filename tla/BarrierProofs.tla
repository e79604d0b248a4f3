--------------------------- MODULE BarrierProofs ---------------------------
(***************************************************************************)
(* The barrier is right for every number of threads, every width and every *)
(* cleanup period: its assertions never fail, its counts are exact, its    *)
(* run list loses nobody and no wakeup is lost.  None of these is          *)
(* inductive alone; IndInv below joins them with what they rest on.        *)
(***************************************************************************)
EXTENDS Barrier, FiniteSetTheorems, TLAPS

\* The part of runList in use: the cleanup pass shrinks it from the end.
ListEnd == IF pc = "clean" THEN newSize ELSE runListSize
Live    == 0 .. ListEnd - 1

Waking == pc \in {"futex1", "futex2"}

\* The first n entries of list hold every thread that st says is on line, once.
Holds(list, n, st) ==
    /\ \A i, j \in 0 .. n - 1 : list[i] = list[j] => i = j
    /\ \A t \in Threads : st[t] # "OFFLINE" <=> \E i \in 0 .. n - 1 : list[i] = t

ListInv ==
    /\ pc = "clean" => newSize <= runListSize /\ idx <= newSize
    /\ Holds(runList, ListEnd, state)

\* lastIdx is right for every thread the cursor has passed and for every LEFT
\* one; nobody ahead of the cursor is RUNNING.
CursorInv ==
    /\ pc \in {"clean", "shuffle"} => curThreadIdx = 0
    /\ \A i \in Live : i < curThreadIdx \/ state[runList[i]] = "LEFT"
                         => lastIdx[runList[i]] = i
    /\ \A i \in Live : i >= curThreadIdx => state[runList[i]] # "RUNNING"
    /\ pc = "clean" => \A i \in 0 .. idx - 1 : state[runList[i]] # "LEFT"

\* futexWord is 1 from the moment a thread waits until its waker has written it.
WakeInv ==
    /\ \A t \in Threads : state[t] = "WAITING" => futexWord[t] = 1
    /\ \A t \in Threads : state[t] = "RUNNING" => (futexWord[t] = 1 <=> Waking /\ wtid = t)
    /\ Waking => state[wtid] = "RUNNING"
    /\ \A t \in Threads : thr[t] = "out" <=> state[t] \in {"OFFLINE", "LEFT"}
    /\ \A t \in Threads : thr[t] \in {"run", "woken"} => state[t] = "RUNNING"
    /\ pc # "free" /\ call # "leave" => thr[self] = "locked"
    /\ NoLostWakeup

\* The cached counts are exact but for the wakeup or the cleanup under way.
Count(f, x) == Cardinality({u \in Threads : f[u] = x})

CountInv ==
    /\ Count(state, "RUNNING") = runningThreads + (IF Waking THEN 1 ELSE 0)
    /\ leftThreads = Count(state, "LEFT")
                       + (IF pc = "clean" THEN runListSize - newSize ELSE 0)
    /\ Count(state, "RUNNING") <= ParallelThreads

\* A join has left a thread ahead of the cursor, or has woken one.
JoinInv ==
    /\ pc \in {"clean", "shuffle"} => call # "join"
    /\ pc = "wake1" /\ call = "join" =>
         \/ runningThreads > 0
         \/ \E i \in Live : i >= curThreadIdx /\ state[runList[i]] = "WAITING"

IndInv == BarrierTypeOK /\ ListInv /\ CursorInv /\ WakeInv /\ CountInv /\ JoinInv
-----------------------------------------------------------------------------
(* Counting threads.                                                       *)

\* The contexts are finitely many, and so are those in one state.
LEMMA ThreadsFinite == /\ IsFiniteSet(Threads) /\ Cardinality(Threads) = MaxThreads
                       /\ \A S \in SUBSET Threads : /\ IsFiniteSet(S)
                                                    /\ Cardinality(S) \in 0 .. MaxThreads
<1>1. IsFiniteSet(Threads) /\ Cardinality(Threads) = MaxThreads
  BY BarrierAssumption, FS_Interval DEF Threads
<1>2. ASSUME NEW S \in SUBSET Threads PROVE IsFiniteSet(S) /\ Cardinality(S) \in 0 .. MaxThreads
  <2>1. IsFiniteSet(S) /\ Cardinality(S) <= MaxThreads
    BY <1>1, FS_Subset
  <2>2. Cardinality(S) \in Nat
    BY <2>1, FS_CardinalityType
  <2> QED BY <2>1, <2>2, BarrierAssumption
<1> QED BY <1>1, <1>2

\* One write to a state field adds at most one thread to a state and takes at
\* most one out of it: what join, leave, sync and wakeups do to the counts.
Moves(t, s) == state' = [state EXCEPT ![t] = s]

LEMMA CountMoves ==
    ASSUME state \in [Threads -> States],
           NEW t \in Threads, NEW s \in States, NEW x \in States,
           Moves(t, s)
    PROVE  /\ Count(state, x) \in 0 .. MaxThreads
           /\ s = x /\ state[t] # x => Count(state', x) = Count(state, x) + 1
           /\ s # x /\ state[t] = x => Count(state', x) = Count(state, x) - 1
           /\ (s = x <=> state[t] = x) => Count(state', x) = Count(state, x)
<1> DEFINE S == {u \in Threads : state[u] = x}
           T == {u \in Threads : state'[u] = x}
<1>1. IsFiniteSet(S) /\ Cardinality(S) \in 0 .. MaxThreads
  BY ThreadsFinite
<1>2. t \in S <=> state[t] = x
  OBVIOUS
<1>3. /\ s = x => T = S \cup {t}
      /\ s # x => T = S \ {t}
  BY DEF Moves
<1>4. Count(state, x) = Cardinality(S) /\ Count(state', x) = Cardinality(T)
  BY DEF Count
<1> HIDE DEF S, T
<1>5. /\ s = x => Cardinality(T) = IF t \in S THEN Cardinality(S) ELSE Cardinality(S) + 1
      /\ s # x => Cardinality(T) = IF t \in S THEN Cardinality(S) - 1 ELSE Cardinality(S)
  BY <1>1, <1>3, FS_AddElement, FS_RemoveElement
<1> QED BY <1>1, <1>2, <1>4, <1>5, BarrierAssumption

-----------------------------------------------------------------------------
(* Each step of barrier.h keeps each part of IndInv.                       *)

\* The cached counts and the width survive every step.
LEMMA CountStep == IndInv /\ [BarrierNext]_barrierVars => CountInv'
<1> SUFFICES ASSUME IndInv, [BarrierNext]_barrierVars PROVE CountInv'
  OBVIOUS
<1>t. /\ state \in [Threads -> States]
      /\ runningThreads \in Nat /\ leftThreads \in Nat /\ runListSize \in Nat /\ newSize \in Nat
  BY BarrierAssumption DEF IndInv, BarrierTypeOK, Index
<1>c. CountInv
  BY DEF IndInv
<1>a. ASSUME NEW t \in Threads, NEW s \in States, Moves(t, s), NEW x \in States
      PROVE  /\ Count(state, x) \in 0 .. MaxThreads
             /\ s = x /\ state[t] # x => Count(state', x) = Count(state, x) + 1
             /\ s # x /\ state[t] = x => Count(state', x) = Count(state, x) - 1
             /\ (s = x <=> state[t] = x) => Count(state', x) = Count(state, x)
  BY <1>t, <1>a, CountMoves
<1>b. "RUNNING" \in States /\ "LEFT" \in States /\ "WAITING" \in States /\ "OFFLINE" \in States
  BY DEF States
<1> USE BarrierAssumption
<1>1. ASSUME NEW t \in Threads, Join(t) PROVE CountInv'
  <2>1. /\ Moves(t, "WAITING") /\ pc = "free" /\ pc' = "wake1"
        /\ UNCHANGED runningThreads
        /\ \/ state[t] = "OFFLINE" /\ UNCHANGED leftThreads
           \/ state[t] = "LEFT" /\ leftThreads' = leftThreads - 1
    BY <1>1 DEF Join, JoinOffline, JoinAhead, JoinSamePhase, Enter, Moves
  <2> QED BY <1>t, <1>c, <1>a, <1>b, <2>1 DEF CountInv, Waking
<1>2. ASSUME NEW t \in Threads, Leave(t) PROVE CountInv'
  <2>1. /\ Moves(t, "LEFT") /\ state[t] = "RUNNING" /\ pc = "free" /\ pc' = "wake1"
        /\ leftThreads' = leftThreads + 1 /\ runningThreads' = runningThreads - 1
    BY <1>2 DEF Leave, Enter, Moves
  <2> QED BY <1>t, <1>c, <1>a, <1>b, <2>1 DEF CountInv, Waking
<1>3. ASSUME NEW t \in Threads, Sync(t) PROVE CountInv'
  <2>1. /\ Moves(t, "WAITING") /\ state[t] = "RUNNING" /\ pc = "free" /\ pc' = "wake1"
        /\ UNCHANGED leftThreads /\ runningThreads' = runningThreads - 1
    BY <1>3 DEF Sync, Enter, Moves
  <2> QED BY <1>t, <1>c, <1>a, <1>b, <2>1 DEF CountInv, Waking
<1>4. CASE WakeState
  <2>1. runList[curThreadIdx] \in Threads
    BY <1>4 DEF WakeState, CanWake, IndInv, BarrierTypeOK, Index, Threads
  <2>2. /\ Moves(runList[curThreadIdx], "RUNNING") /\ state[runList[curThreadIdx]] = "WAITING"
        /\ pc \in {"wake1", "wake2"} /\ pc' \in {"futex1", "futex2"}
        /\ runningThreads < ParallelThreads /\ UNCHANGED <<runningThreads, leftThreads>>
    BY <1>4 DEF WakeState, CanWake, countVars, Moves
  <2> QED BY <1>t, <1>c, <1>a, <1>b, <2>1, <2>2 DEF CountInv, Waking
<1>5. CASE WakeFutex
  BY <1>5, <1>t, <1>c DEF WakeFutex, CountInv, Waking, listVars, localVars
<1>6. CASE EndPhase
  BY <1>6, <1>t, <1>c DEF EndPhase, CountInv, Waking, threadVars
<1>7. CASE CleanupStep
  <2>1. runList[idx] \in Threads
    <3>1. idx < newSize
      BY <1>7 DEF CleanupStep
    <3>2. idx \in Index /\ newSize \in Index /\ runList \in [Threads -> Threads]
      BY DEF IndInv, BarrierTypeOK
    <3> QED BY <3>1, <3>2 DEF Index, Threads
  <2>2. /\ pc = "clean" /\ UNCHANGED <<pc, runningThreads, leftThreads, runListSize>>
        /\ \/ /\ state[runList[idx]] = "LEFT" /\ newSize' = newSize - 1
              /\ Moves(runList[idx], "OFFLINE")
           \/ UNCHANGED <<state, newSize>>
    BY <1>7 DEF CleanupStep, countVars, Moves
  <2> QED BY <1>t, <1>c, <1>a, <1>b, <2>1, <2>2 DEF CountInv, Waking
<1>8. CASE CleanupDone
  <2>1. \A t \in Threads : state[t] # "LEFT"
    <3>1. \A i \in Live : state[runList[i]] # "LEFT"
      BY <1>8 DEF CleanupDone, IndInv, BarrierTypeOK, Index, CursorInv, ListInv, Live, ListEnd
    <3> QED BY <1>8, <3>1 DEF CleanupDone, IndInv, ListInv, Holds, Live
  <2>2. Count(state, "LEFT") = 0
    BY <2>1, FS_EmptySet DEF Count
  <2> QED BY <1>8, <1>t, <1>c, <2>2 DEF CleanupDone, CountInv, Waking, threadVars
<1>9. CASE SkipThread \/ WakeDone \/ Shuffle \/ Unlock
  BY <1>9, <1>c DEF SkipThread, WakeDone, Shuffle, Unlock, CountInv, Waking, threadVars, listVars, countVars, localVars
<1>10. ASSUME NEW t \in Threads, WaitForWakeup(t) PROVE CountInv'
  BY <1>10, <1>c DEF WaitForWakeup, CheckState, FutexWait, WakeUp, MoveTo, CountInv, Waking, threadVars, listVars, countVars, localVars
<1>11. CASE UNCHANGED barrierVars
  BY <1>11, <1>c DEF CountInv, Waking, barrierVars, threadVars, listVars, countVars, localVars
<1> QED BY <1>1, <1>2, <1>3, <1>4, <1>5, <1>6, <1>7, <1>8, <1>9, <1>10, <1>11
        DEF BarrierNext, TryWakeNext

\* What the cursor points at while it may move is a thread.
LEMMA CursorInRange == IndInv /\ CanWake => curThreadIdx \in Threads /\ runList[curThreadIdx] \in Threads
<1> SUFFICES ASSUME IndInv, CanWake PROVE curThreadIdx \in Threads /\ runList[curThreadIdx] \in Threads
  OBVIOUS
<1>1. /\ runListSize \in Index /\ curThreadIdx \in 0 .. runListSize /\ runList \in [Threads -> Threads]
      /\ curThreadIdx < runListSize
  BY DEF IndInv, BarrierTypeOK, CanWake
<1> QED BY <1>1, BarrierAssumption DEF Index, Threads

\* state, futexWord and the waiting threads stay in step: no lost wakeup.
LEMMA WakeStep == IndInv /\ [BarrierNext]_barrierVars => WakeInv'
<1> SUFFICES ASSUME IndInv, [BarrierNext]_barrierVars PROVE WakeInv'
  OBVIOUS
<1>t. /\ state \in [Threads -> States] /\ futexWord \in [Threads -> {0, 1}]
      /\ thr \in [Threads -> {"out", "run", "locked", "check", "wait", "asleep", "woken"}]
      /\ self \in Threads /\ wtid \in Threads /\ call \in {"join", "leave", "sync"}
      /\ pc \in {"free", "wake1", "futex1", "clean", "shuffle", "wake2", "futex2", "unlock"}
  BY DEF IndInv, BarrierTypeOK
<1>w. WakeInv
  BY DEF IndInv
<1> USE DEF WakeInv, NoLostWakeup, Waking
<1>1. ASSUME NEW t \in Threads, Join(t) PROVE WakeInv'
  <2>1. /\ pc = "free" /\ thr[t] = "out" /\ state' = [state EXCEPT ![t] = "WAITING"]
        /\ futexWord' = [futexWord EXCEPT ![t] = 1] /\ thr' = [thr EXCEPT ![t] = "locked"]
        /\ pc' = "wake1" /\ self' = t /\ UNCHANGED wtid
    BY <1>1 DEF Join, Enter
  <2> QED BY <1>t, <1>w, <2>1 DEF States
<1>2. ASSUME NEW t \in Threads, Leave(t) PROVE WakeInv'
  BY <1>2, <1>t, <1>w DEF Leave, Enter, States
<1>3. ASSUME NEW t \in Threads, Sync(t) PROVE WakeInv'
  BY <1>3, <1>t, <1>w DEF Sync, Enter, States
<1>4. CASE WakeState
  <2> DEFINE t == runList[curThreadIdx]
  <2>1. /\ t \in Threads /\ state[t] = "WAITING" /\ state' = [state EXCEPT ![t] = "RUNNING"]
        /\ pc \in {"wake1", "wake2"} /\ pc' \in {"futex1", "futex2"} /\ wtid' = t
        /\ UNCHANGED <<futexWord, thr, self, call>>
    BY <1>4, CursorInRange DEF WakeState
  <2> HIDE DEF t
  <2> QED BY <1>t, <1>w, <2>1 DEF States
<1>5. CASE WakeFutex
  BY <1>5, <1>t, <1>w DEF WakeFutex, localVars
<1>6. CASE EndPhase
  BY <1>6, <1>t, <1>w DEF EndPhase, threadVars
<1>7. CASE CleanupStep
  <2>1. /\ pc = "clean" /\ UNCHANGED <<pc, futexWord, thr, self, call, wtid>>
        /\ state' = state \/ \E t : state[t] = "LEFT" /\ state' = [state EXCEPT ![t] = "OFFLINE"]
    BY <1>7 DEF CleanupStep
  <2> QED BY <1>t, <1>w, <2>1
<1>8. CASE CleanupDone \/ SkipThread \/ WakeDone \/ Shuffle \/ Unlock
  BY <1>8, <1>t, <1>w DEF CleanupDone, SkipThread, WakeDone, Shuffle, Unlock, threadVars, localVars
<1>9. ASSUME NEW t \in Threads, WaitForWakeup(t) PROVE WakeInv'
  BY <1>9, <1>t, <1>w DEF WaitForWakeup, CheckState, FutexWait, Blocks, WakeUp, MoveTo,
                          threadVars, localVars, States
<1>10. CASE UNCHANGED barrierVars
  BY <1>10, <1>w DEF barrierVars, threadVars, localVars
<1> QED BY <1>1, <1>2, <1>3, <1>4, <1>5, <1>6, <1>7, <1>8, <1>9, <1>10
        DEF BarrierNext, TryWakeNext

\* There is room on the run list for a thread that is not on it.
LEMMA RoomForOffline ==
    ASSUME IndInv, pc # "clean", NEW t \in Threads, state[t] = "OFFLINE"
    PROVE  runListSize < MaxThreads
<1> DEFINE f == [i \in 0 .. runListSize - 1 |-> runList[i]]
<1>t. runListSize \in Index /\ runList \in [Threads -> Threads]
  BY DEF IndInv, BarrierTypeOK
<1>l. /\ \A i, j \in 0 .. runListSize - 1 : runList[i] = runList[j] => i = j
      /\ \A i \in 0 .. runListSize - 1 : runList[i] \in Threads /\ runList[i] # t
  BY <1>t, BarrierAssumption DEF IndInv, ListInv, Holds, ListEnd, Index, Threads
<1>1. f \in Injection(0 .. runListSize - 1, Threads \ {t})
  BY <1>l DEF Injection, IsInjective
<1>2. IsFiniteSet(Threads \ {t}) /\ Cardinality(Threads \ {t}) = MaxThreads - 1
  BY ThreadsFinite, FS_RemoveElement
<1>3. Cardinality(0 .. runListSize - 1) <= Cardinality(Threads \ {t})
  BY <1>1, <1>2, FS_Injection
<1>4. Cardinality(0 .. runListSize - 1) = runListSize
  BY <1>t, BarrierAssumption, FS_Interval DEF Index
<1> QED BY <1>2, <1>3, <1>4, <1>t, BarrierAssumption DEF Index

\* Three ways to change a list: t at the end, another order, k's place filled by
\* the last; and a change of the state of one thread.
Appended(l, m, n, t)  == m[n] = t /\ \A i \in 0 .. n - 1 : m[i] = l[i]
Reordered(l, m, n, p) == /\ \A i \in 0 .. n - 1 : p[i] \in 0 .. n - 1 /\ m[i] = l[p[i]]
                         /\ \A i, j \in 0 .. n - 1 : p[i] = p[j] => i = j
                         /\ \A j \in 0 .. n - 1 : \E i \in 0 .. n - 1 : p[i] = j
Filled(l, m, n, k)    == m[k] = l[n - 1] /\ \A i \in 0 .. n - 1 : i # k => m[i] = l[i]
SameBut(st, su, t)    == \A u \in Threads : u # t => su[u] = st[u]
SameOffline(st, su)   == \A u \in Threads : su[u] = "OFFLINE" <=> st[u] = "OFFLINE"

\* A thread put at the end of the list.
LEMMA HoldsGrow ==
    ASSUME NEW l, NEW m, NEW n \in Nat, NEW st, NEW su, NEW t \in Threads, Holds(l, n, st),
           st[t] = "OFFLINE", su[t] # "OFFLINE", SameBut(st, su, t), Appended(l, m, n, t)
    PROVE  Holds(m, n + 1, su)
<1> USE DEF SameBut, Appended
<1>1. \A i \in 0 .. n - 1 : l[i] # t
  BY DEF Holds
<1>2. \A i \in 0 .. (n + 1) - 1 : i \in 0 .. n - 1 \/ i = n
  OBVIOUS
<1>3. \A i, j \in 0 .. (n + 1) - 1 : m[i] = m[j] => i = j
  BY <1>1, <1>2 DEF Holds
<1>4. ASSUME NEW u \in Threads PROVE su[u] # "OFFLINE" <=> \E i \in 0 .. (n + 1) - 1 : m[i] = u
  <2>1. n \in 0 .. (n + 1) - 1 /\ \A i \in 0 .. n - 1 : i \in 0 .. (n + 1) - 1
    OBVIOUS
  <2>2. CASE u = t
    BY <2>1, <2>2
  <2>3. CASE u # t
    BY <1>2, <2>1, <2>3 DEF Holds
  <2> QED BY <2>2, <2>3
<1> QED BY <1>3, <1>4 DEF Holds

\* A list in another order, by the swap of join or by the shuffle.
LEMMA HoldsPermuted ==
    ASSUME NEW l, NEW m, NEW n \in Nat, NEW st, NEW su, NEW p, Holds(l, n, st),
           SameOffline(st, su), Reordered(l, m, n, p)
    PROVE  Holds(m, n, su)
<1> USE DEF SameOffline, Reordered
<1>1. \A i, j \in 0 .. n - 1 : m[i] = m[j] => i = j
  BY DEF Holds
<1>2. \A u \in Threads : (\E i \in 0 .. n - 1 : l[i] = u) <=> (\E i \in 0 .. n - 1 : m[i] = u)
  OBVIOUS
<1> QED BY <1>1, <1>2 DEF Holds

\* A thread taken off the list, the last one filling its place.
LEMMA HoldsDrop ==
    ASSUME NEW l, NEW m, NEW n \in Nat, NEW st, NEW su, NEW k \in 0 .. n - 1,
           Holds(l, n, st), l[k] \in Threads, su[l[k]] = "OFFLINE",
           SameBut(st, su, l[k]), Filled(l, m, n, k)
    PROVE  Holds(m, n - 1, su)
<1> USE DEF SameBut, Filled
<1>1. /\ n - 1 \in 0 .. n - 1
      /\ \A i \in 0 .. (n - 1) - 1 : i \in 0 .. n - 1 /\ i # n - 1
      /\ \A i \in 0 .. n - 1 : i # n - 1 => i \in 0 .. (n - 1) - 1
  OBVIOUS
<1>2. \A i, j \in 0 .. (n - 1) - 1 : m[i] = m[j] => i = j
  BY <1>1 DEF Holds
<1>3. ASSUME NEW u \in Threads PROVE su[u] # "OFFLINE" <=> \E i \in 0 .. (n - 1) - 1 : m[i] = u
  <2>1. CASE u = l[k]
    BY <1>1, <2>1 DEF Holds
  <2>2. CASE u # l[k] /\ u = l[n - 1]
    BY <1>1, <2>2 DEF Holds
  <2>3. CASE u # l[k] /\ u # l[n - 1]
    BY <1>1, <2>3 DEF Holds
  <2> QED BY <2>1, <2>2, <2>3
<1> QED BY <1>2, <1>3 DEF Holds

\* Joins, swaps, the cleanup pass and shuffles keep every thread that is not
\* OFFLINE on the run list, once.
LEMMA ListStep == IndInv /\ [BarrierNext]_barrierVars => ListInv'
<1> SUFFICES ASSUME IndInv, [BarrierNext]_barrierVars PROVE ListInv'
  OBVIOUS
<1>t. /\ state \in [Threads -> States] /\ runList \in [Threads -> Threads]
      /\ lastIdx \in [Threads -> Nat] /\ runListSize \in 0 .. MaxThreads
      /\ newSize \in 0 .. MaxThreads /\ idx \in 0 .. MaxThreads
      /\ curThreadIdx \in 0 .. runListSize
  BY DEF IndInv, BarrierTypeOK, Index
<1>l. ListInv
  BY DEF IndInv
<1>h. pc # "clean" => Holds(runList, runListSize, state)
  BY <1>l DEF ListInv, ListEnd
<1>s. ASSUME pc # "clean", UNCHANGED <<runList, runListSize>>, pc' # "clean",
             \A u \in Threads : state'[u] = "OFFLINE" <=> state[u] = "OFFLINE"
      PROVE  ListInv'
  BY <1>h, <1>s DEF ListInv, ListEnd, Holds
<1> USE BarrierAssumption
<1>1. ASSUME NEW t \in Threads, Join(t), JoinOffline(t) PROVE ListInv'
  <2>1. /\ pc = "free" /\ pc' = "wake1" /\ state[t] = "OFFLINE"
        /\ state' = [state EXCEPT ![t] = "WAITING"]
        /\ runList' = [runList EXCEPT ![runListSize] = t] /\ runListSize' = runListSize + 1
    BY <1>1 DEF Join, JoinOffline, GrownSize, Enter
  <2>2. runListSize < MaxThreads
    BY <2>1, RoomForOffline
  <2>3. Appended(runList, runList', runListSize, t)
    BY <1>t, <2>1, <2>2 DEF Threads, Appended
  <2>4. state'[t] # "OFFLINE" /\ SameBut(state, state', t)
    BY <1>t, <2>1 DEF SameBut
  <2>5. Holds(runList', runListSize + 1, state')
    <3>1. runListSize \in Nat /\ Holds(runList, runListSize, state)
      BY <1>t, <1>h, <2>1
    <3> QED BY <2>1, <2>3, <2>4, <3>1, HoldsGrow
  <2> QED BY <2>1, <2>5 DEF ListInv, ListEnd
<1>2. ASSUME NEW t \in Threads, Join(t), JoinAhead(t) PROVE ListInv'
  BY <1>2, <1>t, <1>s DEF Join, JoinAhead, Enter, listVars
<1>3. ASSUME NEW t \in Threads, Join(t), JoinSamePhase(t) PROVE ListInv'
  <2> DEFINE a == lastIdx[t]
             b == curThreadIdx - 1
             p == [i \in 0 .. runListSize - 1 |-> IF i = a THEN b ELSE IF i = b THEN a ELSE i]
  <2>1. /\ pc = "free" /\ pc' = "wake1" /\ state[t] = "LEFT" /\ UNCHANGED runListSize
        /\ state' = [state EXCEPT ![t] = "WAITING"] /\ curThreadIdx > a /\ runList[a] = t
        /\ runList' = [runList EXCEPT ![a] = runList[b], ![b] = t]
    BY <1>3 DEF Join, JoinSamePhase, SwappedList, RanThisPhase, Enter
  <2>2. /\ a \in 0 .. runListSize - 1 /\ b \in 0 .. runListSize - 1
        /\ \A i \in 0 .. runListSize - 1 : i \in Threads
    <3>1. a \in Nat
      BY <1>t
    <3> HIDE DEF a
    <3> QED BY <1>t, <2>1, <3>1 DEF Threads
  <2>3. SameOffline(state, state')
    BY <1>t, <2>1 DEF SameOffline
  <2> HIDE DEF a, b
  <2>4. \A i \in 0 .. runListSize - 1 : p[i] \in 0 .. runListSize - 1 /\ runList'[i] = runList[p[i]]
    BY <1>t, <2>1, <2>2
  <2>5. /\ \A i, j \in 0 .. runListSize - 1 : p[i] = p[j] => i = j
        /\ \A j \in 0 .. runListSize - 1 : p[p[j]] = j
    BY <2>2
  <2> HIDE DEF p
  <2>6. Reordered(runList, runList', runListSize, p)
    BY <2>4, <2>5 DEF Reordered
  <2>7. Holds(runList', runListSize, state')
    BY <1>t, <1>h, <2>1, <2>3, <2>6, HoldsPermuted
  <2> QED BY <2>1, <2>7 DEF ListInv, ListEnd
<1>4. ASSUME NEW t \in Threads, Leave(t) \/ Sync(t) PROVE ListInv'
  BY <1>4, <1>t, <1>s DEF Leave, Sync, Enter, listVars
<1>5. CASE WakeState
  <2>1. /\ pc # "clean" /\ pc' # "clean" /\ UNCHANGED <<runList, runListSize>>
        /\ state[runList[curThreadIdx]] = "WAITING"
        /\ state' = [state EXCEPT ![runList[curThreadIdx]] = "RUNNING"]
    BY <1>5 DEF WakeState
  <2> QED BY <1>t, <1>s, <2>1
<1>6. CASE EndPhase
  <2>1. /\ pc # "clean" /\ UNCHANGED <<runList, runListSize, state>>
        /\ pc' = "clean" => newSize' = runListSize /\ idx' = 0
    BY <1>6 DEF EndPhase, threadVars
  <2> QED BY <1>t, <1>h, <2>1 DEF ListInv, ListEnd, Holds
<1>7. CASE CleanupStep
  <2>h. Holds(runList, newSize, state)
    BY <1>7, <1>l DEF CleanupStep, ListInv, ListEnd
  <2>1. CASE state[runList[idx]] = "LEFT"
    <3>1. /\ pc = "clean" /\ pc' = "clean" /\ idx < newSize /\ newSize <= runListSize
          /\ state' = [state EXCEPT ![runList[idx]] = "OFFLINE"]
          /\ runList' = [runList EXCEPT ![idx] = runList[newSize - 1]]
          /\ newSize' = newSize - 1 /\ UNCHANGED <<idx, runListSize>>
      BY <1>7, <1>l, <2>1 DEF CleanupStep, ListInv
    <3>2. idx \in 0 .. newSize - 1 /\ \A i \in 0 .. newSize - 1 : i \in Threads
      BY <1>t, <3>1 DEF Threads
    <3>3. Filled(runList, runList', newSize, idx) /\ runList[idx] \in Threads
      BY <1>t, <3>1, <3>2 DEF Filled
    <3>4. state'[runList[idx]] = "OFFLINE" /\ SameBut(state, state', runList[idx])
      BY <1>t, <3>1, <3>3 DEF SameBut
    <3>5. Holds(runList', newSize - 1, state')
      BY <1>t, <2>h, <3>2, <3>3, <3>4, HoldsDrop
    <3> QED BY <1>t, <3>1, <3>5 DEF ListInv, ListEnd
  <2>2. CASE state[runList[idx]] # "LEFT"
    <3>1. /\ pc = "clean" /\ pc' = "clean" /\ idx < newSize /\ idx' = idx + 1
          /\ UNCHANGED <<state, runList, newSize, runListSize>>
      BY <1>7, <2>2 DEF CleanupStep
    <3> QED BY <1>t, <1>l, <2>h, <3>1 DEF ListInv, ListEnd
  <2> QED BY <2>1, <2>2
<1>8. CASE CleanupDone
  BY <1>8, <1>l DEF CleanupDone, threadVars, ListInv, ListEnd
<1>9. CASE Shuffle
  <2>1. pc # "clean" /\ pc' # "clean" /\ UNCHANGED <<runListSize, state>>
    BY <1>9 DEF Shuffle
  <2>2. CASE UNCHANGED runList
    BY <2>1, <2>2, <1>s
  <2>3. CASE ~UNCHANGED runList
    <3>1. PICK p \in Shuffles : runList' = [i \in Threads |->
                                  IF i \in Positions THEN runList[p[i]] ELSE runList[i]]
      BY <1>9, <2>3 DEF Shuffle
    <3>2. /\ \A i \in 0 .. runListSize - 1 : p[i] \in 0 .. runListSize - 1
          /\ \A i, j \in 0 .. runListSize - 1 : p[i] = p[j] => i = j
          /\ \A j \in 0 .. runListSize - 1 : \E i \in 0 .. runListSize - 1 : p[i] = j
      BY DEF Shuffles, Positions, Bijection, Injection, Surjection, IsInjective
    <3>3. \A i \in 0 .. runListSize - 1 : runList'[i] = runList[p[i]]
      BY <1>t, <3>1 DEF Threads, Positions
    <3>4. Reordered(runList, runList', runListSize, p) /\ SameOffline(state, state')
      BY <2>1, <3>2, <3>3 DEF Reordered, SameOffline
    <3>5. Holds(runList', runListSize, state')
      BY <1>t, <1>h, <2>1, <3>4, HoldsPermuted
    <3> QED BY <2>1, <3>5 DEF ListInv, ListEnd
  <2> QED BY <2>2, <2>3
<1>10. CASE WakeFutex \/ SkipThread \/ WakeDone \/ Unlock
  BY <1>10, <1>s DEF WakeFutex, SkipThread, WakeDone, Unlock, threadVars, listVars
<1>11. ASSUME NEW t \in Threads, WaitForWakeup(t) PROVE ListInv'
  BY <1>11, <1>l DEF WaitForWakeup, CheckState, FutexWait, WakeUp, MoveTo, threadVars, listVars,
                     localVars, ListInv, ListEnd, Holds
<1>12. CASE UNCHANGED barrierVars
  BY <1>12, <1>l DEF barrierVars, threadVars, listVars, localVars, ListInv, ListEnd, Holds
<1> QED BY <1>1, <1>2, <1>3, <1>4, <1>5, <1>6, <1>7, <1>8, <1>9, <1>10, <1>11, <1>12
        DEF BarrierNext, TryWakeNext, Join

\* The second part of CursorInv, of one position of the list.
AtCursor(i) == /\ i < curThreadIdx \/ state[runList[i]] = "LEFT" => lastIdx[runList[i]] = i
               /\ i >= curThreadIdx => state[runList[i]] # "RUNNING"

\* What IndInv says of the list and its cursor outside the cleanup pass.
LEMMA CursorFacts ==
    ASSUME IndInv, pc # "clean"
    PROVE  /\ runListSize \in Nat /\ curThreadIdx \in 0 .. runListSize
           /\ \A i \in 0 .. runListSize - 1 :
                 i \in Threads /\ runList[i] \in Threads /\ state[runList[i]] # "OFFLINE" /\ AtCursor(i)
           /\ \A i, j \in 0 .. runListSize - 1 : runList[i] = runList[j] => i = j
<1>1. runListSize \in 0 .. MaxThreads /\ curThreadIdx \in 0 .. runListSize
  BY DEF IndInv, BarrierTypeOK, Index
<1>2. \A i \in 0 .. runListSize - 1 : i \in Threads
  BY <1>1, BarrierAssumption DEF Threads
<1>3. \A i \in Threads : runList[i] \in Threads
  BY DEF IndInv, BarrierTypeOK
<1>4. Holds(runList, runListSize, state)
  BY DEF IndInv, ListInv, ListEnd
<1>5. \A i \in 0 .. runListSize - 1 : AtCursor(i)
  BY DEF IndInv, CursorInv, Live, ListEnd, AtCursor
<1>6. \A i \in 0 .. runListSize - 1 : state[runList[i]] # "OFFLINE"
  BY <1>2, <1>3, <1>4 DEF Holds
<1> QED BY <1>1, <1>2, <1>3, <1>4, <1>5, <1>6, BarrierAssumption DEF Holds

\* Nobody runs when a phase ends.
LEMMA NobodyRuns ==
    ASSUME IndInv, pc = "wake1", runningThreads = 0
    PROVE  \A t \in Threads : state[t] # "RUNNING"
<1> DEFINE S == {t \in Threads : state[t] = "RUNNING"}
<1>1. Cardinality(S) = 0
  BY DEF IndInv, CountInv, Count, Waking
<1>2. IsFiniteSet(S)
  BY ThreadsFinite
<1> QED BY <1>1, <1>2, FS_EmptySet

\* The lastIdx that join tests and asserts on is right, through every step.
LEMMA CursorStep == IndInv /\ [BarrierNext]_barrierVars => CursorInv'
<1> SUFFICES ASSUME IndInv, [BarrierNext]_barrierVars PROVE CursorInv'
  OBVIOUS
<1>t. /\ state \in [Threads -> States] /\ runList \in [Threads -> Threads]
      /\ lastIdx \in [Threads -> Nat]
      /\ newSize \in 0 .. MaxThreads /\ idx \in 0 .. MaxThreads
  BY DEF IndInv, BarrierTypeOK, Index
<1>c. CursorInv
  BY DEF IndInv
<1>f. pc # "clean" =>
           /\ runListSize \in Nat /\ curThreadIdx \in 0 .. runListSize
           /\ \A i \in 0 .. runListSize - 1 :
                 i \in Threads /\ runList[i] \in Threads /\ state[runList[i]] # "OFFLINE" /\ AtCursor(i)
           /\ \A i, j \in 0 .. runListSize - 1 : runList[i] = runList[j] => i = j
  BY CursorFacts
<1>g. ASSUME pc' \notin {"clean", "shuffle"}, \A i \in 0 .. runListSize' - 1 : AtCursor(i)'
      PROVE  CursorInv'
  BY <1>g DEF CursorInv, AtCursor, Live, ListEnd
<1> USE BarrierAssumption
<1>1. ASSUME NEW t \in Threads, Join(t), JoinOffline(t) PROVE CursorInv'
  <2>1. /\ pc = "free" /\ pc' = "wake1" /\ state[t] = "OFFLINE" /\ UNCHANGED <<lastIdx, curThreadIdx>>
        /\ state' = [state EXCEPT ![t] = "WAITING"]
        /\ runList' = [runList EXCEPT ![runListSize] = t] /\ runListSize' = runListSize + 1
    BY <1>1 DEF Join, JoinOffline, GrownSize, Enter
  <2>2. runListSize < MaxThreads
    BY <2>1, RoomForOffline
  <2>3. runList'[runListSize] = t /\ state'[t] = "WAITING"
    BY <1>t, <1>f, <2>1, <2>2 DEF Threads
  <2>4. ASSUME NEW i \in 0 .. runListSize - 1 PROVE AtCursor(i)'
    <3>1. runList'[i] = runList[i] /\ state'[runList[i]] = state[runList[i]]
      BY <1>t, <1>f, <2>1
    <3> QED BY <1>f, <2>1, <3>1 DEF AtCursor
  <2>5. ASSUME NEW i, i = runListSize PROVE AtCursor(i)'
    BY <1>f, <2>1, <2>3, <2>5 DEF AtCursor
  <2>6. \A i \in 0 .. runListSize' - 1 : i \in 0 .. runListSize - 1 \/ i = runListSize
    BY <1>f, <2>1
  <2> QED BY <1>g, <2>1, <2>4, <2>5, <2>6
<1>2. ASSUME NEW t \in Threads, Join(t), JoinAhead(t) PROVE CursorInv'
  <2>1. /\ pc = "free" /\ pc' = "wake1" /\ UNCHANGED <<lastIdx, curThreadIdx, runList, runListSize>>
        /\ state' = [state EXCEPT ![t] = "WAITING"]
    BY <1>2 DEF Join, JoinAhead, Enter, listVars
  <2>2. ASSUME NEW i \in 0 .. runListSize - 1 PROVE AtCursor(i)'
    BY <1>t, <1>f, <2>1 DEF AtCursor
  <2> QED BY <1>g, <2>1, <2>2
<1>3. ASSUME NEW t \in Threads, Join(t), JoinSamePhase(t) PROVE CursorInv'
  <2> DEFINE a == lastIdx[t]
             b == curThreadIdx - 1
             r == runList[b]
  <2>1. /\ pc = "free" /\ pc' = "wake1" /\ state[t] = "LEFT" /\ UNCHANGED runListSize
        /\ curThreadIdx' = b
        /\ state' = [state EXCEPT ![t] = "WAITING"] /\ curThreadIdx > a /\ runList[a] = t
        /\ runList' = [runList EXCEPT ![a] = r, ![b] = t]
        /\ lastIdx' = [[lastIdx EXCEPT ![r] = a] EXCEPT ![t] = b]
    BY <1>3 DEF Join, JoinSamePhase, SwappedList, SwappedIdx, RanThisPhase, Enter
  <2>2. /\ a \in 0 .. runListSize - 1 /\ b \in 0 .. runListSize - 1 /\ a <= b
        /\ curThreadIdx = b + 1
    <3>1. a \in Nat
      BY <1>t
    <3> HIDE DEF a
    <3> QED BY <1>f, <2>1, <3>1
  <2>3. a \in Threads /\ b \in Threads /\ r \in Threads
    BY <1>f, <2>1, <2>2
  <2> HIDE DEF a, b, r
  <2>4. ASSUME NEW i \in 0 .. runListSize - 1 PROVE AtCursor(i)'
    <3>1. CASE i = b
      <4>1. runList'[i] = t /\ lastIdx'[t] = i /\ state'[t] = "WAITING"
        BY <1>t, <2>1, <2>3, <3>1
      <4> QED BY <4>1 DEF AtCursor
    <3>2. CASE i = a /\ i # b
      <4>1. runList'[i] = r /\ i < b
        BY <1>t, <2>1, <2>2, <2>3, <3>2
      <4>2. r # t
        BY <1>f, <2>1, <2>2, <3>2 DEF r
      <4>3. lastIdx'[r] = i
        BY <1>t, <2>1, <2>3, <3>2, <4>2
      <4> QED BY <2>1, <2>2, <4>1, <4>3 DEF AtCursor
    <3>3. CASE i # a /\ i # b
      <4>1. runList'[i] = runList[i] /\ runList[i] \in Threads
        BY <1>f, <1>t, <2>1, <3>3
      <4>2. runList[i] # t /\ runList[i] # r
        BY <1>f, <2>1, <2>2, <3>3 DEF r
      <4>3. lastIdx'[runList[i]] = lastIdx[runList[i]] /\ state'[runList[i]] = state[runList[i]]
        BY <1>t, <2>1, <4>1, <4>2
      <4>4. AtCursor(i)
        BY <1>f, <2>1
      <4> QED BY <2>1, <2>2, <3>3, <4>1, <4>3, <4>4 DEF AtCursor
    <3> QED BY <3>1, <3>2, <3>3
  <2> QED BY <1>g, <2>1, <2>4
<1>4. ASSUME NEW t \in Threads, Leave(t) \/ Sync(t) PROVE CursorInv'
  <2>1. /\ pc = "free" /\ pc' = "wake1" /\ UNCHANGED <<lastIdx, curThreadIdx, runList, runListSize>>
        /\ state[t] = "RUNNING"
        /\ state' = [state EXCEPT ![t] = "LEFT"] \/ state' = [state EXCEPT ![t] = "WAITING"]
    BY <1>4 DEF Leave, Sync, Enter, listVars
  <2>2. ASSUME NEW i \in 0 .. runListSize - 1 PROVE AtCursor(i)'
    <3>1. AtCursor(i) /\ runList[i] \in Threads /\ curThreadIdx \in Int
      BY <1>f, <2>1
    <3> QED BY <1>t, <2>1, <3>1 DEF AtCursor
  <2> QED BY <1>g, <2>1, <2>2
<1>5. CASE WakeState
  <2> DEFINE t == runList[curThreadIdx]
  <2>1. /\ pc \in {"wake1", "wake2"} /\ pc' \in {"futex1", "futex2"} /\ UNCHANGED <<runList, runListSize>>
        /\ t \in Threads /\ curThreadIdx' = curThreadIdx + 1 /\ curThreadIdx < runListSize
        /\ state' = [state EXCEPT ![t] = "RUNNING"] /\ lastIdx' = [lastIdx EXCEPT ![t] = curThreadIdx]
    BY <1>5, CursorInRange DEF WakeState, CanWake
  <2>2. ASSUME NEW i \in 0 .. runListSize - 1 PROVE AtCursor(i)'
    <3>1. CASE i = curThreadIdx
      BY <1>t, <1>f, <2>1, <3>1 DEF AtCursor
    <3>2. CASE i # curThreadIdx
      <4>1. runList[i] # t /\ runList[i] \in Threads /\ AtCursor(i)
        BY <1>f, <2>1, <3>2
      <4> HIDE DEF t
      <4> QED BY <1>t, <1>f, <2>1, <3>2, <4>1 DEF AtCursor
    <3> QED BY <3>1, <3>2
  <2> QED BY <1>g, <2>1, <2>2
<1>6. CASE SkipThread
  <2>1. /\ pc \in {"wake1", "wake2"} /\ UNCHANGED <<runList, runListSize, state, lastIdx, pc>>
        /\ state[runList[curThreadIdx]] # "WAITING"
        /\ curThreadIdx' = curThreadIdx + 1 /\ curThreadIdx < runListSize
    BY <1>6 DEF SkipThread, CanWake, threadVars
  <2>2. state[runList[curThreadIdx]] = "LEFT"
    <3>1. curThreadIdx \in 0 .. runListSize - 1
      BY <1>f, <2>1
    <3> QED BY <1>t, <1>f, <2>1, <3>1 DEF AtCursor, States
  <2>3. ASSUME NEW i \in 0 .. runListSize - 1 PROVE AtCursor(i)'
    <3>1. CASE i = curThreadIdx
      BY <1>f, <2>1, <2>2, <3>1 DEF AtCursor
    <3>2. CASE i # curThreadIdx
      BY <1>f, <2>1, <3>2 DEF AtCursor
    <3> QED BY <3>1, <3>2
  <2> QED BY <1>g, <2>1, <2>3
<1>7. CASE EndPhase
  <2>1. /\ pc = "wake1" /\ runningThreads = 0 /\ curThreadIdx = runListSize /\ curThreadIdx' = 0
        /\ UNCHANGED <<state, lastIdx, runList, runListSize>>
        /\ pc' = "clean" => newSize' = runListSize /\ idx' = 0
    BY <1>7 DEF EndPhase, PhaseOver, threadVars
  <2>2. \A i \in 0 .. runListSize - 1 : lastIdx[runList[i]] = i /\ state[runList[i]] # "RUNNING"
    BY <1>f, <2>1, NobodyRuns DEF AtCursor
  <2> QED BY <1>f, <2>1, <2>2 DEF CursorInv, Live, ListEnd
<1>8. CASE CleanupStep
  <2>0. /\ pc = "clean" /\ pc' = "clean" /\ curThreadIdx = 0 /\ curThreadIdx' = 0 /\ idx < newSize
        /\ Holds(runList, newSize, state)
        /\ \A i \in 0 .. idx - 1 : state[runList[i]] # "LEFT"
        /\ \A i \in 0 .. newSize - 1 : AtCursor(i)
    BY <1>8, <1>c DEF CleanupStep, CursorInv, AtCursor, Live, ListEnd, IndInv, ListInv
  <2>1. idx \in 0 .. newSize - 1 /\ newSize - 1 \in 0 .. newSize - 1
        /\ \A i \in 0 .. newSize - 1 : i \in Threads
    BY <1>t, <2>0 DEF Threads
  <2>2. /\ \A i \in 0 .. newSize' - 1 : AtCursor(i)'
        /\ \A i \in 0 .. idx' - 1 : state'[runList'[i]] # "LEFT"
    <3>2. CASE state[runList[idx]] = "LEFT"
      <4> DEFINE t == runList[idx]
                 s == runList[newSize - 1]
      <4>1. /\ state' = [state EXCEPT ![t] = "OFFLINE"] /\ runList' = [runList EXCEPT ![idx] = s]
            /\ lastIdx' = [lastIdx EXCEPT ![s] = idx] /\ newSize' = newSize - 1 /\ UNCHANGED idx
        BY <1>8, <3>2 DEF CleanupStep
      <4>2. t \in Threads /\ s \in Threads
        BY <1>t, <2>1
      <4>3. /\ \A i \in 0 .. newSize' - 1 : i \in 0 .. newSize - 1 /\ i # newSize - 1
            /\ \A i \in 0 .. idx' - 1 : i \in 0 .. newSize - 1 /\ i # newSize - 1 /\ i # idx
                                          /\ i \in 0 .. idx - 1
        BY <1>t, <2>0, <4>1
      <4>4. \A i \in 0 .. newSize - 1 : (runList[i] = t => i = idx) /\ (runList[i] = s => i = newSize - 1)
        BY <2>0, <2>1 DEF Holds
      <4> HIDE DEF t, s
      <4>5. ASSUME NEW i \in 0 .. newSize - 1, i # newSize - 1, i # idx
            PROVE  AtCursor(i)' /\ state'[runList'[i]] = state[runList[i]]
        <5>1. runList'[i] = runList[i] /\ runList[i] \in Threads /\ runList[i] # t /\ runList[i] # s
          BY <1>t, <2>1, <4>1, <4>4, <4>5
        <5>2. lastIdx'[runList[i]] = lastIdx[runList[i]] /\ state'[runList[i]] = state[runList[i]]
          BY <1>t, <4>1, <5>1
        <5> QED BY <2>0, <5>1, <5>2 DEF AtCursor
      <4>6. ASSUME idx # newSize - 1, NEW i, i = idx PROVE AtCursor(i)'
        <5>1. runList'[idx] = s /\ lastIdx'[s] = idx
          BY <1>t, <2>1, <4>1, <4>2
        <5>2. s # t
          BY <2>1, <4>4, <4>6 DEF s
        <5>3. state'[s] = state[s] /\ state[s] # "RUNNING"
          <6>1. AtCursor(newSize - 1) /\ newSize - 1 >= 0
            BY <2>0, <2>1
          <6> QED BY <1>t, <2>0, <4>1, <4>2, <5>2, <6>1 DEF AtCursor, s
        <5> QED BY <4>6, <5>1, <5>3 DEF AtCursor
      <4> QED BY <2>0, <4>3, <4>5, <4>6
    <3>3. CASE state[runList[idx]] # "LEFT"
      <4>1. idx' = idx + 1 /\ UNCHANGED <<state, runList, lastIdx, newSize, curThreadIdx>>
        BY <1>8, <3>3 DEF CleanupStep
      <4>2. \A i \in 0 .. idx' - 1 : i = idx \/ i \in 0 .. idx - 1
        BY <1>t, <4>1
      <4> QED BY <2>0, <3>3, <4>1, <4>2 DEF AtCursor
    <3> QED BY <3>2, <3>3
  <2> QED BY <2>0, <2>2 DEF CursorInv, AtCursor, Live, ListEnd
<1>9. CASE CleanupDone
  <2>1. /\ pc = "clean" /\ pc' = "shuffle" /\ runListSize' = newSize
        /\ UNCHANGED <<state, lastIdx, runList, curThreadIdx>>
    BY <1>9 DEF CleanupDone, threadVars
  <2> QED BY <1>c, <2>1 DEF CursorInv, Live, ListEnd
<1>10. CASE Shuffle
  <2>1. /\ pc = "shuffle" /\ pc' = "wake2" /\ UNCHANGED <<state, runListSize, curThreadIdx>>
        /\ curThreadIdx = 0
    BY <1>10, <1>c DEF Shuffle, CursorInv
  <2>2. CASE UNCHANGED <<runList, lastIdx>>
    BY <1>f, <1>g, <2>1, <2>2 DEF AtCursor
  <2>3. CASE ~UNCHANGED <<runList, lastIdx>>
    <3>1. PICK p \in Shuffles :
            /\ runList' = [i \in Threads |-> IF i \in Positions THEN runList[p[i]] ELSE runList[i]]
            /\ lastIdx' = [t \in Threads |->
                     IF \E i \in Positions : runList[p[i]] = t /\ ~(i = 0 /\ p[i] = 0)
                       THEN CHOOSE i \in Positions : runList[p[i]] = t
                       ELSE lastIdx[t]]
      BY <1>10, <2>3 DEF Shuffle
    <3>2. /\ \A i \in 0 .. runListSize - 1 : p[i] \in 0 .. runListSize - 1
          /\ \A i, j \in 0 .. runListSize - 1 : p[i] = p[j] => i = j
      BY DEF Shuffles, Positions, Bijection, Injection, Surjection, IsInjective
    <3>3. ASSUME NEW i \in 0 .. runListSize - 1 PROVE AtCursor(i)'
      <4> DEFINE u == runList[p[i]]
      <4>1. /\ runList'[i] = u /\ u \in Threads /\ AtCursor(p[i]) /\ p[i] >= 0
            /\ \A j \in Positions : runList[p[j]] = u => j = i
        BY <1>f, <2>1, <3>1, <3>2 DEF Positions
      <4>2. state[u] # "RUNNING" /\ (state[u] = "LEFT" => lastIdx[u] = p[i])
        BY <2>1, <4>1 DEF AtCursor
      <4>3. CASE i = 0 /\ p[i] = 0
        <5>1. lastIdx'[u] = lastIdx[u]
          BY <3>1, <4>1, <4>3
        <5> QED BY <2>1, <4>1, <4>2, <4>3, <5>1 DEF AtCursor
      <4>4. CASE ~(i = 0 /\ p[i] = 0)
        <5>1. lastIdx'[u] = CHOOSE j \in Positions : runList[p[j]] = u
          BY <3>1, <4>1, <4>4 DEF Positions
        <5>2. i \in Positions /\ runList[p[i]] = u
          BY DEF Positions
        <5> HIDE DEF u
        <5>3. (CHOOSE j \in Positions : runList[p[j]] = u) = i
          BY <4>1, <5>2
        <5> QED BY <2>1, <4>1, <4>2, <5>1, <5>3 DEF AtCursor
      <4> QED BY <4>3, <4>4
    <3> QED BY <1>g, <2>1, <3>3
  <2> QED BY <2>2, <2>3
<1>11. CASE WakeFutex \/ WakeDone \/ Unlock
  BY <1>11, <1>f, <1>g DEF WakeFutex, WakeDone, Unlock, threadVars, listVars, AtCursor
<1>12. ASSUME NEW t \in Threads, WaitForWakeup(t) PROVE CursorInv'
  BY <1>12, <1>c DEF WaitForWakeup, CheckState, FutexWait, WakeUp, MoveTo, threadVars, listVars,
                     localVars, CursorInv, Live, ListEnd
<1>13. CASE UNCHANGED barrierVars
  BY <1>13, <1>c DEF barrierVars, threadVars, listVars, localVars, CursorInv, Live, ListEnd
<1> QED BY <1>1, <1>2, <1>3, <1>4, <1>5, <1>6, <1>7, <1>8, <1>9, <1>10, <1>11, <1>12, <1>13
        DEF BarrierNext, TryWakeNext, Join

\* A join leaves a thread ahead of the cursor, so the phase does not end in it.
LEMMA JoinStep == IndInv /\ [BarrierNext]_barrierVars => JoinInv'
<1> SUFFICES ASSUME IndInv, [BarrierNext]_barrierVars PROVE JoinInv'
  OBVIOUS
<1>t. /\ state \in [Threads -> States] /\ runList \in [Threads -> Threads]
      /\ lastIdx \in [Threads -> Nat] /\ runningThreads \in 0 .. MaxThreads
  BY DEF IndInv, BarrierTypeOK, Index
<1>j. JoinInv
  BY DEF IndInv
<1>f. pc # "clean" =>
           /\ runListSize \in Nat /\ curThreadIdx \in 0 .. runListSize
           /\ \A i \in 0 .. runListSize - 1 :
                 i \in Threads /\ runList[i] \in Threads /\ AtCursor(i)
  BY CursorFacts
<1> USE BarrierAssumption
<1>w. ASSUME NEW i \in 0 .. runListSize' - 1, i >= curThreadIdx', state'[runList'[i]] = "WAITING",
             pc' = "wake1"
      PROVE  JoinInv'
  BY <1>w DEF JoinInv, Live, ListEnd
<1>1. ASSUME NEW t \in Threads, Join(t), JoinOffline(t) PROVE JoinInv'
  <2>1. /\ pc = "free" /\ pc' = "wake1" /\ state[t] = "OFFLINE" /\ UNCHANGED curThreadIdx
        /\ state' = [state EXCEPT ![t] = "WAITING"]
        /\ runList' = [runList EXCEPT ![runListSize] = t] /\ runListSize' = runListSize + 1
    BY <1>1 DEF Join, JoinOffline, GrownSize, Enter
  <2>2. runListSize < MaxThreads
    BY <2>1, RoomForOffline
  <2>3. runList'[runListSize] = t /\ state'[t] = "WAITING"
    BY <1>t, <1>f, <2>1, <2>2 DEF Threads
  <2>4. runListSize \in 0 .. runListSize' - 1 /\ runListSize >= curThreadIdx'
    BY <1>f, <2>1
  <2> QED BY <1>w, <2>1, <2>3, <2>4
<1>2. ASSUME NEW t \in Threads, Join(t), JoinAhead(t) PROVE JoinInv'
  <2>1. /\ pc = "free" /\ pc' = "wake1" /\ state[t] = "LEFT" /\ ~(curThreadIdx > lastIdx[t])
        /\ UNCHANGED <<lastIdx, curThreadIdx, runList, runListSize>>
        /\ state' = [state EXCEPT ![t] = "WAITING"]
    BY <1>2 DEF Join, JoinAhead, RanThisPhase, Enter, listVars
  <2>2. PICK i \in 0 .. runListSize - 1 : runList[i] = t
    BY <2>1 DEF IndInv, ListInv, ListEnd, Holds
  <2>3. i >= curThreadIdx /\ state'[runList'[i]] = "WAITING"
    <3>1. AtCursor(i)
      BY <1>f, <2>1
    <3> QED BY <1>t, <1>f, <2>1, <2>2, <3>1 DEF AtCursor
  <2> QED BY <1>w, <2>1, <2>3
<1>3. ASSUME NEW t \in Threads, Join(t), JoinSamePhase(t) PROVE JoinInv'
  <2> DEFINE b == curThreadIdx - 1
  <2>1. /\ pc = "free" /\ pc' = "wake1" /\ UNCHANGED runListSize /\ curThreadIdx' = b
        /\ state' = [state EXCEPT ![t] = "WAITING"] /\ curThreadIdx > lastIdx[t]
        /\ runList' = [runList EXCEPT ![lastIdx[t]] = runList[b], ![b] = t]
    BY <1>3 DEF Join, JoinSamePhase, SwappedList, RanThisPhase, Enter
  <2>2. b \in 0 .. runListSize - 1
    <3>1. lastIdx[t] \in Nat
      BY <1>t
    <3> QED BY <1>f, <2>1, <3>1
  <2>3. b \in Threads
    BY <1>f, <2>1, <2>2
  <2> HIDE DEF b
  <2>4. runList'[b] = t /\ state'[t] = "WAITING"
    BY <1>t, <2>1, <2>3
  <2>5. b \in 0 .. runListSize' - 1 /\ b >= curThreadIdx'
    BY <2>1, <2>2
  <2> QED BY <1>w, <2>1, <2>4, <2>5
<1>4. ASSUME NEW t \in Threads, Leave(t) \/ Sync(t) PROVE JoinInv'
  BY <1>4 DEF Leave, Sync, Enter, JoinInv
<1>5. CASE WakeState
  BY <1>5, <1>j DEF WakeState, JoinInv
<1>6. CASE WakeFutex
  BY <1>6, <1>t, <1>j DEF WakeFutex, JoinInv, localVars
<1>7. CASE SkipThread
  <2>1. /\ UNCHANGED <<pc, call, runningThreads, runList, runListSize, state>>
        /\ pc \in {"wake1", "wake2"} /\ state[runList[curThreadIdx]] # "WAITING"
        /\ curThreadIdx' = curThreadIdx + 1
    BY <1>7 DEF SkipThread, threadVars, countVars, localVars
  <2>2. CASE pc = "wake1" /\ call = "join" /\ ~(runningThreads > 0)
    <3>1. PICK i \in 0 .. runListSize - 1 : i >= curThreadIdx /\ state[runList[i]] = "WAITING"
      BY <1>j, <2>2 DEF JoinInv, Live, ListEnd
    <3>2. i >= curThreadIdx'
      BY <1>f, <2>1, <3>1
    <3> QED BY <1>w, <2>1, <2>2, <3>1, <3>2
  <2>3. CASE ~(pc = "wake1" /\ call = "join" /\ ~(runningThreads > 0))
    BY <2>1, <2>3 DEF JoinInv
  <2> QED BY <2>2, <2>3
<1>8. CASE EndPhase
  <2>1. /\ pc = "wake1" /\ curThreadIdx = runListSize /\ runningThreads = 0
        /\ UNCHANGED call /\ pc' \in {"clean", "shuffle"}
    BY <1>8 DEF EndPhase, PhaseOver
  <2>2. call # "join"
    BY <1>j, <1>f, <2>1 DEF JoinInv, Live, ListEnd
  <2> QED BY <2>1, <2>2 DEF JoinInv
<1>9. CASE CleanupStep \/ CleanupDone \/ Shuffle \/ WakeDone \/ Unlock
  BY <1>9, <1>j DEF CleanupStep, CleanupDone, Shuffle, WakeDone, Unlock, JoinInv, localVars
<1>10. ASSUME NEW t \in Threads, WaitForWakeup(t) PROVE JoinInv'
  BY <1>10, <1>j DEF WaitForWakeup, CheckState, FutexWait, WakeUp, MoveTo, threadVars, listVars,
                     countVars, localVars, JoinInv, Live, ListEnd
<1>11. CASE UNCHANGED barrierVars
  BY <1>11, <1>j DEF barrierVars, threadVars, listVars, countVars, localVars, JoinInv, Live, ListEnd
<1> QED BY <1>1, <1>2, <1>3, <1>4, <1>5, <1>6, <1>7, <1>8, <1>9, <1>10, <1>11
        DEF BarrierNext, TryWakeNext, Join

\* Every variable stays in its range; that the counts do rests on CountInv.
LEMMA TypeStep == IndInv /\ [BarrierNext]_barrierVars => BarrierTypeOK'
<1> SUFFICES ASSUME IndInv, [BarrierNext]_barrierVars PROVE BarrierTypeOK'
  OBVIOUS
<1>t. BarrierTypeOK
  BY DEF IndInv
<1>n. ASSUME state' \in [Threads -> States], runningThreads' \in Int, pc' \notin {"futex1", "futex2", "clean"}
      PROVE  runningThreads' \in Index /\ leftThreads' \in Index
  <2>1. CountInv'
    BY CountStep
  <2>2. \A x : Count(state', x) \in 0 .. MaxThreads
    BY ThreadsFinite DEF Count
  <2> QED BY <1>n, <2>1, <2>2 DEF CountInv, Waking, Index
<1>f. pc # "clean" => \A i \in 0 .. runListSize - 1 : i \in Threads
  BY CursorFacts
<1> USE BarrierAssumption
<1>1. ASSUME NEW t \in Threads, Join(t) PROVE BarrierTypeOK'
  <2>1. /\ pc = "free" /\ pc' = "wake1" /\ self' = t /\ call' = "join"
        /\ state' = [state EXCEPT ![t] = "WAITING"] /\ futexWord' = [futexWord EXCEPT ![t] = 1]
        /\ thr' = [thr EXCEPT ![t] = "locked"] /\ UNCHANGED <<wtid, idx, newSize, phaseCount, synced>>
    BY <1>1 DEF Join, Enter
  <2>2. state' \in [Threads -> States] /\ runningThreads' \in Int
    BY <1>1, <1>t, <2>1 DEF BarrierTypeOK, States, Index, Join
  <2>3. /\ lastIdx' \in [Threads -> Nat] /\ runList' \in [Threads -> Threads]
        /\ runListSize' \in Index /\ curThreadIdx' \in 0 .. runListSize'
    <3>1. CASE JoinOffline(t)
      <4>1. runListSize < MaxThreads
        BY <2>1, <3>1, RoomForOffline DEF JoinOffline
      <4>2. runListSize' \in Index /\ curThreadIdx' \in 0 .. runListSize'
        BY <1>t, <3>1, <4>1 DEF JoinOffline, GrownSize, BarrierTypeOK, Index
      <4> QED BY <1>t, <3>1, <4>2 DEF JoinOffline, BarrierTypeOK
    <3>2. CASE JoinAhead(t)
      BY <1>t, <3>2 DEF JoinAhead, BarrierTypeOK, listVars
    <3>3. CASE JoinSamePhase(t)
      <4>1. /\ lastIdx[t] \in Nat /\ curThreadIdx > lastIdx[t] /\ UNCHANGED runListSize
            /\ curThreadIdx' = curThreadIdx - 1
            /\ runList' = SwappedList(t, lastIdx[t], curThreadIdx - 1)
            /\ lastIdx' = SwappedIdx(t, lastIdx[t], curThreadIdx - 1)
        BY <1>t, <3>3 DEF JoinSamePhase, RanThisPhase, BarrierTypeOK
      <4>2. /\ runListSize' \in Index /\ curThreadIdx' \in 0 .. runListSize'
            /\ curThreadIdx - 1 \in 0 .. runListSize - 1
        BY <1>t, <4>1 DEF BarrierTypeOK, Index
      <4>3. curThreadIdx - 1 \in Threads /\ runList[curThreadIdx - 1] \in Threads
        BY <1>t, <1>f, <2>1, <4>2 DEF BarrierTypeOK
      <4>4. curThreadIdx - 1 \in Nat
        BY <4>2
      <4>5. runList' \in [Threads -> Threads] /\ lastIdx' \in [Threads -> Nat]
        BY <1>t, <4>1, <4>3, <4>4 DEF BarrierTypeOK, SwappedList, SwappedIdx
      <4> QED BY <4>2, <4>5
    <3> QED BY <1>1, <3>1, <3>2, <3>3 DEF Join
  <2>4. runningThreads' \in Index /\ leftThreads' \in Index
    BY <1>n, <2>1, <2>2
  <2> QED BY <1>t, <2>1, <2>2, <2>3, <2>4 DEF BarrierTypeOK
<1>2. ASSUME NEW t \in Threads, Leave(t) PROVE BarrierTypeOK'
  <2>1. state' \in [Threads -> States] /\ pc' = "wake1" /\ runningThreads' \in Int
    BY <1>2, <1>t DEF Leave, Enter, BarrierTypeOK, States, Index
  <2>2. runningThreads' \in Index /\ leftThreads' \in Index
    BY <1>n, <2>1
  <2> QED BY <1>2, <1>t, <2>1, <2>2 DEF Leave, Enter, BarrierTypeOK, listVars
<1>3. ASSUME NEW t \in Threads, Sync(t) PROVE BarrierTypeOK'
  <2>1. state' \in [Threads -> States] /\ pc' = "wake1" /\ runningThreads' \in Int
    BY <1>3, <1>t DEF Sync, Enter, BarrierTypeOK, States, Index
  <2>2. runningThreads' \in Index /\ leftThreads' \in Index
    BY <1>n, <2>1
  <2> QED BY <1>3, <1>t, <2>1, <2>2 DEF Sync, Enter, BarrierTypeOK, listVars
<1>4. CASE WakeState
  <2>1. /\ runList[curThreadIdx] \in Threads /\ curThreadIdx < runListSize
        /\ curThreadIdx \in Nat /\ curThreadIdx + 1 \in 0 .. runListSize
    BY <1>4, <1>t, CursorInRange DEF WakeState, CanWake, BarrierTypeOK, Index
  <2>2. state' \in [Threads -> States] /\ lastIdx' \in [Threads -> Nat]
    BY <1>4, <1>t, <2>1 DEF WakeState, BarrierTypeOK, States
  <2> QED BY <1>4, <1>t, <2>1, <2>2 DEF WakeState, BarrierTypeOK, countVars
<1>5. CASE WakeFutex
  <2>1. state' \in [Threads -> States] /\ pc' \in {"wake1", "wake2"} /\ runningThreads' \in Int
    BY <1>5, <1>t DEF WakeFutex, BarrierTypeOK, Index
  <2>2. runningThreads' \in Index /\ leftThreads' \in Index
    BY <1>n, <2>1
  <2>3. thr' \in [Threads -> {"out", "run", "locked", "check", "wait", "asleep", "woken"}]
    BY <1>5, <1>t DEF WakeFutex, BarrierTypeOK
  <2>4. futexWord' \in [Threads -> {0, 1}]
    BY <1>5, <1>t DEF WakeFutex, BarrierTypeOK
  <2> QED BY <1>5, <1>t, <2>1, <2>2, <2>3, <2>4 DEF WakeFutex, BarrierTypeOK, listVars, localVars
<1>6. CASE SkipThread
  <2>1. curThreadIdx' \in 0 .. runListSize
    BY <1>6, <1>t DEF SkipThread, CanWake, BarrierTypeOK, Index
  <2> QED BY <1>6, <1>t, <2>1 DEF SkipThread, BarrierTypeOK, threadVars, countVars, localVars
<1>7. CASE EndPhase
  <2>1. /\ phaseCount' \in 0 .. CleanupPeriod - 1 /\ idx' \in Index /\ newSize' \in Index
        /\ curThreadIdx' \in 0 .. runListSize
    BY <1>7, <1>t DEF EndPhase, BarrierTypeOK, Index
  <2> QED BY <1>7, <1>t, <2>1 DEF EndPhase, BarrierTypeOK, threadVars
<1>8. CASE CleanupStep
  <2>1. /\ idx \in 0 .. newSize - 1 /\ newSize - 1 \in 0 .. newSize - 1 /\ newSize \in Index
        /\ idx \in Nat
    BY <1>8, <1>t DEF CleanupStep, BarrierTypeOK, Index
  <2>2. /\ idx \in Threads /\ newSize - 1 \in Threads
        /\ idx + 1 \in Index /\ newSize - 1 \in Index
    BY <2>1 DEF Index, Threads
  <2>3. runList[idx] \in Threads /\ runList[newSize - 1] \in Threads
    BY <1>t, <2>2 DEF BarrierTypeOK
  <2>4. /\ state' \in [Threads -> States] /\ lastIdx' \in [Threads -> Nat]
        /\ runList' \in [Threads -> Threads] /\ idx' \in Index /\ newSize' \in Index
    BY <1>8, <1>t, <2>1, <2>2, <2>3 DEF CleanupStep, BarrierTypeOK, States
  <2> QED BY <1>8, <1>t, <2>4 DEF CleanupStep, BarrierTypeOK, countVars
<1>9. CASE CleanupDone
  <2>1. state' \in [Threads -> States] /\ pc' = "shuffle" /\ curThreadIdx = 0 /\ runningThreads' \in Int
    BY <1>9, <1>t DEF CleanupDone, BarrierTypeOK, threadVars, IndInv, CursorInv, Index
  <2>2. runningThreads' \in Index /\ leftThreads' \in Index
    BY <1>n, <2>1
  <2>3. curThreadIdx' \in 0 .. runListSize'
    BY <1>9, <1>t, <2>1 DEF CleanupDone, BarrierTypeOK, Index
  <2> QED BY <1>9, <1>t, <2>1, <2>2, <2>3 DEF CleanupDone, BarrierTypeOK, threadVars, localVars
<1>10. CASE Shuffle
  <2>1. runList' \in [Threads -> Threads] /\ lastIdx' \in [Threads -> Nat]
    <3>1. CASE UNCHANGED <<runList, lastIdx>>
      BY <1>t, <3>1 DEF BarrierTypeOK
    <3>2. CASE ~UNCHANGED <<runList, lastIdx>>
      <4>1. PICK p \in Shuffles :
            /\ runList' = [i \in Threads |-> IF i \in Positions THEN runList[p[i]] ELSE runList[i]]
            /\ lastIdx' = [t \in Threads |->
                     IF \E i \in Positions : runList[p[i]] = t /\ ~(i = 0 /\ p[i] = 0)
                       THEN CHOOSE i \in Positions : runList[p[i]] = t
                       ELSE lastIdx[t]]
        BY <1>10, <3>2 DEF Shuffle
      <4>2. \A i \in Positions : p[i] \in Positions
        BY DEF Shuffles, Bijection, Injection
      <4>3. \A i \in Positions : i \in Threads /\ i \in Nat
        BY <1>10, <1>t, <1>f DEF Shuffle, Positions, BarrierTypeOK, Index
      <4>4. runList' \in [Threads -> Threads]
        BY <1>t, <4>1, <4>2, <4>3 DEF BarrierTypeOK
      <4>5. ASSUME NEW t \in Threads PROVE lastIdx'[t] \in Nat
        <5>1. CASE \E i \in Positions : runList[p[i]] = t /\ ~(i = 0 /\ p[i] = 0)
          <6>1. lastIdx'[t] = CHOOSE i \in Positions : runList[p[i]] = t
            BY <4>1, <5>1
          <6> QED BY <4>3, <5>1, <6>1
        <5>2. CASE ~\E i \in Positions : runList[p[i]] = t /\ ~(i = 0 /\ p[i] = 0)
          BY <1>t, <4>1, <5>2 DEF BarrierTypeOK
        <5> QED BY <5>1, <5>2
      <4> QED BY <4>1, <4>4, <4>5
    <3> QED BY <3>1, <3>2
  <2> QED BY <1>10, <1>t, <2>1 DEF Shuffle, BarrierTypeOK, countVars, localVars
<1>11. CASE WakeDone \/ Unlock
  BY <1>11, <1>t DEF WakeDone, Unlock, BarrierTypeOK, threadVars, listVars, countVars, localVars
<1>12. ASSUME NEW t \in Threads, WaitForWakeup(t) PROVE BarrierTypeOK'
  BY <1>12, <1>t DEF WaitForWakeup, CheckState, FutexWait, WakeUp, MoveTo, BarrierTypeOK,
                     threadVars, listVars, countVars, localVars
<1>13. CASE UNCHANGED barrierVars
  BY <1>13, <1>t DEF BarrierTypeOK, barrierVars, threadVars, listVars, countVars, localVars
<1> QED BY <1>1, <1>2, <1>3, <1>4, <1>5, <1>6, <1>7, <1>8, <1>9, <1>10, <1>11, <1>12, <1>13
        DEF BarrierNext, TryWakeNext

-----------------------------------------------------------------------------
(* The theorems.                                                           *)

\* Before the first join the list is empty and nobody is counted.
LEMMA InitIndInv == BarrierInit => IndInv
<1> SUFFICES ASSUME BarrierInit PROVE IndInv
  OBVIOUS
<1>1. state = [t \in Threads |-> "OFFLINE"] /\ runListSize = 0 /\ pc = "free"
  BY DEF BarrierInit
<1>2. \A x : x # "OFFLINE" => Count(state, x) = 0
  <2>1. \A x : x # "OFFLINE" => {u \in Threads : state[u] = x} = {}
    BY <1>1
  <2> QED BY <2>1, FS_EmptySet DEF Count
<1>3. BarrierTypeOK
  <2>1. 0 \in Threads /\ 0 \in Index /\ 0 \in 0 .. CleanupPeriod - 1
    BY BarrierAssumption DEF Threads, Index
  <2>2. lastIdx \in [Threads -> Nat]
    BY BarrierAssumption DEF BarrierInit
  <2>3. 0 \in 0 .. runListSize
    BY <1>1
  <2> QED BY <2>1, <2>2, <2>3 DEF BarrierInit, BarrierTypeOK, States
<1>4. ListInv /\ CursorInv
  BY <1>1 DEF ListInv, CursorInv, Holds, Live, ListEnd
<1>5. WakeInv
  BY DEF BarrierInit, WakeInv, NoLostWakeup, Waking
<1>6. CountInv /\ JoinInv
  BY <1>1, <1>2, BarrierAssumption DEF BarrierInit, CountInv, JoinInv, Waking
<1> QED BY <1>3, <1>4, <1>5, <1>6 DEF IndInv

\* IndInv is an invariant of the barrier.
THEOREM BarrierIndInv == BarrierSpec => []IndInv
<1>1. IndInv /\ [BarrierNext]_barrierVars => IndInv'
  BY CountStep, WakeStep, ListStep, CursorStep, JoinStep, TypeStep DEF IndInv
<1> QED BY <1>1, InitIndInv, PTL DEF BarrierSpec

\* The cursor, the list size and the counts of barrier.h stay in their arrays.
THEOREM BarrierTypeCorrect == BarrierSpec => []BarrierTypeOK
<1>1. IndInv => BarrierTypeOK
  BY DEF IndInv
<1> QED BY <1>1, BarrierIndInv, PTL

\* No assertion or panic of join, leave, sync, checkRunList or checkEndPhase fires.
THEOREM BarrierAssertions == BarrierSpec => []AssertionsHold
<1>1. IndInv => AssertionsHold
  <2> SUFFICES ASSUME IndInv PROVE AssertionsHold
    OBVIOUS
  <2>1. \A t \in Threads : thr[t] \in {"run", "woken"} => state[t] = "RUNNING"
    BY DEF IndInv, WakeInv
  <2>2. pc \in {"futex1", "futex2"} => futexWord[wtid] = 1
    BY DEF IndInv, WakeInv, Waking, BarrierTypeOK
  <2>3. ASSUME NEW t \in Threads, pc = "free", state[t] = "LEFT" PROVE runList[lastIdx[t]] = t
    <3>1. PICK i \in 0 .. runListSize - 1 : runList[i] = t
      BY <2>3 DEF IndInv, ListInv, ListEnd, Holds
    <3>2. AtCursor(i)
      BY <2>3, CursorFacts
    <3> QED BY <2>3, <3>1, <3>2 DEF AtCursor
  <2>4. ASSUME pc = "clean", idx >= newSize PROVE runListSize - newSize = leftThreads
    <3>1. \A t \in Threads : state[t] # "LEFT"
      <4>1. \A i \in Live : state[runList[i]] # "LEFT"
        BY <2>4 DEF IndInv, BarrierTypeOK, Index, CursorInv, ListInv, Live, ListEnd
      <4> QED BY <2>4, <4>1 DEF IndInv, ListInv, Holds, Live
    <3>2. Count(state, "LEFT") = 0
      BY <3>1, FS_EmptySet DEF Count
    <3>3. runListSize \in Int /\ newSize \in Int
      BY DEF IndInv, BarrierTypeOK, Index
    <3> QED BY <2>4, <3>2, <3>3 DEF IndInv, CountInv
  <2> QED BY <2>1, <2>2, <2>3, <2>4 DEF AssertionsHold
<1> QED BY <1>1, BarrierIndInv, PTL

\* runningThreads and leftThreads are exact and the width is never exceeded.
THEOREM BarrierCounts == BarrierSpec => []CountsMatch
<1>1. IndInv => CountsMatch
  <2> SUFFICES ASSUME IndInv PROVE CountsMatch
    OBVIOUS
  <2>1. runningThreads \in Int /\ leftThreads \in Int
    BY DEF IndInv, BarrierTypeOK, Index
  <2>2. /\ Count(state, "RUNNING") = Cardinality(InState("RUNNING"))
        /\ Count(state, "LEFT") = Cardinality(InState("LEFT"))
    BY DEF Count, InState
  <2>3. Cardinality(InState("LEFT")) \in Int
    BY ThreadsFinite, BarrierAssumption DEF InState
  <2> QED BY <2>1, <2>2, <2>3 DEF IndInv, CountInv, Waking, CountsMatch
<1> QED BY <1>1, BarrierIndInv, PTL

\* Outside the cleanup pass runListSize counts the threads that are not OFFLINE.
LEMMA OnLine ==
    ASSUME IndInv, pc # "clean"
    PROVE  LET On == Threads \ InState("OFFLINE") IN
           /\ On = {runList[i] : i \in Positions}
           /\ Cardinality(On) = runListSize /\ runListSize \in Nat
<1> DEFINE On == Threads \ InState("OFFLINE")
           f  == [i \in Positions |-> runList[i]]
<1>1. /\ runListSize \in Nat
      /\ \A i \in Positions : runList[i] \in On
      /\ \A i, j \in Positions : runList[i] = runList[j] => i = j
  BY CursorFacts DEF Positions, InState
<1>2. \A t \in On : \E i \in Positions : runList[i] = t
  BY DEF IndInv, ListInv, ListEnd, Holds, Positions, InState
<1>3. f \in Surjection(Positions, On) /\ f \in Injection(Positions, On)
  BY <1>1, <1>2 DEF Surjection, Injection, IsInjective
<1>4. IsFiniteSet(Positions) /\ Cardinality(Positions) = runListSize
  BY <1>1, FS_Interval DEF Positions
<1>5. Cardinality(On) = runListSize
  BY <1>3, <1>4, FS_Surjection
<1> QED BY <1>1, <1>2, <1>5

\* The run list is a list, without repetition, of the threads not OFFLINE.
THEOREM BarrierRunList == BarrierSpec => []RunListExact
<1>1. IndInv => RunListExact
  <2> SUFFICES ASSUME IndInv, pc # "clean" PROVE
                 /\ {runList[i] : i \in Positions} = Threads \ InState("OFFLINE")
                 /\ Cardinality(InState("OFFLINE")) = MaxThreads - runListSize
    BY DEF RunListExact
  <2> DEFINE On  == Threads \ InState("OFFLINE")
             Off == InState("OFFLINE")
  <2>1. Cardinality(On) = runListSize /\ On = {runList[i] : i \in Positions} /\ runListSize \in Nat
    BY OnLine
  <2>2. /\ IsFiniteSet(On) /\ IsFiniteSet(Off) /\ Cardinality(Off) \in Int
        /\ On \cup Off = Threads /\ On \cap Off = {}
    BY ThreadsFinite DEF InState
  <2>3. Cardinality(Threads) = Cardinality(On) + Cardinality(Off) - 0
    <3> HIDE DEF On, Off
    <3> QED BY <2>2, FS_Union, FS_EmptySet
  <2> QED BY <2>1, <2>2, <2>3, ThreadsFinite, BarrierAssumption
<1> QED BY <1>1, BarrierIndInv, PTL

\* A thread sleeps on its futexWord only while its wakeup is still to come.
THEOREM BarrierWakeups == BarrierSpec => []NoLostWakeup
<1>1. IndInv => NoLostWakeup
  BY DEF IndInv, WakeInv
<1> QED BY <1>1, BarrierIndInv, PTL

\* join's note holds: no phase ends while a join holds the lock.
THEOREM BarrierJoins == BarrierSpec => []JoinEndsNoPhase
<1>1. IndInv => JoinEndsNoPhase
  BY DEF IndInv, JoinInv, JoinEndsNoPhase
<1> QED BY <1>1, BarrierIndInv, PTL

-----------------------------------------------------------------------------
(* Phases.  A waiting thread has synced in this phase exactly when the     *)
(* cursor has passed it, which is all the code knows about it.             *)

SyncInv ==
    /\ \A t \in synced : t \in Threads /\ state[t] = "WAITING"
    /\ \A i \in Live : state[runList[i]] = "WAITING"
                          => (runList[i] \in synced <=> i < curThreadIdx)
    /\ pc \in {"unlock", "free"} => ~CanWake

\* The same of one position, so that a step can be followed position by position.
SyncedAt(i) == state[runList[i]] = "WAITING" => (runList[i] \in synced <=> i < curThreadIdx)

\* Same-phase joins, which move the cursor back, keep it so as well.
LEMMA SyncStep == IndInv /\ SyncInv /\ [BarrierNext]_barrierVars => SyncInv'
<1> SUFFICES ASSUME IndInv, SyncInv, [BarrierNext]_barrierVars PROVE SyncInv'
  OBVIOUS
<1>t. /\ state \in [Threads -> States] /\ runList \in [Threads -> Threads]
      /\ lastIdx \in [Threads -> Nat]
      /\ newSize \in 0 .. MaxThreads /\ idx \in 0 .. MaxThreads
  BY DEF IndInv, BarrierTypeOK, Index
<1>y. \A t \in synced : t \in Threads /\ state[t] = "WAITING"
  BY DEF SyncInv
<1>f. pc # "clean" =>
           /\ runListSize \in Nat /\ curThreadIdx \in 0 .. runListSize
           /\ \A i \in 0 .. runListSize - 1 :
                 i \in Threads /\ runList[i] \in Threads /\ AtCursor(i) /\ SyncedAt(i)
           /\ \A i, j \in 0 .. runListSize - 1 : runList[i] = runList[j] => i = j
  BY CursorFacts DEF SyncInv, SyncedAt, Live, ListEnd
<1>g. ASSUME pc' \notin {"clean", "unlock", "free"},
             \A t \in synced' : t \in Threads /\ state'[t] = "WAITING",
             \A i \in 0 .. runListSize' - 1 : SyncedAt(i)'
      PROVE  SyncInv'
  BY <1>g DEF SyncInv, SyncedAt, Live, ListEnd
<1>o. pc \in {"clean", "shuffle"} => synced = {}
  <2> SUFFICES ASSUME pc \in {"clean", "shuffle"}, NEW t \in synced PROVE FALSE
    OBVIOUS
  <2>1. t \in Threads /\ state[t] = "WAITING" /\ curThreadIdx = 0
    BY <1>y DEF IndInv, CursorInv
  <2>2. PICK i \in 0 .. ListEnd - 1 : runList[i] = t
    BY <2>1 DEF IndInv, ListInv, Holds
  <2>3. SyncedAt(i)
    BY DEF SyncInv, SyncedAt, Live
  <2> QED BY <2>1, <2>2, <2>3 DEF SyncedAt
<1> USE BarrierAssumption
<1>1. ASSUME NEW t \in Threads, Join(t), JoinOffline(t) PROVE SyncInv'
  <2>1. /\ pc = "free" /\ pc' = "wake1" /\ state[t] = "OFFLINE" /\ UNCHANGED <<synced, curThreadIdx>>
        /\ state' = [state EXCEPT ![t] = "WAITING"]
        /\ runList' = [runList EXCEPT ![runListSize] = t] /\ runListSize' = runListSize + 1
    BY <1>1 DEF Join, JoinOffline, GrownSize, Enter
  <2>2. runListSize < MaxThreads
    BY <2>1, RoomForOffline
  <2>3. runList'[runListSize] = t /\ t \notin synced
    <3>1. runListSize \in Threads
      BY <1>f, <2>1, <2>2 DEF Threads
    <3> QED BY <1>t, <1>y, <2>1, <3>1
  <2>4. ASSUME NEW i \in 0 .. runListSize - 1 PROVE SyncedAt(i)'
    <3>1. runList[i] # t
      BY <2>1, CursorFacts
    <3>2. runList'[i] = runList[i] /\ state'[runList[i]] = state[runList[i]]
      BY <1>t, <1>f, <2>1, <3>1
    <3> QED BY <1>f, <2>1, <3>2 DEF SyncedAt
  <2>5. ASSUME NEW i, i = runListSize PROVE SyncedAt(i)'
    BY <1>f, <2>1, <2>3, <2>5 DEF SyncedAt
  <2>6. \A i \in 0 .. runListSize' - 1 : i \in 0 .. runListSize - 1 \/ i = runListSize
    BY <1>f, <2>1
  <2>7. \A u \in synced' : u \in Threads /\ state'[u] = "WAITING"
    BY <1>t, <1>y, <2>1
  <2> QED BY <1>g, <2>1, <2>4, <2>5, <2>6, <2>7
<1>2. ASSUME NEW t \in Threads, Join(t), JoinAhead(t) PROVE SyncInv'
  <2>1. /\ pc = "free" /\ pc' = "wake1" /\ UNCHANGED <<synced, curThreadIdx, runList, runListSize>>
        /\ state' = [state EXCEPT ![t] = "WAITING"] /\ state[t] = "LEFT"
        /\ ~(curThreadIdx > lastIdx[t])
    BY <1>2 DEF Join, JoinAhead, RanThisPhase, Enter, listVars
  <2>2. ASSUME NEW i \in 0 .. runListSize - 1 PROVE SyncedAt(i)'
    <3>1. CASE runList[i] = t
      <4>1. ~(i < curThreadIdx) /\ t \notin synced
        BY <1>f, <1>y, <2>1, <3>1 DEF AtCursor
      <4> QED BY <2>1, <3>1, <4>1 DEF SyncedAt
    <3>2. CASE runList[i] # t
      BY <1>t, <1>f, <2>1, <3>2 DEF SyncedAt
    <3> QED BY <3>1, <3>2
  <2>3. \A u \in synced' : u \in Threads /\ state'[u] = "WAITING"
    BY <1>t, <1>y, <2>1
  <2> QED BY <1>g, <2>1, <2>2, <2>3
<1>3. ASSUME NEW t \in Threads, Join(t), JoinSamePhase(t) PROVE SyncInv'
  <2> DEFINE a == lastIdx[t]
             b == curThreadIdx - 1
             r == runList[b]
  <2>1. /\ pc = "free" /\ pc' = "wake1" /\ state[t] = "LEFT" /\ UNCHANGED <<synced, runListSize>>
        /\ curThreadIdx' = b
        /\ state' = [state EXCEPT ![t] = "WAITING"] /\ curThreadIdx > a /\ runList[a] = t
        /\ runList' = [runList EXCEPT ![a] = r, ![b] = t]
    BY <1>3 DEF Join, JoinSamePhase, SwappedList, RanThisPhase, Enter
  <2>2. /\ a \in 0 .. runListSize - 1 /\ b \in 0 .. runListSize - 1 /\ a <= b
        /\ curThreadIdx = b + 1
    <3>1. a \in Nat
      BY <1>t
    <3> HIDE DEF a
    <3> QED BY <1>f, <2>1, <3>1
  <2>3. a \in Threads /\ b \in Threads /\ r \in Threads /\ t \notin synced
    BY <1>f, <1>y, <2>1, <2>2
  <2> HIDE DEF a, b
  <2>4. ASSUME NEW i \in 0 .. runListSize - 1 PROVE SyncedAt(i)'
    <3>1. CASE i = b
      <4>1. runList'[i] = t
        BY <1>t, <2>1, <2>3, <3>1
      <4> QED BY <2>1, <2>2, <2>3, <3>1, <4>1 DEF SyncedAt
    <3>2. CASE i = a /\ i # b
      <4>1. runList'[i] = r /\ i < b
        BY <1>t, <2>1, <2>2, <2>3, <3>2
      <4>2. r # t
        BY <1>f, <2>1, <2>2, <3>2
      <4>3. state'[r] = state[r] /\ SyncedAt(b)
        BY <1>t, <1>f, <2>1, <2>2, <2>3, <4>2
      <4> QED BY <2>1, <2>2, <4>1, <4>3 DEF SyncedAt
    <3>3. CASE i # a /\ i # b
      <4>1. runList'[i] = runList[i] /\ runList[i] \in Threads /\ runList[i] # t
        BY <1>f, <1>t, <2>1, <2>2, <3>3
      <4>2. state'[runList[i]] = state[runList[i]] /\ SyncedAt(i)
        BY <1>t, <1>f, <2>1, <4>1
      <4> QED BY <2>1, <2>2, <3>3, <4>1, <4>2 DEF SyncedAt
    <3> QED BY <3>1, <3>2, <3>3
  <2>5. \A u \in synced' : u \in Threads /\ state'[u] = "WAITING"
    BY <1>t, <1>y, <2>1
  <2> QED BY <1>g, <2>1, <2>4, <2>5
<1>4. ASSUME NEW t \in Threads, Leave(t) PROVE SyncInv'
  <2>1. /\ pc = "free" /\ pc' = "wake1" /\ UNCHANGED <<synced, curThreadIdx, runList, runListSize>>
        /\ state[t] = "RUNNING" /\ state' = [state EXCEPT ![t] = "LEFT"]
    BY <1>4 DEF Leave, Enter, listVars
  <2>2. \A u \in synced' : u \in Threads /\ state'[u] = "WAITING"
    BY <1>t, <1>y, <2>1
  <2>3. ASSUME NEW i \in 0 .. runListSize - 1 PROVE SyncedAt(i)'
    BY <1>t, <1>f, <2>1 DEF SyncedAt
  <2> QED BY <1>g, <2>1, <2>2, <2>3
<1>5. ASSUME NEW t \in Threads, Sync(t) PROVE SyncInv'
  <2>1. /\ pc = "free" /\ pc' = "wake1" /\ UNCHANGED <<curThreadIdx, runList, runListSize>>
        /\ state[t] = "RUNNING" /\ state' = [state EXCEPT ![t] = "WAITING"]
        /\ synced' = synced \cup {t}
    BY <1>5 DEF Sync, Enter, listVars
  <2>2. \A u \in synced' : u \in Threads /\ state'[u] = "WAITING"
    BY <1>t, <1>y, <2>1
  <2>3. ASSUME NEW i \in 0 .. runListSize - 1 PROVE SyncedAt(i)'
    <3>1. AtCursor(i) /\ SyncedAt(i) /\ runList[i] \in Threads /\ curThreadIdx \in Int
      BY <1>f, <2>1
    <3> QED BY <1>t, <2>1, <3>1 DEF AtCursor, SyncedAt
  <2> QED BY <1>g, <2>1, <2>2, <2>3
<1>6. CASE WakeState
  <2> DEFINE t == runList[curThreadIdx]
  <2>1. /\ pc \in {"wake1", "wake2"} /\ pc' \in {"futex1", "futex2"}
        /\ UNCHANGED <<runList, runListSize, synced>>
        /\ t \in Threads /\ curThreadIdx' = curThreadIdx + 1 /\ curThreadIdx < runListSize
        /\ state' = [state EXCEPT ![t] = "RUNNING"] /\ state[t] = "WAITING"
    BY <1>6, CursorInRange DEF WakeState, CanWake
  <2>2. curThreadIdx \in 0 .. runListSize - 1
    BY <1>f, <2>1
  <2>3. t \notin synced
    BY <1>f, <2>1, <2>2 DEF SyncedAt
  <2>4. ASSUME NEW i \in 0 .. runListSize - 1 PROVE SyncedAt(i)'
    <3>1. CASE i = curThreadIdx
      BY <1>t, <2>1, <3>1 DEF SyncedAt
    <3>2. CASE i # curThreadIdx
      <4>1. runList[i] # t /\ runList[i] \in Threads /\ SyncedAt(i)
        BY <1>f, <2>1, <2>2, <3>2
      <4> HIDE DEF t
      <4> QED BY <1>t, <2>1, <2>2, <3>2, <4>1 DEF SyncedAt
    <3> QED BY <3>1, <3>2
  <2>5. \A u \in synced' : u \in Threads /\ state'[u] = "WAITING"
    BY <1>t, <1>y, <2>1, <2>3
  <2> QED BY <1>g, <2>1, <2>4, <2>5
<1>7. CASE SkipThread
  <2>1. /\ pc \in {"wake1", "wake2"} /\ UNCHANGED <<runList, runListSize, state, synced, pc>>
        /\ state[runList[curThreadIdx]] # "WAITING"
        /\ curThreadIdx' = curThreadIdx + 1 /\ curThreadIdx < runListSize
    BY <1>7 DEF SkipThread, CanWake, threadVars
  <2>2. ASSUME NEW i \in 0 .. runListSize - 1 PROVE SyncedAt(i)'
    <3>1. CASE i = curThreadIdx
      BY <2>1, <3>1 DEF SyncedAt
    <3>2. CASE i # curThreadIdx
      BY <1>f, <2>1, <3>2 DEF SyncedAt
    <3> QED BY <3>1, <3>2
  <2> QED BY <1>g, <1>y, <2>1, <2>2
<1>8. CASE EndPhase
  <2>1. /\ pc' \in {"clean", "shuffle"} /\ synced' = {} /\ curThreadIdx' = 0
    BY <1>8 DEF EndPhase
  <2> QED BY <2>1 DEF SyncInv, Live
<1>9. CASE CleanupStep \/ CleanupDone \/ Shuffle
  <2>1. /\ curThreadIdx' = 0 /\ synced' = {} /\ pc' \notin {"unlock", "free"}
    BY <1>9, <1>o DEF CleanupStep, CleanupDone, Shuffle, IndInv, CursorInv
  <2> QED BY <2>1 DEF SyncInv, Live
<1>10. CASE WakeFutex
  BY <1>10, <1>f, <1>g, <1>y DEF WakeFutex, SyncedAt, listVars
<1>11. CASE WakeDone
  <2>1. /\ pc \in {"wake1", "wake2"} /\ ~CanWake /\ pc' = "unlock"
        /\ UNCHANGED <<state, synced, runList, runListSize, curThreadIdx, runningThreads>>
    BY <1>11 DEF WakeDone, threadVars, listVars, countVars
  <2> QED BY <1>f, <1>y, <2>1 DEF SyncInv, SyncedAt, Live, ListEnd, CanWake
<1>12. CASE Unlock
  BY <1>12 DEF Unlock, threadVars, listVars, countVars, SyncInv, Live, ListEnd, CanWake
<1>13. ASSUME NEW t \in Threads, WaitForWakeup(t) PROVE SyncInv'
  BY <1>13 DEF WaitForWakeup, CheckState, FutexWait, WakeUp, MoveTo, threadVars, listVars,
               countVars, localVars, SyncInv, Live, ListEnd, CanWake
<1>14. CASE UNCHANGED barrierVars
  BY <1>14 DEF barrierVars, threadVars, listVars, countVars, localVars, SyncInv, Live, ListEnd, CanWake
<1> QED BY <1>1, <1>2, <1>3, <1>4, <1>5, <1>6, <1>7, <1>8, <1>9, <1>10, <1>11, <1>12, <1>13, <1>14
        DEF BarrierNext, TryWakeNext, Join

\* SyncInv is an invariant of the barrier too.
THEOREM BarrierSyncInv == BarrierSpec => [](IndInv /\ SyncInv)
<1>1. BarrierInit => SyncInv
  BY DEF BarrierInit, SyncInv, Live, ListEnd, CanWake
<1> QED BY <1>1, SyncStep, BarrierIndInv, PTL DEF BarrierSpec

\* When a phase ends the cursor has passed everybody, so whoever waits has synced.
LEMMA AllSynced ==
    ASSUME IndInv, SyncInv, pc # "clean", curThreadIdx = runListSize
    PROVE  InState("WAITING") \subseteq synced
<1> SUFFICES ASSUME NEW t \in Threads, state[t] = "WAITING" PROVE t \in synced
  BY DEF InState
<1>1. PICK i \in 0 .. runListSize - 1 : runList[i] = t
  BY DEF IndInv, ListInv, ListEnd, Holds
<1>2. i < curThreadIdx /\ i \in Live
  BY <1>1, CursorFacts DEF Live, ListEnd
<1> QED BY <1>1, <1>2 DEF SyncInv

\* No thread that waits to run is passed over when checkEndPhase ends a phase.
THEOREM BarrierPhases == BarrierSpec => PhaseComplete
<1>1. IndInv /\ SyncInv /\ [BarrierNext]_barrierVars
        => [pc = "wake1" /\ pc' \in {"clean", "shuffle"} => InState("WAITING") \subseteq synced]_barrierVars
  <2> SUFFICES ASSUME IndInv, SyncInv, BarrierNext, pc = "wake1", pc' \in {"clean", "shuffle"}
               PROVE  InState("WAITING") \subseteq synced
    OBVIOUS
  <2>1. EndPhase
    BY DEF BarrierNext, TryWakeNext, WakeState, WakeFutex, SkipThread, WakeDone, CleanupStep,
           CleanupDone, Shuffle, Unlock, Join, Leave, Sync, WaitForWakeup, CheckState, FutexWait,
           WakeUp, MoveTo
  <2> QED BY <2>1, AllSynced DEF EndPhase, PhaseOver
<1> QED BY <1>1, BarrierSyncInv, PTL DEF BarrierSpec, PhaseComplete

\* checkRunList never wakes a thread twice in a phase.
THEOREM BarrierOneRun == BarrierSpec => OneRunPerPhase
<1>1. IndInv /\ SyncInv /\ [BarrierNext]_barrierVars
        => [\A t \in synced : state[t] = "WAITING" => state'[t] = "WAITING"
                                                     \/ t \notin synced']_barrierVars
  <2> SUFFICES ASSUME IndInv, SyncInv, SyncInv', NEW t \in synced, t \in synced'
               PROVE  state'[t] = "WAITING"
    BY SyncStep
  <2> QED BY DEF SyncInv
<1> QED BY <1>1, BarrierSyncInv, PTL DEF BarrierSpec, OneRunPerPhase

\* With the lock free and width to spare, nobody waits for a turn in this phase.
THEOREM BarrierWorkConserving == BarrierSpec => []WorkConserving
<1>1. IndInv /\ SyncInv => WorkConserving
  <2> SUFFICES ASSUME IndInv, SyncInv, pc = "free", runningThreads < ParallelThreads
               PROVE  InState("WAITING") \subseteq synced
    BY DEF WorkConserving
  <2>1. curThreadIdx = runListSize
    <3>1. ~(curThreadIdx < runListSize)
      BY DEF SyncInv, CanWake
    <3> QED BY <3>1, CursorFacts
  <2> QED BY <2>1, AllSynced
<1> QED BY <1>1, BarrierSyncInv, PTL

-----------------------------------------------------------------------------
(* Every step of the barrier is a step of PhaseBarrier or a stutter.       *)

\* A change of one thread's status.
StatusMoves(t, to) == /\ abstractStatus'[t] = to
                      /\ \A u \in Threads : u # t => abstractStatus'[u] = abstractStatus[u]

\* What the mapping says of one thread.
LEMMA StatusOf ==
    /\ \A t \in Threads : abstractStatus[t] =
         CASE state[t] = "RUNNING" -> "running"
           [] state[t] = "WAITING" -> IF t \in synced THEN "done" ELSE "waiting"
           [] OTHER -> "out"
    /\ \A t \in Threads : abstractStatus'[t] =
         CASE state'[t] = "RUNNING" -> "running"
           [] state'[t] = "WAITING" -> IF t \in synced' THEN "done" ELSE "waiting"
           [] OTHER -> "out"
BY DEF abstractStatus

\* Such a change is what PhaseBarrier's Move does.
LEMMA StatusMove ==
    ASSUME NEW t \in Threads, NEW to, StatusMoves(t, to)
    PROVE  Abstract!Move(t, abstractStatus[t], to)
BY DEF StatusMoves, abstractStatus, Abstract!Move

\* Steps that change neither state nor synced are invisible; the others are
\* one step of the abstract barrier each.
LEMMA StatusStep == IndInv /\ SyncInv /\ [BarrierNext]_barrierVars
                      => [Abstract!Next]_abstractStatus
<1> SUFFICES ASSUME IndInv, SyncInv, [BarrierNext]_barrierVars PROVE [Abstract!Next]_abstractStatus
  OBVIOUS
<1>t. state \in [Threads -> States]
  BY DEF IndInv, BarrierTypeOK
<1>y. \A t \in synced : state[t] = "WAITING"
  BY DEF SyncInv
<1>u. ASSUME UNCHANGED <<state, synced>> PROVE UNCHANGED abstractStatus
  BY <1>u DEF abstractStatus
<1>1. ASSUME NEW t \in Threads, Join(t) PROVE Abstract!Next
  <2>1. /\ state' = [state EXCEPT ![t] = "WAITING"] /\ UNCHANGED synced
        /\ state[t] \in {"OFFLINE", "LEFT"}
    BY <1>1 DEF Join, JoinOffline, JoinAhead, JoinSamePhase
  <2>2. StatusMoves(t, "waiting") /\ abstractStatus[t] = "out"
    BY <1>t, <1>y, <2>1, StatusOf DEF StatusMoves
  <2> QED BY <2>2, StatusMove DEF Abstract!Next, Abstract!Join
<1>2. ASSUME NEW t \in Threads, Leave(t) PROVE Abstract!Next
  <2>1. state' = [state EXCEPT ![t] = "LEFT"] /\ UNCHANGED synced /\ state[t] = "RUNNING"
    BY <1>2 DEF Leave
  <2>2. StatusMoves(t, "out") /\ abstractStatus[t] = "running"
    BY <1>t, <2>1, StatusOf DEF StatusMoves
  <2> QED BY <2>2, StatusMove DEF Abstract!Next, Abstract!Leave
<1>3. ASSUME NEW t \in Threads, Sync(t) PROVE Abstract!Next
  <2>1. /\ state' = [state EXCEPT ![t] = "WAITING"] /\ synced' = synced \cup {t}
        /\ state[t] = "RUNNING"
    BY <1>3 DEF Sync
  <2>2. StatusMoves(t, "done") /\ abstractStatus[t] = "running"
    BY <1>t, <2>1, StatusOf DEF StatusMoves
  <2> QED BY <2>2, StatusMove DEF Abstract!Next, Abstract!Sync
<1>4. CASE WakeState
  <2> DEFINE t == runList[curThreadIdx]
  <2>1. /\ pc \in {"wake1", "wake2"} /\ CanWake /\ t \in Threads /\ UNCHANGED synced
        /\ state[t] = "WAITING" /\ state' = [state EXCEPT ![t] = "RUNNING"]
    BY <1>4, CursorInRange DEF WakeState
  <2>2. t \notin synced
    <3>1. curThreadIdx \in Live /\ ~(curThreadIdx < curThreadIdx)
      BY <2>1, CursorFacts DEF CanWake, Live, ListEnd
    <3> QED BY <2>1, <3>1 DEF SyncInv
  <2>3. Cardinality({u \in Threads : abstractStatus[u] = "running"}) < ParallelThreads
    <3>1. {u \in Threads : abstractStatus[u] = "running"} = {u \in Threads : state[u] = "RUNNING"}
      BY StatusOf
    <3>2. Count(state, "RUNNING") = runningThreads
      BY <2>1 DEF IndInv, CountInv, Waking, BarrierTypeOK, Index
    <3> QED BY <2>1, <3>1, <3>2 DEF Count, CanWake
  <2> HIDE DEF t
  <2>4. StatusMoves(t, "running") /\ abstractStatus[t] = "waiting"
    BY <1>t, <2>1, <2>2, StatusOf DEF StatusMoves
  <2>5. Abstract!Move(t, "waiting", "running")
    BY <2>1, <2>4, StatusMove
  <2>6. Abstract!Wake(t)
    BY <2>3, <2>5 DEF Abstract!Wake, Abstract!In, Abstract!Cardinality, Cardinality
  <2> QED BY <2>1, <2>6 DEF Abstract!Next
<1>5. CASE EndPhase
  <2>1. /\ pc = "wake1" /\ curThreadIdx = runListSize /\ runningThreads = 0
        /\ leftThreads # runListSize /\ synced' = {} /\ UNCHANGED state
    BY <1>5 DEF EndPhase, PhaseOver, threadVars
  <2>2. \A t \in Threads : state[t] # "RUNNING" /\ (state[t] = "WAITING" => t \in synced)
    BY <2>1, NobodyRuns, AllSynced DEF InState
  <2>3. Abstract!In("waiting") = {} /\ Abstract!In("running") = {}
    BY <2>2, StatusOf DEF Abstract!In
  <2>4. \E t \in Threads : state[t] = "WAITING"
    <3>1. SUFFICES ASSUME \A t \in Threads : state[t] # "WAITING" PROVE FALSE
      OBVIOUS
    <3>2. Threads \ InState("OFFLINE") = {t \in Threads : state[t] = "LEFT"}
      BY <1>t, <2>2, <3>1 DEF InState, States
    <3>3. Count(state, "LEFT") = runListSize
      BY <2>1, <3>2, OnLine DEF Count
    <3>4. leftThreads = Count(state, "LEFT") + 0 /\ runListSize \in Int
      BY <2>1 DEF IndInv, CountInv, BarrierTypeOK, Index
    <3> QED BY <2>1, <3>3, <3>4
  <2>5. Abstract!In("done") # {}
    BY <2>2, <2>4, StatusOf DEF Abstract!In
  <2>6. abstractStatus' = [t \in Threads |->
                            IF abstractStatus[t] = "done" THEN "waiting" ELSE abstractStatus[t]]
    <3>1. \A t \in Threads : abstractStatus'[t] =
                            IF abstractStatus[t] = "done" THEN "waiting" ELSE abstractStatus[t]
      BY <1>t, <2>1, <2>2, StatusOf DEF States
    <3> QED BY <3>1 DEF abstractStatus
  <2> QED BY <2>3, <2>5, <2>6 DEF Abstract!Next, Abstract!EndPhase
<1>6. CASE CleanupStep
  <2>1. /\ UNCHANGED synced
        /\ state' = state \/ /\ state[runList[idx]] = "LEFT"
                             /\ state' = [state EXCEPT ![runList[idx]] = "OFFLINE"]
    BY <1>6 DEF CleanupStep
  <2>2. \A t \in Threads : abstractStatus'[t] = abstractStatus[t]
    BY <1>t, <2>1, StatusOf
  <2> QED BY <2>2 DEF abstractStatus
<1>7. CASE WakeFutex \/ SkipThread \/ WakeDone \/ CleanupDone \/ Shuffle \/ Unlock
  BY <1>7, <1>u DEF WakeFutex, SkipThread, WakeDone, CleanupDone, Shuffle, Unlock, threadVars
<1>8. ASSUME NEW t \in Threads, WaitForWakeup(t) PROVE UNCHANGED abstractStatus
  BY <1>8, <1>u DEF WaitForWakeup, CheckState, FutexWait, WakeUp, MoveTo, threadVars
<1>9. CASE UNCHANGED barrierVars
  BY <1>9, <1>u DEF barrierVars, threadVars
<1> QED BY <1>1, <1>2, <1>3, <1>4, <1>5, <1>6, <1>7, <1>8, <1>9 DEF BarrierNext, TryWakeNext

\* barrier.h implements the abstract phase barrier (its safety; the progress
\* part of ImplementsPhaseBarrier is model-checked).
THEOREM BarrierRefinement == BarrierSpec => Abstract!Spec
<1>1. BarrierInit => Abstract!Init
  BY DEF BarrierInit, Abstract!Init, abstractStatus
<1> QED BY <1>1, StatusStep, BarrierSyncInv, PTL DEF BarrierSpec, Abstract!Spec
=============================================================================
