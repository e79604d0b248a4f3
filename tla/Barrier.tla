------------------------------ MODULE Barrier ------------------------------
(***************************************************************************)
(* The phase barrier of zsim (barrier.h).  Simulated threads, named by the *)
(* context (core) id they occupy, run in phases; at most ParallelThreads   *)
(* of them run at a time, and a phase ends when every thread on the run    *)
(* list has run and either synced or left.                                 *)
(*                                                                         *)
(* join, leave and sync run with the scheduler lock held.  The holder      *)
(* works through tryWakeNext one shared write at a time, because a waiting *)
(* thread reads its own `state' and `futexWord' WITHOUT the lock.  pc is   *)
(* where the holder stands ("free": nobody holds the lock), self is the    *)
(* thread it acts for and call the operation; thr[t] is where host thread  *)
(* t stands outside the critical section.                                  *)
(***************************************************************************)
EXTENDS Integers, FiniteSets, Functions

CONSTANTS MaxThreads,       \* MAX_THREADS
          ParallelThreads,  \* parallelThreads, the width of the barrier
          CleanupPeriod,    \* phases between two LEFT -> OFFLINE passes (32)
          Garbage           \* what lastIdx may hold before its first write

ASSUME BarrierAssumption ==
    /\ MaxThreads \in Nat \ {0}
    /\ ParallelThreads \in Nat \ {0}
    /\ CleanupPeriod \in Nat \ {0}
    /\ Garbage \subseteq Nat /\ Garbage # {}

Threads == 0 .. MaxThreads - 1
States  == {"OFFLINE", "WAITING", "RUNNING", "LEFT"}

VARIABLES
    state, futexWord, lastIdx,             \* threadList[t]
    runList, runListSize, curThreadIdx,    \* the run list and its cursor
    runningThreads, leftThreads,           \* cached counts
    phaseCount,                            \* modulo CleanupPeriod
    pc, self, call, wtid, idx, newSize,    \* the lock holder
    thr,                                   \* host threads, unlocked
    synced                                 \* history: threads that synced this phase

threadVars  == <<state, futexWord, lastIdx>>
listVars    == <<runList, runListSize, curThreadIdx>>
countVars   == <<runningThreads, leftThreads, phaseCount>>
localVars   == <<self, call, wtid, idx, newSize>>
barrierVars == <<threadVars, listVars, countVars, pc, localVars, thr, synced>>

BarrierInit ==
    /\ state = [t \in Threads |-> "OFFLINE"]
    /\ futexWord = [t \in Threads |-> 0]
    /\ lastIdx \in [Threads -> Garbage]    \* gm_malloc'd, never set
    /\ runList = [i \in Threads |-> 0]     \* gm_calloc'd
    /\ runListSize = 0 /\ curThreadIdx = 0
    /\ runningThreads = 0 /\ leftThreads = 0 /\ phaseCount = 0
    /\ pc = "free" /\ self = 0 /\ call = "sync" /\ wtid = 0 /\ idx = 0 /\ newSize = 0
    /\ thr = [t \in Threads |-> "out"]
    /\ synced = {}

-----------------------------------------------------------------------------
(* The three operations, up to their call of tryWakeNext.  An assert is a  *)
(* guard here, and AssertionsHold below says that it is never what stops   *)
(* a thread.  Definitions marked Mutant are deliberate mistakes, used only *)
(* to see the properties fail.                                             *)

EnterNoWake(t, c) == /\ pc' = "unlock" /\ self' = t /\ call' = c        \* Mutant
                     /\ UNCHANGED <<wtid, idx, newSize>>
Enter(t, c) == /\ pc' = "wake1" /\ self' = t /\ call' = c
               /\ UNCHANGED <<wtid, idx, newSize>>

\* A new thread goes to the end of the run list.
NotGrownSize == runListSize                                             \* Mutant
GrownSize == runListSize + 1
JoinOffline(t) ==
    /\ state[t] = "OFFLINE"
    /\ runList' = [runList EXCEPT ![runListSize] = t]
    /\ runListSize' = GrownSize
    /\ UNCHANGED <<lastIdx, curThreadIdx, leftThreads>>

RanThisPhase(t) == curThreadIdx > lastIdx[t]

\* A thread that comes back ahead of the cursor keeps its place ...
JoinAhead(t) ==
    /\ state[t] = "LEFT" /\ ~RanThisPhase(t)
    /\ leftThreads' = leftThreads - 1
    /\ UNCHANGED <<lastIdx, listVars>>

\* ... and one that already ran in this phase changes places with the last one
\* the cursor passed, and the cursor steps back: it runs next.
SwappedList(t, last, cur) == [runList EXCEPT ![last] = runList[cur], ![cur] = t]

SwappedIdxSelfOnly(t, last, cur) == [lastIdx EXCEPT ![t] = cur]         \* Mutant
SwappedIdx(t, last, cur) == [[lastIdx EXCEPT ![runList[cur]] = last] EXCEPT ![t] = cur]

JoinSamePhase(t) ==
    /\ state[t] = "LEFT" /\ RanThisPhase(t)
    /\ t = runList[lastIdx[t]]                                          \* assert
    /\ leftThreads' = leftThreads - 1
    /\ curThreadIdx' = curThreadIdx - 1
    /\ runList' = SwappedList(t, lastIdx[t], curThreadIdx - 1)
    /\ lastIdx' = SwappedIdx(t, lastIdx[t], curThreadIdx - 1)
    /\ UNCHANGED runListSize

Join(t) ==
    /\ pc = "free" /\ thr[t] = "out"
    /\ JoinOffline(t) \/ JoinAhead(t) \/ JoinSamePhase(t)
    /\ state' = [state EXCEPT ![t] = "WAITING"]
    /\ futexWord' = [futexWord EXCEPT ![t] = 1]
    /\ thr' = [thr EXCEPT ![t] = "locked"]
    /\ Enter(t, "join")
    /\ UNCHANGED <<runningThreads, phaseCount, synced>>

Leave(t) ==
    /\ pc = "free" /\ thr[t] = "run" /\ state[t] = "RUNNING"
    /\ state' = [state EXCEPT ![t] = "LEFT"]
    /\ leftThreads' = leftThreads + 1
    /\ runningThreads' = runningThreads - 1
    /\ thr' = [thr EXCEPT ![t] = "out"]
    /\ Enter(t, "leave")
    /\ UNCHANGED <<futexWord, lastIdx, listVars, phaseCount, synced>>

Sync(t) ==
    /\ pc = "free" /\ thr[t] = "run" /\ state[t] = "RUNNING"            \* assert
    /\ futexWord' = [futexWord EXCEPT ![t] = 1]
    /\ state' = [state EXCEPT ![t] = "WAITING"]
    /\ runningThreads' = runningThreads - 1
    /\ thr' = [thr EXCEPT ![t] = "locked"]
    /\ synced' = synced \cup {t}
    /\ Enter(t, "sync")
    /\ UNCHANGED <<lastIdx, listVars, leftThreads, phaseCount>>

\* processCleanup leaves on behalf of a context whose process died, wherever
\* its host thread was; a thread that was only WAITING wakes nobody.
Abandon(t) ==
    /\ pc = "free" /\ thr[t] # "out" /\ state[t] \in {"RUNNING", "WAITING"}
    /\ state' = [state EXCEPT ![t] = "LEFT"]
    /\ leftThreads' = leftThreads + 1
    /\ thr' = [thr EXCEPT ![t] = "out"]
    /\ synced' = synced \ {t}
    /\ IF state[t] = "RUNNING"
         THEN runningThreads' = runningThreads - 1 /\ Enter(t, "leave")
         ELSE UNCHANGED <<runningThreads, pc, localVars>>
    /\ UNCHANGED <<futexWord, lastIdx, listVars, phaseCount>>

-----------------------------------------------------------------------------
(* tryWakeNext: checkRunList ("wake1"), checkEndPhase, checkRunList        *)
(* ("wake2").                                                              *)

CanWakeOneMore == runningThreads <= ParallelThreads /\ curThreadIdx < runListSize  \* Mutant
CanWake == runningThreads < ParallelThreads /\ curThreadIdx < runListSize

\* state becomes RUNNING before futexWord is written, "to avoid wakeup race".
WakeState ==
    LET t == runList[curThreadIdx] IN
    /\ pc \in {"wake1", "wake2"} /\ CanWake /\ state[t] = "WAITING"
    /\ curThreadIdx' = curThreadIdx + 1
    /\ state' = [state EXCEPT ![t] = "RUNNING"]
    /\ lastIdx' = [lastIdx EXCEPT ![t] = curThreadIdx]
    /\ wtid' = t
    /\ pc' = IF pc = "wake1" THEN "futex1" ELSE "futex2"
    /\ UNCHANGED <<futexWord, runList, runListSize, countVars, self, call, idx,
                   newSize, thr, synced>>

WakeFutex ==
    /\ pc \in {"futex1", "futex2"}
    /\ futexWord[wtid] = 1                         \* "Wakeup race in barrier?"
    /\ futexWord' = [futexWord EXCEPT ![wtid] = 0]
    /\ thr' = IF thr[wtid] = "asleep" THEN [thr EXCEPT ![wtid] = "woken"] ELSE thr
    /\ runningThreads' = runningThreads + 1
    /\ pc' = IF pc = "futex1" THEN "wake1" ELSE "wake2"
    /\ UNCHANGED <<state, lastIdx, listVars, leftThreads, phaseCount, localVars, synced>>

SkipThread ==
    /\ pc \in {"wake1", "wake2"} /\ CanWake /\ state[runList[curThreadIdx]] # "WAITING"
    /\ curThreadIdx' = curThreadIdx + 1
    /\ UNCHANGED <<threadVars, runList, runListSize, countVars, pc, localVars, thr, synced>>

PhaseOverEarly == curThreadIdx = runListSize /\ leftThreads # runListSize          \* Mutant
PhaseNeverOver == FALSE                                                            \* Mutant
PhaseOver == /\ curThreadIdx = runListSize /\ runningThreads = 0
             /\ leftThreads # runListSize          \* everybody left: no new phase

\* No end of phase: the second checkRunList finds nothing new either.
WakeDone ==
    /\ \/ pc = "wake1" /\ ~CanWake /\ ~PhaseOver
       \/ pc = "wake2" /\ ~CanWake
    /\ pc' = "unlock"
    /\ UNCHANGED <<threadVars, listVars, countVars, localVars, thr, synced>>

\* sched->callback() belongs to this step; it is the Scheduler's Callback.
EndPhase ==
    /\ pc = "wake1" /\ ~CanWake /\ PhaseOver
    /\ curThreadIdx' = 0
    /\ phaseCount' = (phaseCount + 1) % CleanupPeriod
    /\ IF phaseCount = 0
         THEN pc' = "clean" /\ idx' = 0 /\ newSize' = runListSize
         ELSE pc' = "shuffle" /\ UNCHANGED <<idx, newSize>>
    /\ synced' = {}
    /\ UNCHANGED <<threadVars, runList, runListSize, runningThreads, leftThreads,
                   self, call, wtid, thr>>

\* One iteration of the pass that compacts the run list.
CleanupStep ==
    LET t == runList[idx]
        s == runList[newSize - 1]
    IN /\ pc = "clean" /\ idx < newSize
       /\ IF state[t] = "LEFT"
            THEN /\ state' = [state EXCEPT ![t] = "OFFLINE"]
                 /\ runList' = [runList EXCEPT ![idx] = s]
                 /\ lastIdx' = [lastIdx EXCEPT ![s] = idx]
                 /\ newSize' = newSize - 1 /\ UNCHANGED idx
            ELSE idx' = idx + 1 /\ UNCHANGED <<state, runList, lastIdx, newSize>>
       /\ UNCHANGED <<futexWord, runListSize, curThreadIdx, countVars, pc, self,
                      call, wtid, thr, synced>>

CleanupDone ==
    /\ pc = "clean" /\ idx >= newSize
    /\ runListSize - newSize = leftThreads                              \* assert
    /\ leftThreads' = 0 /\ runListSize' = newSize /\ pc' = "shuffle"
    /\ UNCHANGED <<threadVars, runList, curThreadIdx, runningThreads, phaseCount,
                   localVars, thr, synced>>

\* Fisher-Yates: any permutation p (the thread at p[i] moves to i) can come out.
\* Every move writes lastIdx; only a thread that stays at 0 is never written.
Positions == 0 .. runListSize - 1
Shuffles  == Bijection(Positions, Positions)

Shuffle ==
    /\ pc = "shuffle"
    /\ pc' = "wake2"
    /\ IF ParallelThreads < runListSize
         THEN \E p \in Shuffles :
                /\ runList' = [i \in Threads |->
                                 IF i \in Positions THEN runList[p[i]] ELSE runList[i]]
                /\ lastIdx' = [t \in Threads |->
                     IF \E i \in Positions : runList[p[i]] = t /\ ~(i = 0 /\ p[i] = 0)
                       THEN CHOOSE i \in Positions : runList[p[i]] = t
                       ELSE lastIdx[t]]
         ELSE UNCHANGED <<runList, lastIdx>>
    /\ UNCHANGED <<state, futexWord, runListSize, curThreadIdx, countVars, localVars,
                   thr, synced>>

\* futex_unlock(schedLock): in join and sync, or by leave's caller.
Unlock ==
    /\ pc = "unlock"
    /\ pc' = "free"
    /\ thr' = IF call = "leave" THEN thr ELSE [thr EXCEPT ![self] = "check"]
    /\ UNCHANGED <<threadVars, listVars, countVars, localVars, synced>>

-----------------------------------------------------------------------------
(* The end of join and sync, which runs after the lock is released.        *)

MoveTo(t, p) == /\ thr' = [thr EXCEPT ![t] = p]
                /\ UNCHANGED <<threadVars, listVars, countVars, pc, localVars, synced>>

\* if (threadList[tid].state == WAITING)
CheckState(t) == /\ thr[t] = "check"
                 /\ MoveTo(t, IF state[t] = "WAITING" THEN "wait" ELSE "run")

\* FUTEX_WAIT blocks only while the word still is 1.
AlwaysBlocks(t) == TRUE                                                 \* Mutant
Blocks(t) == futexWord[t] = 1

FutexWait(t) == /\ thr[t] = "wait"
                /\ MoveTo(t, IF Blocks(t) THEN "asleep" ELSE "woken")

WakeUp(t) == /\ thr[t] = "woken" /\ state[t] = "RUNNING"                \* assert
             /\ MoveTo(t, "run")

-----------------------------------------------------------------------------
TryWakeNext == \/ WakeState \/ WakeFutex \/ SkipThread \/ WakeDone \/ EndPhase
               \/ CleanupStep \/ CleanupDone \/ Shuffle \/ Unlock

WaitForWakeup(t) == CheckState(t) \/ FutexWait(t) \/ WakeUp(t)

BarrierNext == \/ TryWakeNext
               \/ \E t \in Threads : Join(t) \/ Leave(t) \/ Sync(t) \/ WaitForWakeup(t)

KillNext == BarrierNext \/ \E t \in Threads : Abandon(t)

\* The holder of the lock and a woken thread are host threads that run on, and
\* a thread that runs reaches the end of the phase, that is, its sync.
BarrierFairness == /\ WF_barrierVars(TryWakeNext)
                   /\ \A t \in Threads : /\ WF_barrierVars(WaitForWakeup(t))
                                         /\ SF_barrierVars(Sync(t))

BarrierSpec     == BarrierInit /\ [][BarrierNext]_barrierVars
FairBarrierSpec == BarrierSpec /\ BarrierFairness
KillSpec        == BarrierInit /\ [][KillNext]_barrierVars

-----------------------------------------------------------------------------
(* Properties.                                                             *)

Index == 0 .. MaxThreads
InState(s) == {t \in Threads : state[t] = s}

\* Every variable of the barrier keeps its type; in particular the run list
\* cursor, its size and the cached counts never leave the array of MAX_THREADS.
BarrierTypeOK ==
    /\ state \in [Threads -> States]
    /\ futexWord \in [Threads -> {0, 1}]
    /\ lastIdx \in [Threads -> Nat]
    /\ runList \in [Threads -> Threads]
    /\ runListSize \in Index /\ curThreadIdx \in 0 .. runListSize
    /\ runningThreads \in Index /\ leftThreads \in Index
    /\ phaseCount \in 0 .. CleanupPeriod - 1
    /\ pc \in {"free", "wake1", "futex1", "clean", "shuffle", "wake2",
               "futex2", "unlock"}
    /\ self \in Threads /\ call \in {"join", "leave", "sync"}
    /\ wtid \in Threads /\ idx \in Index /\ newSize \in Index
    /\ thr \in [Threads -> {"out", "run", "locked", "check", "wait", "asleep", "woken"}]
    /\ synced \subseteq Threads

\* The counts join, leave and sync keep by hand are the numbers of RUNNING and
\* LEFT threads whenever the lock is free, and never more than parallelThreads
\* threads are RUNNING, not even while a wakeup is under way.
CountsMatch ==
    /\ pc = "free" => /\ runningThreads = Cardinality(InState("RUNNING"))
                      /\ leftThreads = Cardinality(InState("LEFT"))
    /\ Cardinality(InState("RUNNING")) <= ParallelThreads

\* Outside the cleanup pass the run list holds every thread that is not
\* OFFLINE exactly once: swaps, compaction and shuffles lose nobody.
RunListExact ==
    pc # "clean" =>
      /\ {runList[i] : i \in Positions} = Threads \ InState("OFFLINE")
      /\ Cardinality(InState("OFFLINE")) = MaxThreads - runListSize

\* No assertion and no panic() of barrier.h fires: whenever control stands at
\* one, what it asserts is true.  In order: sync's and leave's; the one after
\* the futex wait; "Wakeup race in barrier?"; join's on lastIdx; the cleanup's.
AssertionsHold ==
    /\ \A t \in Threads : thr[t] \in {"run", "woken"} => state[t] = "RUNNING"
    /\ pc \in {"futex1", "futex2"} => futexWord[wtid] = 1
    /\ \A t \in Threads : pc = "free" /\ state[t] = "LEFT" /\ RanThisPhase(t)
                            => runList[lastIdx[t]] = t
    /\ pc = "clean" /\ idx >= newSize => runListSize - newSize = leftThreads

\* join's comment: "You can't cause a phase to end here."
JoinEndsNoPhase == pc \in {"clean", "shuffle"} => call # "join"

\* A phase ends only after every waiting thread has run and synced in it: a
\* thread that joins, leaves and rejoins is never passed over by the cursor.
PhaseComplete == [][pc = "wake1" /\ pc' \in {"clean", "shuffle"}
                      => InState("WAITING") \subseteq synced]_barrierVars

\* A thread that has synced is not woken again before the phase ends, whatever
\* the same-phase rescheduling of others does to the run list.
OneRunPerPhase == [][\A t \in synced : state[t] = "WAITING" => state'[t] = "WAITING"
                                                             \/ t \notin synced']_barrierVars

\* A thread waits in the kernel only while a wakeup is still to come: once it
\* is RUNNING and the waker is done, it is not asleep.  (No lost wakeup.)
NoLostWakeup == \A t \in Threads :
    thr[t] = "asleep" => /\ futexWord[t] = 1
                         /\ state[t] = "WAITING" \/ (pc \in {"futex1", "futex2"} /\ wtid = t)

\* No idle width: with the lock free, a thread waits only if parallelThreads
\* threads run.
WorkConserving ==
    pc = "free" /\ runningThreads < ParallelThreads => InState("WAITING") \subseteq synced

\* Every thread that waits eventually runs, though others leave and join.
EventuallyRuns == \A t \in Threads : (state[t] = "WAITING") ~> (thr[t] = "run")

-----------------------------------------------------------------------------
(* The abstract barrier this one implements.                               *)

\* OFFLINE and LEFT threads are out; a WAITING thread is done with this phase
\* or still to run in it, which the code only knows by its place in the list.
abstractStatus ==
    [t \in Threads |->
       CASE state[t] = "RUNNING" -> "running"
         [] state[t] = "WAITING" -> IF t \in synced THEN "done" ELSE "waiting"
         [] OTHER -> "out"]

Abstract == INSTANCE PhaseBarrier
    WITH Participants <- Threads, Width <- ParallelThreads, status <- abstractStatus

\* barrier.h implements the abstract phase barrier, its progress included.
ImplementsPhaseBarrier == Abstract!FairSpec
=============================================================================
