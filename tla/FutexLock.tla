----------------------------- MODULE FutexLock -----------------------------
(***************************************************************************)
(* The futex mutex of locks.h (futex_lock, futex_lock_nospin,              *)
(* futex_trylock_nospin_timeout, futex_unlock), the lock under which the   *)
(* scheduler, the barrier and every cache run.  word is the lock word: 0   *)
(* free, 1 taken, 2 taken and perhaps somebody sleeps.  Every step is one  *)
(* atomic access to the word or one futex system call.                     *)
(***************************************************************************)
EXTENDS Integers, FiniteSets

CONSTANTS Procs,     \* the host threads that use the lock
          MaxCalls   \* bound: calls of a lock function per thread

ASSUME MaxCallsAssumption == MaxCalls \in Nat

VARIABLES word,      \* *lock
          pc,        \* where each thread stands
          timed,     \* this call is futex_trylock_nospin_timeout
          calls      \* calls made so far, bounded by MaxCalls

vars == <<word, pc, timed, calls>>

Init == /\ word = 0                                \* futex_init
        /\ pc = [p \in Procs |-> "idle"]
        /\ timed = [p \in Procs |-> FALSE]
        /\ calls = [p \in Procs |-> 0]

Goto(p, l) == pc' = [pc EXCEPT ![p] = l]

Call(p) == /\ pc[p] = "idle" /\ calls[p] < MaxCalls
           /\ Goto(p, "try")
           /\ \E b \in BOOLEAN : timed' = [timed EXCEPT ![p] = b]
           /\ calls' = [calls EXCEPT ![p] = @ + 1]
           /\ UNCHANGED word

\* *lock == 0 && CAS(lock, 0, 1), for as many rounds as the variant spins.
Try(p) == /\ pc[p] = "try"
          /\ IF word = 0 THEN word' = 1 /\ Goto(p, "cs")
                         ELSE Goto(p, "swap") /\ UNCHANGED word
          /\ UNCHANGED <<timed, calls>>

\* Mutant: the thread announces itself with 1, as if it held the lock alone.
SwapOne(p) == /\ pc[p] = "swap"
              /\ word' = 1
              /\ Goto(p, IF word = 0 THEN "cs" ELSE "wait")
              /\ UNCHANGED <<timed, calls>>

\* "At this point, we will block": exchange the word with 2.
Swap(p) == /\ pc[p] = "swap"
           /\ word' = 2
           /\ Goto(p, IF word = 0 THEN "cs" ELSE "wait")
           /\ UNCHANGED <<timed, calls>>

\* FUTEX_WAIT: the kernel blocks the thread only if the word still is 2.
Wait(p) == /\ pc[p] = "wait"
           /\ Goto(p, IF word = 2 THEN "asleep" ELSE "retry")
           /\ UNCHANGED <<word, timed, calls>>

\* The wait ends without a wakeup: a signal, or the timeout of a timed call.
GiveUpWait(p) == /\ pc[p] = "asleep"
                 /\ Goto(p, "retry")
                 /\ UNCHANGED <<word, timed, calls>>

\* Mutants: a woken thread takes the lock unseen; it takes it with 1.
RetryTakes(p) == /\ pc[p] = "retry"
                 /\ word' = 2
                 /\ Goto(p, "cs")
                 /\ UNCHANGED <<timed, calls>>
RetryOne(p) == /\ pc[p] = "retry"
               /\ word' = 1
               /\ Goto(p, IF word = 0 THEN "cs" ELSE IF timed[p] THEN "idle" ELSE "try")
               /\ UNCHANGED <<timed, calls>>

\* The second exchange; a timed call gives up here, the others start over.
Retry(p) == /\ pc[p] = "retry"
            /\ word' = 2
            /\ Goto(p, IF word = 0 THEN "cs" ELSE IF timed[p] THEN "idle" ELSE "try")
            /\ UNCHANGED <<timed, calls>>

\* futex_unlock: fetch_and_add(lock, -1); done if nobody had announced a wait.
Unlock(p) == /\ pc[p] = "cs"
             /\ word' = word - 1
             /\ Goto(p, IF word = 1 THEN "idle" ELSE "clear")
             /\ UNCHANGED <<timed, calls>>

\* Mutant: the contended release forgets to store 0.
ClearNothing(p) == /\ pc[p] = "clear"
                   /\ Goto(p, "wake")
                   /\ UNCHANGED <<word, timed, calls>>

Clear(p) == /\ pc[p] = "clear"                     \* *lock = 0
            /\ word' = 0
            /\ Goto(p, "wake")
            /\ UNCHANGED <<timed, calls>>

Asleep == {p \in Procs : pc[p] = "asleep"}

Wake(p) == /\ pc[p] = "wake"                       \* FUTEX_WAKE, 1
           /\ IF Asleep = {}
                THEN Goto(p, "idle")
                ELSE \E q \in Asleep : pc' = [pc EXCEPT ![p] = "idle", ![q] = "retry"]
           /\ UNCHANGED <<word, timed, calls>>

Step(p) == \/ Try(p) \/ Swap(p) \/ Wait(p) \/ Retry(p)
           \/ Unlock(p) \/ Clear(p) \/ Wake(p)

\* Every thread has made its calls and is done: the model may stop.
Finished == /\ \A p \in Procs : pc[p] = "idle" /\ calls[p] = MaxCalls
            /\ UNCHANGED vars

Next == \/ \E p \in Procs : Call(p) \/ Step(p) \/ GiveUpWait(p)
        \/ Finished

\* Host threads run; nothing but a wakeup is sure to end a wait.
Fairness == \A p \in Procs : WF_vars(Step(p)) /\ WF_vars(Call(p))

Spec == Init /\ [][Next]_vars /\ Fairness

-----------------------------------------------------------------------------
Labels == {"idle", "try", "swap", "wait", "asleep", "retry", "cs", "clear", "wake"}

TypeOK == /\ word \in 0 .. 2
          /\ pc \in [Procs -> Labels]
          /\ timed \in [Procs -> BOOLEAN]
          /\ calls \in [Procs -> 0 .. MaxCalls]

\* Between taking the lock and the store that releases it.
Holds(p) == pc[p] \in {"cs", "clear"}

\* Never two threads own the lock, though the release of a contended lock is
\* two writes (2 -> 1 -> 0) with other threads' exchanges in between.
MutualExclusion == \A p, q \in Procs : Holds(p) /\ Holds(q) => p = q

\* While a thread sleeps in the kernel the word says so, or some thread is on
\* its way to wake it or to announce it again: the barging acquirer that
\* writes 1 over a sleeper never leaves it behind.
NoSleeperForgotten ==
    Asleep # {} => word = 2 \/ \E p \in Procs : pc[p] \in {"clear", "wake", "retry"}

\* Every lock call returns: with finitely many calls all threads get through,
\* none is left asleep after the last unlock.
AllServed == <>[](\A p \in Procs : pc[p] = "idle" /\ calls[p] = MaxCalls)
=============================================================================
