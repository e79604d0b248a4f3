-------------------------- MODULE FutexLockProofs --------------------------
(***************************************************************************)
(* Mutual exclusion of the futex lock and the absence of forgotten         *)
(* sleepers, for any set of threads and any number of calls.               *)
(***************************************************************************)
EXTENDS FutexLock, TLAPS

\* The word is nonzero exactly while a thread owns the lock.  Mutual exclusion
\* alone is not inductive: a second acquirer is kept out only by the word.
WordOK == word # 0 <=> \E p \in Procs : Holds(p)

IndInv == TypeOK /\ MutualExclusion /\ WordOK /\ NoSleeperForgotten

\* The lock starts free, with nobody inside (futex_init).
LEMMA InitIndInv == Init => IndInv
BY MaxCallsAssumption
   DEF Init, IndInv, TypeOK, Labels, MutualExclusion, WordOK, Holds,
       NoSleeperForgotten, Asleep

\* No atomic step of the lock functions leaves the types.
LEMMA TypeStep == TypeOK /\ WordOK /\ [Next]_vars => TypeOK'
<1> SUFFICES ASSUME TypeOK, WordOK, [Next]_vars PROVE TypeOK'
  OBVIOUS
<1> USE MaxCallsAssumption DEF TypeOK, Labels, Goto
<1>1. CASE UNCHANGED vars
  BY <1>1 DEF vars
<1>2. CASE Finished
  BY <1>2 DEF Finished, vars
<1>3. ASSUME NEW p \in Procs, Call(p) \/ Step(p) \/ GiveUpWait(p) PROVE TypeOK'
  <2>1. CASE Call(p)
    <3>1. word' \in 0 .. 2 /\ pc' \in [Procs -> Labels] /\ calls' \in [Procs -> 0 .. MaxCalls]
      BY <2>1 DEF Call
    <3>2. timed' \in [Procs -> BOOLEAN]
      <4>1. PICK b \in BOOLEAN : timed' = [timed EXCEPT ![p] = b]
        BY <2>1 DEF Call
      <4> QED BY <4>1
    <3> QED BY <3>1, <3>2
  <2>2. CASE Try(p) \/ Swap(p) \/ Wait(p) \/ GiveUpWait(p) \/ Retry(p) \/ Clear(p)
    BY <2>2 DEF Try, Swap, Wait, GiveUpWait, Retry, Clear
  <2>3. CASE Unlock(p)
    <3>1. word \in 1 .. 2
      BY <2>3 DEF Unlock, WordOK, Holds
    <3> QED BY <2>3, <3>1 DEF Unlock
  <2>4. CASE Wake(p)
    BY <2>4 DEF Wake, Asleep
  <2> QED BY <1>3, <2>1, <2>2, <2>3, <2>4 DEF Step
<1> QED BY <1>1, <1>2, <1>3 DEF Next

\* No step makes a second owner, and the word keeps telling whether there is one.
LEMMA OwnerStep == TypeOK /\ MutualExclusion /\ WordOK /\ [Next]_vars
                     => (MutualExclusion /\ WordOK)'
<1> SUFFICES ASSUME TypeOK, MutualExclusion, WordOK, [Next]_vars
             PROVE (MutualExclusion /\ WordOK)'
  OBVIOUS
<1> USE DEF TypeOK, Labels, Goto, MutualExclusion, WordOK, Holds
<1>1. CASE UNCHANGED vars
  BY <1>1 DEF vars
<1>2. CASE Finished
  BY <1>2 DEF Finished, vars
<1>3. ASSUME NEW p \in Procs, Call(p) \/ Step(p) \/ GiveUpWait(p)
      PROVE (MutualExclusion /\ WordOK)'
  <2>1. CASE Call(p)
    BY <2>1 DEF Call
  <2>2. CASE Try(p)
    BY <2>2 DEF Try
  <2>3. CASE Swap(p)
    BY <2>3 DEF Swap
  <2>4. CASE Wait(p) \/ GiveUpWait(p)
    BY <2>4 DEF Wait, GiveUpWait
  <2>5. CASE Retry(p)
    BY <2>5 DEF Retry
  <2>6. CASE Unlock(p)
    BY <2>6 DEF Unlock
  <2>7. CASE Clear(p)
    BY <2>7 DEF Clear
  <2>8. CASE Wake(p)
    BY <2>8 DEF Wake, Asleep
  <2> QED BY <1>3, <2>1, <2>2, <2>3, <2>4, <2>5, <2>6, <2>7, <2>8 DEF Step
<1> QED BY <1>1, <1>2, <1>3 DEF Next

\* No step leaves a sleeper without a word of 2 or a thread bound to act.
LEMMA SleeperStep == TypeOK /\ NoSleeperForgotten /\ [Next]_vars => NoSleeperForgotten'
<1> SUFFICES ASSUME TypeOK, NoSleeperForgotten, [Next]_vars PROVE NoSleeperForgotten'
  OBVIOUS
<1> USE DEF TypeOK, Labels, Goto, NoSleeperForgotten, Asleep
<1>1. CASE UNCHANGED vars
  BY <1>1 DEF vars
<1>2. CASE Finished
  BY <1>2 DEF Finished, vars
<1>3. ASSUME NEW p \in Procs, Call(p) \/ Step(p) \/ GiveUpWait(p)
      PROVE NoSleeperForgotten'
  <2>1. CASE Call(p)
    BY <2>1 DEF Call
  <2>2. CASE Try(p)
    BY <2>2 DEF Try
  <2>3. CASE Swap(p) \/ Retry(p)
    BY <2>3 DEF Swap, Retry
  <2>4. CASE Wait(p) \/ GiveUpWait(p)
    BY <2>4 DEF Wait, GiveUpWait
  <2>5. CASE Unlock(p)
    BY <2>5 DEF Unlock
  <2>6. CASE Clear(p)
    BY <2>6 DEF Clear
  <2>7. CASE Wake(p)
    BY <2>7 DEF Wake
  <2> QED BY <1>3, <2>1, <2>2, <2>3, <2>4, <2>5, <2>6, <2>7 DEF Step
<1> QED BY <1>1, <1>2, <1>3 DEF Next

\* The four invariants together hold of every behaviour of locks.h' futex lock.
THEOREM IndInvHolds == Spec => []IndInv
<1>1. IndInv /\ [Next]_vars => IndInv'
  BY TypeStep, OwnerStep, SleeperStep DEF IndInv
<1> QED BY InitIndInv, <1>1, PTL DEF Spec

\* futex_lock and futex_unlock give mutual exclusion.
THEOREM FutexMutualExclusion == Spec => []MutualExclusion
<1>1. IndInv => MutualExclusion
  BY DEF IndInv
<1> QED BY IndInvHolds, <1>1, PTL

\* futex_unlock never forgets a thread that sleeps in futex_lock.
THEOREM FutexNoSleeperForgotten == Spec => []NoSleeperForgotten
<1>1. IndInv => NoSleeperForgotten
  BY DEF IndInv
<1> QED BY IndInvHolds, <1>1, PTL
=============================================================================
