---------------------------- MODULE PhaseBarrier ----------------------------
(***************************************************************************)
(* What the barrier promises, without run lists, cursors, cached counts,   *)
(* futexes or locks.  A participant waits, runs at most once per phase with*)
(* at most Width others, and the phase turns when nobody is left to run.   *)
(***************************************************************************)
EXTENDS Integers, FiniteSets

CONSTANTS Participants, Width

VARIABLE status   \* per participant: "out", "waiting", "running" or "done"

In(s) == {t \in Participants : status[t] = s}

Init == status = [t \in Participants |-> "out"]

Move(t, from, to) == /\ status[t] = from
                     /\ status' = [status EXCEPT ![t] = to]

Join(t)  == Move(t, "out", "waiting")
Leave(t) == Move(t, "running", "out")
Sync(t)  == Move(t, "running", "done")
Wake(t)  == Cardinality(In("running")) < Width /\ Move(t, "waiting", "running")

EndPhase == /\ In("waiting") = {} /\ In("running") = {} /\ In("done") # {}
            /\ status' = [t \in Participants |->
                            IF status[t] = "done" THEN "waiting" ELSE status[t]]

Next == \/ \E t \in Participants : Join(t) \/ Leave(t) \/ Sync(t) \/ Wake(t)
        \/ EndPhase

Spec == Init /\ [][Next]_status

\* The barrier itself moves on: it fills its width and it turns the phase.
Fairness == WF_status((\E t \in Participants : Wake(t)) \/ EndPhase)

FairSpec == Spec /\ Fairness
=============================================================================
