---------------------------- MODULE MCScheduler ----------------------------
(* Bounded instances of Scheduler for TLC.                                 *)
EXTENDS Scheduler, TLC

\* Contexts, processes and processor masks of the instances.
AllCores  == [g \in Gids |-> Cids]
OneProcess == [g \in Gids |-> "proc"]
OwnProcess == [g \in Gids |-> g]

\* One thread may use only the first context, the others every one.
Overlapping == [g \in Gids |-> IF g = CHOOSE h \in Gids : TRUE THEN {0} ELSE Cids]

\* Threads are interchangeable when masks and processes are the same for all.
ThreadSymmetry == Permutations(Gids)
=============================================================================
