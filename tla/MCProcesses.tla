---------------------------- MODULE MCProcesses -----------------------------
(* Simulations of up to three processes for Processes.                     *)
EXTENDS Processes

Plain == [procs |-> 2, mode |-> "Multiprocess", startFF |-> {}, restarts |-> {}, exits |-> {},
          forks |-> {}, execs |-> {}, magic |-> {}, toggles |-> {}, loopCatch |-> FALSE]

MCConfigs ==
    {\* processes that end, are restarted, exec, and use the hooks
     [Plain EXCEPT !.exits = {0, 1}, !.restarts = {1}, !.startFF = {1}, !.magic = {1}, !.execs = {1}],
     \* forks, with fast-forwarding that is always or never synced
     [Plain EXCEPT !.mode = "Always", !.procs = 1, !.startFF = {0}, !.exits = {1, 2}, !.forks = {0},
                   !.magic = {0, 1}, !.loopCatch = TRUE],
     [Plain EXCEPT !.mode = "Never", !.exits = {0, 1}, !.forks = {1}, !.magic = {1}, !.loopCatch = TRUE],
     \* one process is toggled from outside
     [Plain EXCEPT !.toggles = {1}, !.exits = {0}],
     [Plain EXCEPT !.mode = "Never", !.toggles = {0}, !.startFF = {0}, !.execs = {1}],
     \* one process that forks in fast-forward
     [Plain EXCEPT !.procs = 1, !.startFF = {0}, !.forks = {0}, !.magic = {0, 1}]}

\* Not in MCConfigs, because the code fails on them (see the README).
TwoToggles == {[Plain EXCEPT !.toggles = {0, 1}]}
ToggledExits == {[Plain EXCEPT !.toggles = {1}, !.exits = {1}]}
RestartInLoop == {[Plain EXCEPT !.restarts = {1}, !.exits = {1}, !.loopCatch = TRUE]}
RestartOfZero == {[Plain EXCEPT !.restarts = {0}, !.exits = {0}]}
=============================================================================
