----------------------------- MODULE Processes ------------------------------
(***************************************************************************)
(* The simulated processes of zsim and how a simulation ends: the process  *)
(* tree with its global counters (process_tree.h, process_tree.cpp), the   *)
(* harness that launches, reaps and restarts processes (zsim_harness.cpp), *)
(* fast-forwarding, on behalf of the program or of the control thread of   *)
(* each process, the event queue of phase ends (event_queue.h) through     *)
(* which the control thread waits, the actions at the end of a phase and   *)
(* SimEnd (zsim.cpp).                                                      *)
(*                                                                         *)
(* A process has one program thread, at[p], and one control thread,        *)
(* ffth[p].  Scheduler and barrier are reduced to what they promise: a     *)
(* phase ends when every thread that simulates has arrived, and nobody     *)
(* joins or leaves during its end (schedLock).                             *)
(* Definitions marked "Wrong" are variants that no other one uses.         *)
(***************************************************************************)
EXTENDS Integers, FiniteSets

CONSTANTS Configs,      \* the simulations to look at: see ProcessesAssumption
          MaxProcs,     \* lineSize, the limit on processes
          MaxPhases,    \* maxPhases
          CounterBits   \* width of the global counters (32)

\* procs: how many the harness launches; mode: syncedFastForward; startFF,
\* restarts: the processes that start in fast-forward, that are restarted once;
\* exits, forks, execs, magic, toggles: those that end by themselves, fork,
\* exec, use the ROI hooks, are toggled from outside; loopCatch: the harness
\* may see a dead child in its loop before it gets the signal.
ASSUME ProcessesAssumption ==
    /\ MaxProcs \in Nat \ {0} /\ MaxPhases \in Nat \ {0}
    /\ CounterBits \in Nat \ {0} /\ MaxProcs < 2 ^ CounterBits
    /\ LET Procs == SUBSET (0 .. MaxProcs - 1) IN
       Configs \subseteq [procs : 1..MaxProcs, mode : {"Always", "Multiprocess", "Never"},
                          startFF : Procs, restarts : Procs, exits : Procs, forks : Procs,
                          execs : SUBSET (1 .. MaxProcs - 1), magic : Procs, toggles : Procs,
                          loopCatch : BOOLEAN]

VARIABLES config,       \* a member of Configs; execs and toggles are used up
          node,         \* the nodes of the process tree, with procExited
          numProcs, cnt,        \* nodes in the tree; the global counters
          life,         \* none, main, up, ending, drain, exited or gone
          at, ffth,     \* where the program and the control threads are
          toggled, ffLock,      \* processes with a toggle pending; who holds the lock
          eop,          \* the end of phase: its step, its thread, whom it waits for
          evMap, numPhases, terminationConditionMet,
          child,        \* childInfo of the harness
          dumped, panicked      \* the final statistics are out; a process panicked

processVars == <<config, node, numProcs, cnt, life, at, ffth, toggled, ffLock, eop, evMap,
                 numPhases, terminationConditionMet, child, dumped, panicked>>

ProcIdx == 0..(MaxProcs - 1)
Nobody == -1
Bound == [step |-> "bound", by |-> Nobody, for |-> Nobody]
term == terminationConditionMet

ProcessesInit ==
    /\ config \in Configs
    /\ LET launched == 0..(config.procs - 1) IN
       /\ node = [p \in ProcIdx |-> [started |-> FALSE, inFastForward |-> p \in config.startFF,
                                     restartsLeft |-> IF p \in config.restarts THEN 1 ELSE 0,
                                     exited |-> "RUNNING"]]
       /\ life = [p \in ProcIdx |-> IF p \in launched THEN "main" ELSE "none"]
       /\ child = [p \in ProcIdx |-> IF p \in launched THEN "RUNNING" ELSE "INVALID"]
    /\ numProcs = config.procs
    /\ cnt = [active |-> 0, ff |-> 0, synced |-> 0]
    /\ at = [p \in ProcIdx |-> "off"] /\ ffth = [p \in ProcIdx |-> "blocked"]
    /\ toggled = {} /\ ffLock = Nobody /\ eop = Bound /\ evMap = {}
    /\ numPhases = 0 /\ terminationConditionMet = FALSE /\ dumped = FALSE /\ panicked = FALSE

-----------------------------------------------------------------------------
(* The counters.                                                           *)

Inc(n) == (n + 1) % (2 ^ CounterBits)
Dec(n) == (n - 1) % (2 ^ CounterBits)

\* getSyncedFastForward(): evaluated anew at each use.
Synced == config.mode = "Always" \/ (config.mode = "Multiprocess" /\ numProcs > 1)

CountEntry(c) == [c EXCEPT !.ff = Inc(@), !.synced = IF Synced THEN Inc(@) ELSE @]
CountExit(c) == [c EXCEPT !.ff = Dec(@), !.synced = IF Synced THEN Dec(@) ELSE @]

enterFastForward(p) ==
    /\ node' = [node EXCEPT ![p].inFastForward = TRUE]
    /\ cnt' = CountEntry(cnt)

exitFastForward(p) ==
    /\ node' = [node EXCEPT ![p].inFastForward = FALSE]
    /\ cnt' = CountExit(cnt)

\* A process that starts again, after a restart or an exec, changes nothing.
notifyStart(p) ==
    IF node[p].started THEN UNCHANGED <<node, cnt, panicked>>
    ELSE LET more == [cnt EXCEPT !.active = Inc(@)] IN
         /\ node' = [node EXCEPT ![p].started = TRUE]
         /\ cnt' = IF node[p].inFastForward THEN CountEntry(more) ELSE more
         /\ panicked' = (p # 0 /\ cnt.active = 0)

\* Wrong: a process that will be restarted is counted out.
notifyEndCountsOut(p) ==
    LET left == IF node[p].inFastForward THEN CountExit(cnt) ELSE cnt
        restart == node[p].restartsLeft > 0 /\ ~term
    IN /\ node' = [node EXCEPT ![p].inFastForward = FALSE, ![p].restartsLeft = IF restart THEN @ - 1 ELSE @,
                               ![p].exited = IF restart THEN "RESTARTME" ELSE "EXITED"]
       /\ cnt' = [left EXCEPT !.active = Dec(@)]

notifyEnd(p) ==
    LET left == IF node[p].inFastForward THEN CountExit(cnt) ELSE cnt
        restart == node[p].restartsLeft > 0 /\ ~term
    IN /\ node' = [node EXCEPT ![p].inFastForward = FALSE, ![p].restartsLeft = IF restart THEN @ - 1 ELSE @,
                               ![p].exited = IF restart THEN "RESTARTME" ELSE "EXITED"]
       /\ cnt' = IF restart THEN left ELSE [left EXCEPT !.active = Dec(@)]

-----------------------------------------------------------------------------
(* A process: start, fork, exec, end.                                      *)

Becomes(p, what) == life' = [life EXCEPT ![p] = what]
Goto(p, where) == at' = [at EXCEPT ![p] = where]
HasThreads(p) == life[p] \in {"up", "ending", "drain"}

\* main() and AfterForkInChild().  Process 0 sets everything up for the others.
Main(p) ==
    /\ life[p] = "main" /\ (p # 0 => node[0].started)
    /\ notifyStart(p)
    /\ Becomes(p, "up")
    /\ Goto(p, IF node[p].inFastForward THEN "ff" ELSE "join")
    /\ ffth' = [ffth EXCEPT ![p] = "blocked"]
    /\ UNCHANGED <<config, numProcs, toggled, ffLock, eop, evMap, numPhases,
                   terminationConditionMet, child, dumped>>

\* BeforeFork() and getNextChild(): the child inherits the node of its parent.
Fork(p) ==
    /\ p \in config.forks /\ life[p] = "up" /\ at[p] \in {"out", "ff"} /\ numProcs < MaxProcs
    /\ node' = [node EXCEPT ![numProcs] = [node[p] EXCEPT !.started = FALSE, !.exited = "RUNNING"]]
    /\ Becomes(numProcs, "main")
    /\ numProcs' = numProcs + 1
    /\ UNCHANGED <<config, cnt, at, ffth, toggled, ffLock, eop, evMap, numPhases,
                   terminationConditionMet, child, dumped, panicked>>

\* FollowChild(): the process starts over with the same node.
Exec(p) ==
    /\ p \in config.execs /\ life[p] = "up" /\ at[p] \in {"out", "ff"}
    /\ config' = [config EXCEPT !.execs = @ \ {p}]
    /\ Becomes(p, "main") /\ Goto(p, "off")
    /\ UNCHANGED <<node, numProcs, cnt, ffth, toggled, ffLock, eop, evMap, numPhases,
                   terminationConditionMet, child, dumped, panicked>>

\* SimEnd(): the first thread of the process to get there ends it, the others
\* wait for that.
SimEnd(p) ==
    /\ life' = [life EXCEPT ![p] = IF @ = "up" THEN "ending" ELSE @]
    /\ UNCHANGED <<config, node, numProcs, cnt, toggled, ffLock, eop, evMap, numPhases,
                   terminationConditionMet, child, dumped, panicked>>

ThreadEnds(p) == SimEnd(p) /\ Goto(p, "off") /\ UNCHANGED ffth

ProgramEnds(p) == p \in config.exits /\ HasThreads(p) /\ at[p] \in {"out", "ff"} /\ ThreadEnds(p)

\* Process 0 stays until the others are done, then dumps the statistics.  Its
\* other threads run on until then.
NotifyEnd(p) ==
    /\ life[p] = "ending"
    /\ notifyEnd(p)
    /\ Becomes(p, IF p = 0 THEN "drain" ELSE "exited")
    /\ UNCHANGED <<config, numProcs, at, ffth, toggled, ffLock, eop, evMap, numPhases,
                   terminationConditionMet, child, dumped, panicked>>

Drain ==
    /\ life[0] = "drain" /\ cnt.active = 0
    /\ dumped' = TRUE
    /\ Becomes(0, "exited")
    /\ UNCHANGED <<config, node, numProcs, cnt, at, ffth, toggled, ffLock, eop, evMap, numPhases,
                   terminationConditionMet, child, panicked>>

-----------------------------------------------------------------------------
(* The program thread of a process.                                        *)

ThreadMoves(p, where) ==
    /\ Goto(p, where)
    /\ UNCHANGED <<config, node, numProcs, cnt, life, ffth, toggled, ffLock, eop, evMap, numPhases,
                   terminationConditionMet, child, dumped, panicked>>

Thread(p, where) == HasThreads(p) /\ at[p] = where

SyscallEnter(p) == Thread(p, "sim") /\ eop.step = "bound" /\ ThreadMoves(p, "out")

SyscallExit(p) ==
    /\ Thread(p, "out")
    /\ IF term THEN ThreadEnds(p) ELSE ThreadMoves(p, IF node[p].inFastForward THEN "ff" ELSE "join")

\* FFBasicBlock(): the thread sees that fast-forwarding is over.
LeaveFF(p) == Thread(p, "ff") /\ ~node[p].inFastForward /\ ThreadMoves(p, "join")

Join(p) == Thread(p, "join") /\ eop.step = "bound" /\ ThreadMoves(p, "joined")

\* Wrong: the thread starts to simulate without a look at the condition.
JoinedUnchecked(p) == Thread(p, "joined") /\ eop.step = "bound" /\ ThreadMoves(p, "sim")

Joined(p) ==
    /\ Thread(p, "joined") /\ eop.step = "bound"
    /\ IF term THEN ThreadEnds(p) ELSE ThreadMoves(p, "sim")

Sync(p) == Thread(p, "sim") /\ ThreadMoves(p, "barrier")

TakeBarrier(p) ==
    /\ Thread(p, "woken") /\ eop.step = "bound"
    /\ IF ~node[p].inFastForward /\ term THEN ThreadEnds(p)
       ELSE ThreadMoves(p, IF node[p].inFastForward THEN "ff" ELSE "sim")

FFOp(p) ==
    /\ p \in config.magic /\ HasThreads(p) /\ at[p] \in {"sim", "ff"} /\ ffLock = Nobody
    /\ UNCHANGED <<config, numProcs, life, at, ffth, toggled, ffLock, eop, evMap, numPhases,
                   terminationConditionMet, child, dumped, panicked>>

RoiBegin(p) == FFOp(p) /\ node[p].inFastForward /\ exitFastForward(p)
RoiEnd(p) == FFOp(p) /\ ~Synced /\ ~node[p].inFastForward /\ enterFastForward(p)

-----------------------------------------------------------------------------
(* The control thread of a process, FFThread().                            *)

\* fftoggle, a program of its own.
Toggle(p) ==
    /\ p \in config.toggles /\ HasThreads(p)
    /\ config' = [config EXCEPT !.toggles = @ \ {p}]
    /\ toggled' = toggled \cup {p}
    /\ UNCHANGED <<node, numProcs, cnt, life, at, ffth, ffLock, eop, evMap, numPhases,
                   terminationConditionMet, child, dumped, panicked>>

ControlThread(p) ==
    /\ HasThreads(p)
    /\ UNCHANGED <<config, numProcs, life, at, numPhases, terminationConditionMet, child, dumped, panicked>>

FFExit(p) ==
    /\ ControlThread(p) /\ ffth[p] = "blocked" /\ p \in toggled /\ ffLock = Nobody
    /\ node[p].inFastForward /\ exitFastForward(p)
    /\ toggled' = toggled \ {p}
    /\ UNCHANGED <<ffth, ffLock, eop, evMap>>

\* The thread keeps ffLock while it waits for the lock of the event queue.
FFStart(p) ==
    /\ ControlThread(p) /\ ffth[p] = "blocked" /\ p \in toggled /\ ffLock = Nobody
    /\ ~node[p].inFastForward
    /\ toggled' = toggled \ {p} /\ ffLock' = p
    /\ ffth' = [ffth EXCEPT ![p] = "inserting"]
    /\ UNCHANGED <<node, cnt, eop, evMap>>

FFInsert(p) ==
    /\ ControlThread(p) /\ ffth[p] = "inserting" /\ eop.step \notin {"tick", "callback"}
    /\ evMap' = evMap \cup {[phase |-> numPhases, proc |-> p]}
    /\ ffLock' = Nobody
    /\ ffth' = [ffth EXCEPT ![p] = "waiting"]
    /\ UNCHANGED <<node, cnt, toggled, eop>>

\* The end of phase waits in SyncEvent::callback() until this is done.
FFEnter(p) ==
    /\ ControlThread(p) /\ ffth[p] = "waiting" /\ ffLock = Nobody
    /\ eop.step = "callback" /\ eop.for = p
    /\ IF node[p].inFastForward THEN UNCHANGED <<node, cnt>> ELSE enterFastForward(p)
    /\ eop' = [eop EXCEPT !.step = "tick", !.for = Nobody]
    /\ ffth' = [ffth EXCEPT ![p] = "blocked"]
    /\ UNCHANGED <<toggled, ffLock, evMap>>

\* Wrong: a process in fast-forward is left alone.
ControlTimeoutSimulating(p) ==
    /\ HasThreads(p) /\ term /\ ffth[p] = "blocked" /\ p \notin toggled /\ ~node[p].inFastForward
    /\ SimEnd(p)
    /\ ffth' = [ffth EXCEPT ![p] = "off"]
    /\ UNCHANGED at

\* Every five seconds the thread looks whether the simulation is over; so does
\* the watchdog of the scheduler, a thread of process 0, with schedLock.
ControlTimeout(p) ==
    /\ HasThreads(p) /\ term /\ ffth[p] = "blocked" /\ p \notin toggled
    /\ SimEnd(p)
    /\ ffth' = [ffth EXCEPT ![p] = "off"]
    /\ UNCHANGED at

WatchdogEnds == life[0] = "up" /\ term /\ eop.step = "bound" /\ SimEnd(0) /\ UNCHANGED <<at, ffth>>

-----------------------------------------------------------------------------
(* EndOfPhaseActions(), by the last thread to arrive.                      *)

EndPhase(p) ==
    /\ eop.step = "bound" /\ Thread(p, "barrier")
    /\ \A q \in ProcIdx : at[q] \notin {"joined", "sim", "woken"}
    /\ eop' = [Bound EXCEPT !.step = "start", !.by = p]
    /\ UNCHANGED <<config, node, numProcs, cnt, life, at, ffth, toggled, ffLock, evMap, numPhases,
                   terminationConditionMet, child, dumped, panicked>>

AtStep(step) == eop.step = step /\ Thread(eop.by, "barrier")

\* Not while a process is in synced fast-forward.
CheckForTermination ==
    /\ AtStep("start") /\ cnt.synced = 0
    /\ terminationConditionMet' \in IF numPhases >= MaxPhases THEN {TRUE} ELSE {term, TRUE}
    /\ eop' = [eop EXCEPT !.step = "tick"]
    /\ UNCHANGED <<config, node, numProcs, cnt, life, at, ffth, toggled, ffLock, evMap, numPhases,
                   child, dumped, panicked>>

\* EventQueue::tick(): an event whose phase has gone by is a panic.
Tick(e) ==
    /\ AtStep("tick") /\ e.phase <= numPhases
    /\ panicked' = (e.phase # numPhases)
    /\ evMap' = evMap \ {e}
    /\ eop' = [eop EXCEPT !.step = "callback", !.for = e.proc]
    /\ UNCHANGED <<config, node, numProcs, cnt, life, at, ffth, toggled, ffLock, numPhases,
                   terminationConditionMet, child, dumped>>

TickEnds ==
    /\ AtStep("tick") /\ \A e \in evMap : e.phase > numPhases
    /\ eop' = [eop EXCEPT !.step = "count"]
    /\ UNCHANGED <<config, node, numProcs, cnt, life, at, ffth, toggled, ffLock, evMap, numPhases,
                   terminationConditionMet, child, dumped, panicked>>

NextPhase ==
    /\ AtStep("count")
    /\ numPhases' = numPhases + 1
    /\ at' = [p \in ProcIdx |-> IF at[p] = "barrier" THEN "woken" ELSE at[p]]
    /\ eop' = Bound
    /\ UNCHANGED <<config, node, numProcs, cnt, life, ffth, toggled, ffLock, evMap,
                   terminationConditionMet, child, dumped, panicked>>

-----------------------------------------------------------------------------
(* The harness.                                                            *)

\* chldSigHandler(): a process marked for it is launched again.
ChildSignal(p) ==
    LET again == node[p].exited = "RESTARTME" IN
    /\ life[p] = "exited" /\ child[p] = "RUNNING"
    /\ child' = [child EXCEPT ![p] = IF again THEN "RUNNING" ELSE "DONE"]
    /\ node' = [node EXCEPT ![p].exited = IF again THEN "RUNNING" ELSE @]
    /\ Becomes(p, IF again THEN "main" ELSE "gone")
    /\ UNCHANGED <<config, numProcs, cnt, at, ffth, toggled, ffLock, eop, evMap, numPhases,
                   terminationConditionMet, dumped, panicked>>

\* The main loop's own waitpid().
LoopCatch(p) ==
    /\ config.loopCatch /\ life[p] = "exited" /\ child[p] = "RUNNING"
    /\ child' = [child EXCEPT ![p] = "DONE"]
    /\ Becomes(p, "gone")
    /\ UNCHANGED <<config, node, numProcs, cnt, at, ffth, toggled, ffLock, eop, evMap, numPhases,
                   terminationConditionMet, dumped, panicked>>

-----------------------------------------------------------------------------
PhaseEnd == CheckForTermination \/ (\E e \in evMap : Tick(e)) \/ TickEnds \/ NextPhase

Progress(p) ==
    \/ Main(p) \/ NotifyEnd(p) \/ ChildSignal(p) \/ LoopCatch(p)
    \/ SyscallExit(p) \/ LeaveFF(p) \/ Join(p) \/ Joined(p) \/ Sync(p) \/ TakeBarrier(p)

Control(p) == FFExit(p) \/ FFStart(p) \/ FFInsert(p) \/ FFEnter(p) \/ ControlTimeout(p)

Choice(p) ==
    \/ Fork(p) \/ Exec(p) \/ ProgramEnds(p) \/ SyscallEnter(p)
    \/ RoiBegin(p) \/ RoiEnd(p) \/ Toggle(p)

ProcessesNext ==
    /\ ~panicked
    /\ \/ Drain \/ WatchdogEnds \/ PhaseEnd
       \/ \E p \in ProcIdx : Progress(p) \/ Control(p) \/ Choice(p) \/ EndPhase(p)

ProcessesSpec == ProcessesInit /\ [][ProcessesNext]_processVars

\* Threads, processes and the harness go on; system calls return.  Nothing
\* says that a program ends, forks, uses a hook or is toggled.
ProcessesFairness ==
    /\ WF_processVars(~panicked /\ Drain) /\ WF_processVars(~panicked /\ PhaseEnd)
    /\ \A p \in ProcIdx : /\ WF_processVars(~panicked /\ Progress(p))
                          /\ WF_processVars(~panicked /\ Control(p))

FairProcesses == ProcessesSpec /\ ProcessesFairness

-----------------------------------------------------------------------------
(* Properties.                                                             *)

Started == {p \in ProcIdx : node[p].started}

SyncedExact == cnt.synced = IF Synced THEN cnt.ff ELSE 0
TreeGrows == ~Synced /\ Synced' /\ cnt.ff > 0

\* The counters are what zsim.h says of them, whatever order processes start,
\* fork, enter and leave fast-forward, are restarted and end in: processes that
\* have started and not exited, a restart included; those of them in fast-forward;
\* those in synced fast-forward, until a fork makes the only process the first of
\* several while it is in fast-forward.  From then on getSyncedFastForward()
\* (process_tree.h:113) answers otherwise than when the process entered, and
\* globalSyncedFFProcs is wrong and may wrap.
CountersAgree ==
    /\ [](/\ cnt.active = Cardinality({p \in Started : node[p].exited # "EXITED"})
         /\ cnt.ff = Cardinality({p \in Started : node[p].inFastForward}))
    /\ [][SyncedExact => SyncedExact' \/ TreeGrows]_processVars

\* No phase ends after the one that met the termination condition (the assert
\* of CheckForTermination), although processes leave at different times; and
\* no process simulates, or waits to be restarted, when process 0 dumps the
\* final statistics: a late one panics.
NothingAfterTheEnd ==
    /\ eop.step = "start" => ~term
    /\ dumped /\ ~panicked => \A p \in ProcIdx : life[p] \in {"none", "main", "exited", "gone"}
                                                 /\ node[p].exited # "RESTARTME"

\* Once the condition is met, every process ends, wherever its threads are, the
\* statistics are written and the harness has seen all its children go, unless a
\* process panicked: one that starts when no other is active (process_tree.cpp), or
\* an event whose phase has gone by (event_queue.h:97).  Nor is it so when two
\* processes are toggled at once, when the harness's loop gets to a dead child that
\* should be restarted first, or when process 0 is restarted: TwoToggles,
\* RestartInLoop and RestartOfZero of MCProcesses, which no run includes.
SimulationEnds ==
    term ~> (panicked \/ (dumped /\ \A p \in ProcIdx : child[p] # "RUNNING"))
=============================================================================
