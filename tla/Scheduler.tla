----------------------------- MODULE Scheduler -----------------------------
(***************************************************************************)
(* The scheduler of zsim (scheduler.h, scheduler.cpp): it maps simulated   *)
(* threads (gids) to contexts (cids, the simulated cores), composed with   *)
(* the phase barrier, which it reaches through PhaseBarrier, and with the  *)
(* watchdog.  Every handler runs with schedLock held and the lock is free  *)
(* only once the barrier has settled, so one handler, or one of its locked *)
(* sections when it drops the lock in between, is one action.              *)
(*                                                                         *)
(* sch holds the fields of Scheduler and of its ThreadInfos, at[g] is where*)
(* host thread g stands, wd where the watchdog stands.                     *)
(***************************************************************************)
EXTENDS Integers, FiniteSets, SequencesExt

CONSTANTS Gids,          \* threads, of any process
          NumCores,      \* numCores
          Width,         \* parallelThreads, the width of the barrier
          SchedQuantum,  \* schedQuantum, in phases
          Mask,          \* Mask[g]: the contexts g may use
          Pid,           \* Pid[g]: the process of g
          Pcs,           \* the syscall instructions of the program
          MaxSleep,      \* bound: longest sleep, in phases (0: no sleeps)
          StallBatch,    \* the watchdog's "lower bound on queue size" (8)
          None,          \* nullptr
          Features       \* which of "stall", "finish", "signal", "kill" can happen

Cids == 0 .. NumCores - 1

ASSUME SchedulerAssumption ==
    /\ NumCores \in Nat \ {0} /\ Width \in Nat \ {0} /\ SchedQuantum \in Nat \ {0}
    /\ MaxSleep \in Nat /\ StallBatch \in Nat
    /\ Mask \in [Gids -> (SUBSET Cids) \ {{}}]
    /\ None \notin Gids \cup Cids \cup Pcs
    /\ Features \subseteq {"stall", "finish", "signal", "kill"}

VARIABLES sch, bar, at, wd
schedVars == <<sch, bar, at, wd>>

Barrier == INSTANCE PhaseBarrier WITH Participants <- Cids, status <- bar

\* The watchdog: what it is doing, for which thread, and the pid and pc of the
\* fake leave it started from.
Idle == [pc |-> "idle", th |-> None, pid |-> None, at |-> None]

SchedInit ==
    /\ sch = [state     |-> [g \in Gids |-> "none"],    \* not in gidMap
              cid       |-> [g \in Gids |-> 0],
              handoff   |-> [g \in Gids |-> None],
              futexWord |-> [g \in Gids |-> 0],
              marked    |-> [g \in Gids |-> FALSE],
              sleep     |-> [g \in Gids |-> 0],         \* wakeupPhase - curPhase
              fakePc    |-> [g \in Gids |-> None],
              curThread |-> [c \in Cids |-> None],      \* None: the context is IDLE
              freeList  |-> [i \in 1 .. NumCores |-> i - 1],
              runQueue  |-> <<>>, outQueue |-> <<>>, sleepQueue |-> <<>>,
              fakeLeaves |-> <<>>, blacklist |-> {},
              phase     |-> 0]                          \* curPhase % schedQuantum
    /\ Barrier!Init
    /\ at = [g \in Gids |-> "off"]
    /\ wd = Idle

-----------------------------------------------------------------------------
(* The scheduling policy and the state changes it is made of.              *)

\* The first element of q that is in S, and the queue of those that are.
FirstIn(q, S) == LET At == {i \in DOMAIN q : q[i] \in S}
                 IN IF At = {} THEN None ELSE q[Min(At)]

Only(q, S) ==
    LET Keep == {i \in DOMAIN q : q[i] \in S}
        Rank(i) == Cardinality({j \in Keep : j <= i})
    IN [k \in 1 .. Cardinality(Keep) |-> q[CHOOSE i \in Keep : Rank(i) = k]]

Without(q, x) == Only(q, ToSet(q) \ {x})

\* schedThread: a context for g.  The last one used, else the first free one,
\* else that of the first thread that is OUT; None if g has to queue up.
SchedThread(s, g) ==
    LET free == FirstIn(s.freeList, Mask[g])
        out  == FirstIn(s.outQueue, {h \in Gids : s.cid[h] \in Mask[g]})
    IN IF s.curThread[s.cid[g]] = None /\ s.cid[g] \in Mask[g] THEN s.cid[g]
       ELSE IF free # None THEN free
       ELSE IF out # None THEN s.cid[out] ELSE None

\* Mutant: the context given up is not offered to the run queue.
SchedContextNobody(s, c) == None

\* schedContext: the first queued thread that may use context c.
SchedContext(s, c) == FirstIn(s.runQueue, {g \in Gids : c \in Mask[g]})

Deschedule(s, g, to) ==
    [s EXCEPT !.state[g] = to, !.curThread[s.cid[g]] = None]

\* Mutant: the context stays in the free list.
ScheduleKeepsFree(s, g, c) ==
    [s EXCEPT !.runQueue = Without(@, g), !.outQueue = Without(@, s.curThread[c]),
              !.state[g] = "RUNNING", !.cid[g] = c, !.curThread[c] = g]

\* schedule, on a context taken from the free list, an OUT thread or a leaver.
Schedule(s, g, c) ==
    LET out == s.curThread[c]
        f   == [s EXCEPT !.freeList = Without(@, c), !.runQueue = Without(@, g)]
        t   == IF out = None THEN f
               ELSE [Deschedule(f, out, "BLOCKED") EXCEPT !.outQueue = Without(@, out)]
    IN [t EXCEPT !.state[g] = "RUNNING", !.cid[g] = c, !.curThread[c] = g]

\* wakeup: the CAS of futexWord from 1 to 0.
Wakeup(s, g) == [s EXCEPT !.futexWord[g] = 0]

Queue(s, g) == [s EXCEPT !.state[g] = "QUEUED", !.futexWord[g] = 1,
                         !.runQueue = Append(@, g)]

\* Mutant: the queue is not ordered.
InsertSleeperLast(s, g) == [s EXCEPT !.sleepQueue = Append(@, g)]

\* The ordered insert into sleepQueue, behind equal deadlines.
InsertSleeper(s, g) ==
    LET Later == {i \in DOMAIN s.sleepQueue : s.sleep[s.sleepQueue[i]] > s.sleep[g]}
    IN [s EXCEPT !.sleepQueue = IF Later = {} THEN Append(@, g) ELSE InsertAt(@, Min(Later), g)]

AwakenEarly(s, g) == [s EXCEPT !.state[g] = "BLOCKED", !.sleepQueue = Without(@, g)]

FinishFakeLeave(s, g) == [s EXCEPT !.fakeLeaves = Without(@, g), !.fakePc[g] = None]

\* Scheduler::leave.  The context goes to a queued thread, which does not join
\* ("we did not leave"); otherwise the leaver keeps it as OUT, or frees it to
\* sleep, and the barrier is left.
LeaveHandsOver(s, g) ==
    LET c == s.cid[g]
        to == IF s.marked[g] THEN "SLEEPING" ELSE "BLOCKED"
        q == [Deschedule(s, g, to) EXCEPT !.marked[g] = FALSE]
        in == SchedContext(s, c)
    IN Wakeup(Schedule(IF s.marked[g] THEN InsertSleeper(q, g) ELSE q, in, c), in)

LeaveBarrier(s, g) ==
    IF s.marked[g]
      THEN [InsertSleeper([Deschedule(s, g, "SLEEPING") EXCEPT !.marked[g] = FALSE], g)
              EXCEPT !.freeList = Append(@, s.cid[g])]
      ELSE [s EXCEPT !.state[g] = "OUT", !.outQueue = Append(@, g)]

\* Mutant: the barrier is left although a queued thread takes the context over.
LeaveAlways(s, g) ==
    /\ sch' = IF SchedContext(s, s.cid[g]) # None THEN LeaveHandsOver(s, g) ELSE LeaveBarrier(s, g)
    /\ bar' = [bar EXCEPT ![s.cid[g]] = "out"]

Leave(s, g) ==
    IF SchedContext(s, s.cid[g]) # None
      THEN sch' = LeaveHandsOver(s, g) /\ UNCHANGED bar
      ELSE sch' = LeaveBarrier(s, g) /\ bar' = [bar EXCEPT ![s.cid[g]] = "out"]

BarJoin(c) == bar' = [bar EXCEPT ![c] = "waiting"]

LeaveAsserts(g) == sch.curThread[sch.cid[g]] = g /\ sch.state[g] = "RUNNING"

-----------------------------------------------------------------------------
(* The barrier works on while the lock is held; the lock is free after.    *)

Settled == /\ ~\E c \in Cids : bar[c] = "waiting"
                 /\ Cardinality(Barrier!In("running")) < Width
           /\ Barrier!In("waiting") \cup Barrier!In("running") # {} \/ Barrier!In("done") = {}

Goto(g, p) == at' = [at EXCEPT ![g] = p]

BarrierWake == /\ \E c \in Cids : Barrier!Wake(c)
               /\ UNCHANGED <<sch, at, wd>>

\* Mutant: the quantum ends and nobody is switched.
TicksNobody(s) == {[g \in ToSet(s.runQueue) |-> None]}

\* schedTick gives each queued thread, in order, any context it may use that no
\* thread before it got; the thread running there will hand the context over.
Ticks(s) ==
    {f \in [ToSet(s.runQueue) -> Cids \cup {None}] :
       \A i, j \in 1 .. Len(s.runQueue) :
         LET g == s.runQueue[i] IN
         /\ f[g] # None => f[g] \in Mask[g] /\ (i # j => f[g] # f[s.runQueue[j]])
         /\ f[g] = None => \A c \in Mask[g] : \E k \in 1 .. i - 1 : f[s.runQueue[k]] = c}

Tick(s, f) ==
    [s EXCEPT !.runQueue = Only(@, {g \in DOMAIN f : f[g] = None}),
              !.handoff = [g \in Gids |->
                 IF \E h \in DOMAIN f : f[h] # None /\ s.curThread[f[h]] = g
                   THEN CHOOSE h \in DOMAIN f : f[h] # None /\ s.curThread[f[h]] = g
                   ELSE @[g]]]

\* The loop condition wakeupPhase <= curPhase.
DeadlineMet(left) == left <= 0

\* Every deadline comes one phase closer, the sleepers that are due wake up.
Sleeping(s) == ToSet(s.sleepQueue)
NextPhase(s) ==
    LET left == [g \in Gids |-> IF s.marked[g] \/ g \in Sleeping(s)
                                  THEN s.sleep[g] - 1 ELSE s.sleep[g]]
        Due(g) == g \in Sleeping(s) /\ DeadlineMet(left[g])
    IN [s EXCEPT !.phase = (@ + 1) % SchedQuantum,
                 !.sleep = left,
                 !.state = [g \in Gids |-> IF Due(g) THEN "BLOCKED" ELSE @[g]],
                 !.futexWord = [g \in Gids |-> IF Due(g) THEN 0 ELSE @[g]],
                 !.sleepQueue = Only(@, {g \in Gids : ~Due(g)})]

Callback ==
    LET s == NextPhase(sch) IN
    IF s.runQueue # <<>> /\ s.phase = 0
      THEN \E f \in Ticks(s) : sch' = Tick(s, f)
      ELSE sch' = s

EndOfPhase == /\ Barrier!EndPhase
              /\ Callback
              /\ UNCHANGED <<at, wd>>

-----------------------------------------------------------------------------
(* The handlers that simulated threads call.                               *)

Start(g) == /\ Settled /\ at[g] = "off"
            /\ sch' = [sch EXCEPT !.state[g] = "STARTED"]
            /\ Goto(g, "ready")
            /\ UNCHANGED <<bar, wd>>

\* join: the end of a fake leave costs nothing; an OUT thread takes its context
\* up again; any other looks for one, and waits for one if there is none.
JoinAfterFakeLeave(g) ==
    /\ sch.fakePc[g] # None
    /\ sch' = FinishFakeLeave(sch, g)
    /\ Goto(g, "sim")
    /\ UNCHANGED bar

JoinFromOut(g) ==
    /\ sch.fakePc[g] = None /\ sch.state[g] = "OUT"
    /\ sch' = [sch EXCEPT !.state[g] = "RUNNING", !.outQueue = Without(@, g)]
    /\ BarJoin(sch.cid[g])
    /\ Goto(g, "joining")

\* The assertion of join (with the state that the lines before it turn into
\* BLOCKED).
JoinAllowed(g) == sch.state[g] \in {"STARTED", "BLOCKED", "SLEEPING"}

JoinElsewhere(g) ==
    LET s == AwakenEarly(sch, g)           \* no change unless g is SLEEPING
        c == SchedThread(s, g)
    IN /\ sch.fakePc[g] = None
       /\ JoinAllowed(g)
       /\ IF c # None
            THEN sch' = Schedule(s, g, c) /\ BarJoin(c) /\ Goto(g, "joining")
            ELSE sch' = Queue(s, g) /\ Goto(g, "queued") /\ UNCHANGED bar

Join(g) == /\ Settled /\ at[g] = "ready"
           /\ JoinAfterFakeLeave(g) \/ JoinFromOut(g) \/ JoinElsewhere(g)
           /\ UNCHANGED wd

\* Mutant: the suppressed leave is not recorded.
SyscallLeaveForgets(g, p) == /\ Settled /\ at[g] = "sim" /\ LeaveAsserts(g)
                             /\ Goto(g, "ready") /\ UNCHANGED <<sch, bar, wd>>

\* syscallLeave: a syscall not known to block only pretends to leave.
SyscallLeave(g, p) ==
    /\ Settled /\ at[g] = "sim" /\ LeaveAsserts(g)
    /\ IF <<Pid[g], p>> \in sch.blacklist
         THEN Leave(sch, g)
         ELSE /\ sch' = [sch EXCEPT !.fakePc[g] = p, !.fakeLeaves = Append(@, g)]
              /\ UNCHANGED bar
    /\ Goto(g, "ready")
    /\ UNCHANGED wd

\* nanosleep and the timeout syscalls: markForSleep, then syscallLeave.
MarkForSleep(g) ==
    /\ Settled /\ at[g] = "sim"
    /\ \E n \in 1 .. MaxSleep :
         sch' = [sch EXCEPT !.marked[g] = TRUE, !.sleep[g] = n, !.futexWord[g] = 1]
    /\ Goto(g, "marked")
    /\ UNCHANGED <<bar, wd>>

LeaveToSleep(g) ==
    /\ Settled /\ at[g] = "marked" /\ LeaveAsserts(g)
    /\ Leave(sch, g)
    /\ Goto(g, "asleep")
    /\ UNCHANGED wd

\* The sleep is over; or a signal interrupts a nanosleep, whose exit tells the
\* scheduler nothing; or the syscall returns before its timeout and does tell.
SleepOver(g) == /\ at[g] = "asleep" /\ sch.futexWord[g] = 0
                /\ Goto(g, "ready")
                /\ UNCHANGED <<sch, bar, wd>>

SleepInterrupted(g) == /\ "signal" \in Features
                       /\ at[g] = "asleep" /\ sch.state[g] = "SLEEPING"
                       /\ Goto(g, "ready")
                       /\ UNCHANGED <<sch, bar, wd>>

NotifySleepEnd(g) == /\ Settled /\ at[g] = "asleep"
                     /\ sch' = AwakenEarly(sch, g)
                     /\ Goto(g, "ready")
                     /\ UNCHANGED <<bar, wd>>

\* sync, up to the wait in the barrier.
Sync(g) == /\ Settled /\ at[g] = "sim"
           /\ ~sch.marked[g] /\ bar[sch.cid[g]] = "running"             \* asserts
           /\ bar' = [bar EXCEPT ![sch.cid[g]] = "done"]
           /\ Goto(g, "syncing")
           /\ UNCHANGED <<sch, wd>>

\* The barrier let g through.  handoffThread is read without the lock.
BarrierReturn(g) ==
    /\ at[g] \in {"joining", "syncing"} /\ bar[sch.cid[g]] = "running"
    /\ Goto(g, IF at[g] = "syncing" /\ sch.handoff[g] # None THEN "handoff" ELSE "sim")
    /\ UNCHANGED <<sch, bar, wd>>

\* The rest of sync: hand the context over, then look for another one.
Handoff(g) ==
    LET c == sch.cid[g]
        dst == sch.handoff[g]
        s == Wakeup(Schedule([Deschedule(sch, g, "QUEUED") EXCEPT !.handoff[g] = None],
                             dst, c), dst)
        d == SchedThread(s, g)
    IN /\ Settled /\ at[g] = "handoff"
       /\ IF d # None
            THEN sch' = Schedule(s, g, d) /\ BarJoin(d) /\ Goto(g, "joining")
            ELSE sch' = Queue(s, g) /\ Goto(g, "queued") /\ UNCHANGED bar
       /\ UNCHANGED wd

\* waitForContext returns; the context is in the barrier already (needsJoin is
\* false in every call of wakeup).
ContextReturn(g) == /\ at[g] = "queued" /\ sch.futexWord[g] = 0
                    /\ Goto(g, "sim")
                    /\ UNCHANGED <<sch, bar, wd>>

\* finish takes the lock up to three times: the end of a fake leave, a leave
\* for a thread that still is RUNNING, and the removal.
FinishStart(g, from) ==
    /\ Settled /\ at[g] = from
    /\ LET s == IF sch.state[g] = "SLEEPING" /\ from = "dead" THEN AwakenEarly(sch, g) ELSE sch
       IN sch' = IF s.fakePc[g] # None THEN FinishFakeLeave(s, g) ELSE s
    /\ Goto(g, IF sch.state[g] = "RUNNING" THEN "finishing" ELSE "finished")
    /\ UNCHANGED bar

FinishLeave(g) == /\ Settled /\ at[g] = "finishing" /\ LeaveAsserts(g)
                  /\ Leave(sch, g)
                  /\ Goto(g, "finished")
                  /\ UNCHANGED wd

FinishAsserts(g) == \/ sch.state[g] \in {"STARTED", "OUT", "BLOCKED"}
                    \/ sch.state[g] = "QUEUED" /\ g \in ToSet(sch.runQueue)

FinishEnd(g) ==
    LET s == IF sch.state[g] = "OUT"
               THEN [Deschedule(sch, g, "BLOCKED") EXCEPT !.outQueue = Without(@, g),
                                                          !.freeList = Append(@, sch.cid[g])]
               ELSE [sch EXCEPT !.runQueue = Without(@, g)]
    IN /\ Settled /\ at[g] = "finished" /\ FinishAsserts(g)
       /\ sch' = [s EXCEPT !.state[g] = "none", !.cid[g] = 0, !.handoff[g] = None,
                           !.futexWord[g] = 0, !.sleep[g] = 0, !.marked[g] = FALSE]
       /\ Goto(g, "off")
       /\ wd' = IF wd.pc = "cleanup" /\ wd.th = g THEN Idle ELSE wd
       /\ UNCHANGED bar

\* A thread exits, in a syscall or before its first join, or leaves the
\* simulation because its process enters fast-forward (TakeBarrier).
Finish(g) == /\ "finish" \in Features
             /\ FinishStart(g, "ready") \/ FinishStart(g, "leaving")
             /\ UNCHANGED wd

EnterFastForward(g) == /\ "finish" \in Features
                       /\ Settled /\ at[g] = "sim" /\ LeaveAsserts(g)
                       /\ Leave(sch, g)
                       /\ Goto(g, "leaving")
                       /\ UNCHANGED wd

\* A process dies; the watchdog finishes its threads later (processCleanup).
Kill(p) == /\ "kill" \in Features
           /\ \A g \in Gids : Pid[g] = p => at[g] \notin {"finishing", "finished"}
           /\ at' = [g \in Gids |-> IF Pid[g] = p /\ at[g] # "off" THEN "dead" ELSE at[g]]
           /\ at' # at
           /\ UNCHANGED <<sch, bar, wd>>

Cleanup(g) == /\ wd.pc = "idle" /\ FinishStart(g, "dead")
              /\ wd' = [Idle EXCEPT !.pc = "cleanup", !.th = g]

-----------------------------------------------------------------------------
(* The watchdog.                                                           *)

\* No phase has ended for long and threads sit in fake leaves: make the first
\* one leave for real.  The lock is dropped between the two halves.
StallDetected ==
    LET g == Head(sch.fakeLeaves) IN
    /\ "stall" \in Features /\ Settled /\ wd.pc = "idle" /\ sch.fakeLeaves # <<>>
    /\ sch' = [FinishFakeLeave(sch, g) EXCEPT
                 !.blacklist = IF Len(sch.fakeLeaves) = 1
                                 THEN @ \cup {<<Pid[g], sch.fakePc[g]>>} ELSE @]
    /\ wd' = [pc |-> "leave", th |-> g, pid |-> Pid[g], at |-> sch.fakePc[g]]
    /\ UNCHANGED <<bar, at>>

WatchdogAsserts == LeaveAsserts(wd.th) /\ Pid[wd.th] = wd.pid

WatchdogLeave ==
    /\ Settled /\ wd.pc = "leave" /\ WatchdogAsserts
    /\ Leave(sch, wd.th)
    /\ wd' = [wd EXCEPT !.pc = "next"]
    /\ UNCHANGED at

\* Mutant: the batch stops between the end of a fake leave and the leave.
WatchdogNextStops ==
    LET g == Head(sch.fakeLeaves) IN
    /\ Settled /\ wd.pc = "next"
    /\ sch' = IF sch.fakeLeaves # <<>> /\ Len(sch.fakeLeaves) > StallBatch /\ sch.fakePc[g] = wd.at
                THEN FinishFakeLeave(sch, g) ELSE sch
    /\ wd' = Idle
    /\ UNCHANGED <<bar, at>>

\* "also do real leave for other threads blocked at the same pc": the test
\* looks at the process of the thread that has just left, not of the next one.
WatchdogNext ==
    LET g == Head(sch.fakeLeaves) IN
    /\ Settled /\ wd.pc = "next"
    /\ IF sch.fakeLeaves # <<>> /\ Len(sch.fakeLeaves) > StallBatch /\ sch.fakePc[g] = wd.at
         THEN /\ sch' = FinishFakeLeave(sch, g)
              /\ wd' = [wd EXCEPT !.pc = "leave", !.th = g]
         ELSE wd' = Idle /\ UNCHANGED sch
    /\ UNCHANGED <<bar, at>>

\* Mutant: time is only driven forward when no thread holds a context.
NoneScheduled == \A c \in Cids : sch.curThread[c] = None

\* scheduledThreads == outQueue.size()
AllScheduledAreOut == Cardinality({c \in Cids : sch.curThread[c] # None}) = Len(sch.outQueue)

\* Everybody scheduled is OUT and somebody sleeps: drive time forward.
DriveTime ==
    /\ Settled /\ wd.pc = "idle" /\ sch.sleepQueue # <<>>
    /\ AllScheduledAreOut
    /\ Callback
    /\ UNCHANGED <<bar, at, wd>>

-----------------------------------------------------------------------------
BarrierStep == BarrierWake \/ EndOfPhase

Watchdog == StallDetected \/ WatchdogLeave \/ WatchdogNext \/ DriveTime

Resume(g) == BarrierReturn(g) \/ ContextReturn(g) \/ SleepOver(g)

SchedNext ==
    \/ BarrierStep \/ Watchdog
    \/ \E g \in Gids : \/ Start(g) \/ Join(g) \/ Sync(g) \/ Handoff(g)
                       \/ \E p \in Pcs : SyscallLeave(g, p)
                       \/ MarkForSleep(g) \/ LeaveToSleep(g)
                       \/ SleepInterrupted(g) \/ NotifySleepEnd(g)
                       \/ Resume(g)
                       \/ EnterFastForward(g) \/ Finish(g) \/ FinishLeave(g) \/ FinishEnd(g) \/ Cleanup(g)
    \/ \E g \in Gids : Kill(Pid[g])

SchedSpec == SchedInit /\ [][SchedNext]_schedVars

\* The lock holder, woken threads and the watchdog run on; a thread that keeps
\* running reaches the end of the phase.  Nothing says that a syscall returns.
SchedFairness ==
    /\ WF_schedVars(BarrierStep) /\ WF_schedVars(Watchdog)
    /\ \A g \in Gids : /\ WF_schedVars(Resume(g)) /\ WF_schedVars(LeaveToSleep(g))
                       /\ SF_schedVars(Handoff(g)) /\ SF_schedVars(Sync(g))

FairSchedSpec == SchedSpec /\ SchedFairness

-----------------------------------------------------------------------------
(* Properties.                                                             *)

InState(x) == {g \in Gids : sch.state[g] = x}

\* Every field keeps its type; deadlines never pass.
SchedTypeOK ==
    /\ sch.state \in [Gids -> {"none", "STARTED", "RUNNING", "OUT", "BLOCKED",
                               "SLEEPING", "QUEUED"}]
    /\ sch.cid \in [Gids -> Cids] /\ sch.curThread \in [Cids -> Gids \cup {None}]
    /\ sch.handoff \in [Gids -> Gids \cup {None}]
    /\ sch.futexWord \in [Gids -> {0, 1}] /\ sch.marked \in [Gids -> BOOLEAN]
    /\ sch.sleep \in [Gids -> 0 .. MaxSleep]
    /\ sch.fakePc \in [Gids -> Pcs \cup {None}]
    /\ bar \in [Cids -> {"out", "waiting", "running", "done"}]
    /\ at \in [Gids -> {"off", "ready", "sim", "marked", "asleep", "joining", "syncing",
                        "handoff", "queued", "leaving", "finishing", "finished", "dead"}]
    /\ wd.pc \in {"idle", "leave", "next", "cleanup"}

\* Threads and contexts agree: a context is used by exactly the RUNNING or OUT
\* thread that holds its cid, and the free list has exactly the idle contexts.
ContextsAgree ==
    /\ \A c \in Cids, g \in Gids :
         sch.curThread[c] = g <=> sch.state[g] \in {"RUNNING", "OUT"} /\ sch.cid[g] = c
    /\ ToSet(sch.freeList) = {c \in Cids : sch.curThread[c] = None}
    /\ IsInjective(sch.freeList)

\* Every thread is in the queue its state names, once, and the sleep queue is
\* ordered by deadline.  A QUEUED thread that is not in the run queue is the
\* handoffThread of exactly one thread, so that somebody will wake it.  callback
\* wakes every sleeper in the very phase it asked for (its assertion wakeupPhase
\* == curPhase), and each of wakeup's compare-and-swaps finds a 1.
QueuesAgree ==
    LET promised == {sch.handoff[g] : g \in Gids} \ {None} IN
    /\ SchedTypeOK
    /\ \A q \in {sch.runQueue, sch.outQueue, sch.sleepQueue, sch.fakeLeaves} : IsInjective(q)
    /\ ToSet(sch.outQueue) = InState("OUT")
    /\ ToSet(sch.sleepQueue) = InState("SLEEPING")
    /\ \A i, j \in 1 .. Len(sch.sleepQueue) :
         i < j => sch.sleep[sch.sleepQueue[i]] <= sch.sleep[sch.sleepQueue[j]]
    /\ ToSet(sch.fakeLeaves) = {g \in Gids : sch.fakePc[g] # None}
    /\ ToSet(sch.runQueue) \cup promised = InState("QUEUED")
    /\ ToSet(sch.runQueue) \cap promised = {}
    /\ \A g, h \in Gids : sch.handoff[g] = sch.handoff[h] /\ sch.handoff[g] # None => g = h
    /\ \A g \in InState("SLEEPING") : sch.sleep[g] > 0 /\ sch.futexWord[g] = 1
    /\ \A g \in InState("QUEUED") : at[g] = "queued" => sch.futexWord[g] = 1

\* The scheduler and the barrier agree on every context: what a handler asks of
\* the barrier is never met by one of its assertions on `state', and a thread
\* that simulates has a context to run on and is one the barrier lets run.
BarrierAgrees ==
    /\ \A c \in Cids : bar[c] = "out" <=> \/ sch.curThread[c] = None
                                          \/ sch.state[sch.curThread[c]] = "OUT"
    /\ \A g \in Gids : at[g] \in {"sim", "marked", "handoff"} /\ sch.state[g] = "RUNNING"
                         => bar[sch.cid[g]] = "running"
    /\ \A g \in Gids : at[g] \in {"sim", "syncing", "joining", "handoff", "marked"}
                         => sch.curThread[sch.cid[g]] = g /\ sch.state[g] = "RUNNING"

\* schedTick's note: "we will never match anything in the freeList" - no queued
\* thread could run on a context that is free or only held by an OUT thread,
\* so the victim of a handoff exists and will sync.
NoIdleContextForQueued ==
    \A g \in ToSet(sch.runQueue) : \A c \in Mask[g] :
        sch.curThread[c] # None /\ sch.state[sch.curThread[c]] = "RUNNING"

\* The assertions of join and finish: a thread that calls join is out in a real
\* or a fake syscall, or asleep only because a signal cut a nanosleep short, and
\* one that finishes is in a state, and in the queue, that finish knows how to
\* take it out of.  What the code misses is named: join asserts that a thread is
\* not RUNNING, and fails for one whose fake leave the watchdog has ended and
\* whose leave it has not called yet; finish asserts that a thread is not
\* SLEEPING, and fails for one whose sleep a signal has interrupted; and it fails
\* for a dead thread that is promised a context, has got one, or was marked to
\* sleep.  Nothing else makes them fail.
Cleaned(w, g) == w.pc = "cleanup" /\ w.th = g
LeftFor(w, g) == w.pc = "leave" /\ w.th = g
Rests(s, g) == \/ s.state[g] \in {"STARTED", "OUT", "BLOCKED"}
               \/ s.state[g] = "SLEEPING" /\ "signal" \in Features
SchedulerAsserts ==
    \A g \in Gids :
        /\ at[g] = "ready" =>
             \/ Rests(sch, g)
             \/ sch.state[g] = "RUNNING" /\ (sch.fakePc[g] # None \/ LeftFor(wd, g))
        /\ at[g] = "finished" =>
             \/ FinishAsserts(g)
             \/ sch.state[g] = "SLEEPING" /\ "signal" \in Features
             \/ sch.state[g] \in {"QUEUED", "RUNNING", "SLEEPING"} /\ Cleaned(wd, g)

\* Round robin: a queued thread gets a context, though more threads than
\* contexts want one and some of them block in syscalls for good.
QueuedRuns == \A g \in Gids : (sch.state[g] = "QUEUED") ~> (at[g] = "sim")

\* A sleeping thread wakes up, even when there is no thread left to run.
SleeperWakes == \A g \in Gids : (sch.state[g] = "SLEEPING") ~> (sch.state[g] # "SLEEPING")
=============================================================================
