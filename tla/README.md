# A TLA+ development for zsim

The repository is zsim, a Pin-based x86-64 multicore simulator (`src/zsim/src`),
with a course team's additions: the CARE replacement policy, and the MSHR and
PMC bookkeeping it needs. This directory holds TLA+ modules that model its
control (locks, barrier, scheduler, coherence, weave phase, replacement,
processes), TLC configurations that check them, and TLAPS proofs.

zsim simulates in *phases* of a few thousand cycles. In the **bound** phase every
simulated core runs on a host thread of its own, accesses the cache hierarchy in
parallel with the others and records timing events; a barrier ends the phase. In
the **weave** phase the recorded events are simulated, domain by domain, to add
contention. All processes share one heap and one `zinfo` structure.

## Inventory

| Component | State | Operations | Interacts with | What is hard | Correct when |
|---|---|---|---|---|---|
| Locks (`locks.h`, `mutex.h`) | one futex word | lock, timed trylock, unlock | everything | unlock is two writes and a wake; wakes can be lost | one owner; nobody sleeps for ever |
| Barrier (`barrier.h`) | run list, cursor, per-thread state and futex word, counts | join, leave, sync, end of phase | scheduler (callback, lock) | wakeups outside the lock; rejoin within a phase; in-place compaction | every thread runs once per phase; a phase ends when all have |
| Scheduler and watchdog (`scheduler.*`) | threads, contexts, free list, run/out/sleep queues, fake leaves | start, finish, join, leave, sync, syscallLeave, markForSleep, callback, processCleanup; the watchdog loop | barrier, Pin callbacks, virtualised sleeps | locks dropped half-way, handoffs, sleeping threads, killed processes | threads, contexts and queues agree; everybody runs |
| Coherence (`coherence_ctrls.*`, `cache.*`, `filter_cache.h`) | tags, MESI states, directories, filters, two locks per cache | access, evict, invalidate, replace | parents and children by nested calls | child unlocked on the way up: invalidation races | single writer, exact directory, no lost write, no deadlock |
| Prefetcher (`prefetcher.*`) | stride predictor | access | sits between a cache and its parent | fakes a child of its parent | gains no permissions |
| Event queue of a domain (`prio_queue.h`) | ring of blocks, far map | enqueue, dequeue, firstCycle | contention simulation | window, aliasing, late move of far events | events come out in order |
| Contention simulation (`contention_sim.*`) | domains, threads, limit | simulatePhase, enqueue, crossings | recorders, events | domains run concurrently without locks | no event runs early, late or twice |
| Timing events (`timing_event.*`) | event graph, state, parents | addChild, parentDone, run, done, requeue, hold | queue, slab allocator | crossing handshake between threads, events freed when done | graph drained in order |
| Recorders (`event_recorder.h`, `core_recorder.*`, `ooo_core_recorder.*`) | HALTED/RUNNING/DRAINING, gap cycles | notifyJoin, notifyLeave, recordAccess, cSimStart/End | cores, weave | clocks skewed between phases | skew never negative; halts when drained |
| Slab allocator (`slab_alloc.h`) | live counts, free list | alloc, freeElem | events | unsynchronised allocation, concurrent frees | no reuse of a live slab |
| Timing cache (`timing_cache.*`) | MSHRs, pending queue, PMC | hit, miss start/response/writeback, replacement accesses | coherence, CARE, weave | limits, priorities, events freed early | MSHR limit kept, no event forgotten |
| Replacement, arrays, partitioning (`repl_policies.h`, `rrip_repl.h`, `care_repl.h`, `cache_arrays.*`, `part_repl_policies.h`, ...) | ages, counters, tables | update, rank, replaced | cache | saturating counters, candidates | victim is the one the policy names |
| Memory controllers (`mem_ctrls.*`, `ddr_mem.*`, `detailed_mem.*`, ...) | queues, banks | access, ticks | last-level cache, weave | queue limits, refresh | every request answered |
| Cores and decoder (`*_core.*`, `decoder.*`) | pipeline clocks | load, store, bbl | filter caches, recorders | – | – |
| Processes (`zsim.cpp`, `process_tree.*`, `zsim_harness.cpp`, `event_queue.h`) | fast-forward and active counters, child table, phase events | start, end, enter/exit fast-forward, restart, terminate | scheduler | signals, forks and exits racing | counters return to zero; simulation ends |
| Syscall virtualisation (`virt/*`) | saved arguments | pre/post patches | scheduler (sleeps) | interrupted calls | – |
| Statistics, configuration, heap, tracing, utilities | – | – | – | no control depends on them | – |

`PROJECT.json` lists every component with its status, and every hazard with its
line and the properties that cover it.

## Modules

| Module | Models | Run |
|---|---|---|
| `FutexLock` (`MCFutexLock`) | `futex_lock`, `futex_lock_nospin`, `futex_trylock_nospin_timeout`, `futex_unlock`; one step per atomic access or system call | `futex_lock` |
| `FutexLockProofs` | theorems about `FutexLock` | |
| `Barrier` (`MCBarrier`) | `barrier.h`, one shared write per step | `barrier` |
| `PhaseBarrier` | what the barrier promises: who may run when, and when a phase may end | a property of `barrier`; part of `Scheduler` |
| `BarrierProofs` | theorems about `Barrier`, among them that it implements `PhaseBarrier` | |
| `Scheduler` (`MCScheduler`) | `scheduler.h`, `scheduler.cpp` and their callers, on top of `PhaseBarrier` | the `sched_*` runs |
| `SchedulerProofs` | the inductive invariant of `Scheduler`, what each state change does to it, and the theorems | |
| `Mesi` (`MCMesi`) | caches, coherence controllers, filters, prefetcher | `mesi`, `prefetch_permissions` |
| `MesiLocks` | which frame holds which lock, and that nobody waits in a circle: theorems about `Mesi` | |
| `MesiProofs` | the coherence invariant and what follows from it: theorems about `Mesi` | |
| `PrioQueue` (`MCPrioQueue`) | `prio_queue.h` | `prio_queue` |
| `OrderedQueue` | what a domain needs of its event queue | a property of `prio_queue` |
| `PrioQueueProofs` | theorems about `PrioQueue`, among them that it implements `OrderedQueue` | |
| `EventGraph` | timing events, crossings, the ways into a domain's queue | part of `Weave` |
| `TimingCache` | the timing cache, its tag port and MSHRs, the events its accesses record | part of `Weave` |
| `CoreRecorder` | the recorder of a timing core and the core's clock | part of `Weave` |
| `Weave` (`MCWeave`) | bound and weave phases: cores, recorders, simulation threads, domains | `weave`, `weave_children` |
| `Replacement` | LRU, NRU, LFU, random, SRRIP and CARE | part of `CacheArrays` |
| `CacheArrays` (`MCCacheArrays`) | set-associative, zcache and ideal LRU arrays with a policy | `arrays` |
| `CacheArraysProofs` | theorems about `CacheArrays` and the policies | |
| `Processes` (`MCProcesses`) | process tree, fast-forward, end of phase, phase events, harness, `SimEnd` | `process` |
| `ProcessesProofs` | theorems about `Processes` | |

`Weave` composes `EventGraph`, `TimingCache` and `CoreRecorder` by `EXTENDS`, and
replaces `prio_queue.h` by the ordered queue that `PrioQueue` is shown to
implement. `Scheduler` replaces `barrier.h` by `PhaseBarrier` in the same way.

The `map` of `PROJECT.json` gives the source lines of every definition.
Definitions marked *Mutant* or *Wrong* are not used by any action: each is a
plausible mistake with which a property is seen to fail.

### FutexLock
`word` is the lock word and `pc[p]` the place of thread *p* in the call. A wake
that finds no sleeper does nothing, and a wait returns at once if the word has
changed, as the kernel does. Spurious returns and timeouts are `GiveUpWait`.
`MaxCalls` bounds the calls per thread.

### Barrier
The scheduler lock serialises `join`, `leave` and `sync`, but a waiting thread
reads its own `state` and `futexWord` without it. So the lock holder proceeds
through `tryWakeNext` in small steps (`pc`), and the sleepers (`thr`) interleave
with it. `lastIdx` starts with any value of `Garbage`, because it is never
initialised. `synced` is a history variable. A shuffle is any permutation. An
`assert` or `panic` is a guard, and `AssertionsHold` says it never is what
stops a thread. `KillSpec` adds the death of a process, after which the watchdog
leaves the barrier on behalf of its threads; no run uses it, because an assertion
then fails (see the observations below).

### Scheduler
`sch` is a record with the fields of `Scheduler` and of its `ThreadInfo`s; `bar`
is the state of the barrier as `PhaseBarrier` sees it; `at[g]` is where host
thread *g* stands; `wd` is where the watchdog stands between two critical
sections. A handler is one action, or one action per critical section where it
drops the lock (the handoff of `sync`, the watchdog's `finishFakeLeave` and
`leave`, `finish`). `Features` chooses what can happen in an instance: stalls
seen by the watchdog, exits and fast-forward, interrupted sleeps, kills. A search of
an intrusive list is `FirstIn`, a removal `Without`, the removals of a whole scan
`Only`. Every mask is nonempty: a thread that may run nowhere would wait for ever.

Abstractions: the watchdog's clock and thresholds are nondeterminism; driving
time ahead does one callback per step; deadlines are kept relative to the
current phase; the futex wake/wait matching, termination (`SimEnd`), syscalls
exempted by a regular expression and back-to-back syscalls are left out;
threads are not killed in the middle of `finish`.

### Mesi
`stack[t]` is the call stack of core *t*: one frame per `access()` or
`invalidate()` in progress. A step runs from one lock operation to the next.
`bcc` and `tcc` are the states of the bottom and top controllers, `filter` the
filter array. Here assertions are not guards: a violated assertion would let the
code go on in the model, and `ControllerAsserts` says that none is. `dirty` is a
history variable, the addresses whose last store has not reached memory.
`Carried` models what the positional initialisers of `MemReq` do with the
flags: since `pmcs` and `signature` were inserted before `flags`, they drop
them. Left out: `nonInclusiveHack` (off by default), `FWD` and `PUTX_KEEPEXCL`
(never sent), latencies, profiling and timing records, the choice of the victim
(any line). Addresses are lines of processes: `procMask` and `vLineAddr` give their two
parts, a core's thread is of the process whose line it accesses (`Process`), and a core
changes process after a context switch, which clears its filters. A filter entry holds
the virtual line in the code and the whole address here; `FilterCleared` compares the
virtual part, and the process of the thread that invalidates, as the code does. A frame's `todo` is the set of children still to be told,
and `NextChild` takes them in the order of `children`, as the loop does.
`HierarchyAssumption` says of the constants what `init.cpp` checks before it builds
the caches: they form a tree, each address has one way through the banks to
memory, and no first-level cache belongs to two cores.

### PrioQueue
`B` blocks of `W` slots (1024 and 64 in the code), a set for the far map, and
the loop of `dequeue()` as `Skip` steps ended by `Take`; at every multiple of half a
ring far events move into the ring one by one (`Move`, `MoveEnds`). Callers never enqueue
before the cycle of the last event, which `ContentionSim` asserts.

### EventGraph, TimingCache, CoreRecorder, Weave
The state is a *world*: the event graph, the queues and clocks of the domains,
the recorders, the cache, the last crossings. A call of the code is an operator
from world to world, so that nested calls nest (`done()` of one event runs
`parentDone()` of its children, which may enqueue them, or run a delay event on
the spot). The actions of `Weave` are the calls of a core in the bound phase
(`Join`, `Bbl`, which may end at the barrier, `Access`, `Leave`), the two halves of
`simulatePhase()`, and the steps of a simulation thread. A step of a thread goes
from one access of another domain's state to the next: a crossing polls the
source's `curCycle` and the flag `called`, which the other thread writes without a
lock. An assertion that fails is noted in `failed` and the run goes on.

An event carries two histories: `deps`, the parents that have not finished, and
`ready`, the latest cycle one of the others asks for. `NoEarlyStart` and `NotPutOff`
compare them with when the event really runs. `port` of the cache is the history of
granted tag cycles.

Abstractions: what an access does (hit, miss, write-back, replacement lookups, the
controllers involved) is a choice from `shapes`, because the tags are the business
of `Mesi`; memory controllers are those of `weave_md1_mem.h` with fixed latencies;
events are never reused, so slabs do not exist; PMC values are left out, the list of
MSHRs is kept. The out-of-order recorder, the detailed memory models and tracing
are not part of it.

### Replacement, CacheArrays
A policy is a record with the fields of its class, and `update`, `replaced` and
`rank` are operators on it; `Rank` returns a set of outcomes, more than one only for
the random policy. LRU, LFU and CARE go through the candidates and keep the best one so
far (`Pick`); they differ in which candidate goes before which (`LRUBefore`, `LFUBefore`,
`CareBefore`). `CacheArrays` drives a policy as `Cache::access` does: `Hit` and `Put` are
lookups that find the line, with and without an update of the policy, and `Preinsert` is
one that does not; `Evict` and `Postinsert` are actions of their
own, because the cache can be unlocked in between to write the victim back, and
lines may be invalidated from above meanwhile. In the zcache the walk and the swaps
of the relocation are modelled. With CARE, a miss stays in `misses` until its cost is
reported, which happens in the weave phase, after any number of other accesses. Upgrades and
accesses to lines that are in the array but no longer valid are hits of the lookup and misses
all the same (`asks`). `DTRM` compares as the code's floats do: shares of exactly five per cent and
half a per cent move the thresholds.
`recent` is a history, the accesses that were left when an address was last used, against
which `GoodVictim` judges the victim. Scores
keep their width (`ScoreValues`), and 3-bit counters saturate. `ConfigOK` says of a
configuration what `init.cpp` and the constructors assert: whole sets, at least two
ways and as many candidates in a zcache, a hash function (a table of the instance)
per way, LRU with the ideal array, and random choice in a set-associative array only. `hashAddr()` of CARE is the address modulo the number of
entries, which is what it does to addresses below 1024 and a power of two of entries. A
round of SRRIP's ageing is not a step of its own: `Older` says what some rounds make of
the candidates, and `SRRIPRank` takes the first one after which a candidate is distant.

### Processes
`node` holds the nodes of the process tree, `cnt` the three global counters of
width `CounterBits`, `at[p]` and `ffth[p]` the program and the control thread of a
process, `eop` the end of the phase under way, `evMap` the queue of phase events,
`child` what the harness knows. Handlers that take `ffLock` or wait are split where
they do. Scheduler and barrier are reduced to what they promise. `MaxProcs` is
assumed to be less than 2^`CounterBits`, as it is with 32 bits.

Abstractions: one program thread per process; pauses, heartbeats, adaptive events and
instruction-driven fast-forward (FFI) are left out; children configured inside other
processes are left out; the harness starts when its children run; the deadlock
detector is left out. A `panic` sets `panicked`.

## Runs

| Run | Instance | Shows |
|---|---|---|
| `futex_lock` | 3 threads, 2 calls each | `MutualExclusion`, `NoSleeperForgotten`; `AllServed`: every call returns |
| `barrier` | 3 threads, width 2, cleanup every 2 phases | run list and counts (`RunListExact`), `AssertionsHold`, `NoLostWakeup`, a join ends no phase (`JoinEndsNoPhase`), no idle width (`WorkConserving`), `EventuallyRuns`, refinement of `PhaseBarrier` (`ImplementsPhaseBarrier`) |
| `sched_safety` | 3 threads on 2 contexts, one bound to the first | threads, contexts, queues and barrier agree (`ContextsAgree`, `QueuesAgree`, `BarrierAgrees`), sleepers are woken on time (part of `QueuesAgree`), no context idles while a thread that may use it is queued (`NoIdleContextForQueued`), `SchedulerAsserts` |
| `sched_watchdog` | 3 threads of one process, 2 contexts, width 1; stalls in batches, signals, kills | `ContextsAgree` with contexts reclaimed from dead threads; the assertions of `join` and `finish` fail in the windows that `SchedulerAsserts` names and in no other |
| `sched_sleep` | 2 threads, 1 context, sleeps up to 2 phases | `QueuedRuns`, `SleeperWakes` |
| `mesi` | 2 cores, caches l1a-l2a-l3 and l1b-l3 of one line, 3 addresses of 2 processes | `SingleWriter`, inclusion and `DirectoryExact`, `ControllerAsserts`, `DirtyNotLost`, `FilterHitsAreHits`, `NoCircularWait`, `ChildStable` |
| `prefetch_permissions` | the same with a prefetcher | **violation**: the prefetch flag is lost and a prefetch is given the line |
| `prio_queue` | 3 events, 4 blocks of 2 cycles, cycles up to 17 | `QueueExact` (nothing is passed over, `firstCycle()` is exact), refinement of `OrderedQueue` |
| `weave` | 2 cores, 2 domains, a timing cache, 2 controllers; three loads | `WeaveAsserts`: none of the assertions about cycles, skew, children, locks fails; `NoEarlyStart`, `NotPutOff`: an event runs no earlier than its parents allow and a crossing postpones no more than it must; `OnePortAccess`; `MSHRsAgree`: MSHRs in use, list and events agree, and no event is held while one is free; `PhaseEnds` |
| `weave_children` | one thread, a miss whose victim goes to the same foreign domain | **violation**: a child is added to the list being visited, and passed over |
| `arrays` | ten caches of 2 to 4 lines: each policy in one set, ideal LRU, LRU and SRRIP in a zcache | `LinesFound`: a line in the array is where a lookup looks, once; `GoodVictim`: the victim is one the policy's definition names; `CareCountsLines`: what CARE's table really counts, exactly in these caches |
| `process` | six simulations of up to 3 processes, 2 phases, 3-bit counters | `CountersAgree`: the global counters are what the processes' states say, but for `globalSyncedFFProcs` after a fork that makes one process in fast-forward several; `NothingAfterTheEnd`: no phase and no process outlives the final statistics; `SimulationEnds`: once the condition is met everybody goes |

The loads of `weave` (`MCWeave`): *Contended*, a thread per domain and one MSHR, both
cores miss; *Rejoining*, one thread and four phases, so that a core that left
drains, halts and comes back; *Lookups*, two MSHRs and low-priority replacement
lookups that compete with demand accesses for the tag port. In none of them does an event get a child while its
children are visited for crossings, which is what `weave_children` shows. The two violations are
also the smallest instances that show them.

Why the bounds are enough: three barrier threads with width two have one that
runs, one that waits and one that leaves and rejoins, and a cleanup period of
two makes compaction happen with threads in all states. Three threads
on two contexts need a run queue and handoffs; one thread with a smaller mask
reaches the path of `sync()` that the code calls untested. The queue size above which
the watchdog goes on leaving is 8 in the code and 0 in the runs, so that two fake leaves
make a batch. One line per cache makes
every access to the other address an eviction, so that evictions race
with invalidations at every level; the private second level gives a cache that is
parent and child. Two of the three addresses are one process's, the third has the virtual
line of one of them in another process, so that entries of filters survive foreign evictions. The ring of the queue is gone round twice and the map
receives and releases events on both sides of a move. A weave phase of four cycles is
shorter than a miss, so that events and MSHRs stay live over phase ends and cores
are moved by skews. One MSHR for two missing cores makes the list of held events
nonempty. Caches of two to four lines with one or two addresses more than fit replace a
line at almost every access, and a zcache of two sets is small enough for walks to
meet the same line twice. Three-bit counters make a counter that falls below zero
wrap to a value no number of processes reaches; three processes are one launched by
the harness, one forked and one that tells both apart.

`CHECK_DEADLOCK FALSE` is used where the system really may stop: `sched_watchdog` (all
threads may be dead), `weave` and `arrays` (phases and accesses are bounded), `process`
(the simulation is over).

### Fairness
`FutexLock`: weak fairness of every step of a thread in the lock functions; the
kernel and the host scheduler run threads that can run. A thread that competes
with others may overtake, so `AllServed` relies on the bounded number of calls.
`Barrier`: weak fairness of the lock holder and of the return from the futex
wait, strong fairness of `sync`: a simulated thread that runs reaches the end of
its phase, and gets a lock that others release again and again. `Scheduler`: weak
fairness of the barrier, the watchdog and of resumed threads, strong fairness of
handoff and sync for the same reason. `Weave`: weak fairness of every simulation
thread and of the caller of `simulatePhase()`, which are host threads that the
operating system runs; a thread that polls goes on polling, so that `PhaseEnds` is not
true by the shape of a step. Nothing is assumed of the cores. `Processes`: weak
fairness of the end of a phase, of program and control threads between the points
where they wait, and of the draining of a process. System calls return and the harness
goes on; nothing forces a program to end, to fork or to be toggled, and
`SimulationEnds` says what follows once the termination condition is met. The fairness
of `Weave` is weak fairness with the enabling conditions written out, so that TLC
need not simulate every event twice.

## Proofs

TLAPS checks the following for every value of the constants that the assumptions of
the modules allow (`BarrierAssumption`, `MaxCallsAssumption`, `MesiAssumption`,
`HierarchyAssumption`, `PrioQueueAssumption`, `ProcessesAssumption`,
`SchedulerAssumption`, `CacheArraysAssumption`: positive numbers, an even number of blocks, nonempty masks,
a tree of caches, counters wide enough for the processes).

**`BarrierProofs`.** The inductive invariant `IndInv` is the conjunction of
`BarrierTypeOK`, `ListInv` (the run list holds exactly the threads that are not
offline, once each; during compaction, the entries before `newSize`),
`CursorInv` (where a thread's `lastIdx` lies with respect to the cursor, by
state), `WakeInv` (states and futex words of woken and sleeping threads at
each `pc`), `CountInv` (the counts equal cardinalities, up to what the lock
holder is about to do) and `JoinInv` (a join cannot meet the conditions of a
phase end). The properties checked by the run are not inductive: a swap is
right only because of `CursorInv`, and that needs the list to be
duplicate-free, which needs the cleanup's loop invariant. `SyncInv` adds the
history of the phase. From these follow `BarrierTypeCorrect`,
`BarrierAssertions`, `BarrierCounts`, `BarrierRunList`, `BarrierWakeups`,
`BarrierJoins`, `BarrierPhases`, `BarrierOneRun`, `BarrierWorkConserving` and
`BarrierRefinement` (the barrier implements the safety part of `PhaseBarrier`).
The scheduler is modelled on `PhaseBarrier`, so the refinement is
what justifies one atomic barrier step there.

**`FutexLockProofs`.** `IndInv` relates the word to the places of all threads:
exactly one owner unless the word is 0, and a sleeper implies that the word is
2, or that an unlocker, a woken thread or a thread about to swap will make it
so. `FutexMutualExclusion` and `FutexNoSleeperForgotten` follow.

**`PrioQueueProofs`.** The ring is read as a window of `B` blocks from `curBlock` on:
each slot then stands for exactly one cycle, and the first lemmas are the arithmetic
that says so. `IndInv` adds to the types that no event is listed twice (`UniqueInv`),
that `elems` is the cardinality of window and map (`CountInv`), where `now` lies in the
current block (`NowInv`), and `FarInv`: outside a move, the map has only events at
least `B` blocks after the last multiple of `B/2`, so none is ever overtaken by the
scan. `QueueExactness` and `Refinement` (of `OrderedQueue`, on which `Weave` rests)
follow. They hold for the 1024 blocks of 64 slots of the code as for four of two.

**`ProcessesProofs`.** `CountersAgree` is not inductive: a process counts itself out while
it is *ending*, so the invariant says how far each process is and what its node says
of it (`LifeAgrees`), and that a fork hands out a fresh node. `CountersSafety` is
`CountersAgree` for every simulation: `globalActiveProcs` and `globalFFProcs` are right, and
`globalSyncedFFProcs` stays right through every step but one that makes one process several while
it is in fast-forward (`TreeGrows`). The run has a simulation with such a step.
`SyncedSafety`: where there can be none (`SyncStable`: synced always or never, several
processes from the start, or no forks), it is right throughout. `EndIsFinal` is `NothingAfterTheEnd`, from who can be where while a phase ends
(`PhaseInv`) and what the dump of the statistics leaves behind (`DumpInv`).

**`SchedulerProofs`.** A handler passes through several records before
it assigns `sch`, so the lemmas are about records: for each state change (`Schedule`,
`Leave`, `Queue`, `InsertSleeper`, `AwakenEarly`, `NextPhase`, `Tick`, `FinishFakeLeave`,
the removal of `finish`) one relation says what it does as far as the invariant can see,
and the changes of a handler are composed. The inductive invariant has three layers,
each proved from the ones below it.

1. `Inv1`: contexts, free list and `OUT` queue name each other exactly; a thread in the
   run queue is `QUEUED` and every context of its mask is `RUNNING`; a promised thread is
   `QUEUED`, not in the run queue and promised once; the place of a host thread bounds its
   state (`PlaceInv`); the thread that the watchdog is about to leave for is still in its
   syscall. Neither `ContextsAgree` nor `NoIdleContextForQueued` is
   inductive without the rest: `schedule` frees nothing by mistake only if
   the stolen thread is `OUT`, and the victim of a handoff exists only because of
   the run queue clause. `ContextInvariance`, `ContextsAlwaysAgree`, `NoContextIsWasted`.
   Hypothesis `Disciplined`: the watchdog forces leaves or
   threads finish, not both. With both, a thread may finish between the watchdog's
   `finishFakeLeave()` and its `leave()`, for which the lock is taken anew. Signals and
   kills are allowed.
2. `Inv2`: a context is out of the barrier exactly when it is idle or its thread is
   `OUT`; a `RUNNING` thread that neither joins nor syncs is one the barrier lets run; one
   that joins waits or runs. `BarrierInvariance`, `BarrierAlwaysAgrees`. Hypothesis: nobody
   is killed either, because a killed thread stays in the barrier as it was.
3. `Inv3`: no queue has a thread twice, the sleep queue is sorted, and for each thread: a
   sleeper is queued with a deadline ahead and a futex word to be woken by, a `QUEUED`
   thread is in the run queue or promised a context and waits on a set futex word, a
   thread that promises its context syncs or is in the handoff. That a promise is
   never lost at the end of a phase needs the barrier (`Inv2`): everybody `RUNNING` has
   synced, so no promise is pending and each new one is made by a thread that is
   about to wait. That the watchdog may drive time needs a count: as many threads
   are scheduled as are `OUT`, so nobody is `RUNNING`, the run queue is empty and no quantum
   ends. `QueueInvariance`, `QueuesAlwaysAgree`. Hypothesis
   `Features \subseteq {"finish"}`, the features of the run `sched_safety`. A forced
   leave, a kill, and a signal in the sleep of a thread that then finishes reach an
   assertion (see the observations); signals without finishing threads are left out.

`SchedulerAssertionsHold` needs `Inv1` only, and one more clause per thread (`CallInv`),
and so has its hypothesis, `Disciplined`: stalls, signals and kills in any combination, or
exits instead of stalls. `CallInv` is about the states between two calls: a thread that
calls `join` is out, asleep after a signal, or `RUNNING` with its fake leave or while the
watchdog has it in hand; a `QUEUED` thread waits for its context or is dead, so that
nobody who hands a context over makes a thread `RUNNING` that is about to call; and a
thread marked for a sleep is on its way to it, so that no other leave puts it to sleep.

**`MesiLocks`.** `LocksInv` says what a call stack looks like (accesses climb the
hierarchy, then invalidations descend from the last one), and that a lock is held by
the thread, and in it by the frame, whose place says so: an access in its cache holds
the top lock from the start, and the bottom lock except while its parent works for it;
an invalidation and its sender keep the bottom locks. `NoDeadlock`
ranks the threads by the lock they wait for: filter locks lowest, then bottom locks, the higher
the cache in the hierarchy the higher, then top locks, the lower the cache the higher.
Whoever holds that lock waits for one of smaller rank or for none, so nobody is in a circle,
whatever the tree.

**`MesiProofs`.** Neither `SingleWriter` nor `DirectoryExact` is inductive: while an
access invalidates the sharers of a line, some of them have been told and some have not, the
directory still lists all of them, and every cache on the way may be in the middle
of another access. `CoherenceInv` therefore looks at tags, states and directory entries by
address (moving a line about in an array changes nothing) and says three things. Parent
and children agree exactly on an address for which there is no *job*, that is, no frame
that is telling the children of the parent (`EntryRel`, `UpRel`, `DownRel`). During a job, the
children left to tell are listed and the others have done what they were told (`ToldRel`);
a child that upgrades stands outside the list with a line in state S that a
race may still take from it. And each frame may rely on something (`FramesInv`): its
line still has its address, its cache has the permission it will pass on, the line of the
child it works for is in one of the states that `CheckForMESIRace` deals with. The last
is what makes the released child lock harmless. `Coherence` is proved one action at a
time: lemmas about arbitrary relations first (`BeginRel`, `GrantRel`, `EvictRel`, `InvalRel`,
`TakeRel`), then what the action does to arrays, jobs and frames. From it follow

* `WriterSafety`: two first-level caches with a line have chains of parents that
  meet (`Meet`, by the one-way-to-memory part of the assumption), and at the cache where
  they meet the directory lists both, which an exclusive entry cannot;
* `DirectorySafety`, `AssertSafety`: at a free bottom lock there is no job; and each
  assertion is an instance of what its frame may rely on;
* `FilterSafety`, with `FilterInv`: an entry of the filter array stays covered by the cache
  behind it, unless the core itself is between the start and the end of an access there.
  Invalidations clear the entry in the step that takes the line away, but for those of another
  process's threads, which `FilterHitsAreHits` names (`ForeignInvalidation`);
* `DirtySafety`, with `DirtyInv`: the state M of a modified line moves
  to the writeback flag of the invalidating frame and back into a state, level by level;
* `ChildSafety` (`ChildStable`, an action property): the thread that holds the parent's two locks
  is alone in the child's cache with its access, and an invalidation of
  the line would have to come from the parent, whose bottom lock it holds.

The theorems are about `MesiSpec`. With a prefetcher (`PrefetchSpec`) the local state
variable of a prefetch is left with a permission, as the violation run shows, and parents
list caches that have nothing: `DirectoryExact` does not hold there.

**`CacheArraysProofs`.** The module goes from data to steps.

* *Recursive functions.* Walks, choices and moves are recursive functions, and induction
  over data is needed twice: that such a function exists at all, and what it returns. Both come from
  the well-foundedness of `<` on the naturals, with a set of naturals in place of a
  predicate (`NatInduct`, `Recursion`, `Handed`): the sets that the values must lie in are given
  one for each index, as a function.
* *Policies.* `PolicyOK` is the state of each class with the ranges of its counters;
  `RankOK` says that `rank()` takes one of the candidates (for SRRIP, that the ageing ends).
* *Walks.* Every candidate is *rooted*: at a position of the new address, or at one of
  the address of the line of an earlier candidate, which is not empty. Walks may meet a line twice.
  But the parent of the first candidate with its line is itself the first with its line
  (`FirstUp`), because an expansion depends on the line alone. So the path from the first occurrence of
  the victim, which `preinsert()` takes, has distinct positions; from a later one it may not, which
  is what the mutant `SwapsFromLast` shows. Its length is bounded by the rounds of the walk, hence by
  `swapArray` (`SwapsOK`).
* *Moves.* Along a path of distinct positions the table is rotated (`Moved`), so it
  stays a permutation, and every line goes to a position of its own address.
* `ArraysInv` puts this together with the insertion under way (`PendOK`): invalidations
  between `preinsert()` and `postinsert()` leave tags alone, so the path stays valid.
  `ArraysInvariant`, `FoundSafety`.
* `CareInv`: CARE's addresses are the tags, and the used bit of every resident line is
  set, because `postinsert()` itself sets it. Therefore hits change nothing, and an entry
  gains with a line that comes and loses with one that goes. Where more than `CareMax`
  lines may share an entry, an increment is lost at saturation but a decrement is not, and
  `rc` is at most the number of lines. `CareSafety`.
* `VictimInv` ties each policy's order to what the property says of lines and uses. A use is later
  than all others (`UsesOK`); LRU's ages order the resident lines by their last uses, since `update()`
  gives the line used last the timestamp that no other has (`LRUOK`); the list of the ideal array is
  in the order of uses, with the empty lines at its end (`ListSorted`); LFU has counted an access
  exactly for the resident lines (`LFUOK`); the empty lines of an SRRIP set are equally old, older
  than the others (`RRPVOK`), which holds after an insertion only because the victim was distant
  when it was chosen and stays so until `postinsert()`; CARE has no confidence exactly in empty
  lines (`CareInv`). A scan ends in a set of candidates that go before the others if one of them is
  there (`PickBest`); SRRIP's candidates, all different, age by the same. `VictimSafety`, under
  `ScoresFit`: a score is less than the timestamp times one more than the children, so it
  fits in `ScoreValues` for that many accesses (in the code, 2^32 divided by one more than the
  children; the run has as few values as `ScoresFit` allows). Beyond, the order does break.

The other theorems rest on `ConfigOK` only: any number of lines and ways, any hash functions, and any
policy, number of accesses and miss costs.

Model-checked only: all liveness (fairness and ENABLED are beyond the prover) and the
fairness part of the refinements.
`EventGraph` and the modules above it use recursive operators for nested calls, which
the prover cannot follow, and stay with TLC. Induction over data is not available to
the prover; where an argument needs it, on the first populated slot or the first later
sleeper, it is made with the least element of a set of naturals (`NatMin`).
`PhaseComplete` and `OneRunPerPhase` of `Barrier` are proved and not listed in the run.

## Findings and observations

The two violation runs are findings of `PROJECT.json`. Others were met while
modelling; no run is kept for them, and where an instance shows one it is given.

Barrier and scheduler:

* `lastIdx` is never initialised, and `join` of a thread that was made to leave before it
  ever ran reads it and asserts that it is the thread's place (`barrier.h:132`, `137`): `KillSpec` of `Barrier` with `MaxThreads = 2`, `ParallelThreads = 1`,
  `CleanupPeriod = 2`, `Garbage = {0, 1}` violates `AssertionsHold`.
* The watchdog's `finishFakeLeave()` and `leave()` (`scheduler.cpp:158`) are two critical
  sections, between which the thread may join (`scheduler.h:313`, `813`): `SchedSpec` with
  two threads of one process, two contexts, width 2 and `Features = {"stall"}`
  violates `at[g] = "ready" /\ sch.state[g] = "RUNNING" => sch.fakePc[g] # None`, which is
  the assertion of `join`. `SchedulerAsserts` names this window (`LeftFor`) and the
  theorem `SchedulerAssertionsHold` says that there is no other.
* In the batch of leaves (`scheduler.cpp:164`) a pid is compared with the wrong one, and
  `scheduler.h:334`, the assertion that `leave()` is given the context of its thread, may
  fail: two threads of different processes, two contexts, width 2, `StallBatch = 0`,
  `Features = {"stall"}` violates `wd.pc = "leave" => WatchdogAsserts`.
* `futex_haswaiters` (`locks.h:218`) claims no false positives, but the word
  stays 2 after the last sleeper has been woken.
* After a kill, a barrier join can end a phase (`barrier.h:151` says it cannot).
* A signal that interrupts a sleep of a thread about to enter fast-forward
  (`zsim.cpp:941`) reaches an assertion of `finish()` (`scheduler.h:254`). Kills
  of threads that wait for a promised context, or have promised theirs, reach
  `scheduler.h:256`, `268` and `374`.

Coherence:

* An invalidation that another process's thread sends to make room leaves the filter entry
  of the line it takes (the FIXME of `filter_cache.h:155`), and the core goes on hitting on a
  line that its cache no longer has: `MCMesi` violates `FilterHitsAreHits` without
  `ForeignInvalidation`.
* `NOEXCL` and `IFETCH` are lost like the prefetch flag; instruction lines are
  given in state E.

Weave phase:

* Single-domain and multi-domain threads treat an event at the limit
  differently (`contention_sim.cpp:299`, `367`). This is harmless only because a core
  reaches the barrier with `curCycle` past the end of the phase.
* Miss responses and write-backs read the miss-start event after it has been freed
  (`timing_cache.cpp:347`, `355`, `359`).
* The source event embedded in a crossing is given back to the slab like an event of
  its own, so `liveElems` (`slab_alloc.h:32`) drops by two per crossing, which took one
  element; `freeSlab` may clear the slab that is being filled.
* When a core and a memory controller share a domain, a request can be taken for the
  response of an earlier one; the order of events is not affected.

Arrays and policies:

* `postinsert()` calls CARE's `update()` too, which uses up the line's `rBit`.
  A later hit therefore never changes `rc`, contrary to `care_repl.h:27` and `154`, and
  the signature table's `rc` counts the resident lines of a signature
  (`CareCountsLines`), not their reuse.
* `quantizePMC` finds the line of a finished miss by its position, which may hold
  another address by then.
* LRU compares a 64-bit score through a `uint32_t` (`repl_policies.h:125`): the
  order breaks once timestamps pass 2^32 (8 `ScoreValues` show it).
* SRRIP, NRU and CARE do not look at validity; in a zcache SRRIP and NRU can
  evict an occupied line while a candidate is empty.
* The random policy asserts that all candidates were offered, which a zcache with
  empty lines does not do. Tree LRU's `getBestCandidate` has no caller.

Processes (the named sets are in `MCProcesses`, to be used as `Configs`; `TwoToggles`, `RestartInLoop`
and `RestartOfZero` violate `SimulationEnds`):

* Whether a process is in *synced* fast-forward is evaluated again on
  exit (`process_tree.h:113`), and depends on the number of processes. A fork in between
  makes `globalSyncedFFProcs` wrap. `CountersAgree` names the step after which it may
  (`TreeGrows`); the last simulation of `MCConfigs` takes it.
* `TwoToggles`: the control thread of one process inserts its phase event with `ffLock`
  held and waits for the queue's lock. `tick()` holds that lock while the event of
  another process waits for a control thread that needs `ffLock` (`zsim.cpp:1351`).
* `ToggledExits`: a process that ends with its event in the queue leaves a callback that
  nobody answers, and the phase never ends (`SimulationEnds` does not show this, as the
  termination condition is never met; `eop` does not return to its bound step). The same happens to a toggle of process 0
  that is pending at termination (`zsim.cpp:1354`).
* An event inserted between `tick()` and the increment of `numPhases` is in the past of
  the next tick, which panics (`event_queue.h:97`). The model keeps this as `panicked`.
* `RestartInLoop`: a child that the loop of the harness sees dead first is not restarted
  (`zsim_harness.cpp:460`). `RestartOfZero`: process 0 waits for itself. A forked child
  inherits `restartsLeft`, but is no child of the harness.
* A child that dies before its pid is stored makes the harness panic
  (`zsim_harness.cpp:241`).
* `zsim.h:125` says that `ffLock` is held in all fast-forward operations; the exit in
  `notifyEnd` does not take it.

## Not modelled, and plan

Not modelled, because no control state depends on them or because their behaviour is
arithmetic and I/O: decoding, statistics, configuration and initialisation, the
heap, tracing, virtualisation of files, ports and CPU information, network latencies,
the cost arithmetic of PMCs, the banks and schedulers of the DDR and detailed memory
models, partitioning and its lookahead, the pipeline of the out-of-order core and its
recorder, which differs from `CoreRecorder` in how responses overlap. Left out of modelled
components: slabs (events of the model are never reused), the counters that match
woken futex waiters, pauses, heartbeats, adaptive events, FFI, the deadlock
detector, tree LRU. The components of `PROJECT.json` say for each what is missing.

About a fifth of the lines under `src/zsim/src` are translated by a definition. The
repository also vendors the Pin kit, twenty times as large, which is not zsim's and is
used here only through the callbacks it makes.

Models that could follow: the out-of-order recorder on the same `EventGraph`, slabs
with the reuse of events, and the queues of the DDR controller.
