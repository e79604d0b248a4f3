--------------------------- MODULE ProcessesProofs ---------------------------
(***************************************************************************)
(* Proofs about Processes: the global counters of the process tree are     *)
(* exact and nothing runs after the end of the simulation, for any number  *)
(* of processes and any configuration.                                     *)
(***************************************************************************)
EXTENDS Processes, FiniteSetTheorems, TLAPS

-----------------------------------------------------------------------------
(* The invariant.  That the counters are exact is not inductive: a process *)
(* counts itself out when it is "ending", so the tree must know it as      *)
(* started and not exited then, and fork must hand out fresh nodes.        *)

Actives == {p \in Started : node[p].exited # "EXITED"}
FastForwarding == {p \in Started : node[p].inFastForward}

\* Synced keeps its value for as long as the simulation runs.
SyncStable == config.mode = "Multiprocess" => config.procs > 1 \/ config.forks = {}

Procs == SUBSET ProcIdx
ConfigType == [procs : 1..MaxProcs, mode : {"Always", "Multiprocess", "Never"},
               startFF : Procs, restarts : Procs, exits : Procs, forks : Procs,
               execs : SUBSET (1 .. MaxProcs - 1), magic : Procs, toggles : Procs,
               loopCatch : BOOLEAN]
NodeType == [started : BOOLEAN, inFastForward : BOOLEAN, restartsLeft : 0..1,
             exited : {"RUNNING", "RESTARTME", "EXITED"}]
LifeStates == {"none", "main", "up", "ending", "drain", "exited", "gone"}

TreeTypes ==
    /\ config \in ConfigType /\ node \in [ProcIdx -> NodeType] /\ life \in [ProcIdx -> LifeStates]
    /\ numProcs \in 1..MaxProcs /\ cnt \in [active : Nat, ff : Nat, synced : Nat]

\* How far a process is and what its node says of it.
LifeAgrees(p) ==
    /\ p >= numProcs => life[p] = "none" /\ ~node[p].started
    /\ ~node[p].started => life[p] \in {"none", "main"} /\ node[p].exited = "RUNNING"
    /\ life[p] \in {"main", "up", "ending"} => node[p].exited = "RUNNING"
    /\ life[p] = "drain" => p = 0

TreeSize == numProcs >= config.procs /\ (config.forks = {} => numProcs = config.procs)

CountsExact == cnt.active = Cardinality(Actives) /\ cnt.ff = Cardinality(FastForwarding)
SyncedStays == SyncStable => SyncedExact

TreeInv == TreeTypes /\ (\A p \in ProcIdx : LifeAgrees(p)) /\ TreeSize /\ CountsExact /\ SyncedStays

\* Who is where while a phase ends and once the condition is met.
PhaseInv ==
    /\ at \in [ProcIdx -> {"off", "out", "ff", "join", "joined", "sim", "barrier", "woken"}]
    /\ eop.step # "bound" => \A p \in ProcIdx : at[p] \notin {"joined", "sim", "woken"}
    /\ term => \A p \in ProcIdx : at[p] # "sim"
    /\ term /\ eop.step = "bound" => \A p \in ProcIdx : at[p] # "barrier"
    /\ eop.step = "start" => ~term
    /\ eop \in [step : {"bound", "start", "tick", "callback", "count"},
                by : ProcIdx \cup {Nobody}, for : ProcIdx \cup {Nobody}]
    /\ term \in BOOLEAN /\ numPhases \in Nat /\ evMap \in SUBSET [phase : Nat, proc : ProcIdx]

\* After the dump no process is active and none can start without a panic.
DumpInv == dumped /\ ~panicked => cnt.active = 0 /\ node[0].started /\ life[0] \in {"exited", "gone"}

IndInv == TreeInv /\ PhaseInv /\ DumpInv

-----------------------------------------------------------------------------
(* Counting.                                                               *)

LEMMA Constants ==
    /\ MaxProcs \in Nat \ {0} /\ 0 \in ProcIdx
    /\ 2 ^ CounterBits \in Nat /\ MaxProcs < 2 ^ CounterBits
    /\ Configs \subseteq ConfigType
<1>1. MaxProcs \in Nat \ {0} /\ CounterBits \in Nat \ {0} /\ MaxProcs < 2 ^ CounterBits
  BY ProcessesAssumption
<1>2. Configs \subseteq ConfigType
  BY ProcessesAssumption, Zenon DEF ConfigType, Procs, ProcIdx
<1>3. IsFiniteSet(1 .. CounterBits) /\ Cardinality(1 .. CounterBits) = CounterBits
  BY <1>1, FS_Interval
<1>4. 2 ^ CounterBits = Cardinality(SUBSET (1 .. CounterBits)) /\ IsFiniteSet(SUBSET (1 .. CounterBits))
  BY <1>3, FS_SUBSET
<1>5. 2 ^ CounterBits \in Nat
  BY <1>4, FS_CardinalityType
<1> QED
  BY <1>1, <1>2, <1>5 DEF ProcIdx

LEMMA SmallMod ==
    ASSUME NEW n \in Nat, NEW m \in Nat, n < m
    PROVE  n % m = n
OBVIOUS

\* A set of processes and its counter: no counter wraps.
LEMMA Counting ==
    ASSUME NEW S \in SUBSET ProcIdx
    PROVE  /\ IsFiniteSet(S) /\ Cardinality(S) \in Nat /\ Cardinality(S) <= MaxProcs
           /\ Cardinality(S) = 0 <=> S = {}
           /\ \A p \in ProcIdx \ S : Inc(Cardinality(S)) = Cardinality(S \cup {p})
           /\ \A p \in S : Dec(Cardinality(S)) = Cardinality(S \ {p})
<1>1. IsFiniteSet(ProcIdx) /\ Cardinality(ProcIdx) = MaxProcs
  <2>1. PICK m \in Int : m = MaxProcs - 1
    BY Constants
  <2>2. IsFiniteSet(0 .. m) /\ Cardinality(0 .. m) = IF 0 > m THEN 0 ELSE m - 0 + 1
    <3>1. 0 \in Int
      OBVIOUS
    <3> QED
      BY <3>1, FS_Interval, Zenon
  <2> QED
    BY <2>1, <2>2, Constants DEF ProcIdx
<1>2. \A T \in SUBSET ProcIdx : IsFiniteSet(T) /\ Cardinality(T) \in Nat /\ Cardinality(T) <= MaxProcs
  BY <1>1, FS_Subset, FS_CardinalityType
<1>3. Cardinality(S) = 0 <=> S = {}
  BY <1>2, FS_EmptySet
<1>4. ASSUME NEW p \in ProcIdx \ S PROVE Inc(Cardinality(S)) = Cardinality(S \cup {p})
  <2>1. Cardinality(S \cup {p}) = Cardinality(S) + 1
    BY <1>2, FS_AddElement
  <2>2. S \cup {p} \in SUBSET ProcIdx
    OBVIOUS
  <2>3. Cardinality(S) + 1 \in Nat /\ Cardinality(S) + 1 < 2 ^ CounterBits
    BY <1>2, <2>1, <2>2, Constants
  <2>4. (Cardinality(S) + 1) % (2 ^ CounterBits) = Cardinality(S) + 1
    BY <2>3, SmallMod, Constants
  <2> QED
    BY <2>1, <2>4 DEF Inc
<1>5. ASSUME NEW p \in S PROVE Dec(Cardinality(S)) = Cardinality(S \ {p})
  <2>1. Cardinality(S \ {p}) = Cardinality(S) - 1
    BY <1>2, FS_RemoveElement
  <2>2. S \ {p} \in SUBSET ProcIdx
    OBVIOUS
  <2>3. Cardinality(S) - 1 \in Nat /\ Cardinality(S) - 1 < 2 ^ CounterBits
    BY <1>2, <2>1, <2>2, Constants
  <2>4. (Cardinality(S) - 1) % (2 ^ CounterBits) = Cardinality(S) - 1
    BY <2>3, SmallMod, Constants
  <2> QED
    BY <2>1, <2>4 DEF Dec
<1> QED
  BY <1>2, <1>3, <1>4, <1>5

\* The counters after a process has entered or left fast-forward.
LEMMA Entries ==
    ASSUME NEW c \in [active : Nat, ff : Nat, synced : Nat]
    PROVE  /\ CountEntry(c) \in [active : Nat, ff : Nat, synced : Nat]
           /\ CountEntry(c).active = c.active /\ CountEntry(c).ff = Inc(c.ff)
           /\ c.synced = (IF Synced THEN c.ff ELSE 0)
                 => CountEntry(c).synced = IF Synced THEN CountEntry(c).ff ELSE 0
           /\ CountExit(c) \in [active : Nat, ff : Nat, synced : Nat]
           /\ CountExit(c).active = c.active /\ CountExit(c).ff = Dec(c.ff)
           /\ c.synced = (IF Synced THEN c.ff ELSE 0)
                 => CountExit(c).synced = IF Synced THEN CountExit(c).ff ELSE 0
<1>1. \A n \in Nat : Inc(n) \in Nat /\ Dec(n) \in Nat
  BY Constants DEF Inc, Dec
<1> HIDE DEF Inc, Dec
<1> QED
  BY <1>1 DEF CountEntry, CountExit

-----------------------------------------------------------------------------
(* The process tree.                                                       *)

LEMMA SetsOfProcs ==
    ASSUME TreeInv
    PROVE  /\ Actives \in SUBSET ProcIdx /\ FastForwarding \in SUBSET ProcIdx
           /\ cnt.active = Cardinality(Actives) /\ cnt.ff = Cardinality(FastForwarding)
BY DEF TreeInv, CountsExact, Actives, FastForwarding, Started

\* The configuration as far as the counters depend on it.
SameConfig ==
    /\ config' \in ConfigType
    /\ config'.mode = config.mode /\ config'.procs = config.procs /\ config'.forks = config.forks

LEMMA ConfigKept ==
    ASSUME TreeInv, config' = config
    PROVE  SameConfig
BY DEF TreeInv, TreeTypes, SameConfig

LEMMA SyncedKept ==
    ASSUME SameConfig, numProcs' = numProcs
    PROVE  (Synced' <=> Synced) /\ (SyncStable' <=> SyncStable) /\ (TreeSize => TreeSize')
BY DEF SameConfig, Synced, SyncStable, TreeSize

\* The tree keeps its nodes; at most the progress of one process changes.
LEMMA LifeStep ==
    ASSUME TreeInv, SameConfig, node' = node, numProcs' = numProcs, cnt' = cnt,
           NEW p \in ProcIdx, NEW l \in LifeStates, life' = [life EXCEPT ![p] = l],
           node[p].started, l \in {"main", "up", "ending"} => node[p].exited = "RUNNING",
           l = "drain" => p = 0
    PROVE  TreeInv'
<1>1. TreeTypes'
  BY DEF TreeInv, TreeTypes, SameConfig
<1>2. ASSUME NEW q \in ProcIdx PROVE LifeAgrees(q)'
  <2>1. LifeAgrees(q)
    BY DEF TreeInv
  <2>2. life'[q] = IF q = p THEN l ELSE life[q]
    BY DEF TreeInv, TreeTypes
  <2> QED
    BY <2>1, <2>2 DEF LifeAgrees
<1>3. TreeSize' /\ CountsExact' /\ SyncedStays'
  <2>1. Actives' = Actives /\ FastForwarding' = FastForwarding
    BY DEF Actives, FastForwarding, Started
  <2> QED
    BY <2>1, SyncedKept DEF TreeInv, CountsExact, SyncedStays, SyncedExact
<1> QED
  BY <1>1, <1>2, <1>3 DEF TreeInv

LEMMA TreeSame ==
    ASSUME TreeInv, SameConfig, UNCHANGED <<node, numProcs, cnt, life>>
    PROVE  TreeInv'
<1>1. TreeTypes' /\ \A q \in ProcIdx : LifeAgrees(q)'
  BY DEF TreeInv, TreeTypes, SameConfig, LifeAgrees
<1>2. TreeSize' /\ CountsExact' /\ SyncedStays'
  <2>1. Actives' = Actives /\ FastForwarding' = FastForwarding
    BY DEF Actives, FastForwarding, Started
  <2> QED
    BY <2>1, SyncedKept DEF TreeInv, CountsExact, SyncedStays, SyncedExact
<1> QED
  BY <1>1, <1>2 DEF TreeInv

\* A node changes, with what its process is counted for.
LEMMA NodeStep ==
    ASSUME TreeInv, config' = config, numProcs' = numProcs,
           NEW p \in ProcIdx, NEW n \in NodeType, NEW l \in LifeStates,
           node' = [node EXCEPT ![p] = n], life' = [life EXCEPT ![p] = l],
           cnt' \in [active : Nat, ff : Nat, synced : Nat],
           p < numProcs, n.started,
           l \in {"main", "up", "ending"} => n.exited = "RUNNING", l = "drain" => p = 0,
           cnt'.active = Cardinality(IF n.exited # "EXITED" THEN Actives \cup {p} ELSE Actives \ {p}),
           cnt'.ff = Cardinality(IF n.inFastForward THEN FastForwarding \cup {p} ELSE FastForwarding \ {p}),
           SyncStable => cnt'.synced = IF Synced THEN cnt'.ff ELSE 0
    PROVE  TreeInv'
<1>0. SameConfig
  BY ConfigKept
<1>1. TreeTypes'
  BY DEF TreeInv, TreeTypes
<1>2. \A q \in ProcIdx : /\ life'[q] = IF q = p THEN l ELSE life[q]
                         /\ node'[q] = IF q = p THEN n ELSE node[q]
  BY DEF TreeInv, TreeTypes
<1>3. ASSUME NEW q \in ProcIdx PROVE LifeAgrees(q)'
  <2>1. LifeAgrees(q) /\ numProcs \in Int /\ q \in Int
    BY Constants DEF TreeInv, TreeTypes, ProcIdx
  <2>2. CASE q = p
    BY <1>2, <2>1, <2>2 DEF LifeAgrees
  <2>3. CASE q # p
    BY <1>2, <2>1, <2>3 DEF LifeAgrees
  <2> QED
    BY <2>2, <2>3
<1>4. Actives' = IF n.exited # "EXITED" THEN Actives \cup {p} ELSE Actives \ {p}
  BY <1>2 DEF Actives, Started
<1>5. FastForwarding' = IF n.inFastForward THEN FastForwarding \cup {p} ELSE FastForwarding \ {p}
  BY <1>2 DEF FastForwarding, Started
<1>6. TreeSize' /\ CountsExact' /\ SyncedStays'
  BY <1>0, <1>4, <1>5, SyncedKept DEF TreeInv, CountsExact, SyncedStays, SyncedExact
<1> QED
  BY <1>1, <1>3, <1>6 DEF TreeInv

\* Entering and leaving fast-forward.
LEMMA EnterStep ==
    ASSUME TreeInv, config' = config, numProcs' = numProcs, life' = life, NEW p \in ProcIdx,
           enterFastForward(p), node[p].started, ~node[p].inFastForward
    PROVE  TreeInv'
<1> DEFINE n == [node[p] EXCEPT !.inFastForward = TRUE]
<1>1. /\ node \in [ProcIdx -> NodeType] /\ life \in [ProcIdx -> LifeStates] /\ LifeAgrees(p)
      /\ cnt \in [active : Nat, ff : Nat, synced : Nat] /\ numProcs \in Int /\ p \in Int
  BY Constants DEF TreeInv, TreeTypes, ProcIdx
<1>2. node' = [node EXCEPT ![p] = n] /\ life' = [life EXCEPT ![p] = life[p]] /\ cnt' = CountEntry(cnt)
  BY <1>1 DEF enterFastForward
<1>3. n \in NodeType /\ n.started /\ n.exited = node[p].exited /\ n.inFastForward
  BY <1>1 DEF NodeType
<1>4. p < numProcs
  BY <1>1 DEF LifeAgrees
<1>5. Actives \in SUBSET ProcIdx /\ FastForwarding \in SUBSET ProcIdx
  BY SetsOfProcs
<1>6. cnt'.active = Cardinality(IF n.exited # "EXITED" THEN Actives \cup {p} ELSE Actives \ {p})
  <2>1. Actives = IF n.exited # "EXITED" THEN Actives \cup {p} ELSE Actives \ {p}
    BY <1>3 DEF Actives, Started
  <2> QED
    BY <1>1, <1>2, <2>1, Entries, SetsOfProcs
<1>7. cnt'.ff = Cardinality(FastForwarding \cup {p})
  <2>1. p \in ProcIdx \ FastForwarding
    BY DEF FastForwarding
  <2>2. Inc(Cardinality(FastForwarding)) = Cardinality(FastForwarding \cup {p})
    BY <1>5, <2>1, Counting
  <2> QED
    BY <1>1, <1>2, <2>2, Entries, SetsOfProcs
<1>8. SyncStable => cnt'.synced = IF Synced THEN cnt'.ff ELSE 0
  BY <1>1, <1>2, Entries DEF TreeInv, SyncedStays, SyncedExact
<1>9. cnt' \in [active : Nat, ff : Nat, synced : Nat] /\ life[p] \in LifeStates
  BY <1>1, <1>2, Entries
<1> HIDE DEF n
<1> QED
  BY <1>1, <1>2, <1>3, <1>4, <1>6, <1>7, <1>8, <1>9, NodeStep DEF LifeAgrees

LEMMA ExitStep ==
    ASSUME TreeInv, config' = config, numProcs' = numProcs, life' = life, NEW p \in ProcIdx,
           exitFastForward(p), node[p].started, node[p].inFastForward
    PROVE  TreeInv'
<1> DEFINE n == [node[p] EXCEPT !.inFastForward = FALSE]
<1>1. /\ node \in [ProcIdx -> NodeType] /\ life \in [ProcIdx -> LifeStates] /\ LifeAgrees(p)
      /\ cnt \in [active : Nat, ff : Nat, synced : Nat] /\ numProcs \in Int /\ p \in Int
  BY Constants DEF TreeInv, TreeTypes, ProcIdx
<1>2. node' = [node EXCEPT ![p] = n] /\ life' = [life EXCEPT ![p] = life[p]] /\ cnt' = CountExit(cnt)
  BY <1>1 DEF exitFastForward
<1>3. n \in NodeType /\ n.started /\ n.exited = node[p].exited /\ ~n.inFastForward
  BY <1>1 DEF NodeType
<1>4. p < numProcs
  BY <1>1 DEF LifeAgrees
<1>5. Actives \in SUBSET ProcIdx /\ FastForwarding \in SUBSET ProcIdx
  BY SetsOfProcs
<1>6. cnt'.active = Cardinality(IF n.exited # "EXITED" THEN Actives \cup {p} ELSE Actives \ {p})
  <2>1. Actives = IF n.exited # "EXITED" THEN Actives \cup {p} ELSE Actives \ {p}
    BY <1>3 DEF Actives, Started
  <2> QED
    BY <1>1, <1>2, <2>1, Entries, SetsOfProcs
<1>7. cnt'.ff = Cardinality(FastForwarding \ {p})
  <2>1. p \in FastForwarding
    BY DEF FastForwarding, Started
  <2>2. Dec(Cardinality(FastForwarding)) = Cardinality(FastForwarding \ {p})
    BY <1>5, <2>1, Counting
  <2> QED
    BY <1>1, <1>2, <2>2, Entries, SetsOfProcs
<1>8. SyncStable => cnt'.synced = IF Synced THEN cnt'.ff ELSE 0
  BY <1>1, <1>2, Entries DEF TreeInv, SyncedStays, SyncedExact
<1>9. cnt' \in [active : Nat, ff : Nat, synced : Nat] /\ life[p] \in LifeStates
  BY <1>1, <1>2, Entries
<1> HIDE DEF n
<1> QED
  BY <1>1, <1>2, <1>3, <1>4, <1>6, <1>7, <1>8, <1>9, NodeStep DEF LifeAgrees

LEMMA MainStep ==
    ASSUME TreeInv, NEW p \in ProcIdx, Main(p)
    PROVE  TreeInv'
<1>1. /\ node \in [ProcIdx -> NodeType] /\ life \in [ProcIdx -> LifeStates] /\ LifeAgrees(p)
      /\ cnt \in [active : Nat, ff : Nat, synced : Nat] /\ numProcs \in Int /\ p \in Int
  BY Constants DEF TreeInv, TreeTypes, ProcIdx
<1>2. /\ life[p] = "main" /\ life' = [life EXCEPT ![p] = "up"] /\ notifyStart(p)
      /\ config' = config /\ numProcs' = numProcs
  BY DEF Main, Becomes
<1>3. node[p].exited = "RUNNING" /\ p < numProcs
  BY <1>1, <1>2 DEF LifeAgrees
<1>4. CASE node[p].started
  <2>1. node' = node /\ cnt' = cnt
    BY <1>2, <1>4 DEF notifyStart
  <2> QED
    BY <1>2, <1>3, <1>4, <2>1, ConfigKept, LifeStep DEF LifeStates
<1>5. CASE ~node[p].started
  <2> DEFINE n == [node[p] EXCEPT !.started = TRUE]
             more == [cnt EXCEPT !.active = Inc(@)]
  <2>1. node' = [node EXCEPT ![p] = n] /\ cnt' = IF node[p].inFastForward THEN CountEntry(more) ELSE more
    BY <1>1, <1>2, <1>5 DEF notifyStart
  <2>2. n \in NodeType /\ n.started /\ n.exited = "RUNNING" /\ n.inFastForward = node[p].inFastForward
    BY <1>1, <1>3 DEF NodeType
  <2>3. p \in ProcIdx \ Actives /\ p \in ProcIdx \ FastForwarding
    BY <1>5 DEF Actives, FastForwarding, Started
  <2>4. /\ Inc(cnt.active) = Cardinality(Actives \cup {p})
        /\ Inc(cnt.ff) = Cardinality(FastForwarding \cup {p}) /\ Inc(cnt.active) \in Nat
    <3>1. Inc(cnt.active) = Cardinality(Actives \cup {p})
      BY <2>3, SetsOfProcs, Counting
    <3>2. Inc(cnt.ff) = Cardinality(FastForwarding \cup {p})
      BY <2>3, SetsOfProcs, Counting
    <3>3. Actives \cup {p} \in SUBSET ProcIdx
      BY SetsOfProcs
    <3> QED
      BY <3>1, <3>2, <3>3, Counting
  <2>5. /\ more \in [active : Nat, ff : Nat, synced : Nat] /\ more.active = Inc(cnt.active)
        /\ more.ff = cnt.ff /\ more.synced = cnt.synced
    BY <1>1, <2>4
  <2> HIDE DEF n, more
  <2>6. cnt' \in [active : Nat, ff : Nat, synced : Nat] /\ cnt'.active = Cardinality(Actives \cup {p})
    BY <2>1, <2>4, <2>5, Entries
  <2>7. cnt'.ff = Cardinality(IF n.inFastForward THEN FastForwarding \cup {p} ELSE FastForwarding \ {p})
    <3>1. CASE node[p].inFastForward
      BY <2>1, <2>2, <2>4, <2>5, <3>1, Entries
    <3>2. CASE ~node[p].inFastForward
      <4>1. FastForwarding \ {p} = FastForwarding
        BY <2>3
      <4> QED
        BY <2>1, <2>2, <2>5, <3>2, <4>1, SetsOfProcs
    <3> QED
      BY <3>1, <3>2
  <2>8. SyncStable => cnt'.synced = IF Synced THEN cnt'.ff ELSE 0
    <3>1. SyncStable => more.synced = IF Synced THEN more.ff ELSE 0
      BY <2>5 DEF TreeInv, SyncedStays, SyncedExact
    <3>2. CASE node[p].inFastForward
      BY <2>1, <2>5, <3>1, <3>2, Entries
    <3>3. CASE ~node[p].inFastForward
      BY <2>1, <3>1, <3>3
    <3> QED
      BY <3>2, <3>3
  <2> QED
    BY <1>2, <1>3, <2>1, <2>2, <2>6, <2>7, <2>8, NodeStep DEF LifeStates
<1> QED
  BY <1>4, <1>5

LEMMA NotifyEndStep ==
    ASSUME TreeInv, NEW p \in ProcIdx, NotifyEnd(p)
    PROVE  TreeInv'
<1> DEFINE restart == node[p].restartsLeft > 0 /\ ~term
           left == IF node[p].inFastForward THEN CountExit(cnt) ELSE cnt
           n == [node[p] EXCEPT !.inFastForward = FALSE, !.restartsLeft = IF restart THEN @ - 1 ELSE @,
                                !.exited = IF restart THEN "RESTARTME" ELSE "EXITED"]
           l == IF p = 0 THEN "drain" ELSE "exited"
<1>1. /\ node \in [ProcIdx -> NodeType] /\ life \in [ProcIdx -> LifeStates] /\ LifeAgrees(p)
      /\ cnt \in [active : Nat, ff : Nat, synced : Nat] /\ numProcs \in Int /\ p \in Int
  BY Constants DEF TreeInv, TreeTypes, ProcIdx
<1>2. /\ life[p] = "ending" /\ life' = [life EXCEPT ![p] = l] /\ notifyEnd(p)
      /\ config' = config /\ numProcs' = numProcs
  BY DEF NotifyEnd, Becomes
<1>3. node[p].exited = "RUNNING" /\ p < numProcs /\ node[p].started
  BY <1>1, <1>2 DEF LifeAgrees
<1>4. node' = [node EXCEPT ![p] = n] /\ cnt' = IF restart THEN left ELSE [left EXCEPT !.active = Dec(@)]
  BY <1>1, <1>2 DEF notifyEnd
<1>5. /\ n \in NodeType /\ n.started /\ ~n.inFastForward
      /\ n.exited = IF restart THEN "RESTARTME" ELSE "EXITED"
  <2>1. node[p] \in NodeType
    BY <1>1
  <2>2. restart => node[p].restartsLeft - 1 \in 0 .. 1
    BY <2>1 DEF NodeType
  <2> HIDE DEF restart
  <2> QED
    BY <1>3, <2>1, <2>2 DEF NodeType
<1>6. p \in Actives
  BY <1>3 DEF Actives, Started
<1> HIDE DEF restart, n
<1>7. /\ left \in [active : Nat, ff : Nat, synced : Nat] /\ left.active = cnt.active
      /\ left.ff = Cardinality(FastForwarding \ {p})
      /\ SyncStable => left.synced = IF Synced THEN left.ff ELSE 0
  <2>1. CASE node[p].inFastForward
    <3>1. p \in FastForwarding
      BY <1>3, <2>1 DEF FastForwarding, Started
    <3>2. Dec(cnt.ff) = Cardinality(FastForwarding \ {p})
      BY <3>1, SetsOfProcs, Counting
    <3> QED
      BY <1>1, <2>1, <3>2, Entries DEF TreeInv, SyncedStays, SyncedExact
  <2>2. CASE ~node[p].inFastForward
    <3>1. FastForwarding \ {p} = FastForwarding
      BY <2>2 DEF FastForwarding
    <3> QED
      BY <1>1, <2>2, <3>1, SetsOfProcs DEF TreeInv, SyncedStays, SyncedExact
  <2> QED
    BY <2>1, <2>2
<1> HIDE DEF left
<1>8. /\ cnt' \in [active : Nat, ff : Nat, synced : Nat]
      /\ cnt'.active = Cardinality(IF n.exited # "EXITED" THEN Actives \cup {p} ELSE Actives \ {p})
      /\ cnt'.ff = left.ff /\ cnt'.synced = left.synced
  <2>1. CASE restart
    <3>1. Actives \cup {p} = Actives /\ n.exited = "RESTARTME"
      BY <1>5, <1>6, <2>1
    <3> QED
      BY <1>4, <1>7, <2>1, <3>1, SetsOfProcs
  <2>2. CASE ~restart
    <3>1. Dec(left.active) = Cardinality(Actives \ {p}) /\ Actives \ {p} \in SUBSET ProcIdx
      BY <1>6, <1>7, SetsOfProcs, Counting
    <3>2. Dec(left.active) \in Nat
      BY <3>1, Counting
    <3>3. n.exited = "EXITED"
      BY <1>5, <2>2
    <3> QED
      BY <1>4, <1>7, <2>2, <3>1, <3>2, <3>3
  <2> QED
    BY <2>1, <2>2
<1> QED
  BY <1>2, <1>3, <1>4, <1>5, <1>7, <1>8, NodeStep DEF LifeStates

\* The harness marks a process that it launches again as running.
LEMMA ChildSignalStep ==
    ASSUME TreeInv, NEW p \in ProcIdx, ChildSignal(p)
    PROVE  TreeInv'
<1> DEFINE again == node[p].exited = "RESTARTME"
           n == [node[p] EXCEPT !.exited = IF again THEN "RUNNING" ELSE @]
           l == IF again THEN "main" ELSE "gone"
<1>1. /\ node \in [ProcIdx -> NodeType] /\ life \in [ProcIdx -> LifeStates] /\ LifeAgrees(p)
      /\ cnt \in [active : Nat, ff : Nat, synced : Nat] /\ numProcs \in Int /\ p \in Int
  BY Constants DEF TreeInv, TreeTypes, ProcIdx
<1>2. /\ life[p] = "exited" /\ life' = [life EXCEPT ![p] = l] /\ node' = [node EXCEPT ![p] = n]
      /\ config' = config /\ numProcs' = numProcs /\ cnt' = cnt
  BY <1>1 DEF ChildSignal, Becomes
<1>3. p < numProcs /\ node[p].started
  BY <1>1, <1>2 DEF LifeAgrees
<1>4. /\ n \in NodeType /\ n.started /\ n.inFastForward = node[p].inFastForward
      /\ n.exited = IF again THEN "RUNNING" ELSE node[p].exited
  BY <1>1, <1>3 DEF NodeType
<1>5. /\ Actives = IF n.exited # "EXITED" THEN Actives \cup {p} ELSE Actives \ {p}
      /\ FastForwarding = IF n.inFastForward THEN FastForwarding \cup {p} ELSE FastForwarding \ {p}
  BY <1>3, <1>4 DEF Actives, FastForwarding, Started
<1>6. l \in LifeStates /\ l # "drain" /\ (l \in {"main", "up", "ending"} => n.exited = "RUNNING")
  BY <1>4 DEF LifeStates
<1>7. SyncStable => cnt.synced = IF Synced THEN cnt.ff ELSE 0
  BY DEF TreeInv, SyncedStays, SyncedExact
<1> HIDE DEF n, l, again
<1> QED
  BY <1>1, <1>2, <1>3, <1>4, <1>5, <1>6, <1>7, NodeStep, SetsOfProcs

\* A fork takes the next node, which nobody has used yet.
LEMMA ForkStep ==
    ASSUME TreeInv, NEW p \in ProcIdx, Fork(p)
    PROVE  TreeInv'
<1> DEFINE n == [node[p] EXCEPT !.started = FALSE, !.exited = "RUNNING"]
<1>1. /\ node \in [ProcIdx -> NodeType] /\ life \in [ProcIdx -> LifeStates]
      /\ cnt \in [active : Nat, ff : Nat, synced : Nat] /\ numProcs \in 1 .. MaxProcs
      /\ config \in ConfigType /\ config.procs \in Int
  BY Constants DEF TreeInv, TreeTypes, ConfigType
<1>2. /\ p \in config.forks /\ numProcs < MaxProcs
      /\ node' = [node EXCEPT ![numProcs] = n] /\ life' = [life EXCEPT ![numProcs] = "main"]
      /\ config' = config /\ numProcs' = numProcs + 1 /\ cnt' = cnt
  BY DEF Fork, Becomes
<1>3. numProcs \in ProcIdx /\ numProcs + 1 \in 1 .. MaxProcs
  BY <1>1, <1>2, Constants DEF ProcIdx
<1>4. n \in NodeType /\ ~n.started /\ n.exited = "RUNNING"
  BY <1>1 DEF NodeType
<1> HIDE DEF n
<1>5. TreeTypes'
  BY <1>1, <1>2, <1>3, <1>4 DEF TreeTypes, LifeStates
<1>6. \A q \in ProcIdx : /\ life'[q] = IF q = numProcs THEN "main" ELSE life[q]
                         /\ node'[q] = IF q = numProcs THEN n ELSE node[q]
  BY <1>1, <1>2
<1>7. ~node[numProcs].started
  <2>1. LifeAgrees(numProcs)
    BY <1>3 DEF TreeInv
  <2> QED
    BY <1>1, <2>1 DEF LifeAgrees
<1>8. ASSUME NEW q \in ProcIdx PROVE LifeAgrees(q)'
  <2>1. LifeAgrees(q) /\ q \in Int /\ numProcs \in Int
    BY <1>1 DEF TreeInv, ProcIdx
  <2>2. CASE q = numProcs
    BY <1>2, <1>4, <1>6, <2>1, <2>2 DEF LifeAgrees
  <2>3. CASE q # numProcs
    BY <1>2, <1>6, <2>1, <2>3 DEF LifeAgrees
  <2> QED
    BY <2>2, <2>3
<1>9. Actives' = Actives /\ FastForwarding' = FastForwarding
  BY <1>4, <1>6, <1>7 DEF Actives, FastForwarding, Started
<1>10. TreeSize'
  BY <1>1, <1>2 DEF TreeInv, TreeSize
<1>11. CountsExact'
  BY <1>2, <1>9 DEF TreeInv, CountsExact
<1>12. SyncedStays'
  <2> SUFFICES ASSUME SyncStable' PROVE cnt.synced = IF Synced' THEN cnt.ff ELSE 0
    BY <1>2 DEF SyncedStays, SyncedExact
  <2>1. SyncStable
    BY <1>2 DEF SyncStable
  <2>2. Synced' <=> Synced
    <3>1. CASE config.mode # "Multiprocess"
      BY <1>2, <3>1 DEF Synced
    <3>2. CASE config.mode = "Multiprocess"
      <4>1. config.procs > 1 /\ numProcs >= config.procs
        BY <1>2, <2>1, <3>2 DEF SyncStable, TreeInv, TreeSize
      <4>2. numProcs > 1 /\ numProcs + 1 > 1
        BY <1>1, <4>1
      <4> QED
        BY <1>2, <3>2, <4>2 DEF Synced
    <3> QED
      BY <3>1, <3>2
  <2> QED
    BY <2>1, <2>2 DEF TreeInv, SyncedStays, SyncedExact
<1> QED
  BY <1>5, <1>8, <1>10, <1>11, <1>12 DEF TreeInv

LEMMA ThreadsStarted ==
    ASSUME TreeInv, NEW p \in ProcIdx, life[p] \notin {"none", "main"}
    PROVE  node[p].started
BY DEF TreeInv, LifeAgrees

LEMMA SimEndStep ==
    ASSUME TreeInv, NEW p \in ProcIdx, HasThreads(p), SimEnd(p)
    PROVE  TreeInv'
<1> DEFINE l == IF life[p] = "up" THEN "ending" ELSE life[p]
<1>1. life' = [life EXCEPT ![p] = l] /\ config' = config /\ node' = node /\ numProcs' = numProcs /\ cnt' = cnt
  BY DEF SimEnd
<1>2. node[p].started /\ LifeAgrees(p) /\ life[p] \in {"up", "ending", "drain"}
  BY ThreadsStarted DEF HasThreads, TreeInv
<1>3. /\ l \in LifeStates /\ (l \in {"main", "up", "ending"} => node[p].exited = "RUNNING")
      /\ l = "drain" => p = 0
  BY <1>2 DEF LifeStates, LifeAgrees
<1> HIDE DEF l
<1> QED
  BY <1>1, <1>2, <1>3, ConfigKept, LifeStep

\* Steps that leave the tree alone.
LEMMA TreeUntouched ==
    ASSUME TreeInv, UNCHANGED <<config, node, numProcs, cnt, life>>
    PROVE  TreeInv'
BY ConfigKept, TreeSame

\* What a step does to globalSyncedFFProcs: entries and exits keep it exact, and
\* of the other steps only a fork changes what it should be.
LEMMA SyncedStep ==
    ASSUME TreeInv, SyncedExact, [ProcessesNext]_processVars
    PROVE  SyncedExact' \/ TreeGrows
<1>1. cnt \in [active : Nat, ff : Nat, synced : Nat] /\ numProcs \in Nat
  BY Constants DEF TreeInv, TreeTypes
<1>2. ASSUME config'.mode = config.mode, numProcs' = numProcs, NEW c \in [active : Nat, ff : Nat, synced : Nat],
             c.ff = cnt.ff, c.synced = cnt.synced, NEW d \in {c, CountEntry(c), CountExit(c)},
             cnt'.ff = d.ff, cnt'.synced = d.synced
      PROVE  SyncedExact'
  <2>1. c.synced = IF Synced THEN c.ff ELSE 0
    BY <1>2 DEF SyncedExact
  <2>2. d.synced = IF Synced THEN d.ff ELSE 0
    BY <1>2, <2>1, Entries
  <2>3. Synced' <=> Synced
    BY <1>2 DEF Synced
  <2> QED
    BY <1>2, <2>2, <2>3 DEF SyncedExact
<1>3. ASSUME config'.mode = config.mode, numProcs' = numProcs, cnt' \in {cnt, CountEntry(cnt), CountExit(cnt)}
      PROVE  SyncedExact'
  BY <1>1, <1>2, <1>3
<1>4. ASSUME NEW p \in ProcIdx, Progress(p) PROVE SyncedExact'
  <2>1. CASE Main(p)
    <3> DEFINE more == [cnt EXCEPT !.active = Inc(@)]
    <3>1. config' = config /\ numProcs' = numProcs /\ cnt' \in {cnt, more, CountEntry(more)}
      BY <2>1 DEF Main, notifyStart
    <3>2. more \in [active : Nat, ff : Nat, synced : Nat] /\ more.ff = cnt.ff /\ more.synced = cnt.synced
      BY <1>1, Constants DEF Inc
    <3> HIDE DEF more
    <3> QED
      BY <1>1, <1>2, <1>3, <3>1, <3>2
  <2>2. CASE NotifyEnd(p)
    <3>1. PICK left \in {cnt, CountExit(cnt)} : cnt' \in {left, [left EXCEPT !.active = Dec(@)]}
      BY <2>2 DEF NotifyEnd, notifyEnd
    <3>2. left \in [active : Nat, ff : Nat, synced : Nat]
      BY <1>1, Entries
    <3>3. cnt'.ff = left.ff /\ cnt'.synced = left.synced
      BY <3>1, <3>2
    <3>4. config' = config /\ numProcs' = numProcs
      BY <2>2 DEF NotifyEnd
    <3> QED
      BY <1>1, <1>2, <3>3, <3>4
  <2>3. CASE ~Main(p) /\ ~NotifyEnd(p)
    <3>1. config' = config /\ numProcs' = numProcs /\ cnt' = cnt
      BY <1>4, <2>3 DEF Progress, ChildSignal, LoopCatch, SyscallExit, LeaveFF, Join, Joined, Sync, TakeBarrier,
         ThreadEnds, ThreadMoves, SimEnd
    <3> QED
      BY <1>3, <3>1
  <2> QED
    BY <2>1, <2>2, <2>3
<1>5. ASSUME NEW p \in ProcIdx, Control(p) PROVE SyncedExact'
  <2>1. config' = config /\ numProcs' = numProcs /\ cnt' \in {cnt, CountEntry(cnt), CountExit(cnt)}
    BY <1>5 DEF Control, ControlThread, FFExit, FFStart, FFInsert, FFEnter, ControlTimeout, SimEnd,
       enterFastForward, exitFastForward
  <2> QED
    BY <1>3, <2>1
<1>6. ASSUME NEW p \in ProcIdx, Choice(p), ~Fork(p) PROVE SyncedExact'
  <2>1. numProcs' = numProcs /\ cnt' \in {cnt, CountEntry(cnt), CountExit(cnt)}
    BY <1>6 DEF Choice, Exec, ProgramEnds, SyscallEnter, FFOp, RoiBegin, RoiEnd, Toggle, ThreadEnds, ThreadMoves,
       SimEnd, enterFastForward, exitFastForward
  <2>2. config'.mode = config.mode
    BY <1>6 DEF TreeInv, TreeTypes, ConfigType, Choice, Exec, ProgramEnds, SyscallEnter, FFOp, RoiBegin, RoiEnd,
       Toggle, ThreadEnds, ThreadMoves, SimEnd
  <2> QED
    BY <1>3, <2>1, <2>2
<1>7. ASSUME NEW p \in ProcIdx, Fork(p) PROVE SyncedExact' \/ TreeGrows
  <2>1. config' = config /\ numProcs' = numProcs + 1 /\ cnt' = cnt
    BY <1>7 DEF Fork
  <2>2. Synced => Synced'
    BY <1>1, <2>1 DEF Synced
  <2> QED
    BY <1>1, <2>1, <2>2 DEF SyncedExact, TreeGrows
<1>8. ASSUME NEW p \in ProcIdx, EndPhase(p) PROVE SyncedExact'
  BY <1>3, <1>8 DEF EndPhase
<1>9. CASE Drain \/ WatchdogEnds \/ PhaseEnd \/ UNCHANGED processVars
  BY <1>3, <1>9 DEF Drain, WatchdogEnds, SimEnd, PhaseEnd, CheckForTermination, Tick, TickEnds, NextPhase, processVars
<1> QED
  BY <1>4, <1>5, <1>6, <1>7, <1>8, <1>9 DEF ProcessesNext

LEMMA TreeInit == ProcessesInit => TreeInv
<1> SUFFICES ASSUME ProcessesInit PROVE TreeInv
  OBVIOUS
<1>1. config \in ConfigType /\ config.procs \in 1 .. MaxProcs /\ numProcs = config.procs
  <2>1. config \in ConfigType
    BY Constants DEF ProcessesInit
  <2> QED
    BY <2>1 DEF ConfigType, ProcessesInit
<1>2. TreeTypes
  BY <1>1, Constants DEF TreeTypes, ProcessesInit, NodeType, LifeStates
<1>3. ASSUME NEW p \in ProcIdx PROVE LifeAgrees(p)
  BY <1>1, Constants DEF LifeAgrees, ProcessesInit, ProcIdx
<1>4. Actives = {} /\ FastForwarding = {}
  BY DEF Actives, FastForwarding, Started, ProcessesInit
<1>5. CountsExact /\ SyncedStays
  BY <1>4, FS_EmptySet DEF CountsExact, SyncedStays, SyncedExact, ProcessesInit
<1>6. TreeSize
  BY <1>1 DEF TreeSize
<1> QED
  BY <1>2, <1>3, <1>5, <1>6 DEF TreeInv

LEMMA TreeNext ==
    ASSUME TreeInv, [ProcessesNext]_processVars
    PROVE  TreeInv'
<1>1. ASSUME NEW p \in ProcIdx, Progress(p) PROVE TreeInv'
  <2>1. CASE Main(p)
    BY <2>1, MainStep
  <2>2. CASE NotifyEnd(p)
    BY <2>2, NotifyEndStep
  <2>3. CASE ChildSignal(p)
    BY <2>3, ChildSignalStep
  <2>4. CASE LoopCatch(p)
    <3>1. /\ life[p] = "exited" /\ life' = [life EXCEPT ![p] = "gone"]
          /\ config' = config /\ node' = node /\ numProcs' = numProcs /\ cnt' = cnt
      BY <2>4 DEF LoopCatch, Becomes
    <3>2. node[p].started
      BY <3>1, ThreadsStarted
    <3> QED
      BY <3>1, <3>2, ConfigKept, LifeStep DEF LifeStates
  <2>5. CASE SyscallExit(p)
    BY <2>5, SimEndStep, TreeUntouched DEF SyscallExit, ThreadEnds, ThreadMoves, Thread
  <2>6. CASE LeaveFF(p) \/ Join(p) \/ Sync(p)
    BY <2>6, TreeUntouched DEF LeaveFF, Join, Sync, ThreadMoves
  <2>7. CASE Joined(p)
    BY <2>7, SimEndStep, TreeUntouched DEF Joined, ThreadEnds, ThreadMoves, Thread
  <2>8. CASE TakeBarrier(p)
    BY <2>8, SimEndStep, TreeUntouched DEF TakeBarrier, ThreadEnds, ThreadMoves, Thread
  <2> QED
    BY <1>1, <2>1, <2>2, <2>3, <2>4, <2>5, <2>6, <2>7, <2>8 DEF Progress
<1>2. ASSUME NEW p \in ProcIdx, Control(p) PROVE TreeInv'
  <2>0. ASSUME ControlThread(p)
        PROVE  config' = config /\ numProcs' = numProcs /\ life' = life /\ node[p].started
    BY <2>0, ThreadsStarted DEF ControlThread, HasThreads
  <2>1. CASE FFExit(p)
    BY <2>0, <2>1, ExitStep DEF FFExit
  <2>2. CASE FFStart(p) \/ FFInsert(p)
    BY <2>0, <2>2, TreeUntouched DEF FFStart, FFInsert
  <2>3. CASE FFEnter(p)
    <3>1. CASE node[p].inFastForward
      BY <2>0, <2>3, <3>1, TreeUntouched DEF FFEnter
    <3>2. CASE ~node[p].inFastForward
      BY <2>0, <2>3, <3>2, EnterStep DEF FFEnter
    <3> QED
      BY <3>1, <3>2
  <2>4. CASE ControlTimeout(p)
    BY <2>4, SimEndStep DEF ControlTimeout
  <2> QED
    BY <1>2, <2>1, <2>2, <2>3, <2>4 DEF Control
<1>3. ASSUME NEW p \in ProcIdx, Choice(p) PROVE TreeInv'
  <2>1. CASE Fork(p)
    BY <2>1, ForkStep
  <2>2. CASE Exec(p)
    <3>1. /\ life[p] = "up" /\ life' = [life EXCEPT ![p] = "main"]
          /\ config' = [config EXCEPT !.execs = @ \ {p}]
          /\ node' = node /\ numProcs' = numProcs /\ cnt' = cnt
      BY <2>2 DEF Exec, Becomes
    <3>2. node[p].started /\ node[p].exited = "RUNNING"
      BY <3>1, ThreadsStarted DEF TreeInv, LifeAgrees
    <3>3. SameConfig
      BY <3>1 DEF TreeInv, TreeTypes, ConfigType, SameConfig
    <3> QED
      BY <3>1, <3>2, <3>3, LifeStep DEF LifeStates
  <2>3. CASE ProgramEnds(p)
    BY <2>3, SimEndStep DEF ProgramEnds, ThreadEnds
  <2>4. CASE SyscallEnter(p)
    BY <2>4, TreeUntouched DEF SyscallEnter, ThreadMoves
  <2>5. ASSUME FFOp(p)
        PROVE  config' = config /\ numProcs' = numProcs /\ life' = life /\ node[p].started
    BY <2>5, ThreadsStarted DEF FFOp, HasThreads
  <2>6. CASE RoiBegin(p)
    BY <2>5, <2>6, ExitStep DEF RoiBegin
  <2>7. CASE RoiEnd(p)
    BY <2>5, <2>7, EnterStep DEF RoiEnd
  <2>8. CASE Toggle(p)
    <3>1. config' = [config EXCEPT !.toggles = @ \ {p}] /\ UNCHANGED <<node, numProcs, cnt, life>>
      BY <2>8 DEF Toggle
    <3>2. SameConfig
      BY <3>1 DEF TreeInv, TreeTypes, ConfigType, SameConfig, Procs
    <3> QED
      BY <3>1, <3>2, TreeSame
  <2> QED
    BY <1>3, <2>1, <2>2, <2>3, <2>4, <2>6, <2>7, <2>8 DEF Choice
<1>4. ASSUME NEW p \in ProcIdx, EndPhase(p) PROVE TreeInv'
  BY <1>4, TreeUntouched DEF EndPhase
<1>5. CASE Drain
  <2>1. /\ life[0] = "drain" /\ life' = [life EXCEPT ![0] = "exited"]
        /\ config' = config /\ node' = node /\ numProcs' = numProcs /\ cnt' = cnt
    BY <1>5 DEF Drain, Becomes
  <2>2. 0 \in ProcIdx /\ node[0].started
    BY <2>1, Constants, ThreadsStarted
  <2> QED
    BY <2>1, <2>2, ConfigKept, LifeStep DEF LifeStates
<1>6. CASE WatchdogEnds
  BY <1>6, Constants, SimEndStep DEF WatchdogEnds, HasThreads
<1>7. CASE PhaseEnd
  BY <1>7, TreeUntouched DEF PhaseEnd, CheckForTermination, Tick, TickEnds, NextPhase
<1>8. CASE UNCHANGED processVars
  BY <1>8, TreeUntouched DEF processVars
<1> QED
  BY <1>1, <1>2, <1>3, <1>4, <1>5, <1>6, <1>7, <1>8 DEF ProcessesNext

-----------------------------------------------------------------------------
(* The end of a phase and the end of the simulation.                       *)

LEMMA PhaseInit == ProcessesInit => PhaseInv
<1> SUFFICES ASSUME ProcessesInit PROVE PhaseInv
  OBVIOUS
<1>1. /\ at = [p \in ProcIdx |-> "off"] /\ eop = Bound /\ evMap = {}
      /\ numPhases = 0 /\ terminationConditionMet = FALSE
  BY DEF ProcessesInit
<1> QED
  BY <1>1 DEF PhaseInv, Bound, term

\* A thread that moves: what it may not do while a phase ends or afterwards.
LEMMA ThreadStep ==
    ASSUME PhaseInv, NEW p \in ProcIdx,
           NEW w \in {"off", "out", "ff", "join", "joined", "sim", "barrier", "woken"},
           at' = [at EXCEPT ![p] = w], UNCHANGED <<eop, evMap, numPhases, terminationConditionMet>>,
           w \in {"joined", "sim", "woken"} => eop.step = "bound",
           w \in {"sim", "barrier"} => ~term
    PROVE  PhaseInv'
<1>1. at \in [ProcIdx -> {"off", "out", "ff", "join", "joined", "sim", "barrier", "woken"}]
  BY DEF PhaseInv
<1>2. \A q \in ProcIdx : at'[q] = IF q = p THEN w ELSE at[q]
  BY <1>1
<1>3. at' \in [ProcIdx -> {"off", "out", "ff", "join", "joined", "sim", "barrier", "woken"}]
  BY <1>1
<1> QED
  BY <1>2, <1>3 DEF PhaseInv, term

LEMMA PhaseUntouched ==
    ASSUME PhaseInv, UNCHANGED <<at, eop, evMap, numPhases, terminationConditionMet>>
    PROVE  PhaseInv'
BY DEF PhaseInv, term

LEMMA EndsStep ==
    ASSUME PhaseInv, NEW p \in ProcIdx, ThreadEnds(p)
    PROVE  PhaseInv'
BY ThreadStep DEF ThreadEnds, SimEnd, Goto

LEMMA PhaseNext ==
    ASSUME PhaseInv, [ProcessesNext]_processVars
    PROVE  PhaseInv'
<1>1. ASSUME NEW p \in ProcIdx, Progress(p) PROVE PhaseInv'
  <2>1. CASE Main(p)
    BY <2>1, ThreadStep DEF Main, Goto
  <2>2. CASE NotifyEnd(p) \/ ChildSignal(p) \/ LoopCatch(p)
    BY <2>2, PhaseUntouched DEF NotifyEnd, ChildSignal, LoopCatch
  <2>3. CASE SyscallExit(p)
    <3>1. CASE term
      BY <2>3, <3>1, EndsStep DEF SyscallExit
    <3>2. CASE ~term
      BY <2>3, <3>2, ThreadStep DEF SyscallExit, ThreadMoves, Goto
    <3> QED
      BY <3>1, <3>2
  <2>4. CASE LeaveFF(p)
    BY <2>4, ThreadStep DEF LeaveFF, ThreadMoves, Goto
  <2>5. CASE Join(p)
    BY <2>5, ThreadStep DEF Join, ThreadMoves, Goto
  <2>6. CASE Joined(p)
    <3>1. CASE term
      BY <2>6, <3>1, EndsStep DEF Joined
    <3>2. CASE ~term
      BY <2>6, <3>2, ThreadStep DEF Joined, ThreadMoves, Goto
    <3> QED
      BY <3>1, <3>2
  <2>7. CASE Sync(p)
    <3>1. at[p] = "sim"
      BY <2>7 DEF Sync, Thread
    <3>2. ~term
      BY <3>1 DEF PhaseInv
    <3> QED
      BY <2>7, <3>2, ThreadStep DEF Sync, ThreadMoves, Goto
  <2>8. CASE TakeBarrier(p)
    <3>1. CASE ~node[p].inFastForward /\ term
      BY <2>8, <3>1, EndsStep DEF TakeBarrier
    <3>2. CASE node[p].inFastForward
      BY <2>8, <3>2, ThreadStep DEF TakeBarrier, ThreadMoves, Goto
    <3>3. CASE ~node[p].inFastForward /\ ~term
      BY <2>8, <3>3, ThreadStep DEF TakeBarrier, ThreadMoves, Goto
    <3> QED
      BY <3>1, <3>2, <3>3
  <2> QED
    BY <1>1, <2>1, <2>2, <2>3, <2>4, <2>5, <2>6, <2>7, <2>8 DEF Progress
<1>2. ASSUME NEW p \in ProcIdx, Control(p) PROVE PhaseInv'
  <2>1. CASE FFExit(p) \/ FFStart(p)
    BY <2>1, PhaseUntouched DEF FFExit, FFStart, ControlThread
  <2>2. CASE FFInsert(p)
    BY <2>2 DEF FFInsert, ControlThread, PhaseInv, term
  <2>3. CASE FFEnter(p)
    <3>1. /\ eop.step = "callback" /\ eop' = [eop EXCEPT !.step = "tick", !.for = Nobody]
          /\ UNCHANGED <<at, evMap, numPhases, terminationConditionMet>>
      BY <2>3 DEF FFEnter, ControlThread
    <3> QED
      BY <3>1 DEF PhaseInv, term
  <2>4. CASE ControlTimeout(p)
    BY <2>4, PhaseUntouched DEF ControlTimeout, SimEnd
  <2> QED
    BY <1>2, <2>1, <2>2, <2>3, <2>4 DEF Control
<1>3. ASSUME NEW p \in ProcIdx, Choice(p) PROVE PhaseInv'
  <2>1. CASE Fork(p) \/ RoiBegin(p) \/ RoiEnd(p) \/ Toggle(p)
    BY <2>1, PhaseUntouched DEF Fork, RoiBegin, RoiEnd, Toggle, FFOp
  <2>2. CASE Exec(p)
    BY <2>2, ThreadStep DEF Exec, Goto
  <2>3. CASE ProgramEnds(p)
    BY <2>3, EndsStep DEF ProgramEnds
  <2>4. CASE SyscallEnter(p)
    BY <2>4, ThreadStep DEF SyscallEnter, ThreadMoves, Goto
  <2> QED
    BY <1>3, <2>1, <2>2, <2>3, <2>4 DEF Choice
<1>4. ASSUME NEW p \in ProcIdx, EndPhase(p) PROVE PhaseInv'
  <2>1. /\ eop.step = "bound" /\ at[p] = "barrier"
        /\ \A q \in ProcIdx : at[q] \notin {"joined", "sim", "woken"}
        /\ eop' = [Bound EXCEPT !.step = "start", !.by = p]
        /\ UNCHANGED <<at, evMap, numPhases, terminationConditionMet>>
    BY <1>4 DEF EndPhase, Thread
  <2>2. ~term
    BY <2>1 DEF PhaseInv
  <2> QED
    BY <2>1, <2>2 DEF PhaseInv, term, Bound
<1>5. CASE Drain \/ WatchdogEnds
  BY <1>5, PhaseUntouched DEF Drain, WatchdogEnds, SimEnd
<1>6. CASE CheckForTermination
  <2>1. /\ eop.step = "start" /\ eop' = [eop EXCEPT !.step = "tick"]
        /\ terminationConditionMet' \in BOOLEAN
        /\ UNCHANGED <<at, evMap, numPhases>>
    BY <1>6 DEF CheckForTermination, AtStep, PhaseInv
  <2> QED
    BY <2>1 DEF PhaseInv, term
<1>7. ASSUME NEW e \in evMap, Tick(e) PROVE PhaseInv'
  <2>1. /\ eop.step = "tick" /\ eop' = [eop EXCEPT !.step = "callback", !.for = e.proc]
        /\ evMap' = evMap \ {e} /\ UNCHANGED <<at, numPhases, terminationConditionMet>>
    BY <1>7 DEF Tick, AtStep
  <2>2. e.proc \in ProcIdx
    BY DEF PhaseInv
  <2> QED
    BY <2>1, <2>2 DEF PhaseInv, term
<1>8. CASE TickEnds
  <2>1. /\ eop.step = "tick" /\ eop' = [eop EXCEPT !.step = "count"]
        /\ UNCHANGED <<at, evMap, numPhases, terminationConditionMet>>
    BY <1>8 DEF TickEnds, AtStep
  <2> QED
    BY <2>1 DEF PhaseInv, term
<1>9. CASE NextPhase
  <2>1. /\ eop.step = "count" /\ eop' = Bound /\ numPhases' = numPhases + 1
        /\ at' = [p \in ProcIdx |-> IF at[p] = "barrier" THEN "woken" ELSE at[p]]
        /\ UNCHANGED <<evMap, terminationConditionMet>>
    BY <1>9 DEF NextPhase, AtStep
  <2> QED
    BY <2>1 DEF PhaseInv, term, Bound
<1>10. CASE UNCHANGED processVars
  BY <1>10, PhaseUntouched DEF processVars
<1> QED
  BY <1>1, <1>2, <1>3, <1>4, <1>5, <1>6, <1>7, <1>8, <1>9, <1>10 DEF ProcessesNext, PhaseEnd

\* What the tree says when no process is active.
LEMMA NoneActive ==
    ASSUME TreeInv, cnt.active = 0, NEW p \in ProcIdx
    PROVE  /\ node[p].exited # "RESTARTME"
           /\ node[p].started => node[p].exited = "EXITED" /\ life[p] \notin {"main", "up", "ending"}
           /\ life[p] \in {"none", "main", "drain", "exited", "gone"}
<1>1. Actives = {}
  BY SetsOfProcs, Counting
<1>2. LifeAgrees(p) /\ life[p] \in LifeStates
  BY DEF TreeInv, TreeTypes
<1>3. node[p].started => node[p].exited = "EXITED"
  BY <1>1 DEF Actives, Started
<1> QED
  BY <1>2, <1>3 DEF LifeAgrees, LifeStates

LEMMA DumpNext ==
    ASSUME TreeInv, DumpInv, [ProcessesNext]_processVars
    PROVE  DumpInv'
<1> SUFFICES ASSUME dumped', ~panicked'
             PROVE  cnt'.active = 0 /\ node'[0].started /\ life'[0] \in {"exited", "gone"}
  BY DEF DumpInv
<1>0. 0 \in ProcIdx /\ life \in [ProcIdx -> LifeStates] /\ node \in [ProcIdx -> NodeType]
  BY Constants DEF TreeInv, TreeTypes
<1>1. CASE Drain
  <2>1. life[0] = "drain" /\ cnt.active = 0 /\ life' = [life EXCEPT ![0] = "exited"] /\ UNCHANGED <<node, cnt>>
    BY <1>1 DEF Drain, Becomes
  <2> QED
    BY <1>0, <2>1, ThreadsStarted
<1>2. CASE UNCHANGED processVars
  BY <1>2 DEF processVars, DumpInv
<1>3. ASSUME ProcessesNext, ~Drain
      PROVE  dumped /\ ~panicked
  BY <1>3 DEF ProcessesNext, WatchdogEnds, PhaseEnd, CheckForTermination, Tick, TickEnds, NextPhase,
     Progress, Main, NotifyEnd, ChildSignal, LoopCatch, SyscallExit, LeaveFF, Join, Joined, Sync, TakeBarrier,
     ThreadEnds, ThreadMoves, SimEnd, Control, ControlThread, FFExit, FFStart, FFInsert, FFEnter, ControlTimeout,
     Choice, Fork, Exec, ProgramEnds, SyscallEnter, FFOp, RoiBegin, RoiEnd, Toggle, EndPhase
<1>4. ASSUME ProcessesNext, ~Drain
      PROVE  /\ cnt.active = 0 /\ node[0].started /\ life[0] \in {"exited", "gone"}
             /\ \A p \in ProcIdx : ~HasThreads(p) /\ life[p] # "ending"
  <2>1. cnt.active = 0 /\ node[0].started /\ life[0] \in {"exited", "gone"}
    BY <1>3, <1>4 DEF DumpInv
  <2>2. ASSUME NEW p \in ProcIdx PROVE ~HasThreads(p) /\ life[p] # "ending"
    <3>1. life[p] = "drain" => p = 0
      BY DEF TreeInv, LifeAgrees
    <3> QED
      BY <2>1, <3>1, NoneActive DEF HasThreads
  <2> QED
    BY <2>1, <2>2
<1>5. ASSUME NEW p \in ProcIdx, Main(p), ProcessesNext, ~Drain PROVE FALSE
  <2>1. ~node[p].started
    BY <1>4, <1>5, NoneActive DEF Main
  <2>2. panicked' = (p # 0 /\ cnt.active = 0)
    BY <1>5, <2>1 DEF Main, notifyStart
  <2>3. p # 0
    BY <1>4, <1>5, <2>1
  <2> QED
    BY <1>4, <1>5, <2>2, <2>3
<1>6. ASSUME NEW p \in ProcIdx, ChildSignal(p), ProcessesNext, ~Drain
      PROVE  cnt'.active = 0 /\ node'[0].started /\ life'[0] \in {"exited", "gone"}
  <2>1. node[p].exited # "RESTARTME" /\ node[p] \in NodeType
    BY <1>0, <1>4, <1>6, NoneActive
  <2>2. /\ cnt' = cnt /\ life' = [life EXCEPT ![p] = "gone"]
        /\ node' = [node EXCEPT ![p] = [node[p] EXCEPT !.exited = node[p].exited]]
    BY <1>0, <1>6, <2>1 DEF ChildSignal, Becomes
  <2>3. [node[p] EXCEPT !.exited = node[p].exited].started = node[p].started
    BY <2>1 DEF NodeType
  <2> QED
    BY <1>0, <1>4, <1>6, <2>2, <2>3
<1>7. ASSUME NEW p \in ProcIdx, LoopCatch(p), ProcessesNext, ~Drain
      PROVE  cnt'.active = 0 /\ node'[0].started /\ life'[0] \in {"exited", "gone"}
  BY <1>0, <1>4, <1>7 DEF LoopCatch, Becomes
<1>8. ASSUME PhaseEnd, ProcessesNext, ~Drain
      PROVE  cnt'.active = 0 /\ node'[0].started /\ life'[0] \in {"exited", "gone"}
  <2>1. UNCHANGED <<node, cnt, life>>
    BY <1>8 DEF PhaseEnd, CheckForTermination, Tick, TickEnds, NextPhase
  <2> QED
    BY <1>4, <1>8, <2>1
<1>9. ASSUME ProcessesNext, ~Drain, ~PhaseEnd,
             \A p \in ProcIdx : ~Main(p) /\ ~ChildSignal(p) /\ ~LoopCatch(p)
      PROVE  FALSE
  <2>1. ASSUME NEW p \in ProcIdx, Progress(p) \/ Control(p) \/ Choice(p) \/ EndPhase(p) PROVE FALSE
    <3>1. ~HasThreads(p) /\ life[p] # "ending" /\ life[p] # "up"
      BY <1>4, <1>9 DEF HasThreads
    <3> QED
      BY <1>9, <2>1, <3>1 DEF Thread, Progress, NotifyEnd, SyscallExit, LeaveFF, Join, Joined, Sync, TakeBarrier,
         Control, ControlThread, FFExit, FFStart, FFInsert, FFEnter, ControlTimeout,
         Choice, Fork, Exec, ProgramEnds, SyscallEnter, FFOp, RoiBegin, RoiEnd, Toggle, EndPhase
  <2> QED
    BY <1>4, <1>9, <2>1 DEF ProcessesNext, WatchdogEnds
<1> QED
  BY <1>1, <1>2, <1>5, <1>6, <1>7, <1>8, <1>9

-----------------------------------------------------------------------------
(* The properties of the module.                                           *)

\* The invariant holds in every state of every simulation.
THEOREM Invariance == ProcessesSpec => []IndInv
<1>1. ProcessesInit => IndInv
  <2>1. ProcessesInit => DumpInv
    BY DEF ProcessesInit, DumpInv
  <2> QED
    BY <2>1, TreeInit, PhaseInit DEF IndInv
<1>2. IndInv /\ [ProcessesNext]_processVars => IndInv'
  BY TreeNext, PhaseNext, DumpNext DEF IndInv
<1> QED
  BY <1>1, <1>2, PTL DEF ProcessesSpec

\* globalActiveProcs and globalFFProcs (process_tree.h, process_tree.cpp) are
\* exact in every simulation, whatever starts, forks, execs, is restarted,
\* enters or leaves fast-forward and ends in whatever order; globalSyncedFFProcs is
\* exact until a fork in fast-forward makes one process several (process_tree.h:113).
THEOREM CountersSafety == ProcessesSpec => CountersAgree
<1>1. IndInv => /\ cnt.active = Cardinality({p \in Started : node[p].exited # "EXITED"})
                /\ cnt.ff = Cardinality({p \in Started : node[p].inFastForward})
  BY DEF IndInv, TreeInv, CountsExact, Actives, FastForwarding
<1>2. IndInv /\ [ProcessesNext]_processVars => [SyncedExact => SyncedExact' \/ TreeGrows]_processVars
  BY SyncedStep DEF IndInv
<1> QED
  BY <1>1, <1>2, Invariance, PTL DEF ProcessesSpec, CountersAgree

\* globalSyncedFFProcs is exact throughout where syncedFastForward is not
\* "Multiprocess", where the harness launches several processes, and where none
\* forks: getSyncedFastForward(), evaluated anew at each use, then gives an exit
\* the answer that it gave the entry.
THEOREM SyncedSafety == ProcessesSpec => [](SyncStable => SyncedExact)
<1>1. IndInv => (SyncStable => SyncedExact)
  BY DEF IndInv, TreeInv, SyncedStays
<1> QED
  BY <1>1, Invariance, PTL

\* No phase ends after the one that met the termination condition (the assert
\* of CheckForTermination), and when process 0 dumps the final statistics
\* every other process has ended or will panic (zsim.cpp, SimEnd).
THEOREM EndIsFinal == ProcessesSpec => []NothingAfterTheEnd
<1>1. IndInv => NothingAfterTheEnd
  <2> SUFFICES ASSUME IndInv PROVE NothingAfterTheEnd
    OBVIOUS
  <2>1. eop.step = "start" => ~term
    BY DEF IndInv, PhaseInv
  <2>2. ASSUME dumped, ~panicked, NEW p \in ProcIdx
        PROVE  life[p] \in {"none", "main", "exited", "gone"} /\ node[p].exited # "RESTARTME"
    <3>1. cnt.active = 0 /\ life[0] \in {"exited", "gone"}
      BY <2>2 DEF IndInv, DumpInv
    <3>2. life[p] = "drain" => p = 0
      BY DEF IndInv, TreeInv, LifeAgrees
    <3> QED
      BY <3>1, <3>2, NoneActive DEF IndInv
  <2> QED
    BY <2>1, <2>2 DEF NothingAfterTheEnd
<1> QED
  BY <1>1, Invariance, PTL

=============================================================================
