-------------------------------- MODULE Mesi --------------------------------
(***************************************************************************)
(* The inclusive MESI hierarchy of zsim (cache.cpp, coherence_ctrls.h,     *)
(* coherence_ctrls.cpp, filter_cache.h): a tree of caches over memory,     *)
(* accessed by one simulated thread per core.  An access climbs from the   *)
(* first-level cache by nested calls of access(); a cache releases its     *)
(* bottom lock while its parent works, and invalidations come down with    *)
(* the bottom locks only, so accesses and invalidations race.              *)
(*                                                                         *)
(* stack[t] is the call stack of core t's thread, one frame per access()   *)
(* or invalidate() in progress.  A step runs from one lock operation to    *)
(* the next: everything in between touches only state the locks protect.   *)
(* Latencies, profiling and timing records are left out, and the line that *)
(* preinsert() evicts is any line of the cache.                            *)
(*                                                                         *)
(* Definitions named after a mistake (KeepChildLocked, AnyTime, ...)       *)
(* are wrong variants of the definition that follows them; no action uses  *)
(* them.                                                                   *)
(***************************************************************************)
EXTENDS Integers, FiniteSets, SequencesExt

CONSTANTS Cores,        \* simulated threads, each on its own core
          Caches,       \* all the caches of the hierarchy
          Memory,       \* the memory controller, parent of the last level
          Lines,        \* Lines[c]: the line ids of cache c
          Addrs,        \* line addresses, procMask | vLineAddr
          procMask,     \* procMask[a]: the process whose mask a carries
          vLineAddr,    \* vLineAddr[a]: the line address that this process uses
          Children,     \* Children[c]: the children of c in childId order
          Parent,       \* Parent[c][a]: parents[getParentId(a)] of cache c
          FirstLevel,   \* FirstLevel[t]: the filter caches of core t
          InstrCaches,  \* those of them that fetch instructions
          Prefetched,   \* caches whose parent is reached through a prefetcher
          None

ASSUME MesiAssumption ==
    /\ Memory \notin Caches /\ None \notin Cores \cup Addrs
    /\ \A c \in Caches : Lines[c] # {} /\ None \notin Lines[c]
    /\ Children \in [Caches -> Seq(Caches)]
    /\ Parent \in [Caches -> [Addrs -> Caches \cup {Memory}]]
    /\ FirstLevel \in [Cores -> SUBSET Caches]
    /\ \A c \in Caches, a \in Addrs :
           Parent[c][a] # Memory => c \in Range(Children[Parent[c][a]])
    /\ \A t \in Cores : \A c \in FirstLevel[t] : Children[c] = <<>>
    /\ \A a, b \in Addrs : procMask[a] = procMask[b] /\ vLineAddr[a] = vLineAddr[b] => a = b

\* The caches form a tree, ending at a last level of one cache, whose banks
\* share the addresses, and every core has its first-level caches for itself:
\* init.cpp checks all of it (476-508, 681-697).
ASSUME HierarchyAssumption ==
    /\ IsFiniteSet(Caches)
    /\ \E level \in [Caches -> 0 .. Cardinality(Caches)] :
           \A c \in Caches : \A d \in Range(Children[c]) : level[d] < level[c]
    /\ \E served \in [Caches -> SUBSET Addrs] :
           /\ \A t \in Cores : \A c \in FirstLevel[t] : served[c] = Addrs
           /\ \A c \in Caches : \A a \in served[c] :
                  Parent[c][a] # Memory => a \in served[Parent[c][a]]
           /\ \A c, d \in Caches : \A a \in served[c] \cap served[d] :
                  Parent[c][a] = Memory /\ Parent[d][a] = Memory => c = d
    /\ \A c \in Caches, a, b \in Addrs : Parent[c][a] = Memory => Parent[c][b] = Memory
    /\ \A t, u \in Cores : t # u => FirstLevel[t] \cap FirstLevel[u] = {}

MESIState == {"I", "S", "E", "M"}
Gets == {"GETS", "GETX"}
Puts == {"PUTS", "PUTX"}
Terminal(c) == Children[c] = <<>>

VARIABLES
    tag,        \* tag[c][l]: the address in line l of c's array, or None
    bcc,        \* bcc[c][l]: its MESI state, in the bottom controller
    tcc,        \* tcc[c][l]: its directory entry, in the top controller
    bccLock, tccLock, filterLock,   \* the core whose thread holds each lock
    filter,     \* filter[c]: the filter entry of a first-level cache
    stack,      \* stack[t]: the frames of core t's thread, innermost last
    dummy,      \* dummy[t]: the local state variable of a prefetch request
    dirty       \* history: addresses stored to and not yet written to memory

arrayVars == <<tag, bcc, tcc>>
lockVars  == <<bccLock, tccLock, filterLock>>
mesiVars  == <<tag, bcc, tcc, bccLock, tccLock, filterLock, filter, stack, dummy, dirty>>

EmptyEntry == [sharers |-> {}, numSharers |-> 0, exclusive |-> FALSE]
isEmpty(e) == e.numSharers = 0
isExclusive(e) == e.numSharers = 1 /\ e.exclusive

NoFilter == [rdAddr |-> None, wrAddr |-> None]

MesiInit ==
    /\ tag = [c \in Caches |-> [l \in Lines[c] |-> None]]
    /\ bcc = [c \in Caches |-> [l \in Lines[c] |-> "I"]]
    /\ tcc = [c \in Caches |-> [l \in Lines[c] |-> EmptyEntry]]
    /\ bccLock = [c \in Caches |-> None]
    /\ tccLock = [c \in Caches |-> None]
    /\ filterLock = [c \in Caches |-> None]
    /\ filter = [c \in Caches |-> NoFilter]
    /\ stack = [t \in Cores |-> <<>>]
    /\ dummy = [t \in Cores |-> "I"]
    /\ dirty = {}

-----------------------------------------------------------------------------
(* Frames.                                                                 *)

\* MemReq gained two fields, pmcs and signature, before flags; the aggregate
\* initialisers still list flags ninth, so the flags of a request land in pmcs
\* and the field flags of every request is zero.
Carried(flags) == {}

\* A call of access() with req.state = &bcc[caller][line] (own) or a local
\* variable of the caller (not own).
AccessFrame(c, a, type, init, own, flags) ==
    [cache |-> c, addr |-> a, type |-> type, init |-> init, own |-> own,
     flags |-> Carried(flags), pc |-> IF Terminal(c) THEN "bcc" ELSE "tcc",
     line |-> None, wb |-> FALSE, todo |-> {}]

InvFrame(c, a, type, l, todo) ==
    [cache |-> c, addr |-> a, type |-> type, init |-> "I", own |-> FALSE,
     flags |-> {}, pc |-> "inval", line |-> l, wb |-> FALSE, todo |-> todo]

Top(t) == Last(stack[t])
Caller(t) == stack[t][Len(stack[t]) - 1]
At(t, pc) == stack[t] # <<>> /\ Top(t).pc = pc

SetTop(t, f)  == stack' = [stack EXCEPT ![t] = Append(Front(@), f)]
Call(t, f, g) == stack' = [stack EXCEPT ![t] = Append(Front(@), f) \o <<g>>]
Goto(f, pc) == [f EXCEPT !.pc = pc]

Lookup(c, a) == {l \in Lines[c] : tag[c][l] = a}
Line(c, a) == IF Lookup(c, a) = {} THEN None ELSE CHOOSE l \in Lookup(c, a) : TRUE
StateOf(c, a) == IF Lookup(c, a) = {} THEN "I" ELSE bcc[c][Line(c, a)]
Exclusive(s) == s \in {"E", "M"}

\* futex_unlock(req.childLock) of startAccess: the caller is open to invalidations.
KeepChildLocked(c) == bccLock' = bccLock
UnlockChild(c) == bccLock' = [bccLock EXCEPT ![c] = None]

\* startInv
AnyTime(c) == TRUE
CanStartInv(c) == bccLock[c] = None

\* *req.state: the line of the child that asks, or a local variable of the
\* caller, which nobody else changes.
ChildState(t) ==
    IF Top(t).own THEN bcc[Caller(t).cache][Caller(t).line] ELSE Top(t).init

\* sendInvalidates: the children that are told, and the one that comes next.
Targets(e, c, type) ==
    IF isEmpty(e) \/ (type = "INVX" /\ ~isExclusive(e)) THEN {}
    ELSE Range(Children[c]) \cap e.sharers
NextChild(f) == Children[f.cache][Min({i \in DOMAIN Children[f.cache] : Children[f.cache][i] \in f.todo})]

\* sendInvalidates: the entry once they have answered.
Told(e, type) ==
    IF type = "INV" THEN [e EXCEPT !.sharers = {}, !.numSharers = 0]
    ELSE [e EXCEPT !.exclusive = @ /\ ~isExclusive(e)]

-----------------------------------------------------------------------------
(* FilterCache: hits change no coherence state; a miss calls access().     *)

ReqFlags(c) == IF c \in InstrCaches THEN {"IFETCH", "NOEXCL"} ELSE {}

\* The process that core t's thread belongs to, in the middle of an access.
Process(t) == procMask[stack[t][1].addr]

\* replace(), up to the release of filterLock by startAccess.  Entries hold
\* vLineAddr; here they hold the whole address, which the core's process gives,
\* because contextSwitch() clears them before another one runs (scheduler.h:582).
Replace(t, c, a, type) ==
    /\ stack[t] = <<>>
    /\ c \in FirstLevel[t]
    /\ type = "GETX" => c \notin InstrCaches
    /\ a # (IF type = "GETS" THEN filter[c].rdAddr ELSE filter[c].wrAddr)
    /\ \A d \in FirstLevel[t] : filter[d] # NoFilter => procMask[filter[d].rdAddr] = procMask[a]
    /\ filterLock[c] = None
    /\ stack' = [stack EXCEPT ![t] = <<AccessFrame(c, a, type, "I", FALSE, ReqFlags(c))>>]
    /\ UNCHANGED <<arrayVars, lockVars, filter, dummy, dirty>>

\* replace(), from the return of access(): the entry is set with filterLock held.
Fill(t) ==
    /\ At(t, "fill")
    /\ LET f == Top(t) IN
       /\ filter' = [filter EXCEPT ![f.cache] =
              [rdAddr |-> f.addr, wrAddr |-> IF f.type = "GETX" THEN f.addr ELSE None]]
       /\ filterLock' = [filterLock EXCEPT ![f.cache] = None]
       /\ dirty' = IF f.type = "GETX" THEN dirty \cup {f.addr} ELSE dirty
    /\ stack' = [stack EXCEPT ![t] = <<>>]
    /\ UNCHANGED <<arrayVars, bccLock, tccLock, dummy>>

ContextSwitch(t, c) ==
    /\ stack[t] = <<>> /\ c \in FirstLevel[t]
    /\ filterLock[c] = None /\ filter[c] # NoFilter
    /\ filter' = [filter EXCEPT ![c] = NoFilter]
    /\ UNCHANGED <<arrayVars, lockVars, stack, dummy, dirty>>

-----------------------------------------------------------------------------
(* Cache::access.                                                          *)

LockTcc(t) ==
    /\ At(t, "tcc")
    /\ tccLock[Top(t).cache] = None
    /\ tccLock' = [tccLock EXCEPT ![Top(t).cache] = t]
    /\ SetTop(t, Goto(Top(t), "bcc"))
    /\ UNCHANGED <<arrayVars, bccLock, filterLock, filter, dummy, dirty>>

\* CheckForMESIRace: what is left of an access whose line was invalidated or
\* downgraded before the locks were taken.
RaceSkips(type, now, init) == now # init /\ type \in Puts /\ now = "I"
RaceTypeKept(type, now, init) == type
RaceType(type, now, init) ==
    IF now # init /\ type = "PUTX" THEN "PUTS" ELSE type

\* The line found, or any line of the array for the policy to evict.
LineFor(c, a) == IF Lookup(c, a) # {} THEN Lookup(c, a) ELSE Lines[c]

StartAccess(t) ==
    /\ At(t, "bcc")
    /\ bccLock[Top(t).cache] = None
    /\ bccLock' = [bccLock EXCEPT ![Top(t).cache] = t]
    /\ LET f == Top(t)
           c == f.cache
           now == ChildState(t)
       IN  IF RaceSkips(f.type, now, f.init)
           THEN SetTop(t, Goto(f, "end"))
           ELSE \E l \in LineFor(c, f.addr) :
                  LET g == [f EXCEPT !.type = RaceType(f.type, now, f.init), !.line = l]
                  IN  SetTop(t, IF tag[c][l] = f.addr THEN Goto(g, "access")
                                ELSE [Goto(g, "evict") EXCEPT
                                        !.todo = Targets(tcc[c][l], c, "INV")])
    /\ UNCHANGED <<arrayVars, tccLock, filterLock, filter, dummy, dirty>>

\* The type of the invalidations a frame sends, and their address.
SendType(f) ==
    CASE f.pc = "evict" -> "INV"
      [] f.pc = "grant" -> IF f.type = "GETX" THEN "INV" ELSE "INVX"
      [] OTHER          -> f.type
SendAddr(f) == IF f.pc = "evict" THEN tag[f.cache][f.line] ELSE f.addr

\* MESIBottomCC::processEviction: PUTS or PUTX to the parent, with our bottom
\* lock released by the parent's startAccess; memory answers at once.
Evicted(f) == IF f.wb THEN "M" ELSE bcc[f.cache][f.line]
PutType(s) == IF s = "M" THEN "PUTX" ELSE "PUTS"

Evict(t) ==
    /\ At(t, "evict") /\ Top(t).todo = {}
    /\ LET f == Top(t)
           c == f.cache
           victim == tag[c][f.line]
           s == Evicted(f)
           g == [Goto(f, "insert") EXCEPT !.wb = FALSE]
           direct == s = "I" \/ Parent[c][victim] = Memory
       IN
       /\ tcc' = [tcc EXCEPT ![c][f.line] = Told(@, "INV")]
       /\ bcc' = [bcc EXCEPT ![c][f.line] = IF direct THEN "I" ELSE s]
       /\ dirty' = IF direct /\ s = "M" THEN dirty \ {victim} ELSE dirty
       /\ IF direct THEN UNCHANGED bccLock ELSE UnlockChild(c)
       /\ IF direct THEN SetTop(t, g)
          ELSE Call(t, g, AccessFrame(Parent[c][victim], victim, PutType(s), s, TRUE, {}))
    /\ UNCHANGED <<tag, tccLock, filterLock, filter, dummy>>

\* MESIBottomCC::processAccess
Misses(type, s) == \/ type = "GETS" /\ s = "I"
                   \/ type = "GETX" /\ s \in {"I", "S"}
Silent(type, s) == IF type \in {"GETX", "PUTX"} /\ s = "E" THEN "M" ELSE s
FromMemory(f) == IF f.type = "GETX" THEN "M" ELSE IF "NOEXCL" \in f.flags THEN "S" ELSE "E"

\* MESICC::processAccess: prefetches and terminal caches stop here.
NextPc(f) == IF Terminal(f.cache) \/ "PREFETCH" \in f.flags THEN "end" ELSE "dir"
AfterGet(f) == IF f.cache \in Prefetched /\ f.type = "GETS" THEN "prefetch" ELSE NextPc(f)

\* postinsert, if the line had to be evicted, and bcc->processAccess.
AccessUp(t) ==
    /\ At(t, "insert") \/ At(t, "access")
    /\ tag' = [tag EXCEPT ![Top(t).cache][Top(t).line] = Top(t).addr]
    /\ LET f == Top(t)
           c == f.cache
           s == bcc[c][f.line]
           p == Parent[c][f.addr]
       IN  IF Misses(f.type, s) /\ p # Memory
           THEN /\ Call(t, Goto(f, AfterGet(f)),
                        AccessFrame(p, f.addr, f.type, s, TRUE, f.flags))
                /\ UnlockChild(c)
                /\ UNCHANGED bcc
           ELSE /\ bcc' = [bcc EXCEPT ![c][f.line] =
                             IF Misses(f.type, s) THEN FromMemory(f) ELSE Silent(f.type, s)]
                /\ SetTop(t, Goto(f, NextPc(f)))
                /\ UNCHANGED bccLock
    /\ UNCHANGED <<tcc, tccLock, filterLock, filter, dummy, dirty>>

\* MESITopCC::processAccess for PUTS and PUTX: the child gives the line up.
Drop(e, d) == [e EXCEPT !.sharers = @ \ {d}, !.numSharers = @ - 1]

TakeLine(t) ==
    /\ At(t, "dir") /\ Top(t).type \in Puts
    /\ tcc' = [tcc EXCEPT ![Top(t).cache][Top(t).line] = Drop(@, Caller(t).cache)]
    /\ bcc' = [bcc EXCEPT ![Caller(t).cache][Caller(t).line] = "I"]
    /\ SetTop(t, Goto(Top(t), "end"))
    /\ UNCHANGED <<tag, lockVars, filter, dummy, dirty>>

\* The entry without an upgrading child, and who is told of a GETS or GETX.
Others(t) ==
    LET e == tcc[Top(t).cache][Top(t).line] IN
    IF Top(t).type = "GETX" /\ Caller(t).cache \in e.sharers
    THEN Drop(e, Caller(t).cache) ELSE e
ToTellNobody(t) == {}
ToTell(t) == Targets(Others(t), Top(t).cache, SendType(Goto(Top(t), "grant")))

\* MESITopCC::processAccess for GETS and GETX, when others must be downgraded or
\* invalidated first.
TellOthers(t) ==
    /\ At(t, "dir") /\ Top(t).type \in Gets /\ ToTell(t) # {}
    /\ tcc' = [tcc EXCEPT ![Top(t).cache][Top(t).line] = Others(t)]
    /\ SetTop(t, [Goto(Top(t), "grant") EXCEPT !.todo = ToTell(t)])
    /\ UNCHANGED <<tag, bcc, lockVars, filter, dummy, dirty>>

\* The rest of it, with the others told, and processWritebackOnAccess.
GivesE(e, s, flags) == isEmpty(e) /\ Exclusive(s) /\ "NOEXCL" \notin flags
Granted(e, f, s) ==
    IF f.type = "GETX" THEN "M" ELSE IF GivesE(e, s, f.flags) THEN "E" ELSE "S"
WithSharerStale(e, d, given) ==
    [sharers    |-> e.sharers \cup {d},
     numSharers |-> IF given = "E" THEN 1 ELSE e.numSharers + 1,
     exclusive  |-> e.exclusive \/ given # "S"]
WithSharer(e, d, given) ==
    [sharers    |-> e.sharers \cup {d},
     numSharers |-> IF given = "E" THEN 1 ELSE e.numSharers + 1,
     exclusive  |-> given # "S"]
Written(f, s) == IF f.wb /\ s = "E" THEN "M" ELSE s

Grant(t) ==
    /\ \/ At(t, "grant") /\ Top(t).todo = {}
       \/ At(t, "dir") /\ Top(t).type \in Gets /\ ToTell(t) = {}
    /\ LET f == Top(t)
           c == f.cache
           s == bcc[c][f.line]
           e == Told(Others(t), SendType(Goto(f, "grant")))
           d == Caller(t)
           given == Granted(e, f, s)
       IN
       /\ tcc' = [tcc EXCEPT ![c][f.line] = WithSharer(e, d.cache, given)]
       /\ bcc' = IF f.own
                 THEN [bcc EXCEPT ![c][f.line] = Written(f, s), ![d.cache][d.line] = given]
                 ELSE [bcc EXCEPT ![c][f.line] = Written(f, s)]
       /\ dummy' = IF f.own THEN dummy ELSE [dummy EXCEPT ![t] = given]
       /\ SetTop(t, Goto(f, "end"))
    /\ UNCHANGED <<tag, lockVars, filter, dirty>>

\* endAccess: the lock of the child is taken before ours are released.
EndAccess(t) ==
    /\ At(t, "end")
    /\ LET f == Top(t)
           c == f.cache
       IN
       /\ tccLock' = [tccLock EXCEPT ![c] = IF Terminal(c) THEN @ ELSE None]
       /\ IF Len(stack[t]) = 1
          THEN /\ filterLock[c] = None
               /\ filterLock' = [filterLock EXCEPT ![c] = t]
               /\ bccLock' = [bccLock EXCEPT ![c] = None]
               /\ SetTop(t, Goto(f, "fill"))
          ELSE /\ bccLock[Caller(t).cache] = None
               /\ bccLock' = [bccLock EXCEPT ![c] = None, ![Caller(t).cache] = t]
               /\ stack' = [stack EXCEPT ![t] = Front(@)]
               /\ UNCHANGED filterLock
    /\ UNCHANGED <<arrayVars, filter, dummy, dirty>>

-----------------------------------------------------------------------------
(* invalidate().                                                           *)

\* The next call of sendInvalidates, up to the child's bottom lock and lookup.
StartInvalidate(t) ==
    /\ stack[t] # <<>> /\ Top(t).todo # {}
    /\ LET f == Top(t)
           d == NextChild(f)
           l == Line(d, SendAddr(f))
       IN
       /\ CanStartInv(d)
       /\ bccLock' = [bccLock EXCEPT ![d] = t]
       /\ Call(t, [f EXCEPT !.todo = @ \ {d}],
               InvFrame(d, SendAddr(f), SendType(f), l,
                        Targets(tcc[d][l], d, SendType(f))))
    /\ UNCHANGED <<arrayVars, tccLock, filterLock, filter, dummy, dirty>>

\* MESIBottomCC::processInval
Invalidated(type) == IF type = "INV" THEN "I" ELSE "S"
WritebackOwn(f, s) == s = "M"
Writeback(f, s) == f.wb \/ s = "M"
\* FilterCache::invalidate, run by a thread of process p: procMask is its own.
Matches(entry, a, p) ==
    entry # NoFilter /\ vLineAddr[entry.rdAddr] = vLineAddr[a] /\ p = procMask[a]
FilterKeepsRead(entry, a, p) == IF Matches(entry, a, p) THEN [entry EXCEPT !.wrAddr = None] ELSE entry
FilterCleared(entry, a, p) == IF Matches(entry, a, p) THEN NoFilter ELSE entry

FinishInvalidate(t) ==
    /\ At(t, "inval") /\ Top(t).todo = {}
    /\ Terminal(Top(t).cache) => filterLock[Top(t).cache] = None
    /\ LET f == Top(t)
           c == f.cache
           wb == Writeback(f, bcc[c][f.line])
       IN
       /\ tcc' = [tcc EXCEPT ![c][f.line] = Told(@, f.type)]
       /\ bcc' = [bcc EXCEPT ![c][f.line] = Invalidated(f.type)]
       /\ filter' = [filter EXCEPT ![c] = FilterCleared(@, f.addr, Process(t))]
       /\ bccLock' = [bccLock EXCEPT ![c] = None]
       /\ stack' = [stack EXCEPT ![t] =
              Append(Front(Front(@)), [Caller(t) EXCEPT !.wb = @ \/ wb])]
    /\ UNCHANGED <<tag, tccLock, filterLock, dummy, dirty>>

-----------------------------------------------------------------------------
Step(t) ==
    \/ LockTcc(t) \/ StartAccess(t) \/ Evict(t)
    \/ AccessUp(t) \/ TakeLine(t) \/ TellOthers(t) \/ Grant(t) \/ EndAccess(t) \/ Fill(t)
    \/ StartInvalidate(t) \/ FinishInvalidate(t)

MesiNext ==
    \E t \in Cores :
        \/ Step(t)
        \/ \E c \in FirstLevel[t] :
              \/ ContextSwitch(t, c)
              \/ \E a \in Addrs, type \in Gets : Replace(t, c, a, type)

MesiSpec == MesiInit /\ [][MesiNext]_mesiVars

-----------------------------------------------------------------------------
(* StreamPrefetcher, between a cache and its parent: after a GETS it may    *)
(* ask the parent for another line of the page on its own behalf, with a    *)
(* local variable for the state.  Which line is up to its predictor.        *)

NoPrefetch(t) ==
    /\ At(t, "prefetch")
    /\ SetTop(t, Goto(Top(t), NextPc(Top(t))))
    /\ UNCHANGED <<arrayVars, lockVars, filter, dummy, dirty>>

Prefetch(t, a) ==
    /\ At(t, "prefetch") /\ a # Top(t).addr
    /\ LET f == Top(t) IN
       /\ Call(t, Goto(f, NextPc(f)),
               AccessFrame(Parent[f.cache][a], a, "GETS", "I", FALSE, {"PREFETCH"}))
       /\ UnlockChild(f.cache)
    /\ dummy' = [dummy EXCEPT ![t] = "I"]
    /\ UNCHANGED <<arrayVars, tccLock, filterLock, filter, dirty>>

PrefetchNext ==
    \/ MesiNext
    \/ \E t \in Cores : NoPrefetch(t) \/ \E a \in Addrs : Prefetch(t, a)

PrefetchSpec == MesiInit /\ [][PrefetchNext]_mesiVars

-----------------------------------------------------------------------------
(* Properties.                                                             *)

InvTypes == {"INV", "INVX"}
Frames ==
    [cache : Caches, addr : Addrs, type : Gets \cup Puts \cup InvTypes,
     init : MESIState, own : BOOLEAN,
     flags : SUBSET {"IFETCH", "NOEXCL", "PREFETCH"},
     pc : {"tcc", "bcc", "evict", "insert", "access", "prefetch", "dir", "grant",
           "end", "fill", "inval"},
     line : (UNION {Lines[c] : c \in Caches}) \cup {None},
     wb : BOOLEAN, todo : SUBSET Caches]

\* Type correctness: tags, states, directory entries, locks, filter entries
\* and frames have their shapes, and numSharers stays between 0 and the number
\* of children (uint32_t in coherence_ctrls.h:181: below 0 it would wrap).
MesiTypeOK ==
    /\ \A c \in Caches, l \in UNION {Lines[c2] : c2 \in Caches} : l \in Lines[c] =>
          /\ tag[c][l] \in Addrs \cup {None}
          /\ bcc[c][l] \in MESIState
          /\ tcc[c][l].sharers \subseteq Range(Children[c])
          /\ tcc[c][l].numSharers \in 0 .. Len(Children[c])
          /\ tcc[c][l].exclusive \in BOOLEAN
    /\ bccLock \in [Caches -> Cores \cup {None}]
    /\ tccLock \in [Caches -> Cores \cup {None}]
    /\ filterLock \in [Caches -> Cores \cup {None}]
    /\ filter \in [Caches -> [rdAddr : Addrs \cup {None}, wrAddr : Addrs \cup {None}]]
    /\ \A t \in Cores : \A i \in DOMAIN stack[t] : stack[t][i] \in Frames
    /\ dummy \in [Cores -> MESIState]
    /\ dirty \subseteq Addrs

\* A first-level cache that may write a line is the only first-level cache
\* that holds it: what sendInvalidates (coherence_ctrls.cpp:213-247) is for.
SingleWriter ==
    \A c, d \in Caches, a \in Addrs :
        Terminal(c) /\ Terminal(d) /\ c # d /\ Exclusive(StateOf(c, a))
            => StateOf(d, a) = "I"

\* Inclusion and exactness of the directory, whenever a cache's bottom lock is
\* free: a child holds a line iff its parent does and lists it as a sharer,
\* the hand-kept numSharers is the size of the list, a child is exclusive iff
\* the entry is, and only under a parent that is exclusive itself
\* (coherence_ctrls.h:180-198).  Types are kept throughout.
DirectoryExact ==
    /\ MesiTypeOK
    /\ \A p \in Caches : bccLock[p] = None =>
           /\ \A l \in Lines[p] :
                 LET e == tcc[p][l]
                     a == tag[p][l]
                 IN  /\ e.numSharers = Cardinality(e.sharers)
                     /\ \A c \in e.sharers : StateOf(c, a) # "I"
                     /\ isExclusive(e) => Exclusive(bcc[p][l])
                     /\ e.sharers # {} => bcc[p][l] # "I"
           /\ \A a \in Addrs : \A c \in Range(Children[p]) :
                 (Parent[c][a] = p /\ StateOf(c, a) # "I") =>
                     /\ Lookup(p, a) # {}
                     /\ c \in tcc[p][Line(p, a)].sharers
                     /\ Exclusive(StateOf(c, a)) <=> isExclusive(tcc[p][Line(p, a)])

\* The assertions and panics of the controllers that the next step of a thread
\* evaluates: in CheckForMESIRace and shouldAllocate, in processEviction, in
\* the two processAccess and in processInval.
StepAsserts(t) ==
    LET f == Top(t)
        c == f.cache
        s == bcc[c][f.line]
        e == tcc[c][f.line]
        child == Caller(t).cache
    IN  CASE f.todo # {} /\ bccLock[NextChild(f)] = None ->
               LET now == StateOf(NextChild(f), SendAddr(f)) IN
               now # "I" /\ (SendType(f) = "INVX" => Exclusive(now))
          [] f.pc = "bcc" /\ bccLock[c] = None ->
               LET now == ChildState(t) IN
               /\ now # f.init =>
                    /\ f.type # "GETS"
                    /\ f.type \in Puts => now \in {"I", "S"}
                    /\ f.type = "GETX" => f.init = "S" /\ now = "I"
               /\ f.type \in Puts /\ ~RaceSkips(f.type, now, f.init)
                    => Lookup(c, f.addr) # {}
          [] f.pc = "evict" /\ f.todo = {} -> f.wb => Exclusive(s)
          [] f.pc = "insert" -> s = "I"
          [] f.pc = "access" -> /\ f.type \in Puts => s # "I"
                                /\ f.type = "PUTX" => Exclusive(s)
          [] f.pc = "dir" ->
               /\ f.type = "GETS" => s # "I"
               /\ f.type = "GETX" => s = "M"
               /\ f.type = "PUTX" => isExclusive(e)
               /\ f.type \in Puts => child \in e.sharers
               /\ f.type = "GETS" /\ ~GivesE(e, s, f.flags) => child \notin e.sharers
               /\ f.type = "GETX" /\ child \in e.sharers => ~isExclusive(e)
          [] f.pc = "end" /\ Terminal(c) ->
               /\ f.type = "GETS" => s # "I"
               /\ f.type = "GETX" => s = "M"
          [] f.pc = "grant" /\ f.todo = {} -> f.wb => Exclusive(s)
          [] OTHER -> TRUE

\* No assertion of the coherence controllers fails, in any interleaving: the
\* races that startAccess opens are exactly the ones CheckForMESIRace handles
\* (coherence_ctrls.h:248: "THIS IS THE ONLY CODE THAT SHOULD DEAL WITH RACES").
ControllerAsserts == \A t \in Cores : stack[t] # <<>> => StepAsserts(t)

\* Data stored to and not yet written to memory is in some cache in state M,
\* or on its way up: the writeback flag of an invalidation (InvReq::writeback)
\* or of the access that sent it is set.
DirtyNotLost ==
    \A a \in dirty :
        \/ \E c \in Caches : StateOf(c, a) = "M"
        \/ \E t \in Cores : \E i \in DOMAIN stack[t] :
              stack[t][i].wb /\ SendAddr(stack[t][i]) = a

\* What a filter entry promises: a hit, looked up without a lock, is a hit in
\* the cache behind it, for a store in state M; during a miss, the line fetched
\* is there when replace() sets the entry.
Accesses(t, c) == stack[t] # <<>> /\ stack[t][1].cache = c
EntryBacked(t, c) ==
    IF ~Accesses(t, c)
    THEN /\ filter[c].rdAddr # None => StateOf(c, filter[c].rdAddr) # "I"
         /\ filter[c].wrAddr # None => StateOf(c, filter[c].wrAddr) = "M"
    ELSE At(t, "fill") =>
         /\ StateOf(c, Top(t).addr) # "I"
         /\ Top(t).type = "GETX" => StateOf(c, Top(t).addr) = "M"

\* Another process's thread, making room for a line of its own, invalidates the
\* line of c's filter entry.
ForeignInvalidation(c) ==
    \E u \in Cores : /\ FinishInvalidate(u) /\ Top(u).cache = c
                     /\ Top(u).addr = filter[c].rdAddr /\ Process(u) # procMask[Top(u).addr]

\* Hits in the filter array (filter_cache.h:106,118) stay backed by the cache
\* through every step of every thread, but for the case of its FIXME (155): an
\* invalidation by another process's thread, which only evictions send; and the
\* line just fetched is always still there when the entry is set ("we have the
\* new address guaranteed until we release the lock", 135).
FilterHitsAreHits ==
    [][\A t \in Cores : \A c \in FirstLevel[t] :
          EntryBacked(t, c) => EntryBacked(t, c)' \/ (~Accesses(t, c) /\ ForeignInvalidation(c))
      ]_mesiVars

\* While a thread that called access() holds the parent's bottom lock, nobody
\* else changes the state of the child's line ("No one can touch the child
\* state, because we hold both parent's locks", coherence_ctrls.h:320-321).
ChildStable ==
    [][\A t \in Cores :
          (/\ stack[t] # <<>> /\ stack'[t] = stack[t]
           /\ Top(t).own /\ bccLock[Top(t).cache] = t)
             => bcc'[Caller(t).cache][Caller(t).line] = bcc[Caller(t).cache][Caller(t).line]
      ]_mesiVars

\* The core that holds the lock the next step of t needs, if any does.
WaitsFor(t) ==
    IF stack[t] = <<>> THEN None
    ELSE LET f == Top(t) IN
         CASE f.todo # {} -> bccLock[NextChild(f)]
           [] f.pc = "tcc" -> tccLock[f.cache]
           [] f.pc = "bcc" -> bccLock[f.cache]
           [] f.pc = "end" -> IF Len(stack[t]) = 1 THEN filterLock[f.cache]
                              ELSE bccLock[Caller(t).cache]
           [] f.pc = "inval" /\ Terminal(f.cache) -> filterLock[f.cache]
           [] OTHER -> None

\* Accesses going up and invalidations coming down never wait for each other in
\* a circle, for themselves, or for a lock that an idle core still holds
\* ("opening the child to invalidation races here to avoid deadlocks",
\* coherence_ctrls.h:309-312): as every access() is a finite sequence of steps,
\* all of them complete.
NoCircularWait ==
    \A T \in SUBSET Cores : T # {} =>
        \E t \in T : /\ WaitsFor(t) \notin T
                     /\ WaitsFor(t) # None => stack[WaitsFor(t)] # <<>>

\* "prefetch access should not give us any permissions" (prefetcher.cpp:157).
PrefetchGivesNothing == \A t \in Cores : dummy[t] = "I"

=============================================================================
