----------------------------- MODULE MesiLocks ------------------------------
(***************************************************************************)
(* The locks of the cache hierarchy: which frame of which thread holds     *)
(* which lock, and why no threads wait for each other in a circle.         *)
(*                                                                         *)
(* A call stack is a chain of accesses that climbs the hierarchy, then a   *)
(* chain of invalidations that descends from the last of them.  An access  *)
(* keeps the top lock of its cache while its parent works and gives the    *)
(* bottom lock back; an invalidation, and the access that sends it, keep   *)
(* the bottom locks from the sender down.                                  *)
(***************************************************************************)
EXTENDS Mesi, FiniteSetTheorems, SequenceTheorems, WellFoundedInduction, TLAPS

-----------------------------------------------------------------------------
(* Every set of natural numbers that is not empty has a least element: the *)
(* proofs take it where others go by induction.                            *)

Less == {ss \in Nat \X Nat : ss[1] < ss[2]}

\* There is no infinite descent in the natural numbers.
LEMMA LessWellFounded == IsWellFoundedOn(Less, Nat)
BY NatLessThanWellFounded, Zenon DEF OpToRel, Less

\* Min is the least element, which the arguments about the first entry of some
\* kind need.
LEMMA NatMin ==
    ASSUME NEW S \in SUBSET Nat, S # {}
    PROVE  Min(S) \in S /\ \A y \in S : Min(S) <= y
<1>1. PICK x \in S : \A y \in S : <<y, x>> \notin Less
  BY LessWellFounded, WFMin
<1>2. \A y \in S : x <= y
  <2> TAKE y \in S
  <2>1. <<y, x>> \in Nat \X Nat
    OBVIOUS
  <2>2. ~ (y < x)
    BY <1>1, <2>1 DEF Less
  <2> QED
    BY <2>2
<1> QED
  BY <1>2 DEF Min

-----------------------------------------------------------------------------
(* The shape of a stack.                                                   *)

Level == CHOOSE level \in [Caches -> 0 .. Cardinality(Caches)] :
             \A c \in Caches : \A d \in Range(Children[c]) : level[d] < level[c]

Sending == {"evict", "grant", "inval"}      \* pcs at which children are told
Called  == {"insert", "prefetch", "dir", "end"}     \* and at which a parent answers

\* Frame i of stack s has called its parent, which has not returned yet.
Waits(s, i) == i < Len(s) /\ s[i + 1].pc # "inval"

\* What one frame looks like, on its own.
FrameOK(f) ==
    /\ f.todo \subseteq Range(Children[f.cache])
    /\ f.todo # {} => f.pc \in Sending
    /\ f.pc \in {"tcc", "dir", "grant"} => ~Terminal(f.cache)
    /\ f.pc \notin {"tcc", "bcc", "end", "fill", "inval"} => f.line \in Lines[f.cache]
    /\ f.line \in Lines[f.cache] \cup {None}
    /\ f.pc \in {"tcc", "bcc"} => ~f.wb
    /\ f.pc = "inval" => f.type \in InvTypes

\* A frame f and the one it called, g.
LinkOK(f, g) ==
    IF g.pc = "inval"
    THEN f.pc \in Sending /\ g.cache \in Range(Children[f.cache])
    ELSE f.pc \in Called /\ f.cache \in Range(Children[g.cache])

\* The stack of core t.
Shape(t, s) ==
    \A i \in 1 .. Len(s) :
        /\ s[i] \in Frames /\ FrameOK(s[i])
        /\ i = 1 => s[i].cache \in FirstLevel[t] /\ s[i].pc # "inval"
        /\ s[i].pc = "fill" => Len(s) = 1
        /\ i < Len(s) => LinkOK(s[i], s[i + 1])

\* Accesses climb, and invalidations descend from the one that sends them.
Levels(s) ==
    \A i, j \in 1 .. Len(s) : i < j =>
        /\ s[i].pc = "inval" => s[j].pc = "inval"
        /\ s[j].pc # "inval" => Level[s[i].cache] < Level[s[j].cache]
        /\ s[i + 1].pc = "inval" => Level[s[i].cache] > Level[s[j].cache]

ShapeInv ==
    /\ stack \in [Cores -> Seq(Frames)]
    /\ \A t \in Cores : Shape(t, stack[t]) /\ Levels(stack[t])

-----------------------------------------------------------------------------
(* The locks.                                                              *)

HoldsBcc(s, i) == s[i].pc \notin {"tcc", "bcc", "fill"} /\ ~Waits(s, i)
HoldsTcc(s, i) == s[i].pc \notin {"tcc", "inval"} /\ ~Terminal(s[i].cache)

BccHeld(s) == {s[i].cache : i \in {j \in 1 .. Len(s) : HoldsBcc(s, j)}}
TccHeld(s) == {s[i].cache : i \in {j \in 1 .. Len(s) : HoldsTcc(s, j)}}
FilterHeld(s) == {s[i].cache : i \in {j \in 1 .. Len(s) : s[j].pc = "fill"}}

LockInv ==
    /\ bccLock \in [Caches -> Cores \cup {None}]
    /\ tccLock \in [Caches -> Cores \cup {None}]
    /\ filterLock \in [Caches -> Cores \cup {None}]
    /\ \A t \in Cores : /\ BccHeld(stack[t]) = {c \in Caches : bccLock[c] = t}
                        /\ TccHeld(stack[t]) = {c \in Caches : tccLock[c] = t}
                        /\ FilterHeld(stack[t]) = {c \in Caches : filterLock[c] = t}

PerLine(g, S) == /\ g = [c \in Caches |-> g[c]]
                 /\ \A c \in Caches : g[c] \in [Lines[c] -> S]
Entries == [sharers : SUBSET Caches, numSharers : Int, exclusive : BOOLEAN]

\* With the tags g, the line of frame f has an address where f counts on it.
\* (calls: f has called another cache.)
TagOK(g, f, calls) ==
    /\ f.pc = "evict" /\ (f.wb \/ f.todo # {} \/ calls) => g[f.cache][f.line] # None
    /\ f.pc \in Called /\ calls => f.line \in Lines[f.cache] /\ g[f.cache][f.line] # None
    /\ f.pc \in {"prefetch", "dir", "grant"} => g[f.cache][f.line] # None
    /\ f.pc = "inval" /\ f.line # None => g[f.cache][f.line] # None
TagsOK(g, s) == \A i \in 1 .. Len(s) : TagOK(g, s[i], i < Len(s))

\* Only a line with an address has a state or sharers, and only such a line is
\* evicted with a message to a parent or to children.
LineInv ==
    /\ PerLine(tag, Addrs \cup {None})
    /\ PerLine(bcc, MESIState)
    /\ PerLine(tcc, Entries)
    /\ \A c \in Caches : \A l \in Lines[c] :
          bcc[c][l] # "I" \/ tcc[c][l].numSharers # 0 => tag[c][l] # None
    /\ \A t \in Cores : TagsOK(tag, stack[t])

LocksInv == ShapeInv /\ LockInv /\ LineInv

-----------------------------------------------------------------------------
(* The constants.                                                          *)

LEMMA LevelFacts ==
    /\ Cardinality(Caches) \in Nat
    /\ Level \in [Caches -> 0 .. Cardinality(Caches)]
    /\ \A c \in Caches : Level[c] \in Nat /\ Level[c] <= Cardinality(Caches)
    /\ \A c \in Caches : \A d \in Range(Children[c]) : d \in Caches /\ Level[d] < Level[c]
<1>1. Cardinality(Caches) \in Nat
  BY HierarchyAssumption, FS_CardinalityType
<1>2. /\ Level \in [Caches -> 0 .. Cardinality(Caches)]
      /\ \A c \in Caches : \A d \in Range(Children[c]) : Level[d] < Level[c]
  BY HierarchyAssumption, Zenon DEF Level
<1>3. \A c \in Caches : \A d \in Range(Children[c]) : d \in Caches
  BY MesiAssumption DEF Range
<1> QED
  BY <1>1, <1>2, <1>3

LEMMA ParentFacts ==
    ASSUME NEW c \in Caches, NEW a \in Addrs, Parent[c][a] # Memory
    PROVE  /\ Parent[c][a] \in Caches /\ c \in Range(Children[Parent[c][a]])
           /\ ~Terminal(Parent[c][a])
BY MesiAssumption DEF Range, Terminal

\* A terminal cache calls nobody and is called by its core only.
LEMMA TerminalFacts ==
    /\ \A c, d \in Caches : d \in Range(Children[c]) => ~Terminal(c)
    /\ \A t \in Cores : \A c \in FirstLevel[t] : c \in Caches /\ Terminal(c)
    /\ \A t, u \in Cores : \A c \in FirstLevel[t] \cap FirstLevel[u] : t = u
<1>1. \A c, d \in Caches : d \in Range(Children[c]) => ~Terminal(c)
  BY DEF Range, Terminal
<1>2. \A t \in Cores : \A c \in FirstLevel[t] : c \in Caches /\ Terminal(c)
  BY MesiAssumption DEF Terminal
<1> QED
  BY <1>1, <1>2, HierarchyAssumption

-----------------------------------------------------------------------------
(* Stacks.                                                                 *)

LEMMA MoreThanOne ==
    \A m \in Nat \ {0} : m # 1 => m > 1 /\ m - 1 \in 1 .. m /\ m - 1 < m /\ (m - 1) + 1 = m
OBVIOUS

LEMMA SeqTop ==
    ASSUME NEW S, NEW s \in Seq(S), s # <<>>, NEW f \in S
    PROVE  /\ Len(s) \in Nat \ {0} /\ Last(s) = s[Len(s)] /\ Last(s) \in S
           /\ Front(s) \in Seq(S) /\ Len(Front(s)) = Len(s) - 1
           /\ \A i \in 1 .. Len(s) - 1 : Front(s)[i] = s[i]
           /\ Append(Front(s), f) \in Seq(S) /\ Len(Append(Front(s), f)) = Len(s)
           /\ \A i \in 1 .. Len(s) : Append(Front(s), f)[i] = IF i = Len(s) THEN f ELSE s[i]
<1>1. Len(s) \in Nat /\ Len(s) # 0
  BY EmptySeq, LenProperties
<1>2. Last(s) = s[Len(s)] /\ Last(s) \in S
  BY <1>1, ElementOfSeq DEF Last
<1>3. /\ Front(s) \in Seq(S) /\ Len(Front(s)) = Len(s) - 1
      /\ \A i \in 1 .. Len(s) - 1 : Front(s)[i] = s[i]
  <2>1. \A i \in 1 .. Len(s) - 1 : s[i] \in S
    BY <1>1, ElementOfSeq
  <2>2. PICK n \in Int : n = Len(s) - 1 /\ 1 <= n + 1
    BY <1>1
  <2>3. /\ SubSeq(s, 1, n) \in Seq(S)
        /\ Len(SubSeq(s, 1, n)) = IF 1 <= n THEN n - 1 + 1 ELSE 0
        /\ \A i \in 1 .. n - 1 + 1 : SubSeq(s, 1, n)[i] = s[1 + i - 1]
    BY <2>1, <2>2, SubSeqProperties
  <2> QED
    BY <1>1, <2>2, <2>3 DEF Front
<1>4. /\ Append(Front(s), f) \in Seq(S) /\ Len(Append(Front(s), f)) = Len(Front(s)) + 1
      /\ \A i \in 1 .. Len(Front(s)) : Append(Front(s), f)[i] = Front(s)[i]
      /\ Append(Front(s), f)[Len(Front(s)) + 1] = f
  BY <1>3, AppendProperties
<1> QED
  BY <1>1, <1>2, <1>3, <1>4

LEMMA SeqCall ==
    ASSUME NEW S, NEW s \in Seq(S), s # <<>>, NEW f \in S, NEW g \in S
    PROVE  /\ Append(Front(s), f) \o <<g>> \in Seq(S)
           /\ Len(Append(Front(s), f) \o <<g>>) = Len(s) + 1
           /\ \A i \in 1 .. Len(s) + 1 : (Append(Front(s), f) \o <<g>>)[i] =
                  IF i = Len(s) + 1 THEN g ELSE IF i = Len(s) THEN f ELSE s[i]
<1> DEFINE r == Append(Front(s), f)
<1>1. /\ r \in Seq(S) /\ Len(r) = Len(s) /\ Len(s) \in Nat \ {0}
      /\ \A i \in 1 .. Len(s) : r[i] = IF i = Len(s) THEN f ELSE s[i]
  BY SeqTop
<1> HIDE DEF r
<1>2. <<g>> \in Seq(S) /\ Len(<<g>>) = 1 /\ <<g>>[1] = g
  OBVIOUS
<1>3. r \o <<g>> \in Seq(S) /\ Len(r \o <<g>>) = Len(r) + Len(<<g>>)
  BY <1>1, <1>2, ConcatProperties
<1>4. \A i \in 1 .. Len(r) + 1 : (r \o <<g>>)[i] = IF i <= Len(r) THEN r[i] ELSE <<g>>[i - Len(r)]
  BY <1>1, <1>2, ConcatProperties
<1>5. \A i \in 1 .. Len(s) + 1 : (r \o <<g>>)[i] = IF i = Len(s) + 1 THEN g ELSE IF i = Len(s) THEN f ELSE s[i]
  <2> TAKE i \in 1 .. Len(s) + 1
  <2>1. CASE i = Len(s) + 1
    BY <1>1, <1>2, <1>4, <2>1
  <2>2. CASE i \in 1 .. Len(s)
    BY <1>1, <1>4, <2>2
  <2> QED
    BY <1>1, <2>1, <2>2
<1> QED
  BY <1>1, <1>2, <1>3, <1>5 DEF r

LEMMA SeqReturn ==
    ASSUME NEW S, NEW s \in Seq(S), Len(s) > 1, NEW f \in S
    PROVE  /\ Append(Front(Front(s)), f) \in Seq(S)
           /\ Len(Append(Front(Front(s)), f)) = Len(s) - 1
           /\ \A i \in 1 .. Len(s) - 1 : Append(Front(Front(s)), f)[i] = IF i = Len(s) - 1 THEN f ELSE s[i]
<1>1. s # <<>> /\ Len(s) \in Nat
  OBVIOUS
<1>2. /\ Front(s) \in Seq(S) /\ Len(Front(s)) = Len(s) - 1
      /\ \A i \in 1 .. Len(s) - 1 : Front(s)[i] = s[i]
  BY <1>1, SeqTop
<1>3. Front(s) # <<>>
  BY <1>1, <1>2
<1> DEFINE r == Front(s)
<1>4. /\ Append(Front(r), f) \in Seq(S)
      /\ Len(Append(Front(r), f)) = Len(r)
      /\ \A i \in 1 .. Len(r) : Append(Front(r), f)[i] = IF i = Len(r) THEN f ELSE r[i]
  <2>1. r \in Seq(S) /\ r # <<>>
    BY <1>2, <1>3
  <2> HIDE DEF r
  <2> QED
    BY <2>1, SeqTop
<1> QED
  BY <1>1, <1>2, <1>4

\* How a step changes a stack s into r: the top frame becomes f; the top frame
\* becomes f and calls g; the top frame returns to its caller, which becomes f.
TopSet(s, r, f) ==
    /\ Len(r) = Len(s) /\ r[Len(s)] = f
    /\ \A i \in 1 .. Len(s) : i < Len(s) => r[i] = s[i]
Pushed(s, r, f, g) ==
    /\ Len(r) = Len(s) + 1 /\ r[Len(s) + 1] = g /\ r[Len(s)] = f
    /\ \A i \in 1 .. Len(s) : i < Len(s) => r[i] = s[i]
Popped(s, r, f) ==
    /\ Len(r) = Len(s) - 1 /\ r[Len(s) - 1] = f
    /\ \A i \in 1 .. Len(s) - 1 : i < Len(s) - 1 => r[i] = s[i]

StackType == stack \in [Cores -> Seq(Frames)]
SameOthers(t) == \A u \in Cores \ {t} : stack'[u] = stack[u]

LEMMA TopFacts ==
    ASSUME StackType, NEW t \in Cores, stack[t] # <<>>
    PROVE  /\ stack[t] \in Seq(Frames) /\ Len(stack[t]) \in Nat \ {0}
           /\ Top(t) = stack[t][Len(stack[t])] /\ Top(t) \in Frames
           /\ \A i \in 1 .. Len(stack[t]) : stack[t][i] \in Frames
           /\ Len(stack[t]) > 1 => Caller(t) = stack[t][Len(stack[t]) - 1] /\ Caller(t) \in Frames
<1>1. stack[t] \in Seq(Frames)
  BY DEF StackType
<1>2. Len(stack[t]) \in Nat \ {0} /\ \A i \in 1 .. Len(stack[t]) : stack[t][i] \in Frames
  BY <1>1, EmptySeq, ElementOfSeq
<1> QED
  BY <1>1, <1>2 DEF Top, Caller, Last

LEMMA SetTopStack ==
    ASSUME StackType, NEW t \in Cores, stack[t] # <<>>, NEW f \in Frames, SetTop(t, f)
    PROVE  StackType' /\ SameOthers(t) /\ TopSet(stack[t], stack'[t], f)
<1> DEFINE s == stack[t]
           r == Append(Front(s), f)
<1>1. s \in Seq(Frames) /\ s # <<>>
  BY DEF StackType
<1>2. stack' = [stack EXCEPT ![t] = r]
  BY DEF SetTop
<1> HIDE DEF s
<1>3. /\ r \in Seq(Frames) /\ Len(r) = Len(s) /\ Len(s) \in Nat \ {0}
      /\ \A i \in 1 .. Len(s) : r[i] = IF i = Len(s) THEN f ELSE s[i]
  BY <1>1, SeqTop
<1> HIDE DEF r
<1>4. stack'[t] = r /\ SameOthers(t) /\ StackType'
  BY <1>2, <1>3 DEF StackType, SameOthers
<1> QED
  BY <1>3, <1>4 DEF TopSet, s

LEMMA CallStack ==
    ASSUME StackType, NEW t \in Cores, stack[t] # <<>>, NEW f \in Frames, NEW g \in Frames, Call(t, f, g)
    PROVE  StackType' /\ SameOthers(t) /\ Pushed(stack[t], stack'[t], f, g)
<1> DEFINE s == stack[t]
           r == Append(Front(s), f) \o <<g>>
<1>1. s \in Seq(Frames) /\ s # <<>> /\ Len(s) \in Nat \ {0}
  BY EmptySeq DEF StackType
<1>2. stack' = [stack EXCEPT ![t] = r]
  BY DEF Call
<1> HIDE DEF s
<1>3. /\ r \in Seq(Frames) /\ Len(r) = Len(s) + 1
      /\ \A i \in 1 .. Len(s) + 1 : r[i] = IF i = Len(s) + 1 THEN g ELSE IF i = Len(s) THEN f ELSE s[i]
  BY <1>1, SeqCall
<1> HIDE DEF r
<1>4. stack'[t] = r /\ SameOthers(t) /\ StackType'
  BY <1>2, <1>3 DEF StackType, SameOthers
<1> QED
  BY <1>1, <1>3, <1>4 DEF Pushed, s

LEMMA EndStack ==
    ASSUME StackType, NEW t \in Cores, Len(stack[t]) > 1, stack' = [stack EXCEPT ![t] = Front(@)]
    PROVE  StackType' /\ SameOthers(t) /\ Popped(stack[t], stack'[t], Caller(t))
<1> DEFINE s == stack[t]
           r == Front(s)
<1>1. s \in Seq(Frames) /\ s # <<>> /\ Len(s) > 1 /\ Len(s) \in Nat
  BY EmptySeq, LenProperties DEF StackType
<1>2. PICK f \in Frames : TRUE
  BY <1>1, ElementOfSeq
<1>3. stack' = [stack EXCEPT ![t] = r]
  OBVIOUS
<1>4. Caller(t) = s[Len(s) - 1]
  BY DEF Caller
<1> HIDE DEF s
<1>5. /\ r \in Seq(Frames) /\ Len(r) = Len(s) - 1
      /\ \A i \in 1 .. Len(s) - 1 : r[i] = s[i]
  BY <1>1, <1>2, SeqTop
<1> HIDE DEF r
<1>6. stack'[t] = r /\ SameOthers(t) /\ StackType'
  BY <1>3, <1>5 DEF StackType, SameOthers
<1> QED
  BY <1>1, <1>4, <1>5, <1>6 DEF Popped, s

LEMMA ReturnStack ==
    ASSUME StackType, NEW t \in Cores, Len(stack[t]) > 1, NEW f \in Frames,
           stack' = [stack EXCEPT ![t] = Append(Front(Front(@)), f)]
    PROVE  StackType' /\ SameOthers(t) /\ Popped(stack[t], stack'[t], f)
<1> DEFINE s == stack[t]
           r == Append(Front(Front(s)), f)
<1>1. s \in Seq(Frames) /\ Len(s) > 1 /\ Len(s) \in Nat
  BY LenProperties DEF StackType
<1>3. stack' = [stack EXCEPT ![t] = r]
  OBVIOUS
<1> HIDE DEF s
<1>5. /\ r \in Seq(Frames) /\ Len(r) = Len(s) - 1
      /\ \A i \in 1 .. Len(s) - 1 : r[i] = IF i = Len(s) - 1 THEN f ELSE s[i]
  BY <1>1, SeqReturn
<1> HIDE DEF r
<1>6. stack'[t] = r /\ SameOthers(t) /\ StackType'
  BY <1>3, <1>5 DEF StackType, SameOthers
<1>7. r[Len(s) - 1] = f
  <2>1. Len(s) - 1 \in 1 .. Len(s) - 1
    BY <1>1
  <2> QED
    BY <1>5, <2>1
<1>8. Len(r) = Len(s) - 1 /\ \A i \in 1 .. Len(s) - 1 : i < Len(s) - 1 => r[i] = s[i]
  BY <1>1, <1>5
<1>9. Popped(s, r, f)
  BY <1>7, <1>8 DEF Popped
<1> QED
  BY <1>6, <1>9 DEF s

-----------------------------------------------------------------------------
(* Which changes keep the shape of a stack.                                *)

LEMMA TopSetShape ==
    ASSUME NEW t \in Cores, NEW s, NEW r, NEW f \in Frames, Len(s) \in Nat \ {0}, Shape(t, s), Levels(s),
           TopSet(s, r, f), FrameOK(f), f.cache = s[Len(s)].cache,
           f.pc = "inval" <=> s[Len(s)].pc = "inval",
           f.pc = "fill" => Len(s) = 1
    PROVE  Shape(t, r) /\ Levels(r)
<1> DEFINE n == Len(s)
<1>1. /\ n \in Nat \ {0} /\ n \in 1 .. n /\ Len(r) = n /\ r[n] = f
      /\ \A i \in 1 .. n : i < n => r[i] = s[i]
      /\ f.cache = s[n].cache /\ (f.pc = "inval" <=> s[n].pc = "inval")
  BY DEF TopSet
<1> HIDE DEF n
<1>2. \A i \in 1 .. n : r[i].cache = s[i].cache /\ (r[i].pc = "inval" <=> s[i].pc = "inval")
  BY <1>1
<1>3. Shape(t, r)
  <2> SUFFICES ASSUME NEW i \in 1 .. n
               PROVE  /\ r[i] \in Frames /\ FrameOK(r[i])
                      /\ i = 1 => r[i].cache \in FirstLevel[t] /\ r[i].pc # "inval"
                      /\ r[i].pc = "fill" => n = 1
                      /\ i < n => LinkOK(r[i], r[i + 1])
    BY <1>1 DEF Shape
  <2>1. /\ s[i] \in Frames /\ FrameOK(s[i])
        /\ i = 1 => s[i].cache \in FirstLevel[t] /\ s[i].pc # "inval"
        /\ s[i].pc = "fill" => n = 1
        /\ i < n => LinkOK(s[i], s[i + 1])
    BY DEF Shape, n
  <2>2. r[i] \in Frames /\ FrameOK(r[i]) /\ (r[i].pc = "fill" => n = 1)
    BY <1>1, <2>1 DEF n
  <2>3. i < n => LinkOK(r[i], r[i + 1])
    <3> SUFFICES ASSUME i < n PROVE LinkOK(r[i], r[i + 1])
      OBVIOUS
    <3>1. r[i] = s[i] /\ i + 1 \in 1 .. n
      BY <1>1
    <3> QED
      BY <1>2, <2>1, <3>1 DEF LinkOK
  <2> QED
    BY <1>2, <2>1, <2>2, <2>3
<1>4. Levels(r)
  <2> SUFFICES ASSUME NEW i \in 1 .. n, NEW j \in 1 .. n, i < j
               PROVE  /\ r[i].pc = "inval" => r[j].pc = "inval"
                      /\ r[j].pc # "inval" => Level[r[i].cache] < Level[r[j].cache]
                      /\ r[i + 1].pc = "inval" => Level[r[i].cache] > Level[r[j].cache]
    BY <1>1 DEF Levels
  <2>1. i + 1 \in 1 .. n
    BY <1>1
  <2>2. /\ s[i].pc = "inval" => s[j].pc = "inval"
        /\ s[j].pc # "inval" => Level[s[i].cache] < Level[s[j].cache]
        /\ s[i + 1].pc = "inval" => Level[s[i].cache] > Level[s[j].cache]
    BY DEF Levels, n
  <2> QED
    BY <1>2, <2>1, <2>2
<1> QED
  BY <1>3, <1>4

\* No invalidation is in progress when the top frame is an access.
LEMMA AccessOnTop ==
    ASSUME NEW s, Len(s) \in Nat \ {0}, Levels(s), s[Len(s)].pc # "inval"
    PROVE  \A i \in 1 .. Len(s) : s[i].pc # "inval" /\ (i < Len(s) => Waits(s, i))
<1> DEFINE n == Len(s)
<1>1. n \in Nat \ {0} /\ n \in 1 .. n
  OBVIOUS
<1>2. \A i \in 1 .. n : s[i].pc # "inval"
  BY <1>1 DEF Levels
<1> HIDE DEF n
<1>3. \A i \in 1 .. n : i < n => i + 1 \in 1 .. n
  BY <1>1
<1> QED
  BY <1>2, <1>3 DEF Waits, n

\* An access calls the parent.
LEMMA PushUpShape ==
    ASSUME NEW t \in Cores, NEW s, NEW r, NEW f \in Frames, NEW g \in Frames, Len(s) \in Nat \ {0},
           Shape(t, s), Levels(s), Pushed(s, r, f, g), FrameOK(f), FrameOK(g),
           s[Len(s)].pc # "inval", f.cache = s[Len(s)].cache, f.pc \in Called,
           g.pc \notin {"inval", "fill"}, f.cache \in Range(Children[g.cache])
    PROVE  Shape(t, r) /\ Levels(r)
<1> DEFINE n == Len(s)
<1>1. /\ n \in Nat \ {0} /\ n \in 1 .. n /\ Len(r) = n + 1 /\ r[n] = f /\ r[n + 1] = g
      /\ \A i \in 1 .. n : i < n => r[i] = s[i]
      /\ f.cache = s[n].cache
  BY DEF Pushed
<1>2. \A i \in 1 .. n : s[i].pc # "inval"
  BY AccessOnTop
<1> HIDE DEF n
<1>3. \A i \in 1 .. n : r[i].cache = s[i].cache /\ r[i].pc # "inval"
  BY <1>1, <1>2 DEF Called
<1>4. Shape(t, r)
  <2> SUFFICES ASSUME NEW i \in 1 .. n + 1
               PROVE  /\ r[i] \in Frames /\ FrameOK(r[i])
                      /\ i = 1 => r[i].cache \in FirstLevel[t] /\ r[i].pc # "inval"
                      /\ r[i].pc # "fill"
                      /\ i < n + 1 => LinkOK(r[i], r[i + 1])
    BY <1>1 DEF Shape
  <2>1. CASE i = n + 1
    BY <1>1, <2>1
  <2>2. CASE i \in 1 .. n
    <3>1. /\ s[i] \in Frames /\ FrameOK(s[i])
          /\ i = 1 => s[i].cache \in FirstLevel[t] /\ s[i].pc # "inval"
          /\ s[i].pc = "fill" => n = 1
          /\ i < n => LinkOK(s[i], s[i + 1])
      BY <2>2 DEF Shape, n
    <3>2. r[i] \in Frames /\ FrameOK(r[i]) /\ r[i].pc # "fill"
      BY <1>1, <2>2, <3>1 DEF Called
    <3>3. i < n => LinkOK(r[i], r[i + 1])
      <4> SUFFICES ASSUME i < n PROVE LinkOK(r[i], r[i + 1])
        OBVIOUS
      <4>1. r[i] = s[i] /\ i + 1 \in 1 .. n
        BY <1>1, <2>2
      <4> QED
        BY <1>2, <1>3, <3>1, <4>1 DEF LinkOK
    <3>4. i = n => LinkOK(r[i], r[i + 1])
      BY <1>1 DEF LinkOK
    <3> QED
      BY <1>1, <1>3, <2>2, <3>1, <3>2, <3>3, <3>4
  <2> QED
    BY <1>1, <2>1, <2>2
<1>5. Levels(r)
  <2> SUFFICES ASSUME NEW i \in 1 .. n + 1, NEW j \in 1 .. n + 1, i < j
               PROVE  /\ r[i].pc = "inval" => r[j].pc = "inval"
                      /\ r[j].pc # "inval" => Level[r[i].cache] < Level[r[j].cache]
                      /\ r[i + 1].pc = "inval" => Level[r[i].cache] > Level[r[j].cache]
    BY <1>1 DEF Levels
  <2>1. i \in 1 .. n /\ i + 1 \in 1 .. n + 1
    BY <1>1
  <2>2. r[i].pc # "inval" /\ r[i + 1].pc # "inval"
    <3>1. i + 1 \in 1 .. n \/ i + 1 = n + 1
      BY <1>1, <2>1
    <3> QED
      BY <1>1, <1>3, <2>1, <3>1
  <2>3. Level[r[i].cache] < Level[r[j].cache]
    <3>1. j \in 1 .. n => Level[s[i].cache] < Level[s[j].cache]
      BY <1>2, <2>1 DEF Levels, n
    <3>2. i < n => Level[s[i].cache] < Level[s[n].cache]
      BY <1>1, <1>2, <2>1 DEF Levels, n
    <3>3. s[i].cache \in Caches /\ f.cache \in Caches /\ g.cache \in Caches
      BY <2>1 DEF Shape, n, Frames
    <3>4. Level[f.cache] < Level[g.cache] /\ Level[s[i].cache] \in Nat /\ Level[f.cache] \in Nat /\ Level[g.cache] \in Nat
      BY <3>3, LevelFacts
    <3>5. CASE j \in 1 .. n
      BY <1>3, <2>1, <3>1, <3>5
    <3>6. CASE j = n + 1 /\ i < n
      BY <1>1, <1>3, <2>1, <3>2, <3>4, <3>6
    <3>7. CASE j = n + 1 /\ i = n
      BY <1>1, <3>4, <3>7
    <3> QED
      BY <1>1, <2>1, <3>5, <3>6, <3>7
  <2> QED
    BY <2>2, <2>3
<1> QED
  BY <1>4, <1>5

\* A frame that sends invalidations calls a child.
LEMMA PushDownShape ==
    ASSUME NEW t \in Cores, NEW s, NEW r, NEW f \in Frames, NEW g \in Frames, Len(s) \in Nat \ {0},
           Shape(t, s), Levels(s), Pushed(s, r, f, g), FrameOK(f), FrameOK(g),
           f.cache = s[Len(s)].cache, f.pc = s[Len(s)].pc, f.pc \in Sending,
           g.pc = "inval", g.cache \in Range(Children[f.cache])
    PROVE  Shape(t, r) /\ Levels(r)
<1> DEFINE n == Len(s)
<1>1. /\ n \in Nat \ {0} /\ n \in 1 .. n /\ Len(r) = n + 1 /\ r[n] = f /\ r[n + 1] = g
      /\ \A i \in 1 .. n : i < n => r[i] = s[i]
      /\ f.cache = s[n].cache /\ f.pc = s[n].pc
  BY DEF Pushed
<1> HIDE DEF n
<1>3. \A i \in 1 .. n : r[i].cache = s[i].cache /\ r[i].pc = s[i].pc
  BY <1>1
<1>4. Shape(t, r)
  <2> SUFFICES ASSUME NEW i \in 1 .. n + 1
               PROVE  /\ r[i] \in Frames /\ FrameOK(r[i])
                      /\ i = 1 => r[i].cache \in FirstLevel[t] /\ r[i].pc # "inval"
                      /\ r[i].pc # "fill"
                      /\ i < n + 1 => LinkOK(r[i], r[i + 1])
    BY <1>1 DEF Shape
  <2>1. CASE i = n + 1
    BY <1>1, <2>1
  <2>2. CASE i \in 1 .. n
    <3>1. /\ s[i] \in Frames /\ FrameOK(s[i])
          /\ i = 1 => s[i].cache \in FirstLevel[t] /\ s[i].pc # "inval"
          /\ s[i].pc = "fill" => n = 1
          /\ i < n => LinkOK(s[i], s[i + 1])
      BY <2>2 DEF Shape, n
    <3>2. r[i] \in Frames /\ FrameOK(r[i]) /\ r[i].pc # "fill"
      BY <1>1, <2>2, <3>1 DEF Sending
    <3>3. i < n => LinkOK(r[i], r[i + 1])
      <4> SUFFICES ASSUME i < n PROVE LinkOK(r[i], r[i + 1])
        OBVIOUS
      <4>1. r[i] = s[i] /\ i + 1 \in 1 .. n
        BY <1>1, <2>2
      <4> QED
        BY <1>3, <3>1, <4>1 DEF LinkOK
    <3>4. i = n => LinkOK(r[i], r[i + 1])
      BY <1>1 DEF LinkOK
    <3> QED
      BY <1>1, <1>3, <2>2, <3>1, <3>2, <3>3, <3>4
  <2> QED
    BY <1>1, <2>1, <2>2
<1>5. Levels(r)
  <2> SUFFICES ASSUME NEW i \in 1 .. n + 1, NEW j \in 1 .. n + 1, i < j
               PROVE  /\ r[i].pc = "inval" => r[j].pc = "inval"
                      /\ r[j].pc # "inval" => Level[r[i].cache] < Level[r[j].cache]
                      /\ r[i + 1].pc = "inval" => Level[r[i].cache] > Level[r[j].cache]
    BY <1>1 DEF Levels
  <2>1. i \in 1 .. n /\ i + 1 \in 1 .. n + 1
    BY <1>1
  <2>2. CASE j \in 1 .. n
    <3>1. i + 1 \in 1 .. n
      BY <1>1, <2>1, <2>2
    <3>2. /\ s[i].pc = "inval" => s[j].pc = "inval"
          /\ s[j].pc # "inval" => Level[s[i].cache] < Level[s[j].cache]
          /\ s[i + 1].pc = "inval" => Level[s[i].cache] > Level[s[j].cache]
      BY <2>1, <2>2 DEF Levels, n
    <3> QED
      BY <1>3, <2>1, <2>2, <3>1, <3>2
  <2>3. CASE j = n + 1
    <3>1. s[i].cache \in Caches /\ f.cache \in Caches /\ g.cache \in Caches
      BY <2>1 DEF Shape, n, Frames
    <3>2. Level[g.cache] < Level[f.cache] /\ Level[s[i].cache] \in Nat /\ Level[f.cache] \in Nat /\ Level[g.cache] \in Nat
      BY <3>1, LevelFacts
    <3>3. CASE i = n
      BY <1>1, <2>3, <3>2, <3>3
    <3>4. CASE i < n
      <4>1. i + 1 \in 1 .. n
        BY <1>1, <2>1, <3>4
      <4>2. s[i + 1].pc = "inval" => Level[s[i].cache] > Level[s[n].cache]
        BY <1>1, <2>1, <3>4 DEF Levels, n
      <4> QED
        BY <1>1, <1>3, <2>1, <2>3, <3>2, <4>1, <4>2
    <3> QED
      BY <1>1, <2>1, <3>3, <3>4
  <2> QED
    BY <1>1, <2>2, <2>3
<1> QED
  BY <1>4, <1>5

\* A call returns.
LEMMA PoppedShape ==
    ASSUME NEW t \in Cores, NEW s, NEW r, NEW f \in Frames, Len(s) \in Nat, Len(s) > 1,
           Shape(t, s), Levels(s), Popped(s, r, f), FrameOK(f),
           f.cache = s[Len(s) - 1].cache, f.pc = s[Len(s) - 1].pc
    PROVE  Shape(t, r) /\ Levels(r)
<1> DEFINE n == Len(s) - 1
<1>1. /\ n \in Nat \ {0} /\ n \in 1 .. n /\ Len(r) = n /\ r[n] = f /\ Len(s) = n + 1
      /\ \A i \in 1 .. n : i < n => r[i] = s[i]
      /\ f.cache = s[n].cache /\ f.pc = s[n].pc
  BY DEF Popped
<1> HIDE DEF n
<1>3. \A i \in 1 .. n : r[i].cache = s[i].cache /\ r[i].pc = s[i].pc
  BY <1>1
<1>4. Shape(t, r)
  <2> SUFFICES ASSUME NEW i \in 1 .. n
               PROVE  /\ r[i] \in Frames /\ FrameOK(r[i])
                      /\ i = 1 => r[i].cache \in FirstLevel[t] /\ r[i].pc # "inval"
                      /\ r[i].pc # "fill"
                      /\ i < n => LinkOK(r[i], r[i + 1])
    BY <1>1 DEF Shape
  <2>0. i \in 1 .. Len(s) /\ i < Len(s)
    BY <1>1
  <2>1. /\ s[i] \in Frames /\ FrameOK(s[i])
        /\ i = 1 => s[i].cache \in FirstLevel[t] /\ s[i].pc # "inval"
        /\ s[i].pc # "fill"
        /\ LinkOK(s[i], s[i + 1])
    BY <2>0 DEF Shape
  <2>2. r[i] \in Frames /\ FrameOK(r[i]) /\ r[i].pc # "fill"
    BY <1>1, <1>3, <2>1
  <2>3. i < n => LinkOK(r[i], r[i + 1])
    <3> SUFFICES ASSUME i < n PROVE LinkOK(r[i], r[i + 1])
      OBVIOUS
    <3>1. r[i] = s[i] /\ i + 1 \in 1 .. n
      BY <1>1
    <3> QED
      BY <1>3, <2>1, <3>1 DEF LinkOK
  <2> QED
    BY <1>3, <2>1, <2>2, <2>3
<1>5. Levels(r)
  <2> SUFFICES ASSUME NEW i \in 1 .. n, NEW j \in 1 .. n, i < j
               PROVE  /\ r[i].pc = "inval" => r[j].pc = "inval"
                      /\ r[j].pc # "inval" => Level[r[i].cache] < Level[r[j].cache]
                      /\ r[i + 1].pc = "inval" => Level[r[i].cache] > Level[r[j].cache]
    BY <1>1 DEF Levels
  <2>1. i + 1 \in 1 .. n /\ i \in 1 .. Len(s) /\ j \in 1 .. Len(s)
    BY <1>1
  <2>2. /\ s[i].pc = "inval" => s[j].pc = "inval"
        /\ s[j].pc # "inval" => Level[s[i].cache] < Level[s[j].cache]
        /\ s[i + 1].pc = "inval" => Level[s[i].cache] > Level[s[j].cache]
    BY <2>1 DEF Levels
  <2> QED
    BY <1>3, <2>1, <2>2
<1> QED
  BY <1>4, <1>5

-----------------------------------------------------------------------------
(* The locks that the frames of a stack hold.                              *)

LEMMA AccessHolds ==
    ASSUME NEW s, Len(s) \in Nat \ {0}, Levels(s), s[Len(s)].pc # "inval"
    PROVE  BccHeld(s) = IF s[Len(s)].pc \in {"tcc", "bcc", "fill"} THEN {} ELSE {s[Len(s)].cache}
<1>1. \A i \in 1 .. Len(s) : i < Len(s) => ~HoldsBcc(s, i)
  BY AccessOnTop DEF HoldsBcc
<1>2. Len(s) \in 1 .. Len(s) /\ (HoldsBcc(s, Len(s)) <=> s[Len(s)].pc \notin {"tcc", "bcc", "fill"})
  BY DEF HoldsBcc, Waits
<1>3. \A i \in 1 .. Len(s) : HoldsBcc(s, i) <=> i = Len(s) /\ s[Len(s)].pc \notin {"tcc", "bcc", "fill"}
  BY <1>1, <1>2
<1> HIDE DEF HoldsBcc
<1> QED
  BY <1>2, <1>3 DEF BccHeld

LEMMA FilterHolds ==
    ASSUME NEW t \in Cores, NEW s, Len(s) \in Nat \ {0}, Shape(t, s)
    PROVE  FilterHeld(s) = IF s[Len(s)].pc = "fill" THEN {s[Len(s)].cache} ELSE {}
<1>1. \A i \in 1 .. Len(s) : s[i].pc = "fill" => i = Len(s)
  BY DEF Shape
<1>2. Len(s) \in 1 .. Len(s)
  OBVIOUS
<1> QED
  BY <1>1, <1>2 DEF FilterHeld

\* A step that only changes the top frame changes its top lock at most.
LEMMA TopSetTcc ==
    ASSUME NEW s, NEW r, NEW f, Len(s) \in Nat \ {0}, TopSet(s, r, f), f.cache = s[Len(s)].cache
    PROVE  /\ (HoldsTcc(s, Len(s)) <=> HoldsTcc(r, Len(s))) => TccHeld(r) = TccHeld(s)
           /\ HoldsTcc(r, Len(s)) => TccHeld(r) = TccHeld(s) \cup {f.cache}
<1> DEFINE n == Len(s)
<1>1. /\ n \in Nat \ {0} /\ n \in 1 .. n /\ Len(r) = n /\ r[n] = f /\ f.cache = s[n].cache
      /\ \A i \in 1 .. n : i < n => r[i] = s[i]
  BY DEF TopSet
<1>2. \A i \in 1 .. n : i < n => (HoldsTcc(r, i) <=> HoldsTcc(s, i))
  BY <1>1 DEF HoldsTcc
<1>3. \A i \in 1 .. n : r[i].cache = s[i].cache
  BY <1>1
<1>4. /\ TccHeld(r) = {s[i].cache : i \in {j \in 1 .. n : HoldsTcc(r, j)}}
      /\ TccHeld(s) = {s[i].cache : i \in {j \in 1 .. n : HoldsTcc(s, j)}}
  BY <1>1, <1>3 DEF TccHeld
<1> HIDE DEF n
<1>5. (HoldsTcc(s, n) <=> HoldsTcc(r, n)) => TccHeld(r) = TccHeld(s)
  BY <1>1, <1>2, <1>4
<1>6. HoldsTcc(r, n) => TccHeld(r) = TccHeld(s) \cup {f.cache}
  BY <1>1, <1>2, <1>4
<1> QED
  BY <1>5, <1>6 DEF n

\* An access that calls its parent gives its bottom lock back.
LEMMA PushUpHeld ==
    ASSUME NEW s, NEW r, NEW f, NEW g, Len(s) \in Nat \ {0}, Levels(r), Pushed(s, r, f, g),
           f.cache = s[Len(s)].cache, s[Len(s)].pc \notin {"tcc", "inval"}, f.pc \in Called, g.pc = "tcc"
    PROVE  BccHeld(r) = {} /\ TccHeld(r) = TccHeld(s)
<1> DEFINE n == Len(s)
<1>1. /\ n \in Nat \ {0} /\ n \in 1 .. n /\ Len(r) = n + 1 /\ r[n] = f /\ r[n + 1] = g
      /\ \A i \in 1 .. n : i < n => r[i] = s[i]
      /\ f.cache = s[n].cache /\ n + 1 \in 1 .. n + 1
  BY DEF Pushed
<1>2. BccHeld(r) = {}
  <2>1. Len(r) \in Nat \ {0} /\ r[Len(r)].pc = "tcc"
    BY <1>1
  <2> QED
    BY <2>1, AccessHolds
<1>3. \A i \in 1 .. n : r[i].cache = s[i].cache /\ (HoldsTcc(r, i) <=> HoldsTcc(s, i))
  BY <1>1 DEF HoldsTcc, Called
<1>4. ~HoldsTcc(r, n + 1)
  BY <1>1 DEF HoldsTcc
<1> HIDE DEF n
<1>5. {j \in 1 .. n + 1 : HoldsTcc(r, j)} = {j \in 1 .. n : HoldsTcc(s, j)}
  BY <1>1, <1>3, <1>4
<1>6. TccHeld(r) = {s[i].cache : i \in {j \in 1 .. n : HoldsTcc(s, j)}}
  BY <1>1, <1>3, <1>5 DEF TccHeld
<1> QED
  BY <1>2, <1>6 DEF TccHeld, n

\* An invalidation takes a bottom lock more.
LEMMA PushDownHeld ==
    ASSUME NEW s, NEW r, NEW f, NEW g, Len(s) \in Nat \ {0}, Pushed(s, r, f, g),
           f.cache = s[Len(s)].cache, f.pc = s[Len(s)].pc, g.pc = "inval"
    PROVE  BccHeld(r) = BccHeld(s) \cup {g.cache} /\ TccHeld(r) = TccHeld(s)
<1> DEFINE n == Len(s)
<1>1. /\ n \in Nat \ {0} /\ n \in 1 .. n /\ Len(r) = n + 1 /\ r[n] = f /\ r[n + 1] = g
      /\ \A i \in 1 .. n : i < n => r[i] = s[i]
      /\ f.cache = s[n].cache /\ n + 1 \in 1 .. n + 1 /\ f.pc = s[n].pc
  BY DEF Pushed
<1>2. \A i \in 1 .. n : r[i].cache = s[i].cache /\ r[i].pc = s[i].pc
  BY <1>1
<1>3. \A i \in 1 .. n : HoldsTcc(r, i) <=> HoldsTcc(s, i)
  BY <1>2 DEF HoldsTcc
<1>4. ~HoldsTcc(r, n + 1)
  BY <1>1 DEF HoldsTcc
<1>5. \A i \in 1 .. n : HoldsBcc(r, i) <=> HoldsBcc(s, i)
  <2> SUFFICES ASSUME NEW i \in 1 .. n PROVE Waits(r, i) <=> Waits(s, i)
    BY <1>2 DEF HoldsBcc
  <2>1. CASE i < n
    <3>1. i + 1 \in 1 .. n /\ r[i + 1].pc = s[i + 1].pc
      BY <1>1, <1>2, <2>1
    <3> QED
      BY <1>1, <2>1, <3>1 DEF Waits
  <2>2. CASE i = n
    BY <1>1, <2>2 DEF Waits
  <2> QED
    BY <1>1, <2>1, <2>2
<1>6. HoldsBcc(r, n + 1)
  BY <1>1 DEF HoldsBcc, Waits
<1> HIDE DEF n
<1>7. {j \in 1 .. n + 1 : HoldsTcc(r, j)} = {j \in 1 .. n : HoldsTcc(s, j)}
  BY <1>1, <1>3, <1>4
<1>8. TccHeld(r) = {s[i].cache : i \in {j \in 1 .. n : HoldsTcc(s, j)}}
  BY <1>1, <1>2, <1>7 DEF TccHeld
<1>9. {j \in 1 .. n + 1 : HoldsBcc(r, j)} = {j \in 1 .. n : HoldsBcc(s, j)} \cup {n + 1}
  BY <1>1, <1>5, <1>6
<1>10. BccHeld(r) = {s[i].cache : i \in {j \in 1 .. n : HoldsBcc(s, j)}} \cup {g.cache}
  <2>1. BccHeld(r) = {r[i].cache : i \in {j \in 1 .. n : HoldsBcc(s, j)} \cup {n + 1}}
    BY <1>1, <1>9 DEF BccHeld
  <2>2. {r[i].cache : i \in {j \in 1 .. n : HoldsBcc(s, j)}} = {s[i].cache : i \in {j \in 1 .. n : HoldsBcc(s, j)}}
    BY <1>2
  <2>3. {r[i].cache : i \in {j \in 1 .. n : HoldsBcc(s, j)} \cup {n + 1}}
            = {r[i].cache : i \in {j \in 1 .. n : HoldsBcc(s, j)}} \cup {r[n + 1].cache}
    OBVIOUS
  <2> QED
    BY <1>1, <2>1, <2>2, <2>3
<1> QED
  BY <1>8, <1>10 DEF TccHeld, BccHeld, n

\* An access that returns gives its top lock back and finds its caller with the
\* bottom lock.
LEMMA PopAccessHeld ==
    ASSUME NEW t \in Cores, NEW s, NEW r, Len(s) \in Nat, Len(s) > 1, Shape(t, s), Levels(s), Levels(r),
           Popped(s, r, s[Len(s) - 1]), s[Len(s)].pc = "end"
    PROVE  /\ BccHeld(r) = {s[Len(s) - 1].cache}
           /\ TccHeld(r) = TccHeld(s) \ {s[Len(s)].cache}
<1> DEFINE n == Len(s) - 1
           f == s[Len(s) - 1]
           c == s[Len(s)].cache
<1>1. /\ n \in Nat \ {0} /\ n \in 1 .. n /\ Len(r) = n /\ r[n] = f /\ Len(s) = n + 1
      /\ \A i \in 1 .. n : r[i] = s[i]
      /\ f = s[n]
  BY DEF Popped
<1>2. f.pc \in Called
  <2>1. n \in 1 .. Len(s) /\ n < Len(s) /\ s[n + 1].pc # "inval"
    BY <1>1
  <2> QED
    BY <1>1, <2>1 DEF Shape, LinkOK
<1>3. BccHeld(r) = {f.cache}
  <2>1. Len(r) \in Nat \ {0} /\ r[Len(r)].pc \in Called
    BY <1>1, <1>2
  <2>2. r[Len(r)].pc \notin {"tcc", "bcc", "fill", "inval"}
    BY <2>1 DEF Called
  <2> QED
    BY <1>1, <2>1, <2>2, AccessHolds
<1>4. \A i \in 1 .. n : s[i].cache # c
  <2> TAKE i \in 1 .. n
  <2>1. i \in 1 .. Len(s) /\ Len(s) \in 1 .. Len(s) /\ i < Len(s)
    BY <1>1
  <2>2. Level[s[i].cache] < Level[c]
    BY <2>1 DEF Levels
  <2>3. s[i].cache \in Caches /\ c \in Caches
    BY <2>1 DEF Shape, Frames
  <2> QED
    BY <2>2, <2>3, LevelFacts
<1>5. \A i \in 1 .. n : HoldsTcc(r, i) <=> HoldsTcc(s, i)
  BY <1>1 DEF HoldsTcc
<1> HIDE DEF n, c
<1>6. TccHeld(r) = {s[i].cache : i \in {j \in 1 .. n : HoldsTcc(s, j)}}
  <2>1. {j \in 1 .. n : HoldsTcc(r, j)} = {j \in 1 .. n : HoldsTcc(s, j)}
    BY <1>5
  <2> QED
    BY <1>1, <2>1 DEF TccHeld
<1>7. {j \in 1 .. Len(s) : HoldsTcc(s, j)} \subseteq {j \in 1 .. n : HoldsTcc(s, j)} \cup {n + 1}
  BY <1>1
<1>8. {j \in 1 .. n : HoldsTcc(s, j)} \subseteq {j \in 1 .. Len(s) : HoldsTcc(s, j)}
  BY <1>1
<1>9. s[n + 1].cache = c
  BY <1>1 DEF c
<1> QED
  BY <1>3, <1>4, <1>6, <1>7, <1>8, <1>9 DEF TccHeld, c

\* An invalidation that returns gives its bottom lock back.
LEMMA PopInvHeld ==
    ASSUME NEW t \in Cores, NEW s, NEW r, NEW f, Len(s) \in Nat, Len(s) > 1, Shape(t, s), Levels(s),
           Popped(s, r, f), f.cache = s[Len(s) - 1].cache, f.pc = s[Len(s) - 1].pc, s[Len(s)].pc = "inval"
    PROVE  BccHeld(r) = BccHeld(s) \ {s[Len(s)].cache} /\ TccHeld(r) = TccHeld(s)
<1> DEFINE n == Len(s) - 1
           c == s[Len(s)].cache
<1>1. /\ n \in Nat \ {0} /\ n \in 1 .. n /\ Len(r) = n /\ r[n] = f /\ Len(s) = n + 1
      /\ \A i \in 1 .. n : i < n => r[i] = s[i]
      /\ f.cache = s[n].cache /\ f.pc = s[n].pc /\ s[n + 1].pc = "inval"
  BY DEF Popped
<1>2. \A i \in 1 .. n : r[i].cache = s[i].cache /\ r[i].pc = s[i].pc
  BY <1>1
<1>3. \A i \in 1 .. n : HoldsTcc(r, i) <=> HoldsTcc(s, i)
  BY <1>2 DEF HoldsTcc
<1>4. ~HoldsTcc(s, n + 1)
  BY <1>1 DEF HoldsTcc
<1>5. \A i \in 1 .. n : HoldsBcc(r, i) <=> HoldsBcc(s, i)
  <2> SUFFICES ASSUME NEW i \in 1 .. n PROVE Waits(r, i) <=> Waits(s, i)
    BY <1>2 DEF HoldsBcc
  <2>1. CASE i < n
    <3>1. i + 1 \in 1 .. n /\ r[i + 1].pc = s[i + 1].pc
      BY <1>1, <1>2, <2>1
    <3> QED
      BY <1>1, <2>1, <3>1 DEF Waits
  <2>2. CASE i = n
    BY <1>1, <2>2 DEF Waits
  <2> QED
    BY <1>1, <2>1, <2>2
<1>6. \A i \in 1 .. n : HoldsBcc(s, i) => s[i].cache # c
  <2> SUFFICES ASSUME NEW i \in 1 .. n, HoldsBcc(s, i) PROVE s[i].cache # c
    OBVIOUS
  <2>1. i \in 1 .. Len(s) /\ Len(s) \in 1 .. Len(s) /\ i < Len(s)
    BY <1>1
  <2>2. s[i + 1].pc = "inval"
    BY <2>1 DEF HoldsBcc, Waits
  <2>3. Level[s[i].cache] > Level[c]
    BY <2>1, <2>2 DEF Levels
  <2>4. s[i].cache \in Caches /\ c \in Caches
    BY <2>1 DEF Shape, Frames
  <2> QED
    BY <2>3, <2>4, LevelFacts
<1> HIDE DEF n, c
<1>7. {j \in 1 .. n + 1 : HoldsTcc(s, j)} = {j \in 1 .. n : HoldsTcc(r, j)}
  BY <1>1, <1>3, <1>4
<1>8. TccHeld(s) = {s[i].cache : i \in {j \in 1 .. n : HoldsTcc(r, j)}}
  BY <1>1, <1>7 DEF TccHeld
<1>9. TccHeld(r) = {s[i].cache : i \in {j \in 1 .. n : HoldsTcc(r, j)}}
  BY <1>1, <1>2 DEF TccHeld
<1>10. BccHeld(r) = {s[i].cache : i \in {j \in 1 .. n : HoldsBcc(s, j)}}
  <2>1. {j \in 1 .. n : HoldsBcc(r, j)} = {j \in 1 .. n : HoldsBcc(s, j)}
    BY <1>5
  <2> QED
    BY <1>1, <1>2, <2>1 DEF BccHeld
<1>11. {j \in 1 .. Len(s) : HoldsBcc(s, j)} \subseteq {j \in 1 .. n : HoldsBcc(s, j)} \cup {n + 1}
  BY <1>1
<1>12. {j \in 1 .. n : HoldsBcc(s, j)} \subseteq {j \in 1 .. Len(s) : HoldsBcc(s, j)}
  BY <1>1
<1>13. s[n + 1].cache = c
  BY <1>1 DEF c
<1>14. BccHeld(r) = BccHeld(s) \ {c}
  BY <1>6, <1>10, <1>11, <1>12, <1>13 DEF BccHeld
<1> QED
  BY <1>8, <1>9, <1>14 DEF c

LEMMA HeldCaches ==
    ASSUME NEW t \in Cores, NEW s, Shape(t, s)
    PROVE  BccHeld(s) \subseteq Caches /\ TccHeld(s) \subseteq Caches /\ FilterHeld(s) \subseteq Caches
BY DEF Shape, Frames, BccHeld, TccHeld, FilterHeld

-----------------------------------------------------------------------------
(* Steps.                                                                  *)

\* A step of t changes the locks that t holds, before or after it.
LockStep(t, lock, held, new) ==
    /\ new \in [Caches -> Cores \cup {None}]
    /\ \A c \in Caches : /\ new[c] = t <=> c \in held
                         /\ new[c] # lock[c] => {lock[c], new[c]} = {t, None}

LEMMA LockStepInv ==
    ASSUME LockInv, ShapeInv', NEW t \in Cores, SameOthers(t),
           LockStep(t, bccLock, BccHeld(stack[t])', bccLock'),
           LockStep(t, tccLock, TccHeld(stack[t])', tccLock'),
           LockStep(t, filterLock, FilterHeld(stack[t])', filterLock')
    PROVE  LockInv'
<1>1. /\ BccHeld(stack[t])' \subseteq Caches /\ TccHeld(stack[t])' \subseteq Caches
      /\ FilterHeld(stack[t])' \subseteq Caches
  BY HeldCaches DEF ShapeInv
<1>2. /\ BccHeld(stack[t])' = {c \in Caches : bccLock'[c] = t}
      /\ TccHeld(stack[t])' = {c \in Caches : tccLock'[c] = t}
      /\ FilterHeld(stack[t])' = {c \in Caches : filterLock'[c] = t}
  BY <1>1 DEF LockStep
<1>3. None \notin Cores
  BY MesiAssumption
<1>4. ASSUME NEW u \in Cores \ {t}
      PROVE  /\ BccHeld(stack[u])' = {c \in Caches : bccLock'[c] = u}
             /\ TccHeld(stack[u])' = {c \in Caches : tccLock'[c] = u}
             /\ FilterHeld(stack[u])' = {c \in Caches : filterLock'[c] = u}
  <2>1. /\ BccHeld(stack[u])' = {c \in Caches : bccLock[c] = u}
        /\ TccHeld(stack[u])' = {c \in Caches : tccLock[c] = u}
        /\ FilterHeld(stack[u])' = {c \in Caches : filterLock[c] = u}
    BY DEF LockInv, SameOthers
  <2>2. \A c \in Caches : /\ bccLock'[c] = u <=> bccLock[c] = u
                          /\ tccLock'[c] = u <=> tccLock[c] = u
                          /\ filterLock'[c] = u <=> filterLock[c] = u
    BY <1>3 DEF LockStep
  <2> QED
    BY <2>1, <2>2
<1> QED
  BY <1>2, <1>4 DEF LockInv, LockStep

\* Locks that a step leaves alone, when it holds as many before and after it.
LEMMA LockStutters ==
    ASSUME LockInv, NEW t \in Cores
    PROVE  /\ LockStep(t, bccLock, BccHeld(stack[t]), bccLock)
           /\ LockStep(t, tccLock, TccHeld(stack[t]), tccLock)
           /\ LockStep(t, filterLock, FilterHeld(stack[t]), filterLock)
BY DEF LockInv, LockStep

Upd(g, c, l, v) == [g EXCEPT ![c][l] = v]

LEMMA PerLineSet ==
    ASSUME NEW S, NEW g, PerLine(g, S), NEW c, NEW l, NEW v, c \in Caches /\ l \in Lines[c] => v \in S
    PROVE  /\ PerLine(Upd(g, c, l, v), S)
           /\ \A d \in Caches : \A m \in Lines[d] :
                 Upd(g, c, l, v)[d][m] = IF d = c /\ m = l THEN v ELSE g[d][m]
<1>1. CASE c \in Caches
  BY <1>1 DEF PerLine, Upd
<1>2. CASE c \notin Caches
  <2>1. DOMAIN g = Caches
    BY DEF PerLine
  <2>2. Upd(g, c, l, v) = g
    BY <1>2, <2>1 DEF PerLine, Upd
  <2> QED
    BY <1>2, <2>2 DEF PerLine
<1> QED
  BY <1>1, <1>2

\* Addresses are replaced, and never removed.
TagsGrow(g, h) == \A c \in Caches : \A l \in Lines[c] : g[c][l] # None => h[c][l] # None

LEMMA TagsKept ==
    ASSUME NEW g, NEW h, NEW t \in Cores, NEW s, TagsGrow(g, h), Shape(t, s), TagsOK(g, s)
    PROVE  TagsOK(h, s)
<1> SUFFICES ASSUME NEW i \in 1 .. Len(s) PROVE TagOK(h, s[i], i < Len(s))
  BY DEF TagsOK
<1>1. TagOK(g, s[i], i < Len(s)) /\ FrameOK(s[i]) /\ s[i].cache \in Caches
  BY DEF TagsOK, Shape, Frames
<1> QED
  BY <1>1 DEF TagOK, FrameOK, TagsGrow

\* A step of t that leaves every address it finds in a line there, or replaces
\* it, keeps LineInv if the lines and its own stack do.
LEMMA LineStepInv ==
    ASSUME LineInv, ShapeInv, NEW t \in Cores, SameOthers(t),
           PerLine(tag', Addrs \cup {None}), PerLine(bcc', MESIState), PerLine(tcc', Entries),
           TagsGrow(tag, tag'),
           \A c \in Caches : \A l \in Lines[c] :
               bcc'[c][l] # "I" \/ tcc'[c][l].numSharers # 0 => tag'[c][l] # None,
           TagsOK(tag', stack'[t])
    PROVE  LineInv'
<1>1. ASSUME NEW u \in Cores \ {t}
      PROVE  TagsOK(tag', stack'[u])
  <2>1. stack'[u] = stack[u] /\ TagsOK(tag, stack[u]) /\ Shape(u, stack[u])
    BY DEF LineInv, SameOthers, ShapeInv
  <2> QED
    BY <2>1, TagsKept
<1> QED
  BY <1>1 DEF LineInv

\* The addresses that the frames of a stack count on, after it has changed.
LEMMA StackTags ==
    ASSUME NEW s, NEW r, NEW f, NEW g, NEW h, Len(s) \in Nat \ {0}, TagsOK(g, s)
    PROVE  /\ TopSet(s, r, f) /\ TagOK(g, f, FALSE) => TagsOK(g, r)
           /\ Pushed(s, r, f, h) /\ TagOK(g, f, TRUE) /\ TagOK(g, h, FALSE) => TagsOK(g, r)
           /\ Popped(s, r, f) /\ TagOK(g, f, FALSE) => TagsOK(g, r)
<1> DEFINE n == Len(s)
<1>0. n \in Nat \ {0} /\ \A i \in 1 .. n : TagOK(g, s[i], i < n)
  BY DEF TagsOK
<1>1. ASSUME TopSet(s, r, f), TagOK(g, f, FALSE) PROVE TagsOK(g, r)
  <2>1. Len(r) = n /\ r[n] = f /\ \A i \in 1 .. n : i < n => r[i] = s[i]
    BY <1>1 DEF TopSet
  <2> HIDE DEF n
  <2> SUFFICES ASSUME NEW i \in 1 .. n PROVE TagOK(g, r[i], i < n)
    BY <2>1 DEF TagsOK
  <2> QED
    BY <1>0, <1>1, <2>1 DEF TagOK
<1>2. ASSUME Pushed(s, r, f, h), TagOK(g, f, TRUE), TagOK(g, h, FALSE) PROVE TagsOK(g, r)
  <2>1. Len(r) = n + 1 /\ r[n + 1] = h /\ r[n] = f /\ \A i \in 1 .. n : i < n => r[i] = s[i]
    BY <1>2 DEF Pushed
  <2> HIDE DEF n
  <2> SUFFICES ASSUME NEW i \in 1 .. n + 1 PROVE TagOK(g, r[i], i < n + 1)
    BY <2>1 DEF TagsOK
  <2>2. CASE i = n + 1
    BY <1>0, <1>2, <2>1, <2>2 DEF TagOK
  <2>3. CASE i = n
    BY <1>0, <1>2, <2>1, <2>3 DEF TagOK
  <2>4. CASE i \in 1 .. n /\ i < n
    BY <1>0, <2>1, <2>4 DEF TagOK
  <2> QED
    BY <1>0, <2>2, <2>3, <2>4
<1>3. ASSUME Popped(s, r, f), TagOK(g, f, FALSE) PROVE TagsOK(g, r)
  <2>1. Len(r) = n - 1 /\ r[n - 1] = f /\ \A i \in 1 .. n - 1 : i < n - 1 => r[i] = s[i]
    BY <1>3 DEF Popped
  <2> HIDE DEF n
  <2> SUFFICES ASSUME NEW i \in 1 .. n - 1 PROVE TagOK(g, r[i], i < n - 1)
    BY <2>1 DEF TagsOK
  <2>2. CASE i = n - 1
    BY <1>0, <1>3, <2>1, <2>2 DEF TagOK
  <2>3. CASE i < n - 1
    <3>1. i \in 1 .. n /\ i < n /\ r[i] = s[i]
      BY <1>0, <2>1, <2>3
    <3> QED
      BY <1>0, <2>3, <3>1 DEF TagOK
  <2> QED
    BY <1>0, <2>2, <2>3
<1> QED
  BY <1>1, <1>2, <1>3

\* What holds of the top frame of a stack.
LEMMA TopOK ==
    ASSUME LocksInv, NEW t \in Cores, stack[t] # <<>>
    PROVE  /\ StackType /\ stack[t] \in Seq(Frames) /\ Len(stack[t]) \in Nat \ {0}
           /\ Top(t) = stack[t][Len(stack[t])] /\ Top(t) \in Frames /\ FrameOK(Top(t))
           /\ Top(t).cache \in Caches /\ Top(t).addr \in Addrs
           /\ Shape(t, stack[t]) /\ Levels(stack[t])
           /\ TagOK(tag, Top(t), FALSE)
<1>1. StackType /\ Shape(t, stack[t]) /\ Levels(stack[t]) /\ TagsOK(tag, stack[t])
  BY DEF LocksInv, ShapeInv, StackType, LineInv
<1>2. /\ stack[t] \in Seq(Frames) /\ Len(stack[t]) \in Nat \ {0}
      /\ Top(t) = stack[t][Len(stack[t])] /\ Top(t) \in Frames
  BY <1>1, TopFacts
<1> DEFINE s == stack[t]
<1>3. Len(s) \in 1 .. Len(s) /\ ~(Len(s) < Len(s))
  BY <1>2
<1>4. FrameOK(s[Len(s)]) /\ TagOK(tag, s[Len(s)], FALSE)
  BY <1>1, <1>3 DEF Shape, TagsOK, TagOK
<1> QED
  BY <1>1, <1>2, <1>4 DEF Frames

\* The step that replaces the top frame, of an access.
LEMMA SetTopInv ==
    ASSUME LocksInv, NEW t \in Cores, stack[t] # <<>>, NEW f \in Frames, SetTop(t, f), FrameOK(f),
           f.cache = Top(t).cache, f.pc # "inval", Top(t).pc # "inval", f.pc = "fill" => Len(stack[t]) = 1
    PROVE  /\ ShapeInv' /\ SameOthers(t) /\ TopSet(stack[t], stack'[t], f)
           /\ BccHeld(stack[t]) = IF Top(t).pc \in {"tcc", "bcc", "fill"} THEN {} ELSE {f.cache}
           /\ BccHeld(stack[t])' = IF f.pc \in {"tcc", "bcc", "fill"} THEN {} ELSE {f.cache}
           /\ FilterHeld(stack[t]) = IF Top(t).pc = "fill" THEN {f.cache} ELSE {}
           /\ FilterHeld(stack[t])' = IF f.pc = "fill" THEN {f.cache} ELSE {}
           /\ Top(t).pc # "tcc" /\ f.pc # "tcc" => TccHeld(stack[t])' = TccHeld(stack[t])
           /\ f.pc # "tcc" /\ ~Terminal(f.cache) => TccHeld(stack[t])' = TccHeld(stack[t]) \cup {f.cache}
<1> DEFINE s == stack[t]
           r == stack'[t]
<1>1. /\ StackType /\ Len(s) \in Nat \ {0} /\ Top(t) = s[Len(s)] /\ Shape(t, s) /\ Levels(s)
  BY TopOK
<1>2. StackType' /\ SameOthers(t) /\ TopSet(s, r, f)
  BY <1>1, SetTopStack
<1>3. f.cache = s[Len(s)].cache /\ f.pc # "inval" /\ s[Len(s)].pc # "inval" /\ (f.pc = "fill" => Len(s) = 1)
  BY <1>1
<1>4. ShapeInv'
  <2>1. Shape(t, r) /\ Levels(r)
    <3> HIDE DEF s, r
    <3> QED
      BY <1>1, <1>2, <1>3, TopSetShape
  <2>2. \A u \in Cores \ {t} : Shape(u, stack'[u]) /\ Levels(stack'[u])
    BY <1>2 DEF SameOthers, LocksInv, ShapeInv
  <2> QED
    BY <1>2, <2>1, <2>2 DEF ShapeInv, StackType
<1>5. Shape(t, r) /\ Levels(r)
  BY <1>4 DEF ShapeInv
<1>6. Top(t).pc = s[Len(s)].pc
  BY <1>1
<1>7. /\ BccHeld(s) = IF s[Len(s)].pc \in {"tcc", "bcc", "fill"} THEN {} ELSE {f.cache}
      /\ BccHeld(r) = IF f.pc \in {"tcc", "bcc", "fill"} THEN {} ELSE {f.cache}
      /\ FilterHeld(s) = IF s[Len(s)].pc = "fill" THEN {f.cache} ELSE {}
      /\ FilterHeld(r) = IF f.pc = "fill" THEN {f.cache} ELSE {}
      /\ s[Len(s)].pc # "tcc" /\ f.pc # "tcc" => TccHeld(r) = TccHeld(s)
      /\ f.pc # "tcc" /\ ~Terminal(f.cache) => TccHeld(r) = TccHeld(s) \cup {f.cache}
  <2> HIDE DEF s, r
  <2>1. Len(r) = Len(s) /\ r[Len(r)] = f
    BY <1>2 DEF TopSet
  <2>2. BccHeld(s) = IF s[Len(s)].pc \in {"tcc", "bcc", "fill"} THEN {} ELSE {f.cache}
    BY <1>1, <1>3, AccessHolds
  <2>3. BccHeld(r) = IF f.pc \in {"tcc", "bcc", "fill"} THEN {} ELSE {f.cache}
    BY <1>1, <1>5, <2>1, AccessHolds
  <2>4. FilterHeld(s) = IF s[Len(s)].pc = "fill" THEN {f.cache} ELSE {}
    BY <1>1, <1>3, FilterHolds
  <2>5. FilterHeld(r) = IF f.pc = "fill" THEN {f.cache} ELSE {}
    BY <1>1, <1>5, <2>1, FilterHolds
  <2>6. s[Len(s)].pc # "tcc" /\ f.pc # "tcc" => (HoldsTcc(s, Len(s)) <=> HoldsTcc(r, Len(s)))
    BY <1>3, <2>1 DEF HoldsTcc
  <2>7. f.pc # "tcc" /\ ~Terminal(f.cache) => HoldsTcc(r, Len(s))
    BY <1>3, <2>1 DEF HoldsTcc
  <2> QED
    BY <1>1, <1>2, <1>3, <2>2, <2>3, <2>4, <2>5, <2>6, <2>7, TopSetTcc
<1> QED
  BY <1>2, <1>4, <1>6, <1>7

LEMMA LockTccInv ==
    ASSUME LocksInv, NEW t \in Cores, LockTcc(t)
    PROVE  LocksInv'
<1> DEFINE f == Goto(Top(t), "bcc")
           c == Top(t).cache
<1>1. /\ stack[t] # <<>> /\ Top(t).pc = "tcc" /\ tccLock[c] = None /\ SetTop(t, f)
      /\ tccLock' = [tccLock EXCEPT ![c] = t]
      /\ UNCHANGED <<tag, bcc, tcc, bccLock, filterLock, filter, dummy, dirty>>
  BY DEF LockTcc, At, arrayVars
<1>2. Top(t) \in Frames /\ FrameOK(Top(t)) /\ c \in Caches /\ Len(stack[t]) \in Nat \ {0}
  BY <1>1, TopOK
<1>3. /\ f \in Frames /\ FrameOK(f) /\ f.cache = c /\ f.pc = "bcc"
      /\ ~Terminal(c)
  BY <1>1, <1>2 DEF Goto, Frames, FrameOK, Sending
<1> HIDE DEF f
<1>4. /\ ShapeInv' /\ SameOthers(t) /\ TopSet(stack[t], stack'[t], f)
      /\ BccHeld(stack[t])' = BccHeld(stack[t])
      /\ FilterHeld(stack[t])' = FilterHeld(stack[t])
      /\ TccHeld(stack[t])' = TccHeld(stack[t]) \cup {c}
  BY <1>1, <1>3, SetTopInv
<1>5. LockInv'
  <2>1. /\ LockStep(t, bccLock, BccHeld(stack[t])', bccLock')
        /\ LockStep(t, filterLock, FilterHeld(stack[t])', filterLock')
    BY <1>1, <1>4, LockStutters DEF LocksInv
  <2>2. LockStep(t, tccLock, TccHeld(stack[t])', tccLock')
    BY <1>1, <1>2, <1>4, MesiAssumption DEF LocksInv, LockInv, LockStep
  <2> QED
    BY <1>4, <2>1, <2>2, LockStepInv DEF LocksInv
<1>6. LineInv'
  <2>1. TagsOK(tag, stack'[t])
    <3>1. TagsOK(tag, stack[t]) /\ TagOK(tag, f, FALSE)
      BY <1>3 DEF LocksInv, LineInv, TagOK
    <3> QED
      BY <1>2, <1>4, <3>1, StackTags
  <2> QED
    BY <1>1, <1>4, <2>1, LineStepInv DEF LocksInv, LineInv, TagsGrow
<1> QED
  BY <1>4, <1>5, <1>6 DEF LocksInv

\* What a child is told, and when.
LEMMA TargetsFacts ==
    ASSUME NEW c \in Caches, NEW e, NEW type
    PROVE  /\ Targets(e, c, type) \subseteq Range(Children[c])
           /\ Targets(e, c, type) # {} => e.numSharers # 0
BY DEF Targets, isEmpty

\* The frame of an access that has found its line.
Found(f, type, l, pc, todo) ==
    [cache |-> f.cache, addr |-> f.addr, type |-> type, init |-> f.init, own |-> f.own,
     flags |-> f.flags, pc |-> pc, line |-> l, wb |-> f.wb, todo |-> todo]

LEMMA FrameFields ==
    ASSUME NEW f \in Frames
    PROVE  /\ f = Found(f, f.type, f.line, f.pc, f.todo)
           /\ f.cache \in Caches /\ f.addr \in Addrs /\ f.init \in MESIState /\ f.own \in BOOLEAN
           /\ f.flags \in SUBSET {"IFETCH", "NOEXCL", "PREFETCH"} /\ f.wb \in BOOLEAN /\ f.todo \in SUBSET Caches
           /\ f.type \in Gets \cup Puts \cup InvTypes
           /\ f.line \in (UNION {Lines[c] : c \in Caches}) \cup {None}
BY DEF Frames, Found

LEMMA FoundFrame ==
    ASSUME NEW f \in Frames, NEW l \in Lines[f.cache], NEW type \in Gets \cup Puts \cup InvTypes,
           NEW pc \in {"access", "evict"}, NEW todo \in SUBSET Caches
    PROVE  /\ Found(f, type, l, pc, todo) \in Frames
           /\ Found(f, type, l, pc, todo).cache = f.cache
           /\ Found(f, type, l, pc, todo).pc = pc
           /\ Found(f, type, l, pc, todo).line = l
           /\ Found(f, type, l, pc, todo).wb = f.wb
           /\ Found(f, type, l, pc, todo).todo = todo
<1> DEFINE All == (UNION {Lines[c] : c \in Caches}) \cup {None}
<1>1. l \in All
  BY FrameFields
<1> HIDE DEF All
<1>2. Found(f, type, l, pc, todo) \in
         [cache : Caches, addr : Addrs, type : Gets \cup Puts \cup InvTypes,
          init : MESIState, own : BOOLEAN, flags : SUBSET {"IFETCH", "NOEXCL", "PREFETCH"},
          pc : {"access", "evict"}, line : All, wb : BOOLEAN, todo : SUBSET Caches]
  BY <1>1, FrameFields DEF Found
<1> QED
  BY <1>2 DEF Found, Frames, All

LEMMA FoundGoto ==
    ASSUME NEW f \in Frames, NEW type, NEW l, NEW pc
    PROVE  Goto([f EXCEPT !.type = type, !.line = l], pc) = Found(f, type, l, pc, f.todo)
<1> DEFINE g == [f EXCEPT !.type = type]
           h == [g EXCEPT !.line = l]
           k == [h EXCEPT !.pc = pc]
<1>1. g = Found(f, type, f.line, f.pc, f.todo)
  BY DEF Frames, Found
<1> HIDE DEF g
<1>2. h = Found(f, type, l, f.pc, f.todo)
  BY <1>1 DEF Found
<1> HIDE DEF h
<1>3. k = Found(f, type, l, pc, f.todo)
  BY <1>2 DEF Found
<1> HIDE DEF k
<1> QED
  BY <1>3, Zenon DEF g, h, k, Goto

LEMMA StartAccessInv ==
    ASSUME LocksInv, NEW t \in Cores, StartAccess(t)
    PROVE  LocksInv'
<1> DEFINE c == Top(t).cache
<1>1. /\ stack[t] # <<>> /\ Top(t).pc = "bcc" /\ bccLock[c] = None
      /\ bccLock' = [bccLock EXCEPT ![c] = t]
      /\ UNCHANGED <<tag, bcc, tcc, tccLock, filterLock, filter, dummy, dirty>>
  BY DEF StartAccess, At, arrayVars
<1>2. /\ Top(t) \in Frames /\ FrameOK(Top(t)) /\ c \in Caches /\ Len(stack[t]) \in Nat \ {0}
      /\ Top(t).todo = {} /\ ~Top(t).wb
  <2>1. Top(t) \in Frames /\ FrameOK(Top(t)) /\ c \in Caches /\ Len(stack[t]) \in Nat \ {0}
    BY <1>1, TopOK
  <2> QED
    BY <1>1, <2>1 DEF FrameOK, Sending
<1>3. PICK f \in Frames : /\ SetTop(t, f) /\ FrameOK(f) /\ f.cache = c
                          /\ f.pc \in {"end", "access", "evict"} /\ TagOK(tag, f, FALSE)
  <2>1. CASE SetTop(t, Goto(Top(t), "end"))
    <3>1. /\ Goto(Top(t), "end") \in Frames /\ FrameOK(Goto(Top(t), "end"))
          /\ TagOK(tag, Goto(Top(t), "end"), FALSE)
          /\ Goto(Top(t), "end").cache = c /\ Goto(Top(t), "end").pc = "end"
      BY <1>1, <1>2 DEF Goto, Frames, FrameOK, Sending, TagOK
    <3> QED
      BY <2>1, <3>1
  <2>2. ASSUME NEW l \in LineFor(c, Top(t).addr), NEW type \in Gets \cup Puts \cup InvTypes,
               SetTop(t, IF tag[c][l] = Top(t).addr
                         THEN Goto([Top(t) EXCEPT !.type = type, !.line = l], "access")
                         ELSE [Goto([Top(t) EXCEPT !.type = type, !.line = l], "evict") EXCEPT
                                 !.todo = Targets(tcc[c][l], c, "INV")])
        PROVE  \E f \in Frames : /\ SetTop(t, f) /\ FrameOK(f) /\ f.cache = c
                                 /\ f.pc \in {"end", "access", "evict"} /\ TagOK(tag, f, FALSE)
    <3> DEFINE g == Goto([Top(t) EXCEPT !.type = type, !.line = l], "access")
               h == [Goto([Top(t) EXCEPT !.type = type, !.line = l], "evict") EXCEPT
                       !.todo = Targets(tcc[c][l], c, "INV")]
    <3>1. l \in Lines[c]
      BY <2>2 DEF LineFor, Lookup
    <3>2. g \in Frames /\ FrameOK(g) /\ g.cache = c /\ g.pc = "access" /\ TagOK(tag, g, FALSE)
      <4>1. /\ g \in Frames /\ g.cache = c /\ g.pc = "access" /\ g.line = l /\ g.todo = {}
        <5>1. l \in Lines[Top(t).cache] /\ Top(t) \in Frames /\ Top(t).todo = {}
          BY <1>2, <3>1
        <5>2. g = Found(Top(t), type, l, "access", Top(t).todo)
          BY <5>1, FoundGoto, Zenon
        <5> HIDE DEF g
        <5> QED
          BY <5>1, <5>2, FoundFrame
      <4> HIDE DEF g
      <4> QED
        BY <3>1, <4>1 DEF FrameOK, Sending, TagOK
    <3>3. /\ Targets(tcc[c][l], c, "INV") \subseteq Range(Children[c])
          /\ Targets(tcc[c][l], c, "INV") # {} => tag[c][l] # None
          /\ Range(Children[c]) \subseteq Caches
      BY <1>2, <3>1, TargetsFacts, LevelFacts DEF LocksInv, LineInv
    <3>4. h \in Frames /\ h.cache = c /\ h.pc = "evict"
          /\ h.line = l /\ ~h.wb /\ h.todo = Targets(tcc[c][l], c, "INV")
      <4>1. Targets(tcc[c][l], c, "INV") \in SUBSET Caches
        BY <3>3
      <4>2. l \in Lines[Top(t).cache] /\ Top(t) \in Frames /\ ~Top(t).wb
        BY <1>2, <3>1
      <4>3. h = Found(Top(t), type, l, "evict", Targets(tcc[c][l], c, "INV"))
        <5> DEFINE k == Goto([Top(t) EXCEPT !.type = type, !.line = l], "evict")
        <5>1. k = Found(Top(t), type, l, "evict", Top(t).todo)
          BY <4>2, FoundGoto, Zenon
        <5> HIDE DEF k
        <5>2. [k EXCEPT !.todo = Targets(tcc[c][l], c, "INV")] = Found(Top(t), type, l, "evict", Targets(tcc[c][l], c, "INV"))
          BY <5>1 DEF Found
        <5> QED
          BY <5>2 DEF k
      <4> HIDE DEF h
      <4> QED
        BY <4>1, <4>2, <4>3, FoundFrame
    <3>5. FrameOK(h) /\ TagOK(tag, h, FALSE)
      <4> HIDE DEF h
      <4> QED
        BY <3>1, <3>3, <3>4 DEF FrameOK, TagOK, Sending
    <3>6. SetTop(t, g) \/ SetTop(t, h)
      BY <2>2
    <3> HIDE DEF g, h
    <3> QED
      BY <3>2, <3>4, <3>5, <3>6
  <2>3. RaceType(Top(t).type, ChildState(t), Top(t).init) \in Gets \cup Puts \cup InvTypes
    BY <1>2 DEF RaceType, Frames, Puts
  <2> QED
    BY <2>1, <2>2, <2>3 DEF StartAccess
<1>4. /\ ShapeInv' /\ SameOthers(t) /\ TopSet(stack[t], stack'[t], f)
      /\ BccHeld(stack[t]) = {} /\ BccHeld(stack[t])' = {c}
      /\ FilterHeld(stack[t])' = FilterHeld(stack[t])
      /\ TccHeld(stack[t])' = TccHeld(stack[t])
  BY <1>1, <1>3, SetTopInv
<1>5. LockInv'
  <2>1. /\ LockStep(t, tccLock, TccHeld(stack[t])', tccLock')
        /\ LockStep(t, filterLock, FilterHeld(stack[t])', filterLock')
    BY <1>1, <1>4, LockStutters DEF LocksInv
  <2>2. LockStep(t, bccLock, BccHeld(stack[t])', bccLock')
    BY <1>1, <1>2, <1>4, MesiAssumption DEF LocksInv, LockInv, LockStep
  <2> QED
    BY <1>4, <2>1, <2>2, LockStepInv DEF LocksInv
<1>6. LineInv'
  <2>1. TagsOK(tag, stack'[t])
    BY <1>2, <1>3, <1>4, StackTags DEF LocksInv, LineInv
  <2> QED
    BY <1>1, <1>4, <2>1, LineStepInv DEF LocksInv, LineInv, TagsGrow
<1> QED
  BY <1>4, <1>5, <1>6 DEF LocksInv

\* The step in which an access calls the parent.
LEMMA CallUpInv ==
    ASSUME LocksInv, NEW t \in Cores, stack[t] # <<>>, NEW f \in Frames, NEW g \in Frames, Call(t, f, g),
           FrameOK(f), FrameOK(g), f.cache = Top(t).cache, Top(t).pc \notin {"tcc", "bcc", "fill", "inval"},
           f.pc \in Called, g.pc = "tcc", f.cache \in Range(Children[g.cache]),
           UNCHANGED <<tccLock, filterLock>>, bccLock' = [bccLock EXCEPT ![f.cache] = None]
    PROVE  ShapeInv' /\ LockInv' /\ SameOthers(t) /\ Pushed(stack[t], stack'[t], f, g)
<1> DEFINE s == stack[t]
           r == stack'[t]
<1>1. StackType /\ Len(s) \in Nat \ {0} /\ Top(t) = s[Len(s)] /\ Shape(t, s) /\ Levels(s)
  BY TopOK
<1>2. StackType' /\ SameOthers(t) /\ Pushed(s, r, f, g)
  BY <1>1, CallStack
<1>3. f.cache = s[Len(s)].cache /\ s[Len(s)].pc \notin {"tcc", "bcc", "fill", "inval"}
  BY <1>1
<1>4. Shape(t, r) /\ Levels(r)
  <2> HIDE DEF s, r
  <2> QED
    BY <1>1, <1>2, <1>3, PushUpShape
<1>5. ShapeInv'
  <2>1. \A u \in Cores \ {t} : Shape(u, stack'[u]) /\ Levels(stack'[u])
    BY <1>2 DEF SameOthers, LocksInv, ShapeInv
  <2> QED
    BY <1>2, <1>4, <2>1 DEF ShapeInv, StackType
<1>6. BccHeld(s) = {f.cache} /\ BccHeld(r) = {} /\ TccHeld(r) = TccHeld(s) /\ FilterHeld(r) = FilterHeld(s)
  <2> HIDE DEF s, r
  <2>1. BccHeld(s) = {f.cache}
    BY <1>1, <1>3, AccessHolds
  <2>2. BccHeld(r) = {} /\ TccHeld(r) = TccHeld(s)
    BY <1>1, <1>2, <1>3, <1>4, PushUpHeld
  <2>3. Len(r) = Len(s) + 1 /\ r[Len(r)] = g
    BY <1>2 DEF Pushed
  <2>4. FilterHeld(s) = {} /\ FilterHeld(r) = {}
    BY <1>1, <1>3, <1>4, <2>3, FilterHolds
  <2> QED
    BY <2>1, <2>2, <2>4
<1>7. /\ LockStep(t, tccLock, TccHeld(stack[t])', tccLock')
      /\ LockStep(t, filterLock, FilterHeld(stack[t])', filterLock')
  BY <1>6, LockStutters DEF LocksInv
<1>8. LockStep(t, bccLock, BccHeld(stack[t])', bccLock')
  <2>1. \A d \in Caches : bccLock[d] = t <=> d = f.cache
    BY <1>6 DEF LocksInv, LockInv
  <2> QED
    BY <1>6, <2>1, MesiAssumption DEF LocksInv, LockInv, LockStep, Frames
<1> QED
  BY <1>2, <1>5, <1>7, <1>8, LockStepInv DEF LocksInv

\* The step in which a frame tells a child.
LEMMA CallDownInv ==
    ASSUME LocksInv, NEW t \in Cores, stack[t] # <<>>, NEW f \in Frames, NEW g \in Frames, Call(t, f, g),
           FrameOK(f), FrameOK(g), f.cache = Top(t).cache, f.pc = Top(t).pc, f.pc \in Sending,
           g.pc = "inval", g.cache \in Range(Children[f.cache]),
           UNCHANGED <<tccLock, filterLock>>, bccLock[g.cache] = None, bccLock' = [bccLock EXCEPT ![g.cache] = t]
    PROVE  ShapeInv' /\ LockInv' /\ SameOthers(t) /\ Pushed(stack[t], stack'[t], f, g)
<1> DEFINE s == stack[t]
           r == stack'[t]
<1>1. StackType /\ Len(s) \in Nat \ {0} /\ Top(t) = s[Len(s)] /\ Shape(t, s) /\ Levels(s)
  BY TopOK
<1>2. StackType' /\ SameOthers(t) /\ Pushed(s, r, f, g)
  BY <1>1, CallStack
<1>3. f.cache = s[Len(s)].cache /\ f.pc = s[Len(s)].pc
  BY <1>1
<1>4. Shape(t, r) /\ Levels(r)
  <2> HIDE DEF s, r
  <2> QED
    BY <1>1, <1>2, <1>3, PushDownShape
<1>5. ShapeInv'
  <2>1. \A u \in Cores \ {t} : Shape(u, stack'[u]) /\ Levels(stack'[u])
    BY <1>2 DEF SameOthers, LocksInv, ShapeInv
  <2> QED
    BY <1>2, <1>4, <2>1 DEF ShapeInv, StackType
<1>6. /\ BccHeld(r) = BccHeld(s) \cup {g.cache}
      /\ TccHeld(r) = TccHeld(s) /\ FilterHeld(r) = FilterHeld(s)
  <2> HIDE DEF s, r
  <2>2. BccHeld(r) = BccHeld(s) \cup {g.cache} /\ TccHeld(r) = TccHeld(s)
    BY <1>1, <1>2, <1>3, PushDownHeld
  <2>3. Len(r) = Len(s) + 1 /\ r[Len(r)] = g /\ s[Len(s)].pc # "fill"
    BY <1>2, <1>3 DEF Pushed, Sending
  <2>4. FilterHeld(s) = {} /\ FilterHeld(r) = {}
    BY <1>1, <1>3, <1>4, <2>3, FilterHolds
  <2> QED
    BY <2>2, <2>4
<1>7. /\ LockStep(t, tccLock, TccHeld(stack[t])', tccLock')
      /\ LockStep(t, filterLock, FilterHeld(stack[t])', filterLock')
  BY <1>6, LockStutters DEF LocksInv
<1>8. LockStep(t, bccLock, BccHeld(stack[t])', bccLock')
  <2>1. \A d \in Caches : bccLock[d] = t <=> d \in BccHeld(s)
    BY DEF LocksInv, LockInv
  <2> QED
    BY <1>6, <2>1, MesiAssumption DEF LocksInv, LockInv, LockStep, Frames
<1> QED
  BY <1>2, <1>5, <1>7, <1>8, LockStepInv DEF LocksInv

LEMMA ToldEntry ==
    ASSUME NEW e \in Entries, NEW type
    PROVE  /\ Told(e, type) \in Entries
           /\ Told(e, type).numSharers = IF type = "INV" THEN 0 ELSE e.numSharers
           /\ Told(e, type).sharers = IF type = "INV" THEN {} ELSE e.sharers
           /\ Told(e, type).exclusive = IF type = "INV" THEN e.exclusive ELSE e.exclusive /\ ~isExclusive(e)
<1>1. CASE type = "INV"
  <2> DEFINE g == [e EXCEPT !.sharers = {}]
  <2>1. g = [sharers |-> {}, numSharers |-> e.numSharers, exclusive |-> e.exclusive]
    BY DEF Entries
  <2>2. Told(e, type) = [g EXCEPT !.numSharers = 0]
    BY <1>1 DEF Told
  <2> HIDE DEF g
  <2>3. Told(e, type) = [sharers |-> {}, numSharers |-> 0, exclusive |-> e.exclusive]
    BY <2>1, <2>2
  <2> QED
    BY <1>1, <2>3 DEF Entries
<1>2. CASE type # "INV"
  <2>1. Told(e, type) = [sharers |-> e.sharers, numSharers |-> e.numSharers,
                         exclusive |-> e.exclusive /\ ~isExclusive(e)]
    BY <1>2 DEF Told, Entries
  <2> QED
    BY <1>2, <2>1 DEF Entries
<1> QED
  BY <1>1, <1>2

LEMMA DropEntry ==
    ASSUME NEW e \in Entries, NEW d
    PROVE  /\ Drop(e, d) \in Entries /\ Drop(e, d).sharers = e.sharers \ {d}
           /\ Drop(e, d).numSharers = e.numSharers - 1 /\ Drop(e, d).exclusive = e.exclusive
<1> DEFINE g == [e EXCEPT !.sharers = @ \ {d}]
<1>1. g = [sharers |-> e.sharers \ {d}, numSharers |-> e.numSharers, exclusive |-> e.exclusive]
  BY DEF Entries
<1>2. Drop(e, d) = [g EXCEPT !.numSharers = @ - 1]
  BY <1>1 DEF Drop
<1> HIDE DEF g
<1>3. Drop(e, d) = [sharers |-> e.sharers \ {d}, numSharers |-> e.numSharers - 1, exclusive |-> e.exclusive]
  BY <1>1, <1>2
<1> QED
  BY <1>3 DEF Entries

LEMMA SharerEntry ==
    ASSUME NEW e \in Entries, NEW d \in Caches, NEW given
    PROVE  WithSharer(e, d, given) \in Entries
BY DEF Entries, WithSharer

\* The frame of a call.
LEMMA NewFrame ==
    ASSUME NEW c \in Caches, NEW a \in Addrs, NEW type \in Gets \cup Puts \cup InvTypes, NEW init \in MESIState,
           NEW own \in BOOLEAN, NEW pc \in {"tcc", "bcc", "inval"}, NEW l \in Lines[c] \cup {None},
           NEW todo \in SUBSET Caches
    PROVE  [cache |-> c, addr |-> a, type |-> type, init |-> init, own |-> own, flags |-> {}, pc |-> pc,
            line |-> l, wb |-> FALSE, todo |-> todo] \in Frames
<1> DEFINE All == (UNION {Lines[d] : d \in Caches}) \cup {None}
<1>1. l \in All
  <2>1. CASE l = None
    BY <2>1
  <2>2. CASE l \in Lines[c]
    BY <2>2
  <2> QED
    BY <2>1, <2>2
<1> HIDE DEF All
<1>2. [cache |-> c, addr |-> a, type |-> type, init |-> init, own |-> own, flags |-> {}, pc |-> pc,
       line |-> l, wb |-> FALSE, todo |-> todo] \in
         [cache : Caches, addr : Addrs, type : Gets \cup Puts \cup InvTypes,
          init : MESIState, own : BOOLEAN, flags : SUBSET {"IFETCH", "NOEXCL", "PREFETCH"},
          pc : {"tcc", "bcc", "inval"}, line : All, wb : BOOLEAN, todo : SUBSET Caches]
  BY <1>1
<1> QED
  BY <1>2 DEF Frames, All

CallFrame(c, a, type, init) == AccessFrame(c, a, type, init, TRUE, {})

LEMMA CallFrameOK ==
    ASSUME NEW c \in Caches, NEW a \in Addrs, NEW type \in Gets \cup Puts, NEW init \in MESIState,
           Parent[c][a] # Memory
    PROVE  LET f == CallFrame(Parent[c][a], a, type, init) IN
           /\ f \in Frames /\ FrameOK(f) /\ f.cache = Parent[c][a] /\ f.pc = "tcc" /\ TagOK(tag, f, FALSE)
           /\ c \in Range(Children[f.cache])
<1> DEFINE p == Parent[c][a]
           f == [cache |-> p, addr |-> a, type |-> type, init |-> init, own |-> TRUE,
                 flags |-> {}, pc |-> "tcc", line |-> None, wb |-> FALSE, todo |-> {}]
<1>1. p \in Caches /\ ~Terminal(p) /\ c \in Range(Children[p])
  BY ParentFacts
<1>2. CallFrame(p, a, type, init) = f
  BY <1>1 DEF CallFrame, AccessFrame, Carried
<1> HIDE DEF p
<1>3. f.cache = p /\ f.pc = "tcc" /\ f.line = None /\ f.wb = FALSE /\ f.todo = {}
  OBVIOUS
<1>4. f \in Frames
  BY <1>1, NewFrame
<1> HIDE DEF f
<1>5. FrameOK(f) /\ TagOK(tag, f, FALSE)
  BY <1>1, <1>3 DEF FrameOK, TagOK
<1> QED
  BY <1>1, <1>2, <1>3, <1>4, <1>5 DEF p

LEMMA EvictInv ==
    ASSUME LocksInv, NEW t \in Cores, Evict(t)
    PROVE  LocksInv'
<1> DEFINE f == Top(t)
           c == f.cache
           l == f.line
           victim == tag[c][l]
           s == Evicted(f)
           g == [Goto(f, "insert") EXCEPT !.wb = FALSE]
           direct == s = "I" \/ Parent[c][victim] = Memory
           h == CallFrame(Parent[c][victim], victim, PutType(s), s)
<1>1. /\ stack[t] # <<>> /\ f.pc = "evict" /\ f.todo = {}
      /\ tcc' = [tcc EXCEPT ![c][l] = Told(tcc[c][l], "INV")]
      /\ bcc' = [bcc EXCEPT ![c][l] = IF direct THEN "I" ELSE s]
      /\ IF direct THEN bccLock' = bccLock ELSE bccLock' = [bccLock EXCEPT ![c] = None]
      /\ IF direct THEN SetTop(t, g) ELSE Call(t, g, h)
      /\ UNCHANGED <<tag, tccLock, filterLock, filter, dummy>>
  BY DEF Evict, At, UnlockChild, CallFrame
<1>2. f \in Frames /\ FrameOK(f) /\ c \in Caches /\ Len(stack[t]) \in Nat \ {0} /\ TagOK(tag, f, FALSE)
  BY <1>1, TopOK
<1>3. l \in Lines[c] /\ bcc[c][l] \in MESIState /\ tcc[c][l] \in Entries /\ tag[c][l] \in Addrs \cup {None}
  BY <1>1, <1>2 DEF FrameOK, LocksInv, LineInv, PerLine
<1>4. s \in MESIState /\ (s # "I" => victim \in Addrs)
  BY <1>1, <1>2, <1>3 DEF Evicted, MESIState, LocksInv, LineInv, TagOK
<1>5. g \in Frames /\ g.cache = c /\ g.pc = "insert" /\ g.todo = {} /\ g.line = l
  <2> DEFINE k == Goto(f, "insert")
  <2>1. k \in Frames /\ k.cache = c /\ k.pc = "insert" /\ k.todo = {} /\ k.line = l
    BY <1>1, <1>2 DEF Goto, Frames
  <2> HIDE DEF k
  <2>2. [k EXCEPT !.wb = FALSE] \in Frames /\ [k EXCEPT !.wb = FALSE].cache = c /\ [k EXCEPT !.wb = FALSE].pc = "insert"
        /\ [k EXCEPT !.wb = FALSE].todo = {} /\ [k EXCEPT !.wb = FALSE].line = l
    BY <2>1 DEF Frames
  <2> QED
    BY <2>2 DEF k
<1> HIDE DEF g
<1>6. FrameOK(g) /\ TagOK(tag, g, FALSE) /\ (victim # None => TagOK(tag, g, TRUE))
  BY <1>3, <1>5 DEF FrameOK, TagOK
<1> USE DEF direct
<1>7. /\ ShapeInv' /\ LockInv' /\ SameOthers(t) /\ TagsOK(tag, stack'[t])
  <2>1. CASE direct
    <3>1. SetTop(t, g) /\ UNCHANGED <<bccLock, tccLock, filterLock>>
      BY <1>1, <2>1
    <3>2. /\ ShapeInv' /\ SameOthers(t) /\ TopSet(stack[t], stack'[t], g)
          /\ BccHeld(stack[t])' = BccHeld(stack[t])
          /\ FilterHeld(stack[t])' = FilterHeld(stack[t])
          /\ TccHeld(stack[t])' = TccHeld(stack[t])
      BY <1>1, <1>5, <1>6, <3>1, SetTopInv
    <3>3. LockInv'
      BY <3>1, <3>2, LockStepInv, LockStutters DEF LocksInv
    <3>4. TagsOK(tag, stack'[t])
      BY <1>2, <1>6, <3>2, StackTags DEF LocksInv, LineInv
    <3> QED
      BY <3>2, <3>3, <3>4
  <2>2. CASE ~direct
    <3>1. Call(t, g, h) /\ bccLock' = [bccLock EXCEPT ![g.cache] = None] /\ UNCHANGED <<tccLock, filterLock>>
      BY <1>1, <1>5, <2>2
    <3>2. victim \in Addrs /\ Parent[c][victim] # Memory /\ PutType(s) \in Gets \cup Puts
      BY <1>4, <2>2 DEF PutType, Puts
    <3>4. /\ h \in Frames /\ FrameOK(h) /\ h.cache = Parent[c][victim] /\ h.pc = "tcc" /\ TagOK(tag, h, FALSE)
          /\ c \in Range(Children[h.cache])
      BY <1>2, <1>4, <3>2, CallFrameOK
    <3> HIDE DEF h
    <3>5. ShapeInv' /\ LockInv' /\ SameOthers(t) /\ Pushed(stack[t], stack'[t], g, h)
      BY <1>1, <1>5, <1>6, <3>1, <3>4, CallUpInv DEF Called
    <3>6. TagsOK(tag, stack'[t])
      BY <1>2, <1>6, <3>2, <3>4, <3>5, StackTags, MesiAssumption DEF LocksInv, LineInv
    <3> QED
      BY <3>5, <3>6
  <2> QED
    BY <2>1, <2>2
<1>8. LineInv'
  <2> DEFINE v == IF direct THEN "I" ELSE s
             e == Told(tcc[c][l], "INV")
  <2>0. /\ e \in Entries /\ e.numSharers = 0 /\ v \in MESIState /\ (v # "I" => tag[c][l] # None)
        /\ tcc' = Upd(tcc, c, l, e) /\ bcc' = Upd(bcc, c, l, v)
    BY <1>1, <1>3, <1>4, ToldEntry, MesiAssumption DEF MESIState, Upd
  <2> HIDE DEF v, e
  <2>1. /\ PerLine(tcc', Entries)
        /\ \A d \in Caches : \A m \in Lines[d] : tcc'[d][m] = IF d = c /\ m = l THEN e ELSE tcc[d][m]
    BY <1>2, <2>0, PerLineSet DEF LocksInv, LineInv
  <2>2. /\ PerLine(bcc', MESIState)
        /\ \A d \in Caches : \A m \in Lines[d] : bcc'[d][m] = IF d = c /\ m = l THEN v ELSE bcc[d][m]
    BY <1>2, <2>0, PerLineSet DEF LocksInv, LineInv
  <2>3. \A d \in Caches : \A m \in Lines[d] : bcc'[d][m] # "I" \/ tcc'[d][m].numSharers # 0 => tag[d][m] # None
    BY <2>0, <2>1, <2>2 DEF LocksInv, LineInv
  <2> QED
    BY <1>1, <1>7, <2>1, <2>2, <2>3, LineStepInv DEF LocksInv, LineInv, TagsGrow
<1> QED
  BY <1>7, <1>8 DEF LocksInv

PCs == {"tcc", "bcc", "evict", "insert", "access", "prefetch", "dir", "grant", "end", "fill", "inval"}

LEMMA GotoFrame ==
    ASSUME NEW f \in Frames, NEW pc \in PCs
    PROVE  /\ Goto(f, pc) \in Frames /\ Goto(f, pc).pc = pc /\ Goto(f, pc).cache = f.cache
           /\ Goto(f, pc).addr = f.addr /\ Goto(f, pc).type = f.type /\ Goto(f, pc).line = f.line
           /\ Goto(f, pc).todo = f.todo /\ Goto(f, pc).wb = f.wb /\ Goto(f, pc).own = f.own
           /\ Goto(f, pc).init = f.init /\ Goto(f, pc).flags = f.flags
BY DEF Goto, Frames, PCs

\* The step that replaces the top frame of an access and changes no lock.
LEMMA SetTopOnlyInv ==
    ASSUME LocksInv, NEW t \in Cores, stack[t] # <<>>, NEW f \in Frames, SetTop(t, f), FrameOK(f),
           f.cache = Top(t).cache, f.pc \notin {"inval", "tcc", "bcc", "fill"},
           Top(t).pc \notin {"inval", "tcc", "bcc", "fill"}, UNCHANGED lockVars,
           NEW g, TagsGrow(tag, g), TagOK(g, f, FALSE)
    PROVE  ShapeInv' /\ LockInv' /\ SameOthers(t) /\ TagsOK(g, stack'[t])
<1>1. /\ ShapeInv' /\ SameOthers(t) /\ TopSet(stack[t], stack'[t], f)
      /\ BccHeld(stack[t])' = BccHeld(stack[t])
      /\ FilterHeld(stack[t])' = FilterHeld(stack[t])
      /\ TccHeld(stack[t])' = TccHeld(stack[t])
  BY SetTopInv
<1>2. UNCHANGED <<bccLock, tccLock, filterLock>>
  BY DEF lockVars
<1>3. LockInv'
  BY <1>1, <1>2, LockStepInv, LockStutters DEF LocksInv
<1>4. TagsOK(g, stack[t]) /\ Len(stack[t]) \in Nat \ {0}
  BY TopOK, TagsKept DEF LocksInv, LineInv
<1>5. TagsOK(g, stack'[t])
  BY <1>1, <1>4, StackTags
<1> QED
  BY <1>1, <1>3, <1>5

LEMMA AccessUpInv ==
    ASSUME LocksInv, NEW t \in Cores, AccessUp(t)
    PROVE  LocksInv'
<1> DEFINE f == Top(t)
           c == f.cache
           l == f.line
           a == f.addr
           s == bcc[c][l]
           p == Parent[c][a]
           g == Goto(f, AfterGet(f))
           h == CallFrame(p, a, f.type, s)
           k == Goto(f, NextPc(f))
           v == IF Misses(f.type, s) THEN FromMemory(f) ELSE Silent(f.type, s)
           calls == Misses(f.type, s) /\ p # Memory
<1>1. /\ stack[t] # <<>> /\ f.pc \in {"insert", "access"}
      /\ tag' = Upd(tag, c, l, a)
      /\ UNCHANGED <<tcc, tccLock, filterLock, filter, dummy, dirty>>
  BY DEF AccessUp, At, Upd
<1>2. f \in Frames /\ FrameOK(f) /\ c \in Caches /\ a \in Addrs /\ Len(stack[t]) \in Nat \ {0}
  BY <1>1, TopOK
<1>3. l \in Lines[c] /\ s \in MESIState /\ f.todo = {}
  BY <1>1, <1>2 DEF FrameOK, LocksInv, LineInv, PerLine, Sending
<1>4. /\ PerLine(tag', Addrs \cup {None}) /\ TagsGrow(tag, tag') /\ tag'[c][l] = a
      /\ \A d \in Caches : \A m \in Lines[d] : tag'[d][m] = IF d = c /\ m = l THEN a ELSE tag[d][m]
  <2>1. /\ PerLine(tag', Addrs \cup {None})
        /\ \A d \in Caches : \A m \in Lines[d] : tag'[d][m] = IF d = c /\ m = l THEN a ELSE tag[d][m]
    BY <1>1, <1>2, PerLineSet DEF LocksInv, LineInv
  <2>2. a # None
    BY <1>2, MesiAssumption
  <2>3. tag'[c][l] = a
    BY <1>2, <1>3, <2>1
  <2> QED
    BY <2>1, <2>2, <2>3 DEF TagsGrow
<1>5. a # None
  BY <1>2, MesiAssumption
<1>6. CASE calls
  <2>1. Call(t, g, h) /\ bccLock' = [bccLock EXCEPT ![c] = None] /\ bcc' = bcc
    BY <1>6 DEF AccessUp, CallFrame, UnlockChild, AccessFrame, Carried
  <2>2. AfterGet(f) \in {"prefetch", "dir", "end"} /\ (AfterGet(f) = "dir" => ~Terminal(c))
    BY DEF AfterGet, NextPc
  <2>3. /\ g \in Frames /\ g.cache = c /\ g.pc \in {"prefetch", "dir", "end"} /\ (g.pc = "dir" => ~Terminal(c))
        /\ g.line = l /\ g.todo = {}
    BY <1>2, <1>3, <2>2, GotoFrame DEF PCs
  <2>4. f.type \in Gets \cup Puts
    BY <1>6 DEF Misses, Gets
  <2>5. /\ h \in Frames /\ FrameOK(h) /\ h.cache = p /\ h.pc = "tcc" /\ c \in Range(Children[h.cache])
    <3>1. p # Memory /\ Parent[c][a] = p
      BY <1>6
    <3>2. c \in Caches /\ a \in Addrs /\ f.type \in Gets \cup Puts /\ s \in MESIState
      BY <1>2, <1>3, <2>4
    <3>3. PICK type \in Gets \cup Puts : type = f.type
      BY <3>2
    <3>4. LET k1 == CallFrame(Parent[c][a], a, type, s) IN
          /\ k1 \in Frames /\ FrameOK(k1) /\ k1.cache = Parent[c][a] /\ k1.pc = "tcc"
          /\ c \in Range(Children[k1.cache])
      BY <3>1, <3>2, CallFrameOK
    <3> QED
      BY <3>3, <3>4
  <2> HIDE DEF g, h
  <2>6. FrameOK(g) /\ TagOK(tag', g, TRUE) /\ TagOK(tag', h, FALSE)
    BY <1>3, <1>4, <1>5, <2>3, <2>5 DEF FrameOK, TagOK, Called
  <2>7. ShapeInv' /\ LockInv' /\ SameOthers(t) /\ Pushed(stack[t], stack'[t], g, h)
    BY <1>1, <2>1, <2>3, <2>5, <2>6, CallUpInv DEF Called
  <2>8. TagsOK(tag', stack[t])
    BY <1>4, TagsKept DEF LocksInv, LineInv, ShapeInv
  <2>9. TagsOK(tag', stack'[t])
    BY <1>2, <2>6, <2>7, <2>8, StackTags
  <2>10. \A d \in Caches : \A m \in Lines[d] : bcc'[d][m] # "I" \/ tcc'[d][m].numSharers # 0 => tag'[d][m] # None
    BY <1>1, <1>4, <2>1 DEF LocksInv, LineInv, TagsGrow
  <2>11. LineInv'
    BY <1>1, <1>4, <2>1, <2>7, <2>9, <2>10, LineStepInv DEF LocksInv, LineInv
  <2> QED
    BY <2>7, <2>11 DEF LocksInv
<1>7. CASE ~calls
  <2>1. SetTop(t, k) /\ UNCHANGED lockVars /\ bcc' = Upd(bcc, c, l, v)
    BY <1>1, <1>7 DEF AccessUp, Upd, lockVars
  <2>2. NextPc(f) \in {"dir", "end"} /\ (NextPc(f) = "dir" => ~Terminal(c))
    BY DEF NextPc
  <2>3. /\ k \in Frames /\ k.cache = c /\ k.pc \in {"dir", "end"} /\ (k.pc = "dir" => ~Terminal(c))
        /\ k.line = l /\ k.todo = {}
    BY <1>2, <1>3, <2>2, GotoFrame DEF PCs
  <2>4. v \in MESIState
    BY <1>3 DEF FromMemory, Silent, MESIState
  <2> HIDE DEF k, v
  <2>5. FrameOK(k) /\ TagOK(tag', k, FALSE)
    BY <1>3, <1>4, <1>5, <2>3 DEF FrameOK, TagOK
  <2>6. ShapeInv' /\ LockInv' /\ SameOthers(t) /\ TagsOK(tag', stack'[t])
    BY <1>1, <1>4, <2>1, <2>3, <2>5, SetTopOnlyInv
  <2>7. /\ PerLine(bcc', MESIState)
        /\ \A d \in Caches : \A m \in Lines[d] : bcc'[d][m] = IF d = c /\ m = l THEN v ELSE bcc[d][m]
    BY <2>1, <2>4, PerLineSet DEF LocksInv, LineInv
  <2>8. \A d \in Caches : \A m \in Lines[d] : bcc'[d][m] # "I" \/ tcc'[d][m].numSharers # 0 => tag'[d][m] # None
    BY <1>1, <1>4, <1>5, <2>7 DEF LocksInv, LineInv
  <2>9. LineInv'
    BY <1>1, <1>4, <2>6, <2>7, <2>8, LineStepInv DEF LocksInv, LineInv
  <2> QED
    BY <2>6, <2>9 DEF LocksInv
<1> QED
  BY <1>6, <1>7

\* A frame that is not the only one has a caller.
LEMMA CallerOK ==
    ASSUME LocksInv, NEW t \in Cores, stack[t] # <<>>, ~Terminal(Top(t).cache) \/ Top(t).pc = "inval"
    PROVE  /\ Len(stack[t]) > 1 /\ Caller(t) = stack[t][Len(stack[t]) - 1]
           /\ Caller(t) \in Frames /\ Caller(t).cache \in Caches /\ FrameOK(Caller(t))
           /\ LinkOK(Caller(t), Top(t)) /\ TagOK(tag, Caller(t), TRUE) /\ Caller(t).pc # "fill"
<1> DEFINE s == stack[t]
           n == Len(s) - 1
<1>1. /\ StackType /\ Len(s) \in Nat \ {0} /\ Top(t) = s[Len(s)] /\ Shape(t, s)
  BY TopOK
<1>2. Len(s) # 1
  <2> SUFFICES ASSUME Len(s) = 1 PROVE FALSE
    OBVIOUS
  <2>1. s[1].cache \in FirstLevel[t] /\ s[1].pc # "inval"
    BY <1>1 DEF Shape
  <2> QED
    BY <1>1, <2>1, TerminalFacts
<1>3. Len(s) > 1 /\ Caller(t) = s[n] /\ n \in 1 .. Len(s) /\ n < Len(s) /\ n + 1 = Len(s)
  <2>1. Caller(t) = s[n]
    BY DEF Caller
  <2>2. Len(s) > 1 /\ n \in 1 .. Len(s) /\ n < Len(s) /\ n + 1 = Len(s)
    BY <1>1, <1>2, MoreThanOne
  <2> QED
    BY <2>1, <2>2
<1>4. s[n] \in Frames /\ FrameOK(s[n]) /\ LinkOK(s[n], s[n + 1]) /\ s[n].pc # "fill"
  BY <1>1, <1>3 DEF Shape
<1>5. TagOK(tag, s[n], TRUE)
  BY <1>3 DEF LocksInv, LineInv, TagsOK, TagOK
<1> QED
  BY <1>1, <1>3, <1>4, <1>5 DEF Frames

\* The addresses, when they do not change and the lines do.
LEMMA LinesOnlyInv ==
    ASSUME LocksInv, ShapeInv', LockInv', NEW t \in Cores, SameOthers(t), TagsOK(tag, stack'[t]), tag' = tag,
           PerLine(bcc', MESIState), PerLine(tcc', Entries),
           \A c \in Caches : \A l \in Lines[c] :
               \/ tag[c][l] # None
               \/ bcc'[c][l] \in {bcc[c][l], "I"} /\ tcc'[c][l].numSharers \in {tcc[c][l].numSharers, 0}
    PROVE  LocksInv'
<1>1. \A c \in Caches : \A l \in Lines[c] : bcc'[c][l] # "I" \/ tcc'[c][l].numSharers # 0 => tag'[c][l] # None
  BY DEF LocksInv, LineInv
<1> QED
  BY <1>1, LineStepInv DEF LocksInv, LineInv, TagsGrow

LEMMA TakeLineInv ==
    ASSUME LocksInv, NEW t \in Cores, TakeLine(t)
    PROVE  LocksInv'
<1> DEFINE f == Top(t)
           c == f.cache
           l == f.line
           d == Caller(t)
           g == Goto(f, "end")
           e == Drop(tcc[c][l], d.cache)
<1>1. /\ stack[t] # <<>> /\ f.pc = "dir" /\ SetTop(t, g)
      /\ tcc' = Upd(tcc, c, l, e) /\ bcc' = Upd(bcc, d.cache, d.line, "I")
      /\ tag' = tag /\ UNCHANGED lockVars
  BY DEF TakeLine, At, Upd
<1>2. f \in Frames /\ FrameOK(f) /\ c \in Caches /\ TagOK(tag, f, FALSE)
  BY <1>1, TopOK
<1>3. l \in Lines[c] /\ tcc[c][l] \in Entries /\ tag[c][l] # None /\ f.todo = {}
  BY <1>1, <1>2 DEF FrameOK, LocksInv, LineInv, PerLine, Sending, TagOK
<1>4. g \in Frames /\ g.cache = c /\ g.pc = "end" /\ g.line = l /\ g.todo = {}
  BY <1>2, <1>3, GotoFrame DEF PCs
<1>5. e \in Entries
  BY <1>3, DropEntry
<1> HIDE DEF g, e
<1>6. FrameOK(g) /\ TagOK(tag, g, FALSE)
  BY <1>3, <1>4 DEF FrameOK, TagOK
<1>7. ShapeInv' /\ LockInv' /\ SameOthers(t) /\ TagsOK(tag, stack'[t])
  BY <1>1, <1>4, <1>6, SetTopOnlyInv DEF TagsGrow
<1>8. /\ PerLine(tcc', Entries)
      /\ \A x \in Caches : \A m \in Lines[x] : tcc'[x][m] = IF x = c /\ m = l THEN e ELSE tcc[x][m]
  BY <1>1, <1>5, PerLineSet DEF LocksInv, LineInv
<1>9. /\ PerLine(bcc', MESIState)
      /\ \A x \in Caches : \A m \in Lines[x] : bcc'[x][m] = IF x = d.cache /\ m = d.line THEN "I" ELSE bcc[x][m]
  <2>1. "I" \in MESIState
    BY DEF MESIState
  <2> QED
    BY <1>1, <2>1, PerLineSet DEF LocksInv, LineInv
<1>10. \A x \in Caches : \A m \in Lines[x] :
          \/ tag[x][m] # None
          \/ bcc'[x][m] \in {bcc[x][m], "I"} /\ tcc'[x][m].numSharers \in {tcc[x][m].numSharers, 0}
  BY <1>3, <1>8, <1>9
<1> QED
  BY <1>1, <1>7, <1>8, <1>9, <1>10, LinesOnlyInv

LEMMA OthersEntry ==
    ASSUME NEW t, tcc[Top(t).cache][Top(t).line] \in Entries
    PROVE  Others(t) \in Entries
BY DropEntry DEF Others

LEMMA TellOthersInv ==
    ASSUME LocksInv, NEW t \in Cores, TellOthers(t)
    PROVE  LocksInv'
<1> DEFINE f == Top(t)
           c == f.cache
           l == f.line
           k == Goto(f, "grant")
           g == [k EXCEPT !.todo = ToTell(t)]
           e == Others(t)
<1>1. /\ stack[t] # <<>> /\ f.pc = "dir" /\ SetTop(t, g)
      /\ tcc' = Upd(tcc, c, l, e) /\ bcc' = bcc /\ tag' = tag /\ UNCHANGED lockVars
  BY DEF TellOthers, At, Upd
<1>2. f \in Frames /\ FrameOK(f) /\ c \in Caches /\ TagOK(tag, f, FALSE)
  BY <1>1, TopOK
<1>3. l \in Lines[c] /\ tcc[c][l] \in Entries /\ tag[c][l] # None /\ ~Terminal(c)
  BY <1>1, <1>2 DEF FrameOK, LocksInv, LineInv, PerLine, TagOK
<1>4. e \in Entries
  BY <1>3, OthersEntry
<1>5. ToTell(t) \subseteq Range(Children[c]) /\ ToTell(t) \subseteq Caches
  BY <1>2, TargetsFacts, LevelFacts DEF ToTell
<1>6. k \in Frames /\ k.cache = c /\ k.pc = "grant" /\ k.line = l
  BY <1>2, GotoFrame DEF PCs
<1> HIDE DEF k, e
<1>7. g \in Frames /\ g.cache = c /\ g.pc = "grant" /\ g.line = l /\ g.todo = ToTell(t)
  BY <1>5, <1>6 DEF Frames
<1> HIDE DEF g
<1>8. FrameOK(g) /\ TagOK(tag, g, FALSE)
  BY <1>3, <1>5, <1>7 DEF FrameOK, TagOK, Sending
<1>9. ShapeInv' /\ LockInv' /\ SameOthers(t) /\ TagsOK(tag, stack'[t])
  BY <1>1, <1>7, <1>8, SetTopOnlyInv DEF TagsGrow
<1>10. /\ PerLine(tcc', Entries)
       /\ \A x \in Caches : \A m \in Lines[x] : tcc'[x][m] = IF x = c /\ m = l THEN e ELSE tcc[x][m]
  BY <1>1, <1>4, PerLineSet DEF LocksInv, LineInv
<1>11. \A x \in Caches : \A m \in Lines[x] :
          \/ tag[x][m] # None
          \/ bcc'[x][m] \in {bcc[x][m], "I"} /\ tcc'[x][m].numSharers \in {tcc[x][m].numSharers, 0}
  BY <1>1, <1>3, <1>10
<1> QED
  BY <1>1, <1>9, <1>10, <1>11, LinesOnlyInv DEF LocksInv, LineInv

LEMMA GrantInv ==
    ASSUME LocksInv, NEW t \in Cores, Grant(t)
    PROVE  LocksInv'
<1> DEFINE f == Top(t)
           c == f.cache
           l == f.line
           s == bcc[c][l]
           o == Told(Others(t), SendType(Goto(f, "grant")))
           d == Caller(t)
           given == Granted(o, f, s)
           w == Written(f, s)
           e == WithSharer(o, d.cache, given)
           g == Goto(f, "end")
           b == Upd(bcc, c, l, w)
<1>1. /\ stack[t] # <<>> /\ f.pc \in {"dir", "grant"} /\ (f.todo = {} \/ f.pc = "dir")
      /\ SetTop(t, g) /\ tcc' = Upd(tcc, c, l, e)
      /\ bcc' = b \/ bcc' = Upd(b, d.cache, d.line, given)
      /\ tag' = tag /\ UNCHANGED lockVars
  BY DEF Grant, At, Upd
<1>2. f \in Frames /\ FrameOK(f) /\ c \in Caches /\ TagOK(tag, f, FALSE)
  BY <1>1, TopOK
<1>3. /\ l \in Lines[c] /\ tcc[c][l] \in Entries /\ s \in MESIState /\ tag[c][l] # None /\ ~Terminal(c) /\ f.todo = {}
  BY <1>1, <1>2 DEF FrameOK, LocksInv, LineInv, PerLine, TagOK, Sending
<1>4. /\ d \in Frames /\ d.cache \in Caches /\ d.line \in Lines[d.cache] /\ tag[d.cache][d.line] # None
  <2>1. d \in Frames /\ d.cache \in Caches /\ LinkOK(d, f) /\ TagOK(tag, d, TRUE)
    BY <1>1, <1>3, CallerOK
  <2>2. d.pc \in Called
    BY <1>1, <2>1 DEF LinkOK
  <2> QED
    BY <2>1, <2>2 DEF TagOK
<1>5. e \in Entries /\ given \in MESIState /\ w \in MESIState
  <2>1. o \in Entries
    BY <1>3, OthersEntry, ToldEntry
  <2> QED
    BY <1>3, <1>4, <2>1, SharerEntry DEF Granted, Written, MESIState
<1>6. g \in Frames /\ g.cache = c /\ g.pc = "end" /\ g.line = l /\ g.todo = {}
  BY <1>2, <1>3, GotoFrame DEF PCs
<1> HIDE DEF g, e, b, given, w
<1>7. FrameOK(g) /\ TagOK(tag, g, FALSE)
  BY <1>3, <1>6 DEF FrameOK, TagOK
<1>8. ShapeInv' /\ LockInv' /\ SameOthers(t) /\ TagsOK(tag, stack'[t])
  BY <1>1, <1>6, <1>7, SetTopOnlyInv DEF TagsGrow
<1>9. /\ PerLine(tcc', Entries)
      /\ \A x \in Caches : \A m \in Lines[x] : tcc'[x][m] = IF x = c /\ m = l THEN e ELSE tcc[x][m]
  BY <1>1, <1>5, PerLineSet DEF LocksInv, LineInv
<1>10. /\ PerLine(b, MESIState)
       /\ \A x \in Caches : \A m \in Lines[x] : b[x][m] = IF x = c /\ m = l THEN w ELSE bcc[x][m]
  BY <1>5, PerLineSet DEF LocksInv, LineInv, b
<1>11. /\ PerLine(bcc', MESIState)
       /\ \A x \in Caches : \A m \in Lines[x] : bcc'[x][m] = b[x][m] \/ (x = d.cache /\ m = d.line)
  BY <1>1, <1>5, <1>10, PerLineSet
<1>12. \A x \in Caches : \A m \in Lines[x] :
          \/ tag[x][m] # None
          \/ bcc'[x][m] \in {bcc[x][m], "I"} /\ tcc'[x][m].numSharers \in {tcc[x][m].numSharers, 0}
  BY <1>3, <1>4, <1>9, <1>10, <1>11
<1> QED
  BY <1>1, <1>8, <1>9, <1>11, <1>12, LinesOnlyInv

LEMMA ShapeStep ==
    ASSUME LocksInv, NEW t \in Cores, StackType', SameOthers(t), Shape(t, stack'[t]), Levels(stack'[t])
    PROVE  ShapeInv'
<1>1. \A u \in Cores \ {t} : Shape(u, stack'[u]) /\ Levels(stack'[u])
  BY DEF SameOthers, LocksInv, ShapeInv
<1> QED
  BY <1>1 DEF ShapeInv, StackType

LEMMA EndAccessInv ==
    ASSUME LocksInv, NEW t \in Cores, EndAccess(t)
    PROVE  LocksInv'
<1> DEFINE f == Top(t)
           c == f.cache
           s == stack[t]
           r == stack'[t]
<1>1. /\ s # <<>> /\ f.pc = "end" /\ tccLock' = [tccLock EXCEPT ![c] = IF Terminal(c) THEN tccLock[c] ELSE None]
      /\ UNCHANGED <<tag, bcc, tcc, filter, dummy, dirty>>
  BY DEF EndAccess, At, arrayVars
<1>2. /\ f \in Frames /\ FrameOK(f) /\ c \in Caches /\ StackType /\ Len(s) \in Nat \ {0} /\ f = s[Len(s)]
      /\ Shape(t, s) /\ Levels(s)
  BY <1>1, TopOK
<1>3. BccHeld(s) = {c} /\ FilterHeld(s) = {}
  BY <1>1, <1>2, AccessHolds, FilterHolds
<1>4. \A d \in Caches : /\ bccLock[d] = t <=> d = c
                        /\ tccLock[d] = t <=> d \in TccHeld(s)
                        /\ filterLock[d] # t
  BY <1>3 DEF LocksInv, LockInv
<1>5. LockInv /\ t # None
  BY MesiAssumption DEF LocksInv
<1>6. CASE Len(s) = 1
  <2> DEFINE g == Goto(f, "fill")
  <2>1. /\ filterLock[c] = None /\ filterLock' = [filterLock EXCEPT ![c] = t]
        /\ bccLock' = [bccLock EXCEPT ![c] = None] /\ SetTop(t, g)
    BY <1>6 DEF EndAccess
  <2>2. Terminal(c)
    <3>1. s[1].cache \in FirstLevel[t]
      BY <1>2, <1>6 DEF Shape
    <3> QED
      BY <1>2, <1>6, <3>1, TerminalFacts
  <2>3. tccLock' = tccLock
    BY <1>1, <1>5, <2>2 DEF LockInv
  <2>4. g \in Frames /\ g.cache = c /\ g.pc = "fill" /\ g.line = f.line /\ g.todo = f.todo
    BY <1>2, GotoFrame DEF PCs
  <2>5. f.todo = {} /\ f.line \in Lines[c] \cup {None}
    BY <1>1, <1>2 DEF FrameOK, Sending
  <2> HIDE DEF g
  <2>6. FrameOK(g) /\ TagOK(tag, g, FALSE)
    BY <2>4, <2>5 DEF FrameOK, TagOK
  <2>7. /\ ShapeInv' /\ SameOthers(t) /\ TopSet(s, r, g)
        /\ BccHeld(stack[t])' = {} /\ FilterHeld(stack[t])' = {c}
        /\ TccHeld(stack[t])' = TccHeld(stack[t])
    BY <1>1, <1>6, <2>1, <2>4, <2>6, SetTopInv
  <2>8. LockStep(t, bccLock, BccHeld(stack[t])', bccLock')
    BY <1>2, <1>4, <1>5, <2>1, <2>7 DEF LockStep, LockInv
  <2>9. LockStep(t, filterLock, FilterHeld(stack[t])', filterLock')
    BY <1>2, <1>4, <1>5, <2>1, <2>7 DEF LockStep, LockInv
  <2>10. LockStep(t, tccLock, TccHeld(stack[t])', tccLock')
    BY <1>5, <2>3, <2>7, LockStutters
  <2>11. LockInv'
    BY <1>5, <2>7, <2>8, <2>9, <2>10, LockStepInv
  <2>12. TagsOK(tag, stack'[t])
    BY <1>2, <2>6, <2>7, StackTags DEF LocksInv, LineInv
  <2> QED
    BY <1>1, <2>7, <2>11, <2>12, LinesOnlyInv DEF LocksInv, LineInv
<1>7. CASE Len(s) # 1
  <2> DEFINE d == Caller(t)
  <2>1. /\ bccLock[d.cache] = None /\ bccLock' = [bccLock EXCEPT ![c] = None, ![d.cache] = t]
        /\ stack' = [stack EXCEPT ![t] = Front(@)] /\ filterLock' = filterLock
    BY <1>7 DEF EndAccess
  <2>2. Len(s) > 1
    BY <1>2, <1>7, MoreThanOne
  <2>3. StackType' /\ SameOthers(t) /\ Popped(s, r, d) /\ d = s[Len(s) - 1] /\ d \in Frames
    BY <1>1, <1>2, <2>1, <2>2, EndStack, TopFacts
  <2>4. /\ Len(s) - 1 \in 1 .. Len(s) /\ Len(s) - 1 < Len(s) /\ (Len(s) - 1) + 1 = Len(s)
    BY <1>2, <2>2
  <2>5. FrameOK(d) /\ LinkOK(d, f) /\ d.pc # "fill" /\ TagOK(tag, d, TRUE)
    <3>1. FrameOK(s[Len(s) - 1]) /\ LinkOK(s[Len(s) - 1], s[(Len(s) - 1) + 1]) /\ s[Len(s) - 1].pc # "fill"
      BY <1>2, <2>2, <2>4 DEF Shape
    <3>2. TagOK(tag, s[Len(s) - 1], TRUE)
      BY <2>4 DEF LocksInv, LineInv, TagsOK, TagOK
    <3> QED
      BY <1>2, <2>3, <2>4, <3>1, <3>2
  <2>6. d.cache \in Caches /\ c \in Caches /\ d.cache \in Range(Children[c]) /\ ~Terminal(c) /\ d.cache # c
    <3>1. d.cache \in Caches /\ d.cache \in Range(Children[c])
      BY <1>1, <2>3, <2>5 DEF LinkOK, Frames
    <3>2. Level[d.cache] < Level[c] /\ Level[c] \in Nat /\ ~Terminal(c)
      BY <1>2, <3>1, LevelFacts, TerminalFacts
    <3> QED
      BY <1>2, <3>1, <3>2
  <2>7. Shape(t, r) /\ Levels(r)
    <3> HIDE DEF s, r, d
    <3> QED
      BY <1>2, <2>2, <2>3, <2>5, PoppedShape
  <2>8. ShapeInv'
    BY <2>3, <2>7, ShapeStep
  <2>9. BccHeld(r) = {d.cache} /\ TccHeld(r) = TccHeld(s) \ {c} /\ FilterHeld(r) = {}
    <3>1. s[Len(s)].pc = "end" /\ s[Len(s)].cache = c
      BY <1>1, <1>2
    <3> HIDE DEF s, r, d, c
    <3>0. Len(s) \in Nat /\ Shape(t, s) /\ Levels(s)
      BY <1>2
    <3>2. BccHeld(r) = {d.cache} /\ TccHeld(r) = TccHeld(s) \ {s[Len(s)].cache}
      <4>1. Popped(s, r, s[Len(s) - 1]) /\ d = s[Len(s) - 1]
        BY <2>3
      <4>2. s[Len(s)].pc = "end" /\ Levels(r)
        BY <2>7, <3>1
      <4> QED
        BY <2>2, <3>0, <4>1, <4>2, PopAccessHeld
    <3>3. Len(r) \in Nat \ {0} /\ r[Len(r)].pc # "fill"
      BY <1>2, <2>2, <2>3, <2>5 DEF Popped
    <3>4. FilterHeld(r) = {}
      BY <2>7, <3>3, FilterHolds
    <3> QED
      BY <3>1, <3>2, <3>4
  <2>10. LockStep(t, bccLock, BccHeld(stack[t])', bccLock')
    BY <1>4, <1>5, <2>1, <2>6, <2>9 DEF LockStep, LockInv
  <2>11. LockStep(t, filterLock, FilterHeld(stack[t])', filterLock')
    BY <1>3, <1>5, <2>1, <2>9, LockStutters
  <2>12. LockStep(t, tccLock, TccHeld(stack[t])', tccLock')
    <3>1. c \in TccHeld(s)
      <4>1. Len(s) \in 1 .. Len(s) /\ HoldsTcc(s, Len(s))
        BY <1>1, <1>2, <2>6 DEF HoldsTcc
      <4> QED
        BY <1>2, <4>1 DEF TccHeld
    <3>2. tccLock[c] = t /\ tccLock' = [tccLock EXCEPT ![c] = None]
      BY <1>1, <1>4, <2>6, <3>1
    <3> QED
      BY <1>4, <1>5, <2>6, <2>9, <3>2 DEF LockStep, LockInv
  <2>13. LockInv'
    BY <1>5, <2>3, <2>8, <2>10, <2>11, <2>12, LockStepInv
  <2>14. TagsOK(tag, stack'[t])
    <3>1. TagOK(tag, d, FALSE)
      BY <2>5 DEF TagOK
    <3> QED
      BY <1>2, <2>3, <3>1, StackTags DEF LocksInv, LineInv
  <2> QED
    BY <1>1, <2>3, <2>8, <2>13, <2>14, LinesOnlyInv DEF LocksInv, LineInv
<1> QED
  BY <1>6, <1>7

\* What an idle thread holds.
LEMMA EmptyStack ==
    ASSUME NEW t \in Cores, NEW s, s = <<>>
    PROVE  /\ Shape(t, s) /\ Levels(s) /\ \A g : TagsOK(g, s)
           /\ BccHeld(s) = {} /\ TccHeld(s) = {} /\ FilterHeld(s) = {}
<1>1. Len(s) = 0 /\ 1 .. Len(s) = {}
  OBVIOUS
<1> QED
  BY <1>1 DEF Shape, Levels, TagsOK, BccHeld, TccHeld, FilterHeld

LEMMA FillInv ==
    ASSUME LocksInv, NEW t \in Cores, Fill(t)
    PROVE  LocksInv'
<1> DEFINE f == Top(t)
           c == f.cache
           s == stack[t]
           r == stack'[t]
<1>1. /\ s # <<>> /\ f.pc = "fill" /\ filterLock' = [filterLock EXCEPT ![c] = None]
      /\ stack' = [stack EXCEPT ![t] = <<>>]
      /\ UNCHANGED <<tag, bcc, tcc, bccLock, tccLock>>
  BY DEF Fill, At, arrayVars
<1>2. /\ f \in Frames /\ c \in Caches /\ StackType /\ Len(s) \in Nat \ {0} /\ f = s[Len(s)]
      /\ Shape(t, s) /\ Levels(s)
  BY <1>1, TopOK
<1>3. BccHeld(s) = {} /\ FilterHeld(s) = {c}
  BY <1>1, <1>2, AccessHolds, FilterHolds
<1>4. TccHeld(s) = {}
  <2>1. Len(s) = 1
    <3>1. Len(s) \in 1 .. Len(s)
      BY <1>2
    <3> QED
      BY <1>1, <1>2, <3>1 DEF Shape
  <2>2. Terminal(s[1].cache)
    BY <1>2, <2>1, TerminalFacts DEF Shape
  <2> QED
    BY <2>1, <2>2 DEF TccHeld, HoldsTcc
<1>5. StackType' /\ SameOthers(t) /\ r = <<>>
  BY <1>1, <1>2 DEF StackType, SameOthers
<1>6. /\ Shape(t, r) /\ Levels(r) /\ TagsOK(tag, r)
      /\ BccHeld(r) = {} /\ TccHeld(r) = {} /\ FilterHeld(r) = {}
  BY <1>5, EmptyStack
<1>7. ShapeInv'
  BY <1>5, <1>6, ShapeStep
<1>8. /\ LockStep(t, bccLock, BccHeld(stack[t])', bccLock')
      /\ LockStep(t, tccLock, TccHeld(stack[t])', tccLock')
  BY <1>1, <1>3, <1>4, <1>6, LockStutters DEF LocksInv
<1>9. LockStep(t, filterLock, FilterHeld(stack[t])', filterLock')
  <2>1. \A d \in Caches : filterLock[d] = t <=> d = c
    BY <1>3 DEF LocksInv, LockInv
  <2> QED
    BY <1>1, <1>2, <1>6, <2>1, MesiAssumption DEF LocksInv, LockInv, LockStep
<1>10. LockInv'
  BY <1>5, <1>7, <1>8, <1>9, LockStepInv DEF LocksInv
<1> QED
  BY <1>1, <1>5, <1>6, <1>7, <1>10, LinesOnlyInv DEF LocksInv, LineInv

LEMMA ContextSwitchInv ==
    ASSUME LocksInv, NEW t \in Cores, NEW c \in FirstLevel[t], ContextSwitch(t, c)
    PROVE  LocksInv'
<1>1. UNCHANGED <<tag, bcc, tcc, bccLock, tccLock, filterLock, stack>>
  BY DEF ContextSwitch, arrayVars, lockVars
<1> QED
  BY <1>1 DEF LocksInv, ShapeInv, LockInv, LineInv

\* sendInvalidates goes through the children that are left to tell.
LEMMA NextChildIn ==
    ASSUME NEW f, f.cache \in Caches, f.todo \subseteq Range(Children[f.cache]), f.todo # {}
    PROVE  NextChild(f) \in f.todo
<1> DEFINE C == Children[f.cache]
           I == {i \in DOMAIN C : C[i] \in f.todo}
<1>1. C \in Seq(Caches)
  BY MesiAssumption
<1>2. Len(C) \in Nat /\ DOMAIN C = 1 .. Len(C)
  BY <1>1
<1>3. I \in SUBSET Nat
  BY <1>2
<1>4. I # {}
  BY DEF Range
<1> HIDE DEF I
<1>5. Min(I) \in I
  BY <1>3, <1>4, NatMin
<1>6. C[Min(I)] \in f.todo
  BY <1>5 DEF I
<1> QED
  BY <1>6 DEF NextChild, I

LEMMA InvFrameOK ==
    ASSUME NEW c \in Caches, NEW a \in Addrs, NEW type \in InvTypes, NEW l \in Lines[c] \cup {None},
           NEW todo \in SUBSET Range(Children[c]), l # None => tag[c][l] # None
    PROVE  LET f == InvFrame(c, a, type, l, todo) IN
           f \in Frames /\ FrameOK(f) /\ f.cache = c /\ f.pc = "inval" /\ TagOK(tag, f, FALSE)
<1> DEFINE f == [cache |-> c, addr |-> a, type |-> type, init |-> "I", own |-> FALSE,
                 flags |-> {}, pc |-> "inval", line |-> l, wb |-> FALSE, todo |-> todo]
<1>1. InvFrame(c, a, type, l, todo) = f
  BY DEF InvFrame
<1>2. todo \subseteq Caches /\ "I" \in MESIState
  BY LevelFacts DEF MESIState
<1>3. f.cache = c /\ f.pc = "inval" /\ f.line = l /\ f.todo = todo /\ f.type = type
  OBVIOUS
<1>4. f \in Frames
  BY <1>2, NewFrame
<1> HIDE DEF f
<1>5. FrameOK(f) /\ TagOK(tag, f, FALSE)
  BY <1>3 DEF FrameOK, TagOK, Sending, Called
<1> QED
  BY <1>1, <1>3, <1>4, <1>5

LEMMA StartInvalidateInv ==
    ASSUME LocksInv, NEW t \in Cores, StartInvalidate(t)
    PROVE  LocksInv'
<1> DEFINE f == Top(t)
           c == f.cache
           d == NextChild(f)
           a == SendAddr(f)
           type == SendType(f)
           l == Line(d, a)
           todo == Targets(tcc[d][l], d, type)
           g == [f EXCEPT !.todo = @ \ {d}]
           h == InvFrame(d, a, type, l, todo)
<1>1. /\ stack[t] # <<>> /\ f.todo # {} /\ bccLock[d] = None /\ bccLock' = [bccLock EXCEPT ![d] = t]
      /\ Call(t, g, h) /\ UNCHANGED <<tag, bcc, tcc, tccLock, filterLock>>
  BY DEF StartInvalidate, CanStartInv, arrayVars
<1>2. f \in Frames /\ FrameOK(f) /\ c \in Caches /\ f.addr \in Addrs /\ Len(stack[t]) \in Nat \ {0} /\ TagOK(tag, f, FALSE)
  BY <1>1, TopOK
<1>3. f.pc \in Sending /\ f.todo \subseteq Range(Children[c])
  BY <1>1, <1>2 DEF FrameOK
<1>4. d \in f.todo /\ d \in Range(Children[c]) /\ d \in Caches
  BY <1>1, <1>2, <1>3, NextChildIn, LevelFacts
<1>5. a \in Addrs
  <2>1. CASE f.pc = "evict"
    <3>1. tag[c][f.line] # None
      BY <1>1, <1>2, <2>1 DEF TagOK
    <3>2. f.line \in Lines[c]
      BY <1>2, <2>1 DEF FrameOK
    <3>3. tag[c][f.line] \in Addrs
      BY <1>2, <3>1, <3>2 DEF LocksInv, LineInv, PerLine
    <3> QED
      BY <2>1, <3>3 DEF SendAddr
  <2>2. CASE f.pc # "evict"
    BY <1>2, <2>2 DEF SendAddr
  <2> QED
    BY <2>1, <2>2
<1>6. l \in Lines[d] \cup {None} /\ (l # None => tag[d][l] # None)
  <2>1. Lookup(d, a) # {} => l \in Lookup(d, a)
    BY DEF Line
  <2>2. Lookup(d, a) = {} => l = None
    BY DEF Line
  <2> QED
    BY <1>5, <2>1, <2>2, MesiAssumption DEF Lookup
<1>7. type \in InvTypes
  <2>1. CASE f.pc = "evict"
    BY <2>1 DEF SendType, InvTypes
  <2>2. CASE f.pc = "grant"
    BY <2>2 DEF SendType, InvTypes
  <2>3. CASE f.pc = "inval"
    BY <1>2, <2>3 DEF SendType, FrameOK
  <2> QED
    BY <1>3, <2>1, <2>2, <2>3 DEF Sending
<1>8. todo \in SUBSET Range(Children[d])
  BY <1>4, TargetsFacts
<1>9. h \in Frames /\ FrameOK(h) /\ h.cache = d /\ h.pc = "inval" /\ TagOK(tag, h, FALSE)
  <2> HIDE DEF d, a, type, l, todo
  <2> QED
    BY <1>4, <1>5, <1>6, <1>7, <1>8, InvFrameOK
<1>10. g \in Frames /\ g.cache = c /\ g.pc = f.pc /\ g.line = f.line /\ g.wb = f.wb /\ g.todo = f.todo \ {d}
       /\ g.type = f.type
  BY <1>2 DEF Frames
<1> HIDE DEF g, h
<1>11. FrameOK(g) /\ TagOK(tag, g, TRUE)
  BY <1>1, <1>2, <1>3, <1>10 DEF FrameOK, TagOK, Sending, Called
<1>12. ShapeInv' /\ LockInv' /\ SameOthers(t) /\ Pushed(stack[t], stack'[t], g, h)
  BY <1>1, <1>3, <1>4, <1>9, <1>10, <1>11, CallDownInv
<1>13. TagsOK(tag, stack'[t])
  BY <1>2, <1>9, <1>11, <1>12, StackTags DEF LocksInv, LineInv
<1> QED
  BY <1>1, <1>12, <1>13, LinesOnlyInv DEF LocksInv, LineInv

LEMMA FinishInvalidateInv ==
    ASSUME LocksInv, NEW t \in Cores, FinishInvalidate(t)
    PROVE  LocksInv'
<1> DEFINE f == Top(t)
           c == f.cache
           l == f.line
           d == Caller(t)
           s == stack[t]
           r == stack'[t]
           w == d.wb \/ Writeback(f, bcc[c][l])
           g == [d EXCEPT !.wb = w]
           v == Invalidated(f.type)
           e == Told(tcc[c][l], f.type)
<1>1. /\ s # <<>> /\ f.pc = "inval" /\ tcc' = Upd(tcc, c, l, e) /\ bcc' = Upd(bcc, c, l, v)
      /\ bccLock' = [bccLock EXCEPT ![c] = None]
      /\ stack' = [stack EXCEPT ![t] = Append(Front(Front(@)), g)]
      /\ UNCHANGED <<tag, tccLock, filterLock>>
  BY DEF FinishInvalidate, At, Upd
<1>2. /\ f \in Frames /\ FrameOK(f) /\ c \in Caches /\ StackType /\ Len(s) \in Nat \ {0} /\ f = s[Len(s)]
      /\ Shape(t, s) /\ Levels(s) /\ TagOK(tag, f, FALSE)
  BY <1>1, TopOK
<1>3. /\ Len(s) > 1 /\ d = s[Len(s) - 1] /\ d \in Frames /\ d.cache \in Caches /\ FrameOK(d)
      /\ LinkOK(d, f) /\ TagOK(tag, d, TRUE) /\ d.pc # "fill"
  BY <1>1, CallerOK
<1>4. d.pc \in Sending
  BY <1>1, <1>3 DEF LinkOK
<1>5. w \in BOOLEAN
  BY <1>3 DEF Writeback, Frames
<1> HIDE DEF w
<1>6. g \in Frames /\ g.cache = d.cache /\ g.pc = d.pc /\ g.line = d.line /\ g.todo = d.todo /\ g.type = d.type
  BY <1>3, <1>5 DEF Frames
<1> HIDE DEF g
<1>7. FrameOK(g) /\ TagOK(tag, g, FALSE)
  BY <1>3, <1>4, <1>6 DEF FrameOK, TagOK, Sending, Called
<1>8. StackType' /\ SameOthers(t) /\ Popped(s, r, g)
  BY <1>1, <1>2, <1>3, <1>6, ReturnStack
<1>9. g.cache = s[Len(s) - 1].cache /\ g.pc = s[Len(s) - 1].pc /\ Len(s) \in Nat /\ s[Len(s)].pc = "inval"
      /\ s[Len(s)].cache = c
  BY <1>1, <1>2, <1>3, <1>6
<1>10. /\ Shape(t, r) /\ Levels(r) /\ BccHeld(r) = BccHeld(s) \ {s[Len(s)].cache} /\ TccHeld(r) = TccHeld(s)
       /\ FilterHeld(r) = FilterHeld(s)
  <2> HIDE DEF s, r
  <2>1. Shape(t, r) /\ Levels(r)
    BY <1>2, <1>3, <1>6, <1>7, <1>8, <1>9, PoppedShape
  <2>2. BccHeld(r) = BccHeld(s) \ {s[Len(s)].cache} /\ TccHeld(r) = TccHeld(s)
    BY <1>2, <1>3, <1>8, <1>9, PopInvHeld
  <2>3. Len(r) \in Nat \ {0} /\ r[Len(r)].pc # "fill"
    BY <1>3, <1>6, <1>8, <1>9 DEF Popped
  <2>4. FilterHeld(r) = {} /\ FilterHeld(s) = {}
    BY <1>2, <1>9, <2>1, <2>3, FilterHolds
  <2> QED
    BY <2>1, <2>2, <2>4
<1>11. ShapeInv'
  BY <1>8, <1>10, ShapeStep
<1>12. LockInv'
  <2>1. /\ LockStep(t, tccLock, TccHeld(stack[t])', tccLock')
        /\ LockStep(t, filterLock, FilterHeld(stack[t])', filterLock')
    BY <1>1, <1>10, LockStutters DEF LocksInv
  <2>2. c \in BccHeld(s)
    <3>1. Len(s) \in 1 .. Len(s) /\ HoldsBcc(s, Len(s))
      BY <1>2, <1>9 DEF HoldsBcc, Waits
    <3> QED
      BY <1>9, <3>1 DEF BccHeld
  <2>3. \A x \in Caches : bccLock[x] = t <=> x \in BccHeld(s)
    BY DEF LocksInv, LockInv
  <2>4. LockStep(t, bccLock, BccHeld(stack[t])', bccLock')
    BY <1>1, <1>2, <1>9, <1>10, <2>2, <2>3, MesiAssumption DEF LocksInv, LockInv, LockStep
  <2> QED
    BY <1>8, <1>11, <2>1, <2>4, LockStepInv DEF LocksInv
<1>13. TagsOK(tag, stack'[t])
  BY <1>2, <1>7, <1>8, StackTags DEF LocksInv, LineInv
<1>14. l \in Lines[c] => tag[c][l] # None /\ tcc[c][l] \in Entries
  <2>1. c \in Caches => None \notin Lines[c]
    BY MesiAssumption
  <2> QED
    BY <1>1, <1>2, <2>1 DEF TagOK, LocksInv, LineInv, PerLine
<1>15. v \in MESIState /\ (l \in Lines[c] => e \in Entries)
  BY <1>14, ToldEntry DEF Invalidated, MESIState
<1> HIDE DEF v, e
<1>16. /\ PerLine(tcc', Entries)
       /\ \A x \in Caches : \A m \in Lines[x] : tcc'[x][m] = IF x = c /\ m = l THEN e ELSE tcc[x][m]
  BY <1>1, <1>15, PerLineSet DEF LocksInv, LineInv
<1>17. /\ PerLine(bcc', MESIState)
       /\ \A x \in Caches : \A m \in Lines[x] : bcc'[x][m] = IF x = c /\ m = l THEN v ELSE bcc[x][m]
  BY <1>1, <1>15, PerLineSet DEF LocksInv, LineInv
<1>18. \A x \in Caches : \A m \in Lines[x] :
          \/ tag[x][m] # None
          \/ bcc'[x][m] \in {bcc[x][m], "I"} /\ tcc'[x][m].numSharers \in {tcc[x][m].numSharers, 0}
  BY <1>14, <1>16, <1>17
<1> QED
  BY <1>1, <1>8, <1>11, <1>12, <1>13, <1>16, <1>17, <1>18, LinesOnlyInv

LEMMA ReplaceInv ==
    ASSUME LocksInv, NEW t \in Cores, NEW c \in FirstLevel[t], NEW a \in Addrs, NEW type \in Gets, Replace(t, c, a, type)
    PROVE  LocksInv'
<1> DEFINE f == [cache |-> c, addr |-> a, type |-> type, init |-> "I", own |-> FALSE, flags |-> {}, pc |-> "bcc",
                 line |-> None, wb |-> FALSE, todo |-> {}]
           r == stack'[t]
<1>1. c \in Caches /\ Terminal(c)
  BY TerminalFacts
<1>2. AccessFrame(c, a, type, "I", FALSE, ReqFlags(c)) = f
  BY <1>1 DEF AccessFrame, Carried
<1>3. /\ stack[t] = <<>> /\ stack' = [stack EXCEPT ![t] = <<f>>]
      /\ UNCHANGED <<tag, bcc, tcc, bccLock, tccLock, filterLock>>
  BY <1>2 DEF Replace, arrayVars, lockVars
<1>4. f.cache = c /\ f.pc = "bcc" /\ f.line = None /\ f.todo = {} /\ f.wb = FALSE
  OBVIOUS
<1>5. f \in Frames
  BY <1>1, NewFrame DEF MESIState
<1> HIDE DEF f
<1>6. FrameOK(f) /\ TagOK(tag, f, FALSE)
  BY <1>4 DEF FrameOK, TagOK, Called
<1>7. StackType /\ StackType' /\ SameOthers(t) /\ r = <<f>>
  BY <1>3, <1>5 DEF StackType, SameOthers, LocksInv, ShapeInv
<1>8. Len(r) = 1 /\ r[1] = f /\ 1 .. Len(r) = {1}
  BY <1>7
<1> HIDE DEF r
<1>9. Shape(t, r) /\ Levels(r) /\ TagsOK(tag, r)
  BY <1>4, <1>5, <1>6, <1>8 DEF Shape, Levels, TagsOK, TagOK
<1>10. /\ BccHeld(r) = {} /\ TccHeld(r) = {} /\ FilterHeld(r) = {}
  BY <1>1, <1>4, <1>8 DEF BccHeld, TccHeld, FilterHeld, HoldsBcc, HoldsTcc
<1>11. BccHeld(stack[t]) = {} /\ TccHeld(stack[t]) = {} /\ FilterHeld(stack[t]) = {}
  BY <1>3, EmptyStack
<1>12. ShapeInv'
  BY <1>7, <1>9, ShapeStep DEF r
<1>13. LockInv'
  <2>1. /\ LockStep(t, bccLock, BccHeld(stack[t])', bccLock')
        /\ LockStep(t, tccLock, TccHeld(stack[t])', tccLock')
        /\ LockStep(t, filterLock, FilterHeld(stack[t])', filterLock')
    BY <1>3, <1>10, <1>11, LockStutters DEF LocksInv, r
  <2> QED
    BY <1>7, <1>12, <2>1, LockStepInv DEF LocksInv
<1> QED
  BY <1>3, <1>7, <1>9, <1>12, <1>13, LinesOnlyInv DEF LocksInv, LineInv, r

LEMMA LocksInit == MesiInit => LocksInv
<1> SUFFICES ASSUME MesiInit PROVE LocksInv
  OBVIOUS
<1>1. stack \in [Cores -> Seq(Frames)] /\ \A t \in Cores : stack[t] = <<>>
  BY DEF MesiInit
<1>2. ShapeInv
  BY <1>1, EmptyStack DEF ShapeInv
<1>3. LockInv
  <2>1. \A t \in Cores : BccHeld(stack[t]) = {} /\ TccHeld(stack[t]) = {} /\ FilterHeld(stack[t]) = {}
    BY <1>1, EmptyStack
  <2> QED
    BY <2>1, MesiAssumption DEF LockInv, MesiInit
<1>4. LineInv
  <2>1. PerLine(tag, Addrs \cup {None})
    BY DEF PerLine, MesiInit
  <2>2. PerLine(bcc, MESIState)
    BY DEF PerLine, MesiInit, MESIState
  <2>3. PerLine(tcc, Entries) /\ \A c \in Caches : \A l \in Lines[c] : tcc[c][l].numSharers = 0
    <3>1. EmptyEntry \in Entries /\ EmptyEntry.numSharers = 0
      BY DEF EmptyEntry, Entries
    <3> QED
      BY <3>1 DEF PerLine, MesiInit
  <2>4. \A c \in Caches : \A l \in Lines[c] : bcc[c][l] = "I"
    BY DEF MesiInit
  <2>5. \A t \in Cores : TagsOK(tag, stack[t])
    BY <1>1, EmptyStack
  <2> QED
    BY <2>1, <2>2, <2>3, <2>4, <2>5 DEF LineInv
<1> QED
  BY <1>2, <1>3, <1>4 DEF LocksInv

LEMMA LocksStep == LocksInv /\ [MesiNext]_mesiVars => LocksInv'
<1> SUFFICES ASSUME LocksInv, [MesiNext]_mesiVars PROVE LocksInv'
  OBVIOUS
<1>1. ASSUME NEW t \in Cores, Step(t) PROVE LocksInv'
  BY <1>1, LockTccInv, StartAccessInv, EvictInv, AccessUpInv, TakeLineInv, TellOthersInv, GrantInv,
     EndAccessInv, FillInv, StartInvalidateInv, FinishInvalidateInv DEF Step
<1>2. ASSUME NEW t \in Cores, NEW c \in FirstLevel[t], ContextSwitch(t, c) PROVE LocksInv'
  BY <1>2, ContextSwitchInv
<1>3. ASSUME NEW t \in Cores, NEW c \in FirstLevel[t], NEW a \in Addrs, NEW type \in Gets, Replace(t, c, a, type)
      PROVE  LocksInv'
  BY <1>3, ReplaceInv
<1>4. CASE UNCHANGED mesiVars
  BY <1>4 DEF mesiVars, LocksInv, ShapeInv, LockInv, LineInv
<1> QED
  BY <1>1, <1>2, <1>3, <1>4 DEF MesiNext

\* The call stacks of the threads and the locks of the hierarchy agree, in every
\* reachable state: an access holds the top locks of the caches it has passed
\* and at most one bottom lock, an invalidation the bottom locks from the cache
\* that sends it down (startAccess, endAccess, startInv, processInval).
THEOREM LocksSafety == MesiSpec => []LocksInv
<1> QED
  BY LocksInit, LocksStep, PTL DEF MesiSpec

-----------------------------------------------------------------------------
(* No circular wait.  A thread that waits for a lock is ranked by it: top  *)
(* locks rank over bottom locks, the lower the cache the higher, and       *)
(* bottom locks rank by the level of their cache.  Who holds a lock waits  *)
(* for one of a smaller rank, or for none.                                 *)

Rank(t) ==
    LET f == Top(t) IN
    IF stack[t] = <<>> THEN 0
    ELSE IF f.todo # {} THEN Level[NextChild(f)] + 2
    ELSE IF f.pc = "tcc" THEN 2 * Cardinality(Caches) + 3 - Level[f.cache]
    ELSE IF f.pc = "bcc" THEN Level[f.cache] + 2
    ELSE IF f.pc = "end" THEN IF Len(stack[t]) = 1 THEN 1 ELSE Level[Caller(t).cache] + 2
    ELSE IF f.pc = "inval" /\ Terminal(f.cache) THEN 1
    ELSE 0

\* The cases that the rank distinguishes.
LEMMA RankCases ==
    ASSUME LocksInv, NEW t \in Cores, stack[t] # <<>>
    PROVE  LET f == Top(t) IN
           \/ /\ f.todo # {} /\ NextChild(f) \in Caches /\ NextChild(f) \in Range(Children[f.cache])
              /\ WaitsFor(t) = bccLock[NextChild(f)] /\ Rank(t) = Level[NextChild(f)] + 2
           \/ /\ f.pc = "tcc" /\ WaitsFor(t) = tccLock[f.cache]
              /\ Rank(t) = 2 * Cardinality(Caches) + 3 - Level[f.cache]
           \/ f.pc = "bcc" /\ WaitsFor(t) = bccLock[f.cache] /\ Rank(t) = Level[f.cache] + 2
           \/ f.pc = "end" /\ WaitsFor(t) = filterLock[f.cache] /\ Rank(t) = 1
           \/ /\ f.pc = "end" /\ Caller(t).cache \in Caches /\ Caller(t).cache \in Range(Children[f.cache])
              /\ WaitsFor(t) = bccLock[Caller(t).cache] /\ Rank(t) = Level[Caller(t).cache] + 2
           \/ f.pc = "inval" /\ WaitsFor(t) = filterLock[f.cache] /\ Rank(t) = 1
           \/ f.pc \notin {"tcc", "bcc", "end"} /\ WaitsFor(t) = None /\ Rank(t) = 0
<1> DEFINE f == Top(t)
<1>1. f \in Frames /\ FrameOK(f) /\ f.cache \in Caches /\ Len(stack[t]) \in Nat \ {0} /\ f = stack[t][Len(stack[t])]
  BY TopOK
<1>2. CASE f.todo # {}
  <2>1. f.pc \in Sending /\ f.todo \subseteq Range(Children[f.cache])
    BY <1>1, <1>2 DEF FrameOK
  <2>2. NextChild(f) \in Range(Children[f.cache]) /\ NextChild(f) \in Caches
    BY <1>1, <1>2, <2>1, NextChildIn, LevelFacts
  <2>3. ~(f.pc = "inval" /\ Terminal(f.cache))
    BY <1>1, <2>2, TerminalFacts
  <2>4. WaitsFor(t) = bccLock[NextChild(f)]
    BY <1>2, <2>1, <2>3 DEF WaitsFor, Sending
  <2>5. Rank(t) = Level[NextChild(f)] + 2
    BY <1>2 DEF Rank
  <2> QED
    BY <1>2, <2>2, <2>4, <2>5
<1>3. CASE f.todo = {} /\ f.pc = "tcc"
  BY <1>3 DEF WaitsFor, Rank
<1>4. CASE f.todo = {} /\ f.pc = "bcc"
  BY <1>4 DEF WaitsFor, Rank
<1>5. CASE f.todo = {} /\ f.pc = "end"
  <2>1. CASE Len(stack[t]) = 1
    BY <1>5, <2>1 DEF WaitsFor, Rank
  <2>2. CASE Len(stack[t]) # 1
    <3> DEFINE s == stack[t]
               n == Len(s) - 1
    <3>1. n \in 1 .. Len(s) /\ n < Len(s) /\ n + 1 = Len(s) /\ Caller(t) = s[n]
      BY <1>1, <2>2, MoreThanOne DEF Caller
    <3>2. LinkOK(s[n], s[n + 1]) /\ s[n].cache \in Caches
      BY <3>1 DEF LocksInv, ShapeInv, Shape, Frames
    <3>3. Caller(t).cache \in Caches /\ Caller(t).cache \in Range(Children[f.cache])
      BY <1>1, <1>5, <3>1, <3>2 DEF LinkOK
    <3>4. WaitsFor(t) = bccLock[Caller(t).cache] /\ Rank(t) = Level[Caller(t).cache] + 2
      BY <1>5, <2>2 DEF WaitsFor, Rank
    <3> QED
      BY <1>5, <3>3, <3>4
  <2> QED
    BY <2>1, <2>2
<1>6. CASE f.todo = {} /\ f.pc = "inval" /\ Terminal(f.cache)
  BY <1>6 DEF WaitsFor, Rank
<1>7. CASE f.todo = {} /\ f.pc \notin {"tcc", "bcc", "end"} /\ ~(f.pc = "inval" /\ Terminal(f.cache))
  BY <1>7 DEF WaitsFor, Rank
<1> QED
  BY <1>2, <1>3, <1>4, <1>5, <1>6, <1>7

LEMMA RankNat ==
    ASSUME LocksInv, NEW t \in Cores
    PROVE  Rank(t) \in Nat
<1>1. CASE stack[t] = <<>>
  BY <1>1 DEF Rank
<1>2. CASE stack[t] # <<>>
  <2>1. Top(t).cache \in Caches
    BY <1>2, TopOK
  <2> QED
    BY <1>2, <2>1, RankCases, LevelFacts
<1> QED
  BY <1>1, <1>2

LEMMA BccRank ==
    ASSUME LocksInv, NEW u \in Cores, NEW d \in Caches, bccLock[d] = u
    PROVE  stack[u] # <<>> /\ Rank(u) < Level[d] + 2
<1> DEFINE s == stack[u]
           f == Top(u)
<1>1. PICK i \in 1 .. Len(s) : HoldsBcc(s, i) /\ s[i].cache = d
  BY DEF LocksInv, LockInv, BccHeld
<1>2. s # <<>>
  <2>1. s = <<>> => 1 .. Len(s) = {}
    OBVIOUS
  <2> QED
    BY <1>1, <2>1
<1>3. f \in Frames /\ f.cache \in Caches /\ Len(s) \in Nat \ {0} /\ f = s[Len(s)] /\ Levels(s)
  BY <1>2, TopOK
<1>4. f.pc \notin {"tcc", "bcc"} /\ Level[f.cache] <= Level[d]
  <2>1. CASE i = Len(s)
    <3>1. Level[d] \in Nat
      BY LevelFacts
    <3> QED
      BY <1>1, <1>3, <2>1, <3>1 DEF HoldsBcc
  <2>2. CASE i # Len(s)
    <3>1. i < Len(s) /\ i \in Nat /\ Len(s) \in 1 .. Len(s) /\ i + 1 \in 1 .. Len(s)
      BY <1>1, <1>3, <2>2
    <3>2. s[i + 1].pc = "inval"
      BY <1>1, <3>1 DEF HoldsBcc, Waits
    <3>3. Level[s[i].cache] > Level[s[Len(s)].cache]
      BY <1>1, <1>3, <3>1, <3>2 DEF Levels
    <3>4. i + 1 = Len(s) \/ i + 1 < Len(s)
      BY <1>3, <3>1
    <3>5. s[Len(s)].pc = "inval"
      BY <1>3, <3>1, <3>2, <3>4 DEF Levels
    <3>6. Level[d] \in Nat /\ Level[f.cache] \in Nat
      BY <1>3, LevelFacts
    <3> QED
      BY <1>1, <1>3, <3>3, <3>5, <3>6
  <2> QED
    BY <2>1, <2>2
<1>5. \A x \in Caches : x \in Range(Children[f.cache]) => Level[x] < Level[f.cache] /\ Level[x] \in Nat
  BY <1>3, LevelFacts
<1>6. Level[d] \in Nat /\ Level[f.cache] \in Nat
  BY <1>3, LevelFacts
<1> QED
  BY <1>2, <1>4, <1>5, <1>6, RankCases

LEMMA FilterRank ==
    ASSUME LocksInv, NEW u \in Cores, NEW c \in Caches, filterLock[c] = u
    PROVE  stack[u] # <<>> /\ Rank(u) = 0
<1> DEFINE s == stack[u]
<1>1. PICK i \in 1 .. Len(s) : s[i].pc = "fill"
  BY DEF LocksInv, LockInv, FilterHeld
<1>2. s # <<>>
  <2>1. s = <<>> => 1 .. Len(s) = {}
    OBVIOUS
  <2> QED
    BY <1>1, <2>1
<1>3. Len(s) \in Nat \ {0} /\ Top(u) = s[Len(s)] /\ Shape(u, s) /\ FrameOK(Top(u))
  BY <1>2, TopOK
<1>4. Len(s) = 1
  BY <1>1, <1>3 DEF Shape
<1>5. Top(u).pc = "fill" /\ Top(u).todo = {}
  BY <1>1, <1>3, <1>4 DEF FrameOK, Sending
<1> QED
  BY <1>2, <1>5 DEF Rank

LEMMA TccRank ==
    ASSUME LocksInv, NEW u \in Cores, NEW c \in Caches, tccLock[c] = u
    PROVE  stack[u] # <<>> /\ Rank(u) < 2 * Cardinality(Caches) + 3 - Level[c]
<1> DEFINE s == stack[u]
           f == Top(u)
<1>1. PICK i \in 1 .. Len(s) : HoldsTcc(s, i) /\ s[i].cache = c
  BY DEF LocksInv, LockInv, TccHeld
<1>2. s # <<>>
  <2>1. s = <<>> => 1 .. Len(s) = {}
    OBVIOUS
  <2> QED
    BY <1>1, <2>1
<1>3. f \in Frames /\ f.cache \in Caches /\ Len(s) \in Nat \ {0} /\ f = s[Len(s)] /\ Levels(s)
  BY <1>2, TopOK
<1>4. f.pc = "tcc" => Level[c] < Level[f.cache]
  <2> SUFFICES ASSUME f.pc = "tcc" PROVE Level[c] < Level[f.cache]
    OBVIOUS
  <2>1. i # Len(s)
    BY <1>1, <1>3 DEF HoldsTcc
  <2>2. i < Len(s) /\ Len(s) \in 1 .. Len(s)
    BY <1>1, <1>3, <2>1
  <2> QED
    BY <1>1, <1>3, <2>2 DEF Levels
<1>5. \A x \in Caches : Level[x] \in Nat /\ Level[x] <= Cardinality(Caches)
  BY LevelFacts
<1>6. Cardinality(Caches) \in Nat
  BY LevelFacts
<1>7. f.pc = "tcc" \/ Rank(u) <= Cardinality(Caches) + 2
  BY <1>2, <1>3, <1>5, <1>6, RankCases
<1>8. f.pc = "tcc" => Rank(u) = 2 * Cardinality(Caches) + 3 - Level[f.cache]
  <2>1. f.pc = "tcc" => f.todo = {}
    BY <1>2, TopOK DEF FrameOK, Sending
  <2> QED
    BY <1>2, <2>1 DEF Rank
<1>9. Rank(u) \in Nat
  BY RankNat
<1> DEFINE k == Cardinality(Caches)
<1>10. CASE f.pc = "tcc"
  <2>1. Level[c] \in Nat /\ Level[f.cache] \in Nat /\ Level[c] < Level[f.cache] /\ Rank(u) = 2 * k + 3 - Level[f.cache]
    BY <1>3, <1>4, <1>5, <1>8, <1>10
  <2> HIDE DEF k
  <2> QED
    BY <1>2, <1>6, <2>1 DEF k
<1>11. CASE f.pc # "tcc"
  <2>1. Level[c] \in Nat /\ Level[c] <= k /\ Rank(u) <= k + 2
    BY <1>5, <1>7, <1>11
  <2>2. k \in Nat /\ Rank(u) \in Nat
    BY <1>6, <1>9
  <2> HIDE DEF k
  <2>3. Rank(u) < 2 * k + 3 - Level[c]
    BY <2>1, <2>2
  <2> QED
    BY <1>2, <2>3 DEF k
<1> QED
  BY <1>10, <1>11

\* Who holds the lock that a thread waits for has a smaller rank.
LEMMA WaitDescends ==
    ASSUME LocksInv, NEW t \in Cores, WaitsFor(t) # None
    PROVE  WaitsFor(t) \in Cores /\ stack[WaitsFor(t)] # <<>> /\ Rank(WaitsFor(t)) < Rank(t)
<1> DEFINE u == WaitsFor(t)
           f == Top(t)
<1>1. stack[t] # <<>>
  BY DEF WaitsFor
<1>2. f.cache \in Caches
  BY <1>1, TopOK
<1>3. \A c \in Caches : /\ bccLock[c] # None => bccLock[c] \in Cores
                        /\ tccLock[c] # None => tccLock[c] \in Cores
                        /\ filterLock[c] # None => filterLock[c] \in Cores
  BY DEF LocksInv, LockInv
<1>4. ASSUME NEW d \in Caches, u = bccLock[d], Rank(t) = Level[d] + 2
      PROVE  u \in Cores /\ stack[u] # <<>> /\ Rank(u) < Rank(t)
  BY <1>3, <1>4, BccRank
<1>5. ASSUME NEW c \in Caches, u = filterLock[c], Rank(t) = 1
      PROVE  u \in Cores /\ stack[u] # <<>> /\ Rank(u) < Rank(t)
  BY <1>3, <1>5, FilterRank
<1>6. ASSUME NEW c \in Caches, u = tccLock[c], Rank(t) = 2 * Cardinality(Caches) + 3 - Level[c]
      PROVE  u \in Cores /\ stack[u] # <<>> /\ Rank(u) < Rank(t)
  BY <1>3, <1>6, TccRank
<1> QED
  BY <1>1, <1>2, <1>4, <1>5, <1>6, RankCases

LEMMA LocksNoCircle == LocksInv => NoCircularWait
<1> SUFFICES ASSUME LocksInv, NEW T \in SUBSET Cores, T # {}
             PROVE  \E t \in T : WaitsFor(t) \notin T /\ (WaitsFor(t) # None => stack[WaitsFor(t)] # <<>>)
  BY DEF NoCircularWait
<1> DEFINE R == {Rank(t) : t \in T}
<1>1. R \in SUBSET Nat /\ R # {}
  BY RankNat
<1> HIDE DEF R
<1>2. Min(R) \in R /\ \A y \in R : Min(R) <= y
  BY <1>1, NatMin
<1>3. PICK t \in T : Rank(t) = Min(R)
  BY <1>2 DEF R
<1>4. \A u \in T : Rank(t) <= Rank(u) /\ Rank(u) \in Nat
  BY <1>2, <1>3, RankNat DEF R
<1>5. None \notin T
  BY MesiAssumption
<1>6. WaitsFor(t) # None => /\ stack[WaitsFor(t)] # <<>> /\ Rank(WaitsFor(t)) < Rank(t)
  BY WaitDescends
<1>7. WaitsFor(t) \notin T
  <2> SUFFICES ASSUME WaitsFor(t) \in T PROVE FALSE
    OBVIOUS
  <2>1. Rank(WaitsFor(t)) < Rank(t) /\ Rank(t) <= Rank(WaitsFor(t)) /\ Rank(WaitsFor(t)) \in Nat /\ Rank(t) \in Nat
    BY <1>3, <1>4, <1>5, <1>6
  <2> QED
    BY <2>1
<1> QED
  BY <1>6, <1>7

\* Accesses and invalidations never deadlock, whatever the hierarchy: no set of
\* threads waits for locks that only they hold (coherence_ctrls.h:309-312).
THEOREM NoDeadlock == MesiSpec => []NoCircularWait
<1> QED
  BY LocksSafety, LocksNoCircle, PTL
=============================================================================
