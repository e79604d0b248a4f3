-------------------------- MODULE PrioQueueProofs --------------------------
(***************************************************************************)
(* The event queue is exact, and implements OrderedQueue, for every set of *)
(* events, every even number of blocks, every width of a block and every   *)
(* bound on cycles.  The ring holds the cycles of a window of B blocks     *)
(* from curBlock on; the proof is about the list of each cycle of the      *)
(* window, and the arithmetic says that no two of them share a slot.       *)
(***************************************************************************)
EXTENDS PrioQueue, FiniteSetTheorems, WellFoundedInduction, TLAPS

-----------------------------------------------------------------------------
(* Every set of natural numbers that is not empty has a least element: the *)
(* proofs take it where others go by induction.                            *)

Less == {ss \in Nat \X Nat : ss[1] < ss[2]}

\* There is no infinite descent in the natural numbers.
LEMMA LessWellFounded == IsWellFoundedOn(Less, Nat)
BY NatLessThanWellFounded, Zenon DEF OpToRel, Less

\* Min is the least element, which the arguments about the first entry of some
\* kind need.
LEMMA NatMin ==
    ASSUME NEW S \in SUBSET Nat, S # {}
    PROVE  Min(S) \in S /\ \A y \in S : Min(S) <= y
<1>1. PICK x \in S : \A y \in S : <<y, x>> \notin Less
  BY LessWellFounded, WFMin
<1>2. \A y \in S : x <= y
  <2> TAKE y \in S
  <2>1. <<y, x>> \in Nat \X Nat
    OBVIOUS
  <2>2. ~ (y < x)
    BY <1>1, <2>1 DEF Less
  <2> QED
    BY <2>2
<1> QED
  BY <1>2 DEF Min

-----------------------------------------------------------------------------
(* Arithmetic.                                                             *)

LEMMA DivMod ==
    ASSUME NEW a \in Int, NEW w \in Nat \ {0}
    PROVE  /\ a \div w \in Int /\ a % w \in 0 .. w - 1
           /\ a = (a \div w) * w + (a % w)
           /\ a >= 0 => a \div w >= 0
OBVIOUS

LEMMA Division ==
    ASSUME NEW a \in Int, NEW w \in Nat \ {0}
    PROVE  \E d \in Int, m \in 0 .. w - 1 : d = a \div w /\ m = a % w /\ a = d * w + m
BY DivMod

LEMMA MulMono ==
    ASSUME NEW x \in Int, NEW y \in Int, NEW w \in Nat \ {0}, x < y
    PROVE  x * w + w <= y * w
OBVIOUS

\* A quotient and a remainder determine each other.
LEMMA DivUnique ==
    ASSUME NEW q \in Int, NEW w \in Nat \ {0}, NEW r \in 0 .. w - 1
    PROVE  (q * w + r) \div w = q /\ (q * w + r) % w = r
<1> DEFINE a == q * w + r
<1>1. PICK d \in Int, m \in 0 .. w - 1 : d = a \div w /\ m = a % w /\ a = d * w + m
  BY DivMod
<1>2. ~ (q < d)
  BY <1>1, MulMono
<1>3. ~ (d < q)
  BY <1>1, MulMono
<1> QED
  BY <1>1, <1>2, <1>3

LEMMA NegMul ==
    ASSUME NEW d \in Int, NEW w \in Int
    PROVE  \E e \in Int : e * w + d * w = 0 /\ d * w \in Int /\ e * w \in Int
<1>1. (- d) * w + d * w = 0 /\ d * w \in Int /\ (- d) * w \in Int /\ - d \in Int
  OBVIOUS
<1> QED
  BY <1>1

\* Of n consecutive numbers from c on, one is i modulo n.
LEMMA WindowMod ==
    ASSUME NEW c \in Int, NEW n \in Nat \ {0}, NEW i \in 0 .. n - 1
    PROVE  /\ c + ((i - c) % n) \in c .. c + n - 1
           /\ (c + ((i - c) % n)) % n = i
<1>0. i - c \in Int
  OBVIOUS
<1>1. PICK d \in Int, m \in 0 .. n - 1 : m = (i - c) % n /\ i - c = d * n + m
  BY <1>0, Division, Zenon
<1>2. PICK e \in Int : e * n + d * n = 0 /\ d * n \in Int /\ e * n \in Int
  BY NegMul
<1>3. c + m = e * n + i
  BY <1>1, <1>2
<1>4. (e * n + i) % n = i
  BY DivUnique
<1> QED
  BY <1>1, <1>3, <1>4

LEMMA WindowModUnique ==
    ASSUME NEW c \in Int, NEW n \in Nat \ {0}, NEW b \in c .. c + n - 1
    PROVE  b % n \in 0 .. n - 1 /\ c + (((b % n) - c) % n) = b
<1>0. b \in Int /\ b - c \in 0 .. n - 1 /\ n \in Int
  OBVIOUS
<1>1. PICK d \in Int, m \in 0 .. n - 1 : m = b % n /\ b = d * n + m
  BY <1>0, Division, Zenon
<1>2. PICK e \in Int : e * n + d * n = 0 /\ d * n \in Int /\ e * n \in Int
  BY <1>0, NegMul, Zenon
<1>3. m - c = e * n + (b - c)
  <2>1. b = d * n + m /\ e * n + d * n = 0 /\ d * n \in Int /\ e * n \in Int
    BY <1>1, <1>2
  <2> QED
    BY <1>0, <2>1
<1>4. (e * n + (b - c)) % n = b - c
  BY <1>0, DivUnique, Zenon
<1>5. ((b % n) - c) % n = b - c
  BY <1>1, <1>3, <1>4, Zenon
<1> QED
  BY <1>0, <1>1, <1>5

LEMMA Constants ==
    /\ B \in Nat \ {0} /\ W \in Nat \ {0} /\ MaxCycle \in Nat
    /\ B \div 2 \in Nat \ {0} /\ B = (B \div 2) + (B \div 2)
BY PrioQueueAssumption

-----------------------------------------------------------------------------
(* The window: cycle x of it is slot x % W of ring block (x \div W) % B.    *)

Window(c) == c * W .. (c + B) * W - 1
Cell(bs, x) == bs[(x \div W) % B][x % W]
Blocks == [Ring -> [Slots -> Seq(Events)]]

\* The events of the ring by slot, as the module defines them, and by cycle.
BySlot(bs, c) == UNION {UNION {{<<(c + ((i - c) % B)) * W + pos, e>> : e \in Range(bs[i][pos])}
                               : pos \in Slots} : i \in Ring}
ByCycle(bs, c) == {p \in Window(c) \X Events : p[2] \in Range(Cell(bs, p[1]))}

LEMMA CyclesOfBlock ==
    ASSUME NEW b \in Int, NEW c \in Int, NEW pos \in Slots
    PROVE  /\ (b * W + pos) \div W = b /\ (b * W + pos) % W = pos
           /\ b * W + pos >= c * W <=> b >= c
           /\ b * W + pos < c * W <=> b < c
<1>1. (b * W + pos) \div W = b /\ (b * W + pos) % W = pos
  BY DivUnique, Constants DEF Slots
<1>2. CASE b = c
  BY <1>1, <1>2, Constants DEF Slots
<1>3. CASE b < c
  <2>1. b * W + W <= c * W
    BY <1>3, MulMono, Constants
  <2> QED
    BY <1>1, <1>3, <2>1, Constants DEF Slots
<1>4. CASE b > c
  <2>1. c * W + W <= b * W
    BY <1>4, MulMono, Constants
  <2> QED
    BY <1>1, <1>4, <2>1, Constants DEF Slots
<1> QED
  BY <1>2, <1>3, <1>4

LEMMA CycleSlot ==
    ASSUME NEW x \in Int
    PROVE  /\ x \div W \in Int /\ x % W \in Slots /\ x = (x \div W) * W + (x % W)
           /\ (x \div W) % B \in Ring
           /\ x \in Nat => x \div W \in Nat
<1>1. /\ x \div W \in Int /\ x % W \in Slots /\ x = (x \div W) * W + (x % W)
      /\ x \in Nat => x \div W \in Nat
  BY DivMod, Constants DEF Slots
<1>2. \A b \in Int : b % B \in Ring
  BY DivMod, Constants DEF Ring
<1> QED
  BY <1>1, <1>2

LEMMA WindowBlocks ==
    ASSUME NEW c \in Nat, NEW x \in Int
    PROVE  x \in Window(c) <=> x \div W \in c .. c + B - 1
<1>1. PICK b \in Int, pos \in Slots : b = x \div W /\ x = b * W + pos
  BY CycleSlot
<1>2. b * W + pos >= c * W <=> b >= c
  BY CyclesOfBlock
<1>3. b * W + pos < (c + B) * W <=> b < c + B
  <2>1. c + B \in Int
    BY Constants
  <2> QED
    BY <2>1, CyclesOfBlock
<1>4. c * W \in Int /\ (c + B) * W \in Int /\ B \in Nat
  BY Constants
<1> QED
  BY <1>1, <1>2, <1>3, <1>4 DEF Window

LEMMA BlockMod == \A b \in Int : b % B \in Ring
BY DivMod, Constants DEF Ring

\* Two cycles of the window do not share a slot.
LEMMA CellsApart ==
    ASSUME NEW c \in Nat, NEW x \in Window(c), NEW y \in Window(c),
           (x \div W) % B = (y \div W) % B, x % W = y % W
    PROVE  x = y
<1>1. x \in Int /\ y \in Int
  BY Constants DEF Window
<1>2. x \div W \in c .. c + B - 1 /\ y \div W \in c .. c + B - 1
  BY <1>1, WindowBlocks
<1>3. x \div W = y \div W
  <2>1. c \in Int /\ B \in Nat \ {0}
    BY Constants
  <2>2. /\ c + ((((x \div W) % B) - c) % B) = x \div W
        /\ c + ((((y \div W) % B) - c) % B) = y \div W
    BY <1>2, <2>1, WindowModUnique, Zenon
  <2> QED
    BY <2>2, Zenon
<1>4. x = (x \div W) * W + (x % W) /\ y = (y \div W) * W + (y % W)
  BY <1>1, CycleSlot
<1> QED
  BY <1>3, <1>4, Zenon

LEMMA SlotsAreCycles ==
    ASSUME NEW bs \in Blocks, NEW c \in Nat
    PROVE  BySlot(bs, c) = ByCycle(bs, c)
<1>1. ASSUME NEW i \in Ring, NEW pos \in Slots, NEW e \in Range(bs[i][pos])
      PROVE  <<(c + ((i - c) % B)) * W + pos, e>> \in ByCycle(bs, c)
  <2>1. PICK b \in Int : b = c + ((i - c) % B) /\ b \in c .. c + B - 1 /\ b % B = i
    <3>1. c \in Int /\ B \in Nat \ {0} /\ i \in 0 .. B - 1
      BY Constants DEF Ring
    <3>2. c + ((i - c) % B) \in c .. c + B - 1 /\ (c + ((i - c) % B)) % B = i
      BY <3>1, WindowMod, Zenon
    <3> QED
      BY <3>1, <3>2
  <2>2. PICK x \in Int : x = b * W + pos /\ x \div W = b /\ x % W = pos
    BY CyclesOfBlock, Constants DEF Slots
  <2>3. x \in Window(c)
    BY <2>1, <2>2, WindowBlocks
  <2>4. e \in Events /\ e \in Range(Cell(bs, x))
    BY <2>1, <2>2 DEF Cell, Blocks, Range
  <2> QED
    BY <2>1, <2>2, <2>3, <2>4 DEF ByCycle
<1>2. ASSUME NEW x \in Window(c), NEW e \in Range(Cell(bs, x))
      PROVE  <<x, e>> \in BySlot(bs, c)
  <2>1. x \in Int
    BY Constants DEF Window
  <2>2. /\ x \div W \in c .. c + B - 1 /\ x % W \in Slots
        /\ x = (x \div W) * W + (x % W)
    BY <2>1, WindowBlocks, CycleSlot
  <2>3. (x \div W) % B \in Ring /\ c + ((((x \div W) % B) - c) % B) = x \div W
    <3>1. c \in Int /\ B \in Nat \ {0}
      BY Constants
    <3> QED
      BY <2>2, <3>1, WindowModUnique, Zenon DEF Ring
  <2>4. x = (c + ((((x \div W) % B) - c) % B)) * W + (x % W)
    BY <2>2, <2>3, Zenon
  <2> QED
    BY <2>2, <2>3, <2>4 DEF BySlot, Cell
<1>3. \A p \in BySlot(bs, c) : p \in ByCycle(bs, c)
  <2> TAKE p \in BySlot(bs, c)
  <2>1. PICK i \in Ring, pos \in Slots : \E e \in Range(bs[i][pos]) :
             p = <<(c + ((i - c) % B)) * W + pos, e>>
    BY DEF BySlot
  <2> QED
    BY <1>1, <2>1
<1>4. \A p \in ByCycle(bs, c) : p \in BySlot(bs, c)
  <2> TAKE p \in ByCycle(bs, c)
  <2>1. p[1] \in Window(c) /\ p[2] \in Range(Cell(bs, p[1])) /\ p = <<p[1], p[2]>>
    BY DEF ByCycle
  <2> QED
    BY <1>2, <2>1, Zenon
<1> HIDE DEF BySlot, ByCycle
<1> QED
  BY <1>3, <1>4, Zenon

-----------------------------------------------------------------------------
(* What the operations do to the ring.                                     *)

\* No event is in the ring twice; event e is not in it.
NoDup(bs) ==
    \A i, j \in Ring, pos, q \in Slots :
        \A k \in 1 .. Len(bs[i][pos]), l \in 1 .. Len(bs[j][q]) :
            bs[i][pos][k] = bs[j][q][l] => i = j /\ pos = q /\ k = l
Fresh(bs, e) == \A i \in Ring, pos \in Slots : e \notin Range(bs[i][pos])

LEMMA FreshByCycle ==
    ASSUME NEW bs \in Blocks, NEW c \in Nat, NEW e, \A p \in ByCycle(bs, c) : p[2] # e
    PROVE  Fresh(bs, e)
<1> SUFFICES ASSUME NEW i \in Ring, NEW pos \in Slots, e \in Range(bs[i][pos]) PROVE FALSE
  BY DEF Fresh
<1>1. <<(c + ((i - c) % B)) * W + pos, e>> \in BySlot(bs, c)
  BY DEF BySlot
<1> QED
  BY <1>1, SlotsAreCycles

LEMMA Prepend ==
    ASSUME NEW s \in Seq(Events), NEW e \in Events
    PROVE  /\ <<e>> \o s \in Seq(Events)
           /\ Len(<<e>> \o s) = Len(s) + 1
           /\ \A k \in 1 .. Len(s) + 1 : (<<e>> \o s)[k] = IF k = 1 THEN e ELSE s[k - 1]
           /\ Range(<<e>> \o s) = Range(s) \cup {e}
<1>1. /\ <<e>> \o s \in Seq(Events)
      /\ Len(<<e>> \o s) = Len(s) + 1
      /\ \A k \in 1 .. Len(s) + 1 : (<<e>> \o s)[k] = IF k = 1 THEN e ELSE s[k - 1]
  OBVIOUS
<1>2. Range(<<e>> \o s) = Range(s) \cup {e}
  <2> DEFINE t == <<e>> \o s
  <2>1. DOMAIN t = 1 .. Len(s) + 1 /\ DOMAIN s = 1 .. Len(s) /\ Len(s) \in Nat
    BY <1>1
  <2>2. t[1] = e /\ \A k \in 1 .. Len(s) : t[k + 1] = s[k]
    BY <1>1, <2>1
  <2> HIDE DEF t
  <2>3. \A y \in Range(t) : y \in Range(s) \cup {e}
    <3> TAKE y \in Range(t)
    <3>1. PICK k \in 1 .. Len(s) + 1 : y = t[k]
      BY <2>1 DEF Range
    <3>2. CASE k = 1
      BY <3>1, <3>2, <2>2
    <3>3. CASE k # 1
      <4>1. k - 1 \in 1 .. Len(s) /\ t[(k - 1) + 1] = s[k - 1] /\ (k - 1) + 1 = k
        BY <3>3, <2>1, <2>2
      <4> QED
        BY <3>1, <4>1, <2>1 DEF Range
    <3> QED
      BY <3>2, <3>3
  <2>4. \A y \in Range(s) : y \in Range(t)
    <3> TAKE y \in Range(s)
    <3>1. PICK k \in 1 .. Len(s) : y = s[k]
      BY <2>1 DEF Range
    <3>2. k + 1 \in DOMAIN t /\ t[k + 1] = y
      BY <3>1, <2>1, <2>2
    <3> QED
      BY <3>2 DEF Range
  <2>5. e \in Range(t)
    BY <2>1, <2>2 DEF Range
  <2> QED
    BY <2>3, <2>4, <2>5 DEF t
<1> QED
  BY <1>1, <1>2

LEMMA NoDupUse ==
    ASSUME NEW bs, NoDup(bs), NEW i \in Ring, NEW j \in Ring, NEW pos \in Slots, NEW q \in Slots,
           NEW k \in 1 .. Len(bs[i][pos]), NEW l \in 1 .. Len(bs[j][q]), bs[i][pos][k] = bs[j][q][l]
    PROVE  i = j /\ pos = q /\ k = l
BY DEF NoDup

LEMMA WindowSlot ==
    ASSUME NEW c \in Nat, NEW x \in Window(c)
    PROVE  x \in Nat /\ (x \div W) % B \in Ring /\ x % W \in Slots
<1>1. x \in Nat
  BY Constants DEF Window
<1> QED
  BY <1>1, CycleSlot

LEMMA PutRing ==
    ASSUME NEW bs \in Blocks, NEW c \in Nat, NEW x \in Window(c), NEW e \in Events
    PROVE  /\ Put(bs, x, e) \in Blocks
           /\ ByCycle(Put(bs, x, e), c) = ByCycle(bs, c) \cup {<<x, e>>}
           /\ NoDup(bs) /\ Fresh(bs, e) => NoDup(Put(bs, x, e))
           /\ \A f : Fresh(bs, f) /\ f # e => Fresh(Put(bs, x, e), f)
<1> DEFINE i == (x \div W) % B
           pos == x % W
           s == bs[i][pos]
           new == Put(bs, x, e)
<1>1. i \in Ring /\ pos \in Slots /\ x \in Int
  BY WindowSlot
<1>2. s \in Seq(Events)
  BY <1>1 DEF Blocks
<1>3. /\ new \in Blocks
      /\ \A j \in Ring, q \in Slots :
            new[j][q] = IF j = i /\ q = pos THEN <<e>> \o s ELSE bs[j][q]
  <2>1. <<e>> \o s \in Seq(Events)
    BY <1>2, Prepend
  <2>2. new = [bs EXCEPT ![i] = [bs[i] EXCEPT ![pos] = <<e>> \o s]]
    BY DEF Put
  <2> HIDE DEF i, pos, s, new
  <2> QED
    BY <1>1, <2>1, <2>2, Zenon DEF Blocks
<1> HIDE DEF i, pos, s, new
<1>4. ByCycle(new, c) = ByCycle(bs, c) \cup {<<x, e>>}
  <2>1. ASSUME NEW y \in Window(c)
        PROVE  Range(Cell(new, y)) = IF y = x THEN Range(Cell(bs, y)) \cup {e} ELSE Range(Cell(bs, y))
    <3>1. (y \div W) % B \in Ring /\ y % W \in Slots
      BY WindowSlot
    <3>2. CASE y = x
      <4>1. Cell(new, y) = <<e>> \o s /\ Cell(bs, y) = s
        BY <1>3, <3>1, <3>2 DEF Cell, i, pos, s
      <4> QED
        BY <1>2, <3>2, <4>1, Prepend
    <3>3. CASE y # x
      <4>1. ~ ((y \div W) % B = i /\ y % W = pos)
        BY <3>3, CellsApart DEF i, pos
      <4> QED
        BY <1>3, <3>1, <3>3, <4>1, Zenon DEF Cell
    <3> QED
      BY <3>2, <3>3
  <2> QED
    BY <2>1 DEF ByCycle
<1>5. ASSUME NoDup(bs), Fresh(bs, e) PROVE NoDup(new)
  <2>0. \A k, l \in 1 .. Len(bs[i][pos]) : bs[i][pos][k] = bs[i][pos][l] => k = l
    BY <1>1, <1>5, NoDupUse
  <2> SUFFICES ASSUME NEW j1 \in Ring, NEW j2 \in Ring, NEW q1 \in Slots, NEW q2 \in Slots,
                      NEW k1 \in 1 .. Len(new[j1][q1]), NEW k2 \in 1 .. Len(new[j2][q2]),
                      new[j1][q1][k1] = new[j2][q2][k2]
               PROVE  j1 = j2 /\ q1 = q2 /\ k1 = k2
    BY Zenon DEF NoDup
  <2>1. \A j \in Ring, q \in Slots : DOMAIN bs[j][q] = 1 .. Len(bs[j][q]) /\ Len(bs[j][q]) \in Nat
    BY DEF Blocks
  <2>2. \A j \in Ring, q \in Slots : \A k \in 1 .. Len(bs[j][q]) : bs[j][q][k] # e
    BY <1>5, <2>1 DEF Fresh, Range
  <2>3. /\ Len(<<e>> \o s) = Len(s) + 1
        /\ \A k \in 1 .. Len(s) + 1 : (<<e>> \o s)[k] = IF k = 1 THEN e ELSE s[k - 1]
        /\ s = bs[i][pos] /\ Len(s) \in Nat
    BY <1>2, Prepend DEF s
  <2> DEFINE At1 == j1 = i /\ q1 = pos
             At2 == j2 = i /\ q2 = pos
  <2>4. CASE ~ At1 /\ ~ At2
    <3>1. new[j1][q1] = bs[j1][q1] /\ new[j2][q2] = bs[j2][q2]
      BY <1>3, <2>4
    <3>2. k1 \in 1 .. Len(bs[j1][q1]) /\ k2 \in 1 .. Len(bs[j2][q2]) /\ bs[j1][q1][k1] = bs[j2][q2][k2]
      BY <3>1
    <3> QED
      BY <1>5, <3>2, NoDupUse
  <2>5. CASE At1 /\ ~ At2
    <3>1. new[j1][q1] = <<e>> \o s /\ new[j2][q2] = bs[j2][q2]
      BY <1>3, <2>5
    <3>2. k1 \in 1 .. Len(s) + 1 /\ k1 # 1
      BY <2>2, <2>3, <3>1
    <3>3. k1 - 1 \in 1 .. Len(bs[i][pos]) /\ bs[i][pos][k1 - 1] = bs[j2][q2][k2] /\ k2 \in 1 .. Len(bs[j2][q2])
      BY <2>3, <3>1, <3>2
    <3> QED
      BY <1>1, <1>5, <2>5, <3>3, NoDupUse
  <2>6. CASE ~ At1 /\ At2
    <3>1. new[j2][q2] = <<e>> \o s /\ new[j1][q1] = bs[j1][q1]
      BY <1>3, <2>6
    <3>2. k2 \in 1 .. Len(s) + 1 /\ k2 # 1
      BY <2>2, <2>3, <3>1
    <3>3. k2 - 1 \in 1 .. Len(bs[i][pos]) /\ bs[i][pos][k2 - 1] = bs[j1][q1][k1] /\ k1 \in 1 .. Len(bs[j1][q1])
      BY <2>3, <3>1, <3>2
    <3> QED
      BY <1>1, <1>5, <2>6, <3>3, NoDupUse
  <2>7. CASE At1 /\ At2
    <3>1. new[j1][q1] = <<e>> \o s /\ new[j2][q2] = <<e>> \o s
      BY <1>3, <2>7
    <3>2. k1 \in 1 .. Len(s) + 1 /\ k2 \in 1 .. Len(s) + 1
      BY <2>3, <3>1
    <3>3. CASE k1 = 1 \/ k2 = 1
      <4>1. \A k \in 1 .. Len(s) + 1 : k # 1 => k - 1 \in 1 .. Len(s) /\ s[k - 1] # e
        BY <1>1, <2>2, <2>3
      <4>2. k1 = 1 /\ k2 = 1
        BY <2>3, <3>1, <3>2, <3>3, <4>1
      <4> QED
        BY <2>7, <4>2
    <3>4. CASE k1 # 1 /\ k2 # 1
      <4>1. /\ k1 - 1 \in 1 .. Len(bs[i][pos]) /\ k2 - 1 \in 1 .. Len(bs[i][pos])
            /\ bs[i][pos][k1 - 1] = bs[i][pos][k2 - 1]
        BY <2>3, <3>1, <3>2, <3>4
      <4>2. k1 - 1 = k2 - 1
        <5>1. PICK m1 \in 1 .. Len(bs[i][pos]) : m1 = k1 - 1
          BY <4>1
        <5>2. PICK m2 \in 1 .. Len(bs[i][pos]) : m2 = k2 - 1
          BY <4>1
        <5>3. bs[i][pos][m1] = bs[i][pos][m2]
          BY <4>1, <5>1, <5>2
        <5>4. m1 = m2
          BY <2>0, <5>1, <5>2, <5>3
        <5> QED
          BY <5>1, <5>2, <5>4
      <4> QED
        BY <2>7, <3>2, <4>2
    <3> QED
      BY <3>3, <3>4
  <2> QED
    BY <2>4, <2>5, <2>6, <2>7
<1>6. \A f : Fresh(bs, f) /\ f # e => Fresh(new, f)
  <2>1. Range(<<e>> \o s) = Range(s) \cup {e} /\ s = bs[i][pos]
    BY <1>2, Prepend DEF s
  <2> QED
    BY <1>1, <1>3, <2>1 DEF Fresh
<1> QED
  BY <1>3, <1>4, <1>5, <1>6 DEF new

LEMMA OccCells ==
    ASSUME NEW bs \in Blocks, NEW c \in Nat, NEW x \in Window(c)
    PROVE  Range(Cell(bs, x)) # {} <=> x % W \in Occ(bs[(x \div W) % B])
<1>1. (x \div W) % B \in Ring /\ x % W \in Slots
  BY WindowSlot
<1>2. Cell(bs, x) \in Seq(Events)
  BY <1>1 DEF Cell, Blocks
<1>3. \A t \in Seq(Events) : Range(t) # {} <=> t # <<>>
  <2> TAKE t \in Seq(Events)
  <2>1. CASE t = <<>>
    BY <2>1 DEF Range
  <2>2. CASE t # <<>>
    <3>1. 1 \in DOMAIN t
      BY <2>2
    <3> QED
      BY <2>2, <3>1 DEF Range
  <2> QED
    BY <2>1, <2>2
<1> QED
  BY <1>1, <1>2, <1>3 DEF Occ, Cell

\* The window moves on by a block, and what was the first slot becomes the last.
LEMMA SkipRing ==
    ASSUME NEW bs \in Blocks, NEW c \in Nat, Occ(bs[c % B]) = {}
    PROVE  /\ ByCycle(bs, c + 1) = ByCycle(bs, c)
           /\ \A p \in ByCycle(bs, c) : p[1] >= (c + 1) * W
<1>0. c + 1 \in Nat /\ c \in Int /\ c + B \in Int /\ B \in Nat \ {0}
  BY Constants
<1>1. (c + B) % B = c % B
  <2>1. PICK d \in Int, m \in 0 .. B - 1 : m = c % B /\ c = d * B + m
    BY <1>0, Division, Zenon
  <2>2. c + B = (d + 1) * B + m /\ d + 1 \in Int
    BY <1>0, <2>1
  <2>3. ((d + 1) * B + m) % B = m
    BY <1>0, <2>2, DivUnique, Zenon
  <2> QED
    BY <2>1, <2>2, <2>3
<1>2. ASSUME NEW x \in Window(c), Range(Cell(bs, x)) # {}
      PROVE  x \in Window(c + 1) /\ x >= (c + 1) * W
  <2>1. x \in Nat /\ x \div W \in c .. c + B - 1
    BY WindowSlot, WindowBlocks
  <2>2. x \div W # c
    BY <1>2, OccCells
  <2>3. x \div W \in c + 1 .. (c + 1) + B - 1
    BY <1>0, <2>1, <2>2
  <2>4. x \in Window(c + 1)
    BY <1>0, <2>1, <2>3, WindowBlocks
  <2> QED
    BY <1>0, <2>1, <2>4, Constants DEF Window
<1>3. ASSUME NEW x \in Window(c + 1), Range(Cell(bs, x)) # {}
      PROVE  x \in Window(c)
  <2>1. x \in Nat /\ x \div W \in c + 1 .. (c + 1) + B - 1
    BY <1>0, WindowSlot, WindowBlocks
  <2>2. x \div W # c + B
    BY <1>0, <1>1, <1>3, OccCells
  <2>3. x \div W \in c .. c + B - 1
    BY <1>0, <2>1, <2>2
  <2> QED
    BY <2>1, <2>3, WindowBlocks
<1>4. \A p : p \in ByCycle(bs, c + 1) <=> p \in ByCycle(bs, c)
  BY <1>2, <1>3 DEF ByCycle
<1>5. \A p \in ByCycle(bs, c) : p[1] >= (c + 1) * W
  BY <1>2 DEF ByCycle
<1> QED
  BY <1>4, <1>5, Zenon

LEMMA Behead ==
    ASSUME NEW s \in Seq(Events), s # <<>>
    PROVE  /\ Tail(s) \in Seq(Events) /\ Head(s) = s[1] /\ Head(s) \in Events
           /\ Len(s) \in Nat /\ Len(Tail(s)) = Len(s) - 1
           /\ \A k \in 1 .. Len(s) - 1 : Tail(s)[k] = s[k + 1]
           /\ 1 \in 1 .. Len(s) /\ Head(s) \in Range(s)
<1>1. /\ Tail(s) \in Seq(Events) /\ Head(s) = s[1] /\ Head(s) \in Events
      /\ Len(s) \in Nat /\ Len(Tail(s)) = Len(s) - 1
      /\ \A k \in 1 .. Len(s) - 1 : Tail(s)[k] = s[k + 1]
      /\ 1 \in 1 .. Len(s) /\ DOMAIN s = 1 .. Len(s)
  OBVIOUS
<1> QED
  BY <1>1 DEF Range

LEMMA TailRange ==
    ASSUME NEW s \in Seq(Events), s # <<>>,
           \A k, l \in 1 .. Len(s) : s[k] = s[l] => k = l
    PROVE  Range(Tail(s)) = Range(s) \ {Head(s)}
<1> DEFINE t == Tail(s)
<1>1. /\ DOMAIN t = 1 .. Len(s) - 1 /\ DOMAIN s = 1 .. Len(s) /\ Len(s) \in Nat
      /\ Head(s) = s[1] /\ 1 \in 1 .. Len(s)
      /\ \A k \in 1 .. Len(s) - 1 : t[k] = s[k + 1]
  BY Behead
<1> HIDE DEF t
<1>2. ASSUME NEW y \in Range(t) PROVE y \in Range(s) /\ y # s[1]
  <2>1. PICK k \in 1 .. Len(s) - 1 : y = s[k + 1]
    BY <1>1 DEF Range
  <2>2. k + 1 \in 1 .. Len(s) /\ k + 1 # 1
    BY <1>1
  <2>3. s[k + 1] # s[1]
    BY <1>1, <2>2
  <2> QED
    BY <1>1, <2>1, <2>2, <2>3 DEF Range
<1>3. ASSUME NEW y \in Range(s), y # s[1] PROVE y \in Range(t)
  <2>1. PICK k \in 1 .. Len(s) : y = s[k]
    BY <1>1 DEF Range
  <2>2. k - 1 \in 1 .. Len(s) - 1 /\ (k - 1) + 1 = k
    BY <1>1, <1>3, <2>1
  <2>3. t[k - 1] = s[(k - 1) + 1]
    BY <1>1, <2>2
  <2> QED
    BY <1>1, <2>1, <2>2, <2>3 DEF Range
<1> QED
  BY <1>1, <1>2, <1>3 DEF t

\* The head of the first slot in use is the earliest event of the ring.
LEMMA TakeRing ==
    ASSUME NEW bs \in Blocks, NEW c \in Nat, NoDup(bs), Occ(bs[c % B]) # {}
    PROVE  LET pos == First(bs[c % B])
               x   == c * W + pos
               e   == Head(bs[c % B][pos])
               new == [bs EXCEPT ![c % B][pos] = Tail(@)]
           IN  /\ pos \in Slots /\ x \in Window(c) /\ e \in Events
               /\ new \in Blocks /\ NoDup(new)
               /\ <<x, e>> \in ByCycle(bs, c)
               /\ ByCycle(new, c) = ByCycle(bs, c) \ {<<x, e>>}
               /\ \A p \in ByCycle(bs, c) : x <= p[1]
               /\ \A f : Fresh(bs, f) => Fresh(new, f)
<1> DEFINE i   == c % B
           pos == First(bs[i])
           x   == c * W + pos
           s   == bs[i][pos]
           e   == Head(s)
           new == [bs EXCEPT ![i][pos] = Tail(@)]
<1>1. i \in Ring /\ c \in Int
  BY BlockMod
<1>2. pos \in Occ(bs[i]) /\ \A q \in Occ(bs[i]) : pos <= q
  <2>1. Occ(bs[i]) \in SUBSET Nat
    BY Constants DEF Occ, Slots
  <2> HIDE DEF i
  <2> QED
    BY <2>1, NatMin DEF First, i
<1>3. pos \in Slots /\ s # <<>>
  BY <1>2 DEF Occ
<1>4. s \in Seq(Events)
  BY <1>1, <1>3 DEF Blocks
<1>5. x \div W = c /\ x % W = pos /\ x \in Int
  <2> HIDE DEF pos
  <2>1. (c * W + pos) \div W = c /\ (c * W + pos) % W = pos
    BY <1>1, <1>3, CyclesOfBlock, Zenon
  <2>2. c * W \in Int /\ pos \in Int
    BY <1>1, <1>3, Constants DEF Slots
  <2> QED
    BY <2>1, <2>2
<1>6. x \in Window(c)
  <2>1. c \in c .. c + B - 1
    BY Constants
  <2> HIDE DEF x
  <2> QED
    BY <1>5, <2>1, WindowBlocks
<1>7. Cell(bs, x) = s
  BY <1>5 DEF Cell
<1>8. /\ new \in Blocks
      /\ \A j \in Ring, q \in Slots :
            new[j][q] = IF j = i /\ q = pos THEN Tail(s) ELSE bs[j][q]
  <2>1. Tail(s) \in Seq(Events)
    BY <1>3, <1>4, Behead
  <2>2. new = [bs EXCEPT ![i] = [bs[i] EXCEPT ![pos] = Tail(s)]]
    OBVIOUS
  <2> HIDE DEF i, pos, s, new
  <2> QED
    BY <1>1, <1>3, <2>1, <2>2, Zenon DEF Blocks
<1>9. \A k, l \in 1 .. Len(s) : s[k] = s[l] => k = l
  <2> HIDE DEF i, pos
  <2> QED
    BY <1>1, <1>3, NoDupUse
<1> HIDE DEF i, pos, x, s, e, new
<1>10. Range(Tail(s)) = Range(s) \ {e} /\ e \in Range(s) /\ e \in Events
  BY <1>3, <1>4, <1>9, TailRange, Behead DEF e
<1>11. ByCycle(new, c) = ByCycle(bs, c) \ {<<x, e>>}
  <2>1. ASSUME NEW y \in Window(c)
        PROVE  Range(Cell(new, y)) = IF y = x THEN Range(Cell(bs, y)) \ {e} ELSE Range(Cell(bs, y))
    <3>1. (y \div W) % B \in Ring /\ y % W \in Slots
      BY WindowSlot
    <3>2. CASE y = x
      <4>1. Cell(new, y) = Tail(s) /\ Cell(bs, y) = s
        BY <1>1, <1>3, <1>5, <1>7, <1>8, <3>2 DEF Cell, i
      <4> QED
        BY <1>10, <3>2, <4>1
    <3>3. CASE y # x
      <4>1. ~ ((y \div W) % B = i /\ y % W = pos)
        BY <1>5, <1>6, <3>3, CellsApart DEF i
      <4> QED
        BY <1>8, <3>1, <3>3, <4>1, Zenon DEF Cell
    <3> QED
      BY <3>2, <3>3
  <2> QED
    BY <2>1 DEF ByCycle
<1>12. <<x, e>> \in ByCycle(bs, c)
  BY <1>6, <1>7, <1>10 DEF ByCycle
<1>13. \A p \in ByCycle(bs, c) : x <= p[1]
  <2> SUFFICES ASSUME NEW y \in Window(c), Range(Cell(bs, y)) # {}
               PROVE  x <= y
    BY DEF ByCycle
  <2>1. PICK b \in Int, q \in Slots : b = y \div W /\ q = y % W /\ y = b * W + q
    BY WindowSlot, CycleSlot
  <2>2. b \in c .. c + B - 1
    <3>1. y \in Int
      BY WindowSlot
    <3>2. y \div W \in c .. c + B - 1
      BY <3>1, WindowBlocks
    <3> QED
      BY <2>1, <3>2, Zenon
  <2>3. CASE b = c
    <3>1. q \in Occ(bs[i])
      BY <2>1, <2>3, OccCells DEF i
    <3> QED
      BY <1>2, <1>3, <2>1, <2>3, <3>1, Constants DEF x, Slots
  <2>4. CASE b # c
    <3>1. c < b
      BY <2>2, <2>4
    <3>2. c * W + W <= b * W
      BY <3>1, MulMono, Constants
    <3> QED
      BY <1>3, <2>1, <3>2, Constants DEF x, Slots
  <2> QED
    BY <2>3, <2>4
<1>14. NoDup(new)
  <2> SUFFICES ASSUME NEW j1 \in Ring, NEW j2 \in Ring, NEW q1 \in Slots, NEW q2 \in Slots,
                      NEW k1 \in 1 .. Len(new[j1][q1]), NEW k2 \in 1 .. Len(new[j2][q2]),
                      new[j1][q1][k1] = new[j2][q2][k2]
               PROVE  j1 = j2 /\ q1 = q2 /\ k1 = k2
    BY Zenon DEF NoDup
  <2> DEFINE Off(j, q) == IF j = i /\ q = pos THEN 1 ELSE 0
  <2>1. ASSUME NEW j \in Ring, NEW q \in Slots, NEW k \in 1 .. Len(new[j][q])
        PROVE  k + Off(j, q) \in 1 .. Len(bs[j][q]) /\ new[j][q][k] = bs[j][q][k + Off(j, q)]
    <3>1. CASE j = i /\ q = pos
      <4>1. new[j][q] = Tail(s) /\ bs[j][q] = s
        BY <1>8, <3>1 DEF s
      <4> QED
        BY <1>3, <1>4, <3>1, <4>1, Behead
    <3>2. CASE ~ (j = i /\ q = pos)
      <4>1. new[j][q] = bs[j][q] /\ k \in Int
        BY <1>8, <3>2
      <4> QED
        BY <3>2, <4>1
    <3> QED
      BY <3>1, <3>2
  <2>2. /\ k1 + Off(j1, q1) \in 1 .. Len(bs[j1][q1]) /\ k2 + Off(j2, q2) \in 1 .. Len(bs[j2][q2])
        /\ bs[j1][q1][k1 + Off(j1, q1)] = bs[j2][q2][k2 + Off(j2, q2)]
    BY <2>1
  <2> HIDE DEF Off
  <2>3. j1 = j2 /\ q1 = q2 /\ k1 + Off(j1, q1) = k2 + Off(j2, q2)
    BY <2>2, NoDupUse
  <2>4. Off(j1, q1) = Off(j2, q2) /\ Off(j1, q1) \in Int /\ k1 \in Int /\ k2 \in Int
    <3>1. Len(new[j1][q1]) \in Nat /\ Len(new[j2][q2]) \in Nat
      BY <1>8 DEF Blocks
    <3> QED
      BY <2>3, <3>1 DEF Off
  <2> QED
    BY <2>3, <2>4
<1>15. \A f : Fresh(bs, f) => Fresh(new, f)
  BY <1>1, <1>3, <1>8, <1>10 DEF Fresh, s
<1> QED
  BY <1>3, <1>6, <1>8, <1>10, <1>11, <1>12, <1>13, <1>14, <1>15, Zenon DEF i, pos, x, s, e, new

-----------------------------------------------------------------------------
(* The inductive invariant.  QueueExact alone is not inductive: that a far *)
(* event is never late rests on where the last multiple of B/2 was, that   *)
(* elems is right on no event being listed twice, and that events come out *)
(* in order on where now lies in the current block.                        *)

Half == B \div 2
InWindow == ByCycle(blocks, curBlock)
Queued == InWindow \cup feMap

BasicInv ==
    /\ blocks \in Blocks /\ feMap \in SUBSET ((0 .. MaxCycle) \X Events)
    /\ curBlock \in Nat /\ elems \in Nat /\ now \in 0 .. MaxCycle
    /\ pc \in {"idle", "scan", "move"}

\* No event is in the queue twice.
UniqueInv ==
    /\ NoDup(blocks)
    /\ \A p \in feMap : Fresh(blocks, p[2])
    /\ \A p, q \in feMap : p[2] = q[2] => p = q

\* dequeue() looks for an event only while there is one.
CountInv ==
    /\ IsFiniteSet(Queued) /\ elems = Cardinality(Queued)
    /\ pc # "idle" => Queued # {}

BoundInv ==
    /\ curBlock * W <= MaxCycle
    /\ \A p \in InWindow : p[1] <= MaxCycle

\* now lies in the current block, or before it while dequeue() moves on.
NowInv ==
    /\ now < (curBlock + 1) * W
    /\ pc = "idle" => now >= curBlock * W
    /\ \A p \in InWindow : p[1] >= now

\* At the last multiple of B/2 everything within B blocks was moved.
FarInv ==
    /\ pc = "move" => /\ curBlock % Half = 0
                      /\ \A p \in feMap : p[1] >= (curBlock + Half) * W
    /\ pc # "move" => \A p \in feMap : p[1] >= (curBlock - (curBlock % Half) + B) * W

IndInv == BasicInv /\ UniqueInv /\ CountInv /\ BoundInv /\ NowInv /\ FarInv

LEMMA MulLe ==
    ASSUME NEW x \in Int, NEW y \in Int, NEW w \in Nat \ {0}, x <= y
    PROVE  x * w <= y * w /\ x * w \in Int /\ y * w \in Int
<1>1. CASE x = y
  BY <1>1
<1>2. CASE x < y
  BY <1>2, MulMono
<1> QED
  BY <1>1, <1>2

LEMMA HalfFacts ==
    /\ Half \in Nat \ {0} /\ B = Half + Half
    /\ \A c \in Nat : /\ c % Half \in 0 .. Half - 1
                     /\ (c + 1) % Half = IF c % Half = Half - 1 THEN 0 ELSE (c % Half) + 1
<1>1. Half \in Nat \ {0} /\ B = Half + Half
  BY Constants DEF Half
<1>2. ASSUME NEW c \in Nat
      PROVE  /\ c % Half \in 0 .. Half - 1
             /\ (c + 1) % Half = IF c % Half = Half - 1 THEN 0 ELSE (c % Half) + 1
  <2>0. c \in Int
    OBVIOUS
  <2>1. PICK d \in Int, m \in 0 .. Half - 1 : m = c % Half /\ c = d * Half + m
    BY <1>1, <2>0, Division, Zenon
  <2>2. CASE m = Half - 1
    <3>1. c + 1 = (d + 1) * Half + 0 /\ d + 1 \in Int /\ 0 \in 0 .. Half - 1
      BY <1>1, <2>1, <2>2
    <3>2. ((d + 1) * Half + 0) % Half = 0
      BY <1>1, <3>1, DivUnique, Zenon
    <3> QED
      BY <2>1, <2>2, <3>1, <3>2
  <2>3. CASE m # Half - 1
    <3>1. c + 1 = d * Half + (m + 1) /\ m + 1 \in 0 .. Half - 1
      BY <1>1, <2>1, <2>3
    <3>2. (d * Half + (m + 1)) % Half = m + 1
      BY <1>1, <3>1, DivUnique, Zenon
    <3> QED
      BY <2>1, <2>3, <3>1, <3>2
  <2> QED
    BY <2>2, <2>3
<1> QED
  BY <1>1, <1>2

LEMMA SameHalf ==
    ASSUME NEW c \in Nat, (c + 1) % Half # 0
    PROVE  (c + 1) - ((c + 1) % Half) + B = c - (c % Half) + B
<1>1. PICK m \in 0 .. Half - 1 : m = c % Half
  BY HalfFacts
<1>2. (c + 1) % Half = IF m = Half - 1 THEN 0 ELSE m + 1
  BY <1>1, HalfFacts
<1>3. (c + 1) % Half = m + 1
  BY <1>2
<1>4. (c + 1) - (m + 1) + B = c - m + B
  BY HalfFacts
<1> QED
  BY <1>1, <1>3, <1>4

LEMMA InitInv == PQInit => IndInv
<1> SUFFICES ASSUME PQInit PROVE IndInv
  OBVIOUS
<1>1. blocks \in Blocks /\ \A i \in Ring, pos \in Slots : blocks[i][pos] = <<>>
  BY DEF PQInit, Blocks
<1>2. BasicInv
  BY <1>1, Constants DEF BasicInv, PQInit
<1>3. UniqueInv
  BY <1>1 DEF UniqueInv, PQInit, NoDup
<1>4. InWindow = {}
  <2>1. \A x \in Window(0) : Range(Cell(blocks, x)) = {}
    BY <1>1, WindowSlot DEF Cell, Range
  <2> QED
    BY <2>1 DEF InWindow, ByCycle, PQInit
<1>5. CountInv
  BY <1>4, FS_EmptySet DEF CountInv, Queued, PQInit
<1>6. BoundInv /\ NowInv /\ FarInv
  BY <1>4, Constants DEF BoundInv, NowInv, FarInv, PQInit
<1> QED
  BY <1>2, <1>3, <1>5, <1>6 DEF IndInv

LEMMA ContentsExact ==
    /\ BasicInv => InRing = InWindow /\ Contents = Queued
    /\ BasicInv' => InRing' = InWindow' /\ Contents' = Queued'
<1>1. InRing = BySlot(blocks, curBlock) /\ InRing' = BySlot(blocks', curBlock')
  BY Zenon DEF InRing, CycleOf, BySlot
<1>2. BasicInv => BySlot(blocks, curBlock) = InWindow
  BY SlotsAreCycles DEF BasicInv, InWindow
<1>3. BasicInv' => BySlot(blocks', curBlock') = InWindow'
  BY SlotsAreCycles DEF BasicInv, InWindow
<1> QED
  BY <1>1, <1>2, <1>3 DEF Contents, Queued

\* Adding an event to the ring or to the map.
LEMMA EnqueueStep ==
    ASSUME IndInv, NEW e \in Events, NEW cycle \in 0 .. MaxCycle, Enqueue(e, cycle)
    PROVE  /\ IndInv'
           /\ Queued' = Queued \cup {<<cycle, e>>} /\ now' = now
           /\ cycle >= now /\ \A p \in Queued : p[2] # e
<1> USE DEF IndInv
<1>0. /\ blocks \in Blocks /\ curBlock \in Nat /\ cycle \in Nat /\ now \in Nat /\ pc = "idle"
      /\ curBlock' = curBlock /\ now' = now /\ pc' = pc /\ elems' = elems + 1 /\ cycle >= now
      /\ Half \in Nat /\ MaxCycle \in Nat
  BY Constants, HalfFacts DEF BasicInv, Enqueue
<1>1. \A p \in Queued : p[2] # e
  BY ContentsExact DEF Enqueue
<1>2. Fresh(blocks, e)
  BY <1>0, <1>1, FreshByCycle DEF Queued, InWindow
<1>3. cycle >= curBlock * W /\ curBlock * W \in Nat
  BY <1>0, Constants DEF NowInv
<1>4. /\ blocks' \in Blocks
      /\ Queued' = Queued \cup {<<cycle, e>>}
      /\ InWindow' \subseteq InWindow \cup {<<cycle, e>>}
      /\ UniqueInv'
      /\ feMap' \in SUBSET ((0 .. MaxCycle) \X Events)
      /\ FarInv'
  <2>1. CASE IsNear(cycle)
    <3>1. blocks' = Put(blocks, cycle, e) /\ feMap' = feMap
      BY <2>1 DEF Enqueue
    <3>2. cycle \in Window(curBlock)
      <4>1. cycle \div W < curBlock + B /\ cycle \div W \in Int
        BY <1>0, <2>1, CycleSlot DEF IsNear
      <4>2. PICK b \in Int, pos \in Slots : b = cycle \div W /\ cycle = b * W + pos
        BY <1>0, CycleSlot
      <4>3. b * W + pos < (curBlock + B) * W <=> b < curBlock + B
        <5>1. curBlock + B \in Int
          BY <1>0, Constants
        <5> QED
          BY <5>1, CyclesOfBlock
      <4> QED
        BY <1>0, <1>3, <4>1, <4>2, <4>3, Constants DEF Window
    <3>3. /\ blocks' \in Blocks /\ ByCycle(blocks', curBlock) = ByCycle(blocks, curBlock) \cup {<<cycle, e>>}
          /\ NoDup(blocks') /\ \A f : Fresh(blocks, f) /\ f # e => Fresh(blocks', f)
      BY <1>0, <1>2, <3>1, <3>2, PutRing DEF UniqueInv
    <3>4. InWindow' = InWindow \cup {<<cycle, e>>}
      BY <1>0, <3>3 DEF InWindow
    <3>5. UniqueInv'
      BY <1>1, <3>1, <3>3 DEF UniqueInv, Queued
    <3>6. FarInv'
      BY <1>0, <3>1 DEF FarInv
    <3> QED
      BY <3>1, <3>3, <3>4, <3>5, <3>6 DEF Queued, BasicInv
  <2>2. CASE ~ IsNear(cycle)
    <3>1. blocks' = blocks /\ feMap' = feMap \cup {<<cycle, e>>}
      BY <2>2 DEF Enqueue
    <3>2. InWindow' = InWindow
      BY <1>0, <3>1 DEF InWindow
    <3>3. UniqueInv'
      BY <1>1, <1>2, <3>1 DEF UniqueInv, Queued
    <3>4. cycle >= (curBlock - (curBlock % Half) + B) * W
      <4>2. PICK b \in Int, pos \in Slots : b = cycle \div W /\ cycle = b * W + pos
        BY <1>0, CycleSlot
      <4>0. ~ (b < curBlock + B)
        BY <2>2, <4>2 DEF IsNear
      <4>1. b >= curBlock + B
        BY <1>0, <4>0, Constants
      <4>3. PICK k \in Int : k = curBlock - (curBlock % Half) + B /\ k <= b
        BY <1>0, <4>1, <4>2, HalfFacts, Constants
      <4>4. k * W <= b * W /\ k * W \in Int /\ b * W \in Int
        BY <4>3, MulLe, Constants
      <4> QED
        BY <4>2, <4>3, <4>4, Constants DEF Slots
    <3>5. FarInv'
      BY <1>0, <3>1, <3>4 DEF FarInv
    <3> QED
      BY <1>0, <3>1, <3>2, <3>3, <3>5 DEF Queued, BasicInv
  <2> QED
    BY <2>1, <2>2
<1>5. BasicInv'
  BY <1>0, <1>4 DEF BasicInv
<1>6. CountInv'
  <2>1. <<cycle, e>> \notin Queued
    BY <1>1
  <2> QED
    BY <1>0, <1>4, <2>1, FS_AddElement DEF CountInv
<1>7. BoundInv' /\ NowInv'
  BY <1>0, <1>3, <1>4 DEF BoundInv, NowInv
<1> QED
  BY <1>0, <1>1, <1>4, <1>5, <1>6, <1>7

\* dequeue() moves on: the queue keeps its events.
LEMMA SkipStep ==
    ASSUME IndInv, Skip
    PROVE  IndInv' /\ Queued' = Queued /\ now' = now
<1> USE DEF IndInv
<1>0. /\ blocks \in Blocks /\ curBlock \in Nat /\ now \in Nat /\ pc = "scan"
      /\ curBlock' = curBlock + 1 /\ now' = now /\ elems' = elems
      /\ blocks' = blocks /\ feMap' = feMap /\ pc' = IF (curBlock + 1) % Half = 0 THEN "move" ELSE "scan"
      /\ MaxCycle \in Nat
  BY Constants DEF BasicInv, Skip, Half
<1>1. /\ ByCycle(blocks, curBlock + 1) = ByCycle(blocks, curBlock)
      /\ \A p \in ByCycle(blocks, curBlock) : p[1] >= (curBlock + 1) * W
  BY <1>0, SkipRing DEF Skip
<1>2. InWindow' = InWindow /\ Queued' = Queued
  BY <1>0, <1>1 DEF InWindow, Queued
<1>3. BasicInv' /\ UniqueInv' /\ CountInv'
  BY <1>0, <1>2 DEF BasicInv, UniqueInv, CountInv
<1>4. \A p \in feMap : p[1] >= (curBlock + 1 + Half) * W
  <2>1. PICK k \in Int : k = curBlock - (curBlock % Half) + B /\ curBlock + 1 + Half <= k
    BY <1>0, HalfFacts
  <2>2. (curBlock + 1 + Half) * W <= k * W /\ (curBlock + 1 + Half) * W \in Int /\ k * W \in Int
    <3>1. curBlock + 1 + Half \in Int
      BY <1>0, HalfFacts
    <3> QED
      BY <2>1, <3>1, MulLe, Constants
  <2>3. \A p \in feMap : p[1] >= k * W /\ p[1] \in Int
    BY <1>0, <2>1 DEF FarInv, BasicInv
  <2> QED
    BY <2>2, <2>3
<1>5. BoundInv'
  <2>1. PICK p \in Queued : TRUE
    BY <1>0 DEF CountInv
  <2>2. p[1] \in Int /\ p[1] <= MaxCycle /\ p[1] >= (curBlock + 1) * W
    <3>1. CASE p \in InWindow
      <4>1. p[1] \in Window(curBlock)
        BY <3>1 DEF InWindow, ByCycle
      <4> QED
        BY <1>0, <1>1, <3>1, <4>1, WindowSlot DEF BoundInv, InWindow
    <3>2. CASE p \in feMap
      <4>1. (curBlock + 1) * W <= (curBlock + 1 + Half) * W
        BY <1>0, MulLe, Constants, HalfFacts
      <4>2. p[1] \in 0 .. MaxCycle /\ p[1] >= (curBlock + 1 + Half) * W
        BY <1>4, <3>2 DEF BasicInv
      <4>3. (curBlock + 1) * W \in Int /\ (curBlock + 1 + Half) * W \in Int
        BY <1>0, Constants, HalfFacts
      <4> QED
        BY <1>0, <4>1, <4>2, <4>3
    <3> QED
      BY <3>1, <3>2 DEF Queued
  <2>3. (curBlock + 1) * W \in Int
    BY <1>0, Constants
  <2> QED
    BY <1>0, <1>2, <2>2, <2>3 DEF BoundInv
<1>6. NowInv'
  <2>1. (curBlock + 1) * W <= ((curBlock + 1) + 1) * W
    BY <1>0, MulLe, Constants
  <2>2. (curBlock + 1) * W \in Int /\ ((curBlock + 1) + 1) * W \in Int
    BY <1>0, Constants
  <2> QED
    BY <1>0, <1>2, <2>1, <2>2 DEF NowInv
<1>7. FarInv'
  <2>1. CASE (curBlock + 1) % Half = 0
    BY <1>0, <1>4, <2>1 DEF FarInv
  <2>2. CASE (curBlock + 1) % Half # 0
    <3>1. (curBlock + 1) - ((curBlock + 1) % Half) + B = curBlock - (curBlock % Half) + B
      BY <1>0, <2>2, SameHalf
    <3> QED
      BY <1>0, <2>2, <3>1 DEF FarInv
  <2> QED
    BY <2>1, <2>2
<1> QED
  BY <1>0, <1>2, <1>3, <1>5, <1>6, <1>7

\* dequeue() is called: the queue is not empty.
LEMMA DequeueStep ==
    ASSUME IndInv, Dequeue
    PROVE  IndInv' /\ Queued' = Queued /\ now' = now
<1> USE DEF IndInv
<1>1. /\ blocks' = blocks /\ feMap' = feMap /\ curBlock' = curBlock /\ elems' = elems /\ now' = now
      /\ pc = "idle" /\ pc' = "scan" /\ elems > 0
  BY DEF Dequeue
<1>2. InWindow' = InWindow /\ Queued' = Queued
  BY <1>1 DEF InWindow, Queued
<1>3. Queued # {}
  BY <1>1, FS_EmptySet DEF CountInv
<1>4. BasicInv' /\ UniqueInv' /\ CountInv' /\ BoundInv'
  BY <1>1, <1>2, <1>3 DEF BasicInv, UniqueInv, CountInv, BoundInv
<1>5. NowInv' /\ FarInv'
  BY <1>1, <1>2 DEF NowInv, FarInv
<1> QED
  BY <1>1, <1>2, <1>4, <1>5

\* The first event of the map enters the ring.
LEMMA MoveStep ==
    ASSUME IndInv, NEW p \in feMap, Move(p)
    PROVE  IndInv' /\ Queued' = Queued /\ now' = now
<1> USE DEF IndInv
<1>0. /\ blocks \in Blocks /\ curBlock \in Nat /\ now \in Nat /\ pc = "move" /\ pc' = "move"
      /\ curBlock' = curBlock /\ now' = now /\ elems' = elems
      /\ blocks' = Put(blocks, p[1], p[2]) /\ feMap' = feMap \ {p}
      /\ p[1] < (curBlock + B) * W
  BY DEF BasicInv, Move, Entering
<1>1. p[1] \in 0 .. MaxCycle /\ p[2] \in Events /\ p = <<p[1], p[2]>>
  BY DEF BasicInv
<1>2. PICK l \in Int, h \in Int, m \in Int :
          /\ l = curBlock * W /\ h = (curBlock + Half) * W /\ m = (curBlock + 1) * W
          /\ l <= m /\ m <= h
  <2>1. curBlock \in Int /\ curBlock + 1 \in Int /\ curBlock + Half \in Int
    BY <1>0, HalfFacts
  <2>2. curBlock * W <= (curBlock + 1) * W /\ curBlock * W \in Int /\ (curBlock + 1) * W \in Int
    <3>1. curBlock <= curBlock + 1
      BY <1>0
    <3> QED
      BY <2>1, <3>1, MulLe, Constants
  <2>3. (curBlock + 1) * W <= (curBlock + Half) * W /\ (curBlock + Half) * W \in Int
    <3>1. curBlock + 1 <= curBlock + Half
      BY <1>0, HalfFacts
    <3> QED
      BY <2>1, <3>1, MulLe, Constants
  <2> QED
    BY <2>2, <2>3
<1>3. p[1] >= h
  BY <1>0, <1>2 DEF FarInv
<1>4. p[1] \in Window(curBlock)
  <2>1. (curBlock + B) * W \in Int
    BY <1>0, Constants
  <2> QED
    BY <1>0, <1>1, <1>2, <1>3, <2>1, Constants DEF Window
<1>5. /\ blocks' \in Blocks /\ ByCycle(blocks', curBlock) = ByCycle(blocks, curBlock) \cup {p}
      /\ NoDup(blocks') /\ \A f : Fresh(blocks, f) /\ f # p[2] => Fresh(blocks', f)
  BY <1>0, <1>1, <1>4, PutRing DEF UniqueInv
<1>6. InWindow' = InWindow \cup {p} /\ Queued' = Queued
  BY <1>0, <1>5 DEF InWindow, Queued
<1>7. BasicInv'
  BY <1>0, <1>5 DEF BasicInv
<1>8. UniqueInv'
  BY <1>0, <1>5 DEF UniqueInv
<1>9. CountInv'
  BY <1>0, <1>6 DEF CountInv
<1>10. BoundInv'
  BY <1>0, <1>1, <1>6 DEF BoundInv
<1>11. NowInv'
  BY <1>0, <1>1, <1>2, <1>3, <1>6 DEF NowInv
<1>12. FarInv'
  BY <1>0 DEF FarInv
<1> QED
  BY <1>0, <1>6, <1>7, <1>8, <1>9, <1>10, <1>11, <1>12

\* All far events within B blocks have entered.
LEMMA MoveEndsStep ==
    ASSUME IndInv, MoveEnds
    PROVE  IndInv' /\ Queued' = Queued /\ now' = now
<1> USE DEF IndInv
<1>1. /\ blocks' = blocks /\ feMap' = feMap /\ curBlock' = curBlock /\ elems' = elems /\ now' = now
      /\ pc = "move" /\ pc' = "scan" /\ curBlock \in Nat
  BY DEF MoveEnds, BasicInv
<1>2. InWindow' = InWindow /\ Queued' = Queued
  BY <1>1 DEF InWindow, Queued
<1>3. BasicInv' /\ UniqueInv' /\ CountInv' /\ BoundInv'
  BY <1>1, <1>2 DEF BasicInv, UniqueInv, CountInv, BoundInv
<1>4. NowInv'
  BY <1>1, <1>2 DEF NowInv
<1>5. FarInv'
  <2>1. curBlock - (curBlock % Half) + B = curBlock + B
    BY <1>1, Constants DEF FarInv
  <2>2. \A p \in feMap : ~ (p[1] < (curBlock + B) * W) /\ p[1] \in Int
    BY DEF MoveEnds, Entering, BasicInv
  <2>3. (curBlock + B) * W \in Int
    BY <1>1, Constants
  <2>4. \A p \in feMap : p[1] >= (curBlock + B) * W
    BY <2>2, <2>3
  <2> QED
    BY <1>1, <2>1, <2>4 DEF FarInv
<1> QED
  BY <1>1, <1>2, <1>3, <1>4, <1>5

\* Outside the inner loop, far events are beyond the current block and half
\* the ring.
LEMMA FarAway ==
    ASSUME BasicInv, FarInv, NEW p \in feMap
    PROVE  /\ p[1] \in Nat
           /\ p[1] >= (curBlock + Half) * W
           /\ pc # "move" => p[1] >= (curBlock + Half + 1) * W
<1>1. p[1] \in Nat /\ curBlock \in Nat
  BY Constants DEF BasicInv
<1>2. CASE pc = "move"
  BY <1>1, <1>2 DEF FarInv
<1>3. CASE pc # "move"
  <2>1. PICK k \in Int : k = curBlock - (curBlock % Half) + B /\ curBlock + Half + 1 <= k
    BY <1>1, HalfFacts
  <2>2. p[1] >= k * W
    BY <1>3, <2>1 DEF FarInv
  <2>3. PICK a \in Int, b \in Int : a = curBlock + Half /\ b = curBlock + Half + 1 /\ a <= b /\ b <= k
    BY <1>1, <2>1, HalfFacts
  <2>4. a * W <= b * W /\ b * W <= k * W /\ a * W \in Int /\ b * W \in Int /\ k * W \in Int
    BY <2>3, MulLe, Constants
  <2>5. p[1] >= a * W /\ p[1] >= b * W
    BY <1>1, <2>2, <2>4
  <2> QED
    BY <1>1, <2>3, <2>5
<1> QED
  BY <1>2, <1>3

\* The first event of the current block is taken: it is the first of all.
LEMMA TakeStep ==
    ASSUME IndInv, Take
    PROVE  /\ IndInv'
           /\ \E p \in Queued : /\ \A q \in Queued : p[1] <= q[1]
                               /\ Queued' = Queued \ {p} /\ now' = p[1]
<1> USE DEF IndInv
<1> DEFINE pos == First(blocks[curBlock % B])
           x   == curBlock * W + pos
           e   == Head(blocks[curBlock % B][pos])
           p   == <<x, e>>
<1>0. /\ blocks \in Blocks /\ curBlock \in Nat /\ now \in Nat /\ pc = "scan" /\ pc' = "idle"
      /\ curBlock' = curBlock /\ now' = x /\ elems' = elems - 1 /\ feMap' = feMap
      /\ blocks' = [blocks EXCEPT ![curBlock % B][pos] = Tail(@)]
  BY DEF BasicInv, Take
<1>1. /\ pos \in Slots /\ x \in Window(curBlock) /\ e \in Events
      /\ blocks' \in Blocks /\ NoDup(blocks')
      /\ <<x, e>> \in ByCycle(blocks, curBlock)
      /\ ByCycle(blocks', curBlock) = ByCycle(blocks, curBlock) \ {<<x, e>>}
      /\ \A q \in ByCycle(blocks, curBlock) : x <= q[1]
      /\ \A f : Fresh(blocks, f) => Fresh(blocks', f)
  <2>1. NoDup(blocks) /\ Occ(blocks[curBlock % B]) # {}
    BY DEF UniqueInv, Take
  <2> QED
    BY <1>0, <2>1, TakeRing
<1>2. PICK l \in Int, m \in Int, h \in Int :
          /\ l = curBlock * W /\ m = (curBlock + 1) * W /\ h = (curBlock + Half + 1) * W
          /\ m = l + W /\ m <= h
  <2>1. curBlock * W \in Int /\ (curBlock + 1) * W \in Int /\ (curBlock + 1) * W = curBlock * W + W
    BY <1>0, Constants
  <2>2. PICK a \in Int, b \in Int : a = curBlock + 1 /\ b = curBlock + Half + 1 /\ a <= b
    BY <1>0, HalfFacts
  <2>3. a * W <= b * W /\ a * W \in Int /\ b * W \in Int
    BY <2>2, MulLe, Constants
  <2> QED
    BY <2>1, <2>2, <2>3
<1>3. x \in Nat /\ l <= x /\ x < m
  <2>1. x \in Nat
    BY <1>0, <1>1, WindowSlot
  <2>2. x = l + pos /\ pos \in 0 .. W - 1
    BY <1>1, <1>2 DEF Slots
  <2> HIDE DEF pos, x
  <2> QED
    BY <1>2, <2>1, <2>2, Constants
<1> HIDE DEF pos, x, e
<1>4. p \in InWindow /\ InWindow' = InWindow \ {p} /\ \A q \in InWindow : x <= q[1]
  BY <1>0, <1>1 DEF InWindow
<1>5. \A q \in feMap : q[1] \in Nat /\ x < q[1]
  BY <1>0, <1>2, <1>3, FarAway
<1>6. p \notin feMap
  BY <1>3, <1>5
<1>7. Queued' = Queued \ {p} /\ p \in Queued
  BY <1>0, <1>4, <1>6 DEF Queued
<1>8. \A q \in Queued : p[1] <= q[1]
  BY <1>3, <1>4, <1>5 DEF Queued
<1>9. CountInv'
  BY <1>0, <1>7, FS_RemoveElement DEF CountInv
<1>10. BasicInv'
  <2>1. x <= MaxCycle
    BY <1>4 DEF BoundInv
  <2>2. elems' \in Nat
    BY <1>9, FS_CardinalityType DEF CountInv
  <2> QED
    BY <1>0, <1>1, <1>3, <2>1, <2>2, Constants DEF BasicInv
<1>11. UniqueInv'
  BY <1>0, <1>1 DEF UniqueInv
<1>12. BoundInv'
  BY <1>0, <1>4 DEF BoundInv
<1>13. NowInv'
  BY <1>0, <1>2, <1>3, <1>4 DEF NowInv
<1>14. FarInv'
  BY <1>0 DEF FarInv
<1> QED
  BY <1>0, <1>7, <1>8, <1>9, <1>10, <1>11, <1>12, <1>13, <1>14

\* The invariant is inductive, and a step of the queue is a step of the
\* ordered queue on its contents or leaves them as they are.
LEMMA NextStep ==
    ASSUME IndInv, [PQNext]_pqVars
    PROVE  /\ IndInv'
           /\ \/ Queued' = Queued /\ now' = now
              \/ \E e \in Events, cycle \in 0 .. MaxCycle :
                    /\ \A p \in Queued : p[2] # e
                    /\ cycle >= now /\ now' = now
                    /\ Queued' = Queued \cup {<<cycle, e>>}
              \/ \E p \in Queued : /\ \A q \in Queued : p[1] <= q[1]
                                   /\ Queued' = Queued \ {p} /\ now' = p[1]
<1>1. CASE \E e \in Events, cycle \in 0 .. MaxCycle : Enqueue(e, cycle)
  BY <1>1, EnqueueStep
<1>2. CASE Dequeue
  BY <1>2, DequeueStep
<1>3. CASE Skip
  BY <1>3, SkipStep
<1>4. CASE \E p \in feMap : Move(p)
  BY <1>4, MoveStep
<1>5. CASE MoveEnds
  BY <1>5, MoveEndsStep
<1>6. CASE Take
  BY <1>6, TakeStep
<1>7. CASE UNCHANGED pqVars
  BY <1>7 DEF pqVars, IndInv, BasicInv, UniqueInv, CountInv, BoundInv, NowInv, FarInv, Queued, InWindow
<1> QED
  BY <1>1, <1>2, <1>3, <1>4, <1>5, <1>6, <1>7 DEF PQNext

\* The invariant holds in every state of the queue (prio_queue.h).
THEOREM Invariance == PQSpec => []IndInv
<1>1. PQInit => IndInv
  BY InitInv
<1>2. IndInv /\ [PQNext]_pqVars => IndInv'
  BY NextStep
<1> QED
  BY <1>1, <1>2, PTL DEF PQSpec

-----------------------------------------------------------------------------
(* firstCycle().                                                           *)

\* The least element is the only one below all others.
LEMMA MinIs ==
    ASSUME NEW S \in SUBSET Nat, NEW m \in S, \A y \in S : m <= y
    PROVE  Min(S) = m
<1>1. Min(S) \in S /\ \A y \in S : Min(S) <= y
  BY NatMin
<1>2. Min(S) <= m /\ m <= Min(S) /\ m \in Nat /\ Min(S) \in Nat
  BY <1>1
<1> QED
  BY <1>2

\* The first slot of the first populated block among those lo to hi blocks
\* ahead is the first cycle of these blocks with an event.
LEMMA FirstPopulated ==
    ASSUME BasicInv, NEW lo \in Nat, NEW hi \in Nat, hi <= B - 1
    PROVE  /\ \A p \in InWindow : /\ p[1] \in Nat /\ p[1] \div W \in curBlock .. curBlock + B - 1
                                  /\ p[1] \div W \in curBlock + lo .. curBlock + hi
                                        => Populated(lo, hi) # {}
           /\ Populated(lo, hi) # {} =>
                LET x == FirstIn(Min(Populated(lo, hi))) IN
                /\ x \in {p[1] : p \in InWindow}
                /\ x \in Nat /\ x < (curBlock + hi + 1) * W
                /\ \A p \in InWindow : p[1] \div W >= curBlock + lo => x <= p[1]
<1>0. blocks \in Blocks /\ curBlock \in Nat
  BY DEF BasicInv
<1>1. ASSUME NEW p \in InWindow
      PROVE  \E b \in Int, pos \in Slots :
                /\ b = p[1] \div W /\ pos = p[1] % W /\ p[1] = b * W + pos /\ p[1] \in Nat
                /\ b \in curBlock .. curBlock + B - 1
                /\ pos \in Occ(blocks[b % B])
                /\ b \in curBlock + lo .. curBlock + hi => b - curBlock \in Populated(lo, hi)
  <2>1. p[1] \in Window(curBlock) /\ Range(Cell(blocks, p[1])) # {}
    BY DEF InWindow, ByCycle
  <2>2. p[1] \in Nat /\ p[1] \in Int
    BY <1>0, <2>1, WindowSlot
  <2>3. PICK b \in Int, pos \in Slots : b = p[1] \div W /\ pos = p[1] % W /\ p[1] = b * W + pos
    BY <2>2, CycleSlot
  <2>4. b \in curBlock .. curBlock + B - 1
    <3>1. p[1] \div W \in curBlock .. curBlock + B - 1
      BY <1>0, <2>1, <2>2, WindowBlocks
    <3> QED
      BY <2>3, <3>1, Zenon
  <2>5. pos \in Occ(blocks[b % B])
    BY <1>0, <2>1, <2>3, OccCells
  <2>6. ASSUME b \in curBlock + lo .. curBlock + hi
        PROVE  b - curBlock \in Populated(lo, hi)
    <3>1. b - curBlock \in lo .. hi /\ curBlock + (b - curBlock) = b
      BY <1>0, <2>6
    <3>2. Occ(blocks[(curBlock + (b - curBlock)) % B]) # {}
      BY <2>5, <3>1
    <3> QED
      BY <3>1, <3>2, Zenon DEF Populated
  <2> QED
    BY <2>2, <2>3, <2>4, <2>5, <2>6
<1>2. ASSUME Populated(lo, hi) # {}
      PROVE  LET x == FirstIn(Min(Populated(lo, hi))) IN
             /\ x \in {p[1] : p \in InWindow}
             /\ x \in Nat /\ x < (curBlock + hi + 1) * W
             /\ \A p \in InWindow : p[1] \div W >= curBlock + lo => x <= p[1]
  <2>1. Populated(lo, hi) \in SUBSET Nat
    BY DEF Populated
  <2>2. PICK i \in Populated(lo, hi) : i = Min(Populated(lo, hi)) /\ \A j \in Populated(lo, hi) : i <= j
    BY <1>2, <2>1, NatMin
  <2>3. i \in lo .. hi /\ Occ(blocks[(curBlock + i) % B]) # {}
    BY DEF Populated
  <2>4. PICK b \in Int : b = curBlock + i /\ b \in curBlock .. curBlock + B - 1 /\ b <= curBlock + hi
    BY <1>0, <2>3, Constants
  <2>5. PICK pos \in Occ(blocks[b % B]) : pos = First(blocks[b % B]) /\ \A q \in Occ(blocks[b % B]) : pos <= q
    <3>1. Occ(blocks[b % B]) \in SUBSET Nat
      BY Constants DEF Occ, Slots
    <3>2. Occ(blocks[b % B]) # {}
      BY <2>3, <2>4
    <3> QED
      BY <3>1, <3>2, NatMin DEF First
  <2>6. pos \in Slots
    BY DEF Occ
  <2>7. PICK x \in Int : /\ x = b * W + pos /\ x \div W = b /\ x % W = pos
                         /\ x < (curBlock + hi + 1) * W
    <3>1. curBlock + hi + 1 \in Int /\ b < curBlock + hi + 1
      BY <1>0, <2>4
    <3>2. /\ (b * W + pos) \div W = b /\ (b * W + pos) % W = pos
          /\ b * W + pos < (curBlock + hi + 1) * W
      BY <2>6, <3>1, CyclesOfBlock
    <3>3. b * W + pos \in Int
      BY <2>6, Constants DEF Slots
    <3> QED
      BY <3>2, <3>3
  <2>8. x = FirstIn(Min(Populated(lo, hi)))
    BY <2>2, <2>4, <2>5, <2>7 DEF FirstIn
  <2>9. x \in Window(curBlock)
    <3>1. x \div W \in curBlock .. curBlock + B - 1
      BY <2>4, <2>7, Zenon
    <3> QED
      BY <1>0, <3>1, WindowBlocks
  <2>10. x \in {p[1] : p \in InWindow}
    <3>1. Range(Cell(blocks, x)) # {}
      BY <1>0, <2>5, <2>7, <2>9, OccCells
    <3>2. PICK e : e \in Range(Cell(blocks, x))
      BY <3>1
    <3>3. e \in Events
      <4>1. Cell(blocks, x) \in Seq(Events)
        BY <1>0, <2>9, WindowSlot DEF Cell, Blocks
      <4> QED
        BY <3>2, <4>1 DEF Range
    <3>4. <<x, e>> \in InWindow
      BY <2>9, <3>2, <3>3 DEF InWindow, ByCycle
    <3> QED
      BY <3>4
  <2>11. ASSUME NEW p \in InWindow, p[1] \div W >= curBlock + lo
         PROVE  x <= p[1]
    <3>1. PICK a \in Int, q \in Slots :
                /\ a = p[1] \div W /\ q = p[1] % W /\ p[1] = a * W + q /\ p[1] \in Nat
                /\ a \in curBlock .. curBlock + B - 1
                /\ q \in Occ(blocks[a % B])
                /\ a \in curBlock + lo .. curBlock + hi => a - curBlock \in Populated(lo, hi)
      BY <1>1
    <3>2. b <= a
      <4>1. CASE a <= curBlock + hi
        <5>1. a - curBlock \in Populated(lo, hi)
          BY <1>0, <2>11, <3>1, <4>1
        <5>2. i <= a - curBlock
          BY <2>2, <5>1
        <5> QED
          BY <1>0, <2>3, <2>4, <5>2
      <4>2. CASE a > curBlock + hi
        BY <1>0, <2>4, <4>2
      <4> QED
        BY <1>0, <4>1, <4>2
    <3>5. /\ x = b * W + pos /\ p[1] = a * W + q /\ b * W \in Int /\ a * W \in Int
          /\ pos \in 0 .. W - 1 /\ q \in 0 .. W - 1
      BY <2>6, <2>7, <3>1, Constants DEF Slots
    <3>3. CASE a = b
      <4>1. pos <= q
        BY <2>5, <3>1, <3>3
      <4> QED
        BY <3>3, <3>5, <4>1
    <3>4. CASE a # b
      <4>1. b * W + W <= a * W
        BY <3>2, <3>4, MulMono, Constants
      <4> QED
        BY <3>5, <4>1, Constants
    <3> QED
      BY <3>3, <3>4
  <2>12. x \in Nat
    BY <1>0, <2>9, WindowSlot
  <2> QED
    BY <2>7, <2>8, <2>10, <2>11, <2>12, Zenon
<1>3. ASSUME NEW p \in InWindow
      PROVE  /\ p[1] \in Nat /\ p[1] \div W \in curBlock .. curBlock + B - 1
             /\ p[1] \div W \in curBlock + lo .. curBlock + hi => Populated(lo, hi) # {}
  BY <1>1, Zenon
<1> QED
  BY <1>2, <1>3, Zenon

\* firstCycle() finds the first event in the queue, wherever it is.
LEMMA FirstCycle == IndInv => FirstCycleExact
<1> SUFFICES ASSUME IndInv, elems > 0, pc = "idle"
             PROVE  firstCycle = Min({p[1] : p \in Contents})
  BY DEF FirstCycleExact
<1> DEFINE S == {p[1] : p \in Queued}
           F == {p[1] : p \in feMap}
           near == Populated(0, B \div 2 - 1)
           rest == Populated(B \div 2, B - 1)
<1>0. BasicInv /\ FarInv /\ curBlock \in Nat /\ Half = B \div 2 /\ Half \in Nat \ {0} /\ B = Half + Half
  BY HalfFacts DEF IndInv, BasicInv, Half
<1>1. Contents = Queued
  BY <1>0, ContentsExact
<1>2. Queued # {}
  BY FS_EmptySet DEF IndInv, CountInv
<1>3. F \in SUBSET Nat /\ \A p \in feMap : p[1] >= (curBlock + Half) * W
  BY <1>0, FarAway
<1>4. /\ \A p \in InWindow : /\ p[1] \in Nat /\ p[1] \div W \in curBlock .. curBlock + B - 1
                             /\ p[1] \div W \in curBlock + 0 .. curBlock + (Half - 1) => near # {}
      /\ near # {} =>
                LET x == FirstIn(Min(near)) IN
                /\ x \in {p[1] : p \in InWindow}
                /\ x \in Nat /\ x < (curBlock + (Half - 1) + 1) * W
                /\ \A p \in InWindow : p[1] \div W >= curBlock + 0 => x <= p[1]
  <2>1. 0 \in Nat /\ Half - 1 \in Nat /\ Half - 1 <= B - 1
    BY <1>0
  <2> QED
    BY <1>0, <2>1, FirstPopulated
<1>5. /\ \A p \in InWindow : p[1] \div W \in curBlock + Half .. curBlock + (B - 1) => rest # {}
      /\ rest # {} =>
                LET x == FirstIn(Min(rest)) IN
                /\ x \in {p[1] : p \in InWindow} /\ x \in Nat
                /\ \A p \in InWindow : p[1] \div W >= curBlock + Half => x <= p[1]
  <2>1. Half \in Nat /\ B - 1 \in Nat /\ B - 1 <= B - 1
    BY <1>0
  <2> QED
    BY <1>0, <2>1, FirstPopulated
<1>6. S \in SUBSET Nat
  BY <1>3, <1>4 DEF Queued
<1> SUFFICES /\ firstCycle \in S /\ \A p \in Queued : firstCycle <= p[1]
  BY <1>1, <1>6, MinIs
<1> HIDE DEF near, rest
<1>7. CASE near # {}
  <2>1. PICK x \in Nat : x = FirstIn(Min(near))
    BY <1>4, <1>7
  <2>2. firstCycle = x
    BY <1>7, <2>1 DEF firstCycle, near
  <2>3. x \in S
    BY <1>4, <1>7, <2>1 DEF Queued
  <2>4. ASSUME NEW p \in InWindow PROVE x <= p[1]
    <3>1. p[1] \div W >= curBlock + 0
      BY <1>0, <1>4
    <3> QED
      BY <1>4, <1>7, <2>1, <3>1
  <2>5. ASSUME NEW p \in feMap PROVE x <= p[1]
    <3>1. curBlock + (Half - 1) + 1 = curBlock + Half
      BY <1>0
    <3>2. x < (curBlock + Half) * W /\ (curBlock + Half) * W \in Int
      BY <1>0, <1>4, <1>7, <2>1, <3>1, Constants
    <3>3. p[1] \in Nat /\ p[1] >= (curBlock + Half) * W
      BY <1>3
    <3> QED
      BY <3>2, <3>3
  <2> QED
    BY <2>2, <2>3, <2>4, <2>5 DEF Queued
<1>8. CASE near = {}
  <2>1. ASSUME NEW p \in InWindow
        PROVE  p[1] \in Nat /\ rest # {} /\ FirstIn(Min(rest)) <= p[1]
    <3>1. PICK b \in Int : /\ b = p[1] \div W /\ b \in curBlock .. curBlock + B - 1
                           /\ ~ (b \in curBlock + 0 .. curBlock + (Half - 1))
      BY <1>4, <1>8
    <3>2. b >= curBlock + Half /\ b \in curBlock + Half .. curBlock + (B - 1)
      BY <1>0, <3>1
    <3> QED
      BY <1>4, <1>5, <3>1, <3>2
  <2>2. feMap # {} => /\ FarFirst \in F /\ FarFirst \in Nat
                      /\ \A p \in feMap : FarFirst <= p[1]
    <3> SUFFICES ASSUME feMap # {} PROVE FarFirst \in F /\ FarFirst \in Nat /\ \A y \in F : FarFirst <= y
      OBVIOUS
    <3>1. F # {} /\ FarFirst = Min(F)
      BY DEF FarFirst
    <3> HIDE DEF F
    <3> QED
      BY <1>3, <3>1, NatMin
  <2>3. CASE rest = {}
    <3>1. firstCycle = FarFirst /\ InWindow = {}
      BY <1>8, <2>1, <2>3 DEF firstCycle, near, rest
    <3> QED
      BY <1>2, <2>2, <3>1 DEF Queued
  <2>4. CASE rest # {}
    <3>1. PICK x \in Nat : x = FirstIn(Min(rest)) /\ x \in {p[1] : p \in InWindow}
      BY <1>5, <2>4
    <3>2. firstCycle = IF feMap = {} THEN x ELSE Min({x, FarFirst})
      BY <1>8, <2>4, <3>1 DEF firstCycle, near, rest
    <3>3. CASE feMap = {}
      BY <2>1, <3>1, <3>2, <3>3 DEF Queued
    <3>4. CASE feMap # {}
      <4>1. {x, FarFirst} \in SUBSET Nat /\ {x, FarFirst} # {}
        BY <2>2, <3>4
      <4>2. PICK m \in {x, FarFirst} : m = Min({x, FarFirst}) /\ \A y \in {x, FarFirst} : m <= y
        BY <4>1, NatMin
      <4>3. firstCycle = m /\ m <= x /\ m <= FarFirst /\ m \in Nat
        BY <3>2, <3>4, <4>1, <4>2
      <4>4. m \in S
        BY <2>2, <3>1, <3>4, <4>2 DEF Queued
      <4>5. ASSUME NEW p \in InWindow PROVE m <= p[1]
        <5>1. p[1] \in Nat /\ x <= p[1]
          BY <2>1, <3>1
        <5> QED
          BY <4>3, <5>1
      <4>6. ASSUME NEW p \in feMap PROVE m <= p[1]
        <5>1. p[1] \in Nat /\ FarFirst <= p[1] /\ FarFirst \in Nat
          BY <1>3, <2>2
        <5> QED
          BY <4>3, <5>1
      <4> QED
        BY <4>3, <4>4, <4>5, <4>6 DEF Queued
    <3> QED
      BY <3>3, <3>4
  <2> QED
    BY <2>3, <2>4
<1> QED
  BY <1>7, <1>8

-----------------------------------------------------------------------------
(* The properties of the module.                                           *)

\* An event is in the queue at one cycle only.
LEMMA OneCycle ==
    ASSUME IndInv, NEW p \in Queued, NEW q \in Queued, p[2] = q[2]
    PROVE  p = q
<1>0. blocks \in Blocks /\ curBlock \in Nat /\ UniqueInv
  BY DEF IndInv, BasicInv
<1>1. ASSUME NEW r \in InWindow
      PROVE  /\ r[1] \in Window(curBlock) /\ r[2] \in Range(Cell(blocks, r[1])) /\ r = <<r[1], r[2]>>
             /\ ~ Fresh(blocks, r[2])
  <2>1. r[1] \in Window(curBlock) /\ r[2] \in Range(Cell(blocks, r[1])) /\ r = <<r[1], r[2]>>
    BY DEF InWindow, ByCycle
  <2>2. (r[1] \div W) % B \in Ring /\ r[1] % W \in Slots
    BY <1>0, <2>1, WindowSlot
  <2> QED
    BY <2>1, <2>2, Zenon DEF Fresh, Cell
<1>2. CASE p \in InWindow /\ q \in InWindow
  <2>1. /\ (p[1] \div W) % B \in Ring /\ p[1] % W \in Slots
        /\ (q[1] \div W) % B \in Ring /\ q[1] % W \in Slots
    BY <1>0, <1>1, <1>2, WindowSlot
  <2>2. Cell(blocks, p[1]) \in Seq(Events) /\ Cell(blocks, q[1]) \in Seq(Events)
    BY <1>0, <2>1 DEF Cell, Blocks
  <2>3. PICK k \in 1 .. Len(Cell(blocks, p[1])), l \in 1 .. Len(Cell(blocks, q[1])) :
            Cell(blocks, p[1])[k] = p[2] /\ Cell(blocks, q[1])[l] = q[2]
    <3>1. ASSUME NEW s \in Seq(Events), NEW e \in Range(s)
          PROVE  \E k \in 1 .. Len(s) : s[k] = e
      BY DEF Range
    <3>2. p[2] \in Range(Cell(blocks, p[1])) /\ q[2] \in Range(Cell(blocks, q[1]))
      BY <1>1, <1>2
    <3> QED
      BY <2>2, <3>1, <3>2, Zenon
  <2>4. (p[1] \div W) % B = (q[1] \div W) % B /\ p[1] % W = q[1] % W
    <3>1. PICK i \in Ring, j \in Ring, a \in Slots, b \in Slots :
              i = (p[1] \div W) % B /\ j = (q[1] \div W) % B /\ a = p[1] % W /\ b = q[1] % W
      BY <2>1, Zenon
    <3>2. Cell(blocks, p[1]) = blocks[i][a] /\ Cell(blocks, q[1]) = blocks[j][b]
      BY <3>1, Zenon DEF Cell
    <3>3. k \in 1 .. Len(blocks[i][a]) /\ l \in 1 .. Len(blocks[j][b]) /\ blocks[i][a][k] = blocks[j][b][l]
      BY <2>3, <3>2, Zenon
    <3>4. i = j /\ a = b
      BY <1>0, <3>3, NoDupUse DEF UniqueInv
    <3> QED
      BY <3>1, <3>4, Zenon
  <2>5. p[1] = q[1]
    BY <1>0, <1>1, <1>2, <2>4, CellsApart
  <2> QED
    BY <1>1, <1>2, <2>5
<1>3. CASE p \in feMap /\ q \in feMap
  BY <1>0, <1>3 DEF UniqueInv
<1>4. CASE p \in InWindow /\ q \in feMap
  BY <1>0, <1>1, <1>4 DEF UniqueInv
<1>5. CASE p \in feMap /\ q \in InWindow
  BY <1>0, <1>1, <1>5 DEF UniqueInv
<1> QED
  BY <1>2, <1>3, <1>4, <1>5 DEF Queued

\* What the invariant says of the queue.
LEMMA Exact == IndInv => QueueExact
<1> SUFFICES ASSUME IndInv PROVE PQTypeOK /\ NothingPassed
  BY FirstCycle DEF QueueExact
<1>0. /\ BasicInv /\ curBlock \in Nat /\ InRing = InWindow /\ Contents = Queued
      /\ Half = B \div 2 /\ Half \in Nat
  BY ContentsExact, HalfFacts DEF IndInv, BasicInv, Half
<1>1. curBlock \in 0 .. MaxCycle \div W
  <2>1. PICK b \in Int, pos \in Slots : b = MaxCycle \div W /\ MaxCycle = b * W + pos
    <3>1. MaxCycle \in Int
      BY Constants
    <3> QED
      BY <3>1, CycleSlot, Zenon
  <2>2. b * W + pos >= curBlock * W
    BY <2>1, <1>0, Constants DEF IndInv, BoundInv
  <2>3. b >= curBlock
    BY <1>0, <2>2, CyclesOfBlock
  <2> QED
    BY <1>0, <2>1, <2>3
<1>2. elems = Cardinality(Contents) /\ Cardinality({p[2] : p \in Contents}) = elems
  <2> DEFINE T == {p[2] : p \in Queued}
             f == [p \in Queued |-> p[2]]
  <2>1. f \in Surjection(Queued, T)
    BY DEF Surjection
  <2>2. f \in Injection(Queued, T)
    BY OneCycle DEF Injection, IsInjective
  <2>3. IsFiniteSet(Queued) /\ elems = Cardinality(Queued)
    BY DEF IndInv, CountInv
  <2>4. Cardinality(T) = Cardinality(Queued)
    <3> HIDE DEF f, T
    <3> QED
      BY <2>1, <2>2, <2>3, FS_Surjection
  <2> QED
    BY <1>0, <2>3, <2>4
<1>3. PQTypeOK
  BY <1>0, <1>1, <1>2 DEF PQTypeOK, BasicInv, Blocks
<1>4. \A p \in InRing : p[1] >= now
  BY <1>0 DEF IndInv, NowInv
<1>5. ASSUME NEW p \in feMap PROVE p[1] \div W >= curBlock + B \div 2
  <2>1. p[1] \in Int /\ p[1] >= (curBlock + Half) * W
    BY <1>0, FarAway DEF IndInv
  <2>2. PICK b \in Int, pos \in Slots : b = p[1] \div W /\ p[1] = b * W + pos
    BY <2>1, CycleSlot
  <2>3. curBlock + Half \in Int /\ b * W + pos >= (curBlock + Half) * W
    BY <1>0, <2>1, <2>2
  <2>4. b >= curBlock + Half
    BY <2>3, CyclesOfBlock
  <2> QED
    BY <1>0, <2>2, <2>4
<1> QED
  BY <1>3, <1>4, <1>5 DEF NothingPassed

\* Ring and map are exact in every state of every queue (prio_queue.h): elems
\* counts the events, none is there twice, none is behind the scan or too
\* near to be in the map still, and firstCycle() finds the first one.
THEOREM QueueExactness == PQSpec => []QueueExact
<1>1. IndInv => QueueExact
  BY Exact
<1> QED
  BY <1>1, Invariance, PTL

\* The ring with its map implements the ordered queue: whatever the number of
\* blocks, events come out of dequeue() in the order of their cycles, each
\* once and with the cycle it was enqueued with (prio_queue.h:80-127).
THEOREM Refinement == PQSpec => ImplementsOrderedQueue
<1>1. PQInit => Abstract!Init
  <2> SUFFICES ASSUME PQInit PROVE Contents = {} /\ now = 0
    BY DEF Abstract!Init
  <2>1. \A i \in Ring, pos \in Slots : Range(blocks[i][pos]) = {}
    BY DEF PQInit, Range
  <2> QED
    BY <2>1 DEF Contents, InRing, PQInit
<1>2. IndInv /\ IndInv' /\ [PQNext]_pqVars => [Abstract!Next]_<<Contents, now>>
  <2> SUFFICES ASSUME IndInv, IndInv', [PQNext]_pqVars
               PROVE  [Abstract!Next]_<<Contents, now>>
    OBVIOUS
  <2>1. Contents = Queued /\ Contents' = Queued'
    BY ContentsExact DEF IndInv
  <2>2. CASE Queued' = Queued /\ now' = now
    BY <2>1, <2>2
  <2>3. CASE \E e \in Events, cycle \in 0 .. MaxCycle :
                 /\ \A p \in Queued : p[2] # e
                 /\ cycle >= now /\ now' = now
                 /\ Queued' = Queued \cup {<<cycle, e>>}
    BY <2>1, <2>3, Zenon DEF Abstract!Next, Abstract!Enqueue
  <2>4. CASE \E p \in Queued : /\ \A q \in Queued : p[1] <= q[1]
                               /\ Queued' = Queued \ {p} /\ now' = p[1]
    BY <2>1, <2>4, Zenon DEF Abstract!Next, Abstract!Dequeue
  <2> QED
    BY <2>2, <2>3, <2>4, NextStep
<1> QED
  BY <1>1, <1>2, Invariance, PTL DEF PQSpec, ImplementsOrderedQueue, Abstract!Spec

=============================================================================
