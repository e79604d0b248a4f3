----------------------------- MODULE PrioQueue -----------------------------
(***************************************************************************)
(* The event queue of a weave domain (prio_queue.h): a ring of B blocks of *)
(* 64 cycles each for the near future and a sorted map for events further  *)
(* away, moved into the ring whenever the current block reaches a multiple *)
(* of B/2.  A queue is used by one thread at a time: the loop of dequeue() *)
(* is a sequence of Skip steps ended by a Take step, with a Move step for  *)
(* each far event that enters the ring.                                    *)
(*                                                                         *)
(* IsNearer and firstCycleInRing are wrong variants of the definitions     *)
(* that follow them; no action uses them.                                  *)
(***************************************************************************)
EXTENDS Integers, FiniteSets, FiniteSetsExt, SequencesExt

CONSTANTS Events,
          B,         \* number of blocks (PQ_BLOCKS, 1024)
          W,         \* cycles per block (64, the bits of occ)
          MaxCycle   \* bound: last cycle an event is due

ASSUME PrioQueueAssumption ==
    /\ B \in Nat \ {0} /\ B % 2 = 0
    /\ W \in Nat \ {0} /\ MaxCycle \in Nat

VARIABLES blocks,    \* blocks[i][pos]: the list of events in slot pos of block i
          feMap,     \* far events, a set of <<cycle, event>>
          curBlock, elems,
          pc,        \* "idle"; inside dequeue() "scan", or "move" in the inner loop
          now        \* cycle of the event dequeued last (the domain's curCycle)
pqVars == <<blocks, feMap, curBlock, elems, pc, now>>

Ring == 0 .. B - 1
Slots == 0 .. W - 1

PQInit ==
    /\ blocks = [i \in Ring |-> [pos \in Slots |-> <<>>]]
    /\ feMap = {}
    /\ curBlock = 0 /\ elems = 0 /\ now = 0
    /\ pc = "idle"

\* occ: the populated slots of a block.
Occ(block) == {pos \in Slots : block[pos] # <<>>}

\* The cycle of slot pos of ring block i, as the code computes it from curBlock.
CycleOf(i, pos) == (curBlock + ((i - curBlock) % B)) * W + pos

\* Everything in the queue.
InRing == UNION {UNION {{<<CycleOf(i, pos), e>> : e \in Range(blocks[i][pos])}
                        : pos \in Slots} : i \in Ring}
Contents == InRing \cup feMap

\* PQBlock::enqueue: at the head of the slot's list.
Put(bs, cycle, e) ==
    [bs EXCEPT ![(cycle \div W) % B][cycle % W] = <<e>> \o @]

IsNearer(cycle) == cycle \div W <= curBlock + B
IsNear(cycle) == cycle \div W < curBlock + B

\* The callers never enqueue before the domain's cycle (ContentionSim::enqueue
\* and enqueueSynced assert it).
Enqueue(e, cycle) ==
    /\ pc = "idle"
    /\ \A p \in Contents : p[2] # e
    /\ cycle >= now
    /\ IF IsNear(cycle)
       THEN blocks' = Put(blocks, cycle, e) /\ UNCHANGED feMap
       ELSE feMap' = feMap \cup {<<cycle, e>>} /\ UNCHANGED blocks
    /\ elems' = elems + 1
    /\ UNCHANGED <<curBlock, pc, now>>

Dequeue ==
    /\ pc = "idle" /\ elems > 0
    /\ pc' = "scan"
    /\ UNCHANGED <<blocks, feMap, curBlock, elems, now>>

\* One turn of the loop: the current block is empty.
Skip ==
    /\ pc = "scan" /\ Occ(blocks[curBlock % B]) = {}
    /\ curBlock' = curBlock + 1
    /\ pc' = IF (curBlock + 1) % (B \div 2) = 0 THEN "move" ELSE "scan"
    /\ UNCHANGED <<blocks, feMap, elems, now>>

\* The far events below topCycle, which enter the ring one after the other in
\* the order of the map.
Entering == {p \in feMap : p[1] < (curBlock + B) * W}

Move(p) ==
    /\ pc = "move" /\ p \in Entering
    /\ \A q \in feMap : p[1] <= q[1]
    /\ blocks' = Put(blocks, p[1], p[2])
    /\ feMap' = feMap \ {p}
    /\ UNCHANGED <<curBlock, elems, pc, now>>

MoveEnds ==
    /\ pc = "move" /\ Entering = {}
    /\ pc' = "scan"
    /\ UNCHANGED <<blocks, feMap, curBlock, elems, now>>

\* PQBlock::dequeue: the head of the first populated slot (ctz of occ).
First(block) == Min(Occ(block))

Take ==
    /\ pc = "scan" /\ Occ(blocks[curBlock % B]) # {}
    /\ LET pos == First(blocks[curBlock % B]) IN
       /\ blocks' = [blocks EXCEPT ![curBlock % B][pos] = Tail(@)]
       /\ now' = curBlock * W + pos
    /\ elems' = elems - 1
    /\ pc' = "idle"
    /\ UNCHANGED <<feMap, curBlock>>

PQNext ==
    \/ \E e \in Events, cycle \in 0 .. MaxCycle : Enqueue(e, cycle)
    \/ Dequeue \/ Skip \/ (\E p \in feMap : Move(p)) \/ MoveEnds \/ Take

PQSpec == PQInit /\ [][PQNext]_pqVars

\* firstCycle(): the ring up to B/2 blocks ahead, then the ring or the map.
FirstIn(i) == (curBlock + i) * W + First(blocks[(curBlock + i) % B])
Populated(lo, hi) == {i \in lo .. hi : Occ(blocks[(curBlock + i) % B]) # {}}
FarFirst == Min({p[1] : p \in feMap})
firstCycleInRing ==
    IF Populated(0, B - 1) # {} THEN FirstIn(Min(Populated(0, B - 1))) ELSE FarFirst

firstCycle ==
    IF Populated(0, B \div 2 - 1) # {} THEN FirstIn(Min(Populated(0, B \div 2 - 1)))
    ELSE IF Populated(B \div 2, B - 1) # {}
    THEN LET cycle == FirstIn(Min(Populated(B \div 2, B - 1)))
         IN  IF feMap = {} THEN cycle ELSE Min({cycle, FarFirst})
    ELSE FarFirst

-----------------------------------------------------------------------------
(* Properties.                                                             *)

\* Types and bounds: the scan of dequeue() never gets beyond the last event, and
\* elems, kept by hand, counts the events in the ring and in the map, none of
\* which is there twice (prio_queue.h:70-71).
PQTypeOK ==
    /\ blocks \in [Ring -> [Slots -> Seq(Events)]]
    /\ feMap \subseteq (0 .. MaxCycle) \X Events
    /\ curBlock \in 0 .. MaxCycle \div W
    /\ elems = Cardinality(Contents)
    /\ Cardinality({p[2] : p \in Contents}) = elems
    /\ pc \in {"idle", "scan", "move"} /\ now \in 0 .. MaxCycle

\* The current block never runs past an event: no event of the ring lies
\* behind it, and a far event is at least B/2 blocks ahead of it, so that the
\* next multiple of B/2 moves it in time (prio_queue.h:98-109).
NothingPassed ==
    /\ \A p \in InRing : p[1] >= now
    /\ \A p \in feMap : p[1] \div W >= curBlock + B \div 2

\* firstCycle() is the cycle of the event that dequeue() would return, the
\* earliest in the queue, wherever it is (prio_queue.h:131-150).
FirstCycleExact == elems > 0 /\ pc = "idle" => firstCycle = Min({p[1] : p \in Contents})

\* Ring and map together are exact: elems counts their events, the scan of
\* dequeue() passes none of them, and firstCycle() finds the first one.
QueueExact == PQTypeOK /\ NothingPassed /\ FirstCycleExact

\* The queue implements OrderedQueue: nothing is lost, duplicated, given
\* another cycle or dequeued out of order.
Abstract == INSTANCE OrderedQueue WITH Cycles <- 0 .. MaxCycle, pending <- Contents
ImplementsOrderedQueue == Abstract!Spec
=============================================================================
