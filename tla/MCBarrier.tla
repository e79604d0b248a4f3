----------------------------- MODULE MCBarrier -----------------------------
(* Bounded instances of Barrier for TLC; the constants are in the .cfg's.  *)
EXTENDS Barrier
=============================================================================
