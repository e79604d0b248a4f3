---------------------------- MODULE MCFutexLock ----------------------------
(* Bounded instances of FutexLock for TLC.                                 *)
EXTENDS FutexLock
=============================================================================
