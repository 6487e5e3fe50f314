--------------------------- MODULE MCThreadLocks ----------------------------
(***************************************************************************)
(* Three threads that initialise three mutexes and use them.               *)
(***************************************************************************)
EXTENDS ThreadLocks, TLC

ThreadSymmetry == Permutations(Threads)
=============================================================================
