---------------------------- MODULE MCApiSession ----------------------------
(***************************************************************************)
(* ApiSession for TLC: the threads are interchangeable.                    *)
(***************************************************************************)
EXTENDS ApiSession, TLC

ThreadSymmetry == Permutations(Thread)
=============================================================================
