-------------------------- MODULE MCForkDirectory --------------------------
(* TLC instance of ForkDirectory: interchangeable replays. *)
EXTENDS ForkDirectory, TLC

ProcSymmetry == Permutations(Procs)
=============================================================================
