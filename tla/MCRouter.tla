------------------------------ MODULE MCRouter ------------------------------
(* TLC instance of RouterEnv: three nodes, so that a pair and its reverse  *)
(* can both leave and re-enter a window of two before the cap is reached.  *)
EXTENDS RouterEnv, TLC

CONSTANTS a, b, c

NodeSymmetry == Permutations({a, b, c})
=============================================================================
