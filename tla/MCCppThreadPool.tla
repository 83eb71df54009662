-------------------------- MODULE MCCppThreadPool --------------------------
(***************************************************************************)
(* Instances of CppThreadPool for TLC, and the mutated definitions its     *)
(* properties are tried on.                                                *)
(***************************************************************************)
EXTENDS CppThreadPool, TLC

CONSTANTS w1, w2, c1, c2, t1, t2, t3

PoolSymmetry == Permutations({w1, w2}) \cup Permutations({t1, t2, t3})

=============================================================================
