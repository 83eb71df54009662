---------------------------- MODULE MCZkWatcher ----------------------------
(* Small instances of ZkWatcher for TLC. *)
EXTENDS ZkWatcher, TLC

CONSTANTS p1, c1, c2

ContextSymmetry == Permutations({c1, c2})

=============================================================================
