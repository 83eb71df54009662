------------------------------ MODULE MCCppLRU ------------------------------
(* Instances of CppLRU for TLC. *)
EXTENDS CppLRU

CONSTANTS a, b, c, d, e
=============================================================================
