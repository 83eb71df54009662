---------------------------- MODULE MCZkConnect ----------------------------
(* Small instances of ZkConnect for TLC. *)
EXTENDS ZkConnect

=============================================================================
