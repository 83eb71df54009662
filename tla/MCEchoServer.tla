----------------------------- MODULE MCEchoServer -----------------------------
(* A small instance of EchoServer for TLC. *)
EXTENDS EchoServer

CONSTANTS c1, c2, c3, m1, m2

TwoWorkers == <<m1, m2>>
=============================================================================
