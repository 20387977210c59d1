------------------------------- MODULE MCStep -------------------------------
(* Step with two environments and two results.                              *)
EXTENDS Step

CONSTANTS i1, i2, v1, v2
=============================================================================
