----------------------------- MODULE MCJournal -----------------------------
(* Two operation tasks and the handler, for TLC. *)
EXTENDS Journal

CONSTANTS t1, t2, h
=============================================================================
