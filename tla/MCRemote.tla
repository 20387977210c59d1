------------------------------- MODULE MCRemote -------------------------------
(***************************************************************************)
(* A handler of three steps, the first and the last of which store their    *)
(* results in files, with two failures of any kind.                         *)
(***************************************************************************)
EXTENDS Remote

MCOffloaded == {1, 3}
=============================================================================
