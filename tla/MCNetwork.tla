----------------------------- MODULE MCNetwork -----------------------------
(***************************************************************************)
(* An instance of NetworkEngine for TLC.                                   *)
(***************************************************************************)
EXTENDS NetworkEngine, TLC
=============================================================================
