------------------------------ MODULE MCPaxos ------------------------------
(***************************************************************************)
(* Instances of Paxos for TLC.                                             *)
(***************************************************************************)
EXTENDS PaxosLog, TLC

Symmetry == Permutations(Thread) \cup Permutations(Value)
=============================================================================
