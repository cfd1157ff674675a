---------------------------- MODULE MCMetadata -----------------------------
(***************************************************************************)
(* MetadataManager for TLC.                                                *)
(***************************************************************************)
EXTENDS MetadataManager, TLC

Symmetry == Permutations(FileId) \cup Permutations(Thread)
=============================================================================
