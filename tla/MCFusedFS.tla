----------------------------- MODULE MCFusedFS -----------------------------
(***************************************************************************)
(* Instances of FusedFS for TLC.                                           *)
(***************************************************************************)
EXTENDS FusedInv, TLC

OneByte == {<<1>>}
AllData == UNION {[1 .. k -> Byte] : k \in 0 .. MaxSize}

Symmetry == Permutations(Name)

\* The state without the return code of the last operation, which no operation
\* reads.
StateView == <<table, backing, acked, program>>
=============================================================================
