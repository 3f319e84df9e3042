-------------------------- MODULE MCSnapshotCache --------------------------
(***************************************************************************)
(* Constant values for model-checking SnapshotCache.                       *)
(***************************************************************************)
EXTENDS SnapshotCache, TLC

CONSTANTS n1, n2, c1, c2, x

\* A snapshot with one resource of each type.
MCOneContent == {[t \in Types |-> {x}]}

MCSymmetry == Permutations(Callers) \cup Permutations(Nodes)
=============================================================================
