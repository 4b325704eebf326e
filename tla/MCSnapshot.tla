----------------------------- MODULE MCSnapshot -----------------------------
(***************************************************************************)
(* Snapshot for TLC: the workers are interchangeable, and every property   *)
(* checked with this module is an invariant or an action property.  Of the *)
(* states in which more than MaxCauses causes have occurred, for which the *)
(* properties promise next to nothing, no further step is taken.           *)
(***************************************************************************)
EXTENDS Snapshot, TLC

Symmetry == Permutations(Workers)

FewCauses == Cardinality(history) <= MaxCauses
=============================================================================
