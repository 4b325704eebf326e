-------------------------- MODULE MCCronjobSchedule --------------------------
(***************************************************************************)
(* CronjobSchedule for TLC: requests and names are interchangeable, and    *)
(* every property checked with this module is an invariant or an action    *)
(* property.                                                               *)
(***************************************************************************)
EXTENDS CronjobSchedule, TLC

Symmetry == Permutations(Requests) \cup Permutations(Names)
=============================================================================
