-------------------------- MODULE StaffProviderMC --------------------------
(***************************************************************************)
(* Instances of StaffProvider for TLC.                                     *)
(***************************************************************************)
EXTENDS StaffProvider, TLC

CONSTANTS c1, s1, l1, l2, v1, v2

Visits == Permutations({l1, l2})
=============================================================================
