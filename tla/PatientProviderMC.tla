------------------------- MODULE PatientProviderMC -------------------------
(***************************************************************************)
(* Instances of PatientProvider for TLC.                                   *)
(***************************************************************************)
EXTENDS PatientProvider, TLC

CONSTANTS c1, s1, s2, f1

SaveSlots == Permutations({s1, s2})
=============================================================================
