------------------------- MODULE PatientSessionsMC -------------------------
(***************************************************************************)
(* Instances of PatientSessions for TLC.                                   *)
(***************************************************************************)
EXTENDS PatientSessions, TLC

CONSTANTS c1, s1, s2, f1, a1, a2, nobody

Symmetry == Permutations({s1, s2}) \cup Permutations({a1, a2})
=============================================================================
