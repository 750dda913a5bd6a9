-------------------------- MODULE PatientSerialMC --------------------------
(***************************************************************************)
(* Instances of PatientSerial for TLC.                                     *)
(***************************************************************************)
EXTENDS PatientSerial

CONSTANTS c1, s1, f1, f2
=============================================================================
