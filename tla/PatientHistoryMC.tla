-------------------------- MODULE PatientHistoryMC -------------------------
(***************************************************************************)
(* Instances of PatientHistory for TLC.                                    *)
(***************************************************************************)
EXTENDS PatientHistory, TLC

CONSTANTS c1, c2, s1, s2, f1

Devices == Permutations({c1, c2})

\* Bound: no acknowledgement is lost.  A write that is sent again after the
\* deletion brings the patient back too, without anybody editing it.
AcknowledgementsArrive == \A c \in Clients : ~AcknowledgementLost(c)
=============================================================================
