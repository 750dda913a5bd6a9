-------------------------- MODULE SerialRegistryMC -------------------------
(***************************************************************************)
(* An instance of SerialRegistry that goes past the tenth registration.    *)
(***************************************************************************)
EXTENDS SerialRegistry, FiniteSets

CONSTANTS c1, f1

TenRegistrations == 0 .. 10

\* Bound: a state with more documents, or the empty one after the last
\* registration, is not explored further.
FewDocuments ==
  /\ Cardinality(records) <= 3
  /\ records = {} => registrations \in TenRegistrations
=============================================================================
