--------------------------- MODULE AuthSessionMC ---------------------------
(***************************************************************************)
(* Instances of AuthSession for TLC.                                       *)
(***************************************************************************)
EXTENDS AuthSession, TLC

CONSTANTS d1, d2, a1, a2

Symmetric == Permutations({d1, d2}) \cup Permutations({a1, a2})
=============================================================================
