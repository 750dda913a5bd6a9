--------------------------- MODULE PatientHistory --------------------------
(***************************************************************************)
(* The patient registry with a memory of the registrations that a delete   *)
(* has taken off the server.  The details screen asks for confirmation     *)
(* with "The deleted patient can't be recovered".                          *)
(***************************************************************************)
EXTENDS PatientProvider

VARIABLE erased  \* creation dates of the documents the server has deleted

historyVars == <<vars, erased>>

HistoryInit == Init /\ erased = {}

Erases(c) == WriteAcknowledged(c) /\ Head(queue[c]).docs = {}

HistoryNext ==
  /\ Next
  /\ IF \E c \in Clients : Erases(c)
     THEN erased' = erased \cup
            {d.createdAt.at : d \in {e \in server \ server' : e.createdAt # NullDate}}
     ELSE UNCHANGED erased

HistorySpec == HistoryInit /\ [][HistoryNext]_historyVars

(***************************************************************************)
(* A patient whose deletion the server has confirmed stays deleted: no     *)
(* document carries the creation date of a deleted registration again.     *)
(***************************************************************************)
DeletedPatientGone == \A d \in server : d.createdAt.at \notin erased
=============================================================================
