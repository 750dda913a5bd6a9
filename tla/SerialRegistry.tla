--------------------------- MODULE SerialRegistry --------------------------
(***************************************************************************)
(* The registry as the only user of the app would describe it: every       *)
(* registration takes, in one step, the number that generateId makes from  *)
(* the documents there are, and every edit is of a patient that is there.  *)
(* Nothing bounds the registrations but the constant Counts.               *)
(***************************************************************************)
EXTENDS Documents

CONSTANT Counts  \* the counts of registrations after which one may follow

ASSUME CountsAssumption == Counts \subseteq Nat

VARIABLES records,       \* the documents, one per id
          snapshot,      \* the documents as the last registration left them
          registrations  \* registrations so far, the date of the last one

vars == <<records, snapshot, registrations>>

TypeOK ==
  /\ records \in SUBSET Doc
  /\ snapshot \in SUBSET Doc
  /\ registrations \in Nat

Init == records = {} /\ snapshot = {} /\ registrations = 0

Register ==
  /\ registrations \in Counts
  /\ registrations' = registrations + 1
  /\ \E c \in Clients, f \in Forms, page \in Pages(records, 1) :
       records' = Put(records, toJson(newPatient(c, NextId(page), f, registrations')))
  /\ snapshot' = records'

\* Mutation: an edit dates the patient anew.
ChangeRedated ==
  /\ \E d \in records, f \in Forms :
       records' = Put(records, [d EXCEPT !.form = f, !.createdAt = Timestamp(registrations + 1)])
  /\ UNCHANGED <<snapshot, registrations>>

\* The dates of patient id that the app can still hold in memory.
Remembered(id) == {d.createdAt : d \in {e \in records \cup snapshot : e.id = id}}

\* An edit of a loaded patient erases the date.  Any other writes the date it
\* remembers, even if an edit since the last registration has erased it.
Change ==
  /\ \E d \in records, f \in Forms : \E date \in {NullDate} \cup Remembered(d.id) :
       records' = Put(records, [d EXCEPT !.form = f, !.createdAt = date])
  /\ UNCHANGED <<snapshot, registrations>>

Remove ==
  /\ \E d \in records : records' = records \ {d}
  /\ UNCHANGED <<snapshot, registrations>>

Next == Register \/ Change \/ Remove

Spec == Init /\ [][Next]_vars

----------------------------------------------------------------------------
(* Properties *)

Dated == {d \in records : d.createdAt # NullDate}

(***************************************************************************)
(* generateId looks at the newest document only.  That is enough while     *)
(* dates and numbers agree: of two dated patients the later one has the    *)
(* greater number, whatever was edited, re-dated or removed between.       *)
(***************************************************************************)
DatesOrderNumbers ==
  \A d, e \in Dated : d.createdAt.at > e.createdAt.at => d.id > e.id

(***************************************************************************)
(* A registration only ever replaces a patient whose date an edit erased:  *)
(* the number after that of the newest document is free of dated ones.     *)
(***************************************************************************)
RegistrationKept ==
  [][Register => \A d \in records \ records' : d.createdAt = NullDate]_vars

(***************************************************************************)
(* Where the numbering goes wrong, and that it does so nowhere else.  A    *)
(* patient that a registration replaces has lost its date and has the      *)
(* number after the greatest dated one.  If no patient carries a date, for *)
(* example after every one has been loaded and edited, generateId goes by  *)
(* the names, and then nobody is replaced until the numbers get one digit  *)
(* longer: "P-9" counts as newer than "P-10", whose number is handed out   *)
(* again.                                                                  *)
(***************************************************************************)
ReplacedNumber ==
  [][Register => \A d \in records \ records' :
       IF Dated = {}
       THEN Width(d.id - 1) < Width(d.id)
       ELSE \E e \in Dated : d.id = e.id + 1 /\ \A f \in Dated : f.id <= e.id]_vars
=============================================================================
