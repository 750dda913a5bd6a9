--------------------------- MODULE PatientRecord ---------------------------
(***************************************************************************)
(* A patient as the app holds it in memory (class Patient) and as          *)
(* Firestore holds it (a document of the collection 'patients'), and the   *)
(* conversions between the two.  Everything the user types is one value of *)
(* Forms; the creation date keeps its kind, because the kind decides       *)
(* whether it survives the way back.                                       *)
(***************************************************************************)
EXTENDS Naturals

CONSTANTS Clients,  \* devices; each is signed in with an account of its own
          Forms     \* what a filled-in form can hold

ASSUME FormsAssumption == Forms # {}

(***************************************************************************)
(* Dates: Dart's null, a Dart DateTime, and the Timestamp that Firestore   *)
(* returns.  Time is counted in registrations, from 1.                     *)
(***************************************************************************)
NullDate == [kind |-> "null", at |-> 0]
DateTime(n) == [kind |-> "DateTime", at |-> n]
Timestamp(n) == [kind |-> "Timestamp", at |-> n]

DateTimes == {NullDate} \cup [kind : {"DateTime"}, at : Nat \ {0}]
Timestamps == {NullDate} \cup [kind : {"Timestamp"}, at : Nat \ {0}]

\* A patient's number n is the id "P-n".
Patient == [id : Nat \ {0}, form : Forms, createdAt : DateTimes,
            createdBy : Clients]
Doc == [id : Nat \ {0}, form : Forms, createdAt : Timestamps,
        createdBy : Clients]

(***************************************************************************)
(* DateTime.tryParse(x.toString()): the text of a DateTime parses back,    *)
(* the texts "null" and "Timestamp(seconds=..., nanoseconds=...)" do not.  *)
(***************************************************************************)
TryParse(date) == IF date.kind = "DateTime" THEN date ELSE NullDate

\* Patient.fromMap on a document or on the map the edit form builds.
fromMap(map) == [map EXCEPT !.createdAt = TryParse(map.createdAt)]

\* Patient.toJson, and the plugin's encoding of the map that set() is given.
toJson(patient) ==
  [patient EXCEPT !.createdAt =
     IF patient.createdAt.kind = "DateTime"
     THEN Timestamp(patient.createdAt.at) ELSE NullDate]
=============================================================================
