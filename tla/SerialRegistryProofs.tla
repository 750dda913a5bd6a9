------------------------ MODULE SerialRegistryProofs ------------------------
(***************************************************************************)
(* Theorems about the serial registry, for any number of registrations,    *)
(* accounts and forms.                                                     *)
(***************************************************************************)
EXTENDS SerialRegistry, DocumentsProofs

\* The inductive invariant; it implies TypeOK and, of the snapshot as of the
\* documents, that dates and numbers agree.
IInv == Numbering(records, snapshot, registrations)

\* The invariant holds of the empty registry.
LEMMA InitIInv ==
  ASSUME Init
  PROVE  IInv
  BY DEF Init, IInv, Numbering, InOrder, DatedFrom

\* A registration keeps the invariant: its number is beyond all dated ones.
LEMMA RegisterIInv ==
  ASSUME IInv, Register
  PROVE  IInv' /\ \A d \in Dated : d \in records'
  <1>1. PICK c \in Clients, f \in Forms, page \in Pages(records, 1) :
          records' = Put(records, toJson(newPatient(c, NextId(page), f, registrations')))
    BY DEF Register
  <1>2. registrations' = registrations + 1 /\ snapshot' = records'
    BY DEF Register
  <1> QED BY <1>1, <1>2, RegisterNumbering DEF IInv, Dated

\* An edit brings back a date of the same number, or none.
LEMMA ChangeIInv ==
  ASSUME IInv, Change
  PROVE  IInv'
  <1>1. PICK d \in records, f \in Forms :
          \E date \in {NullDate} \cup Remembered(d.id) :
            records' = Put(records, [d EXCEPT !.form = f, !.createdAt = date])
    BY DEF Change
  <1>2. PICK date \in {NullDate} \cup Remembered(d.id) :
          records' = Put(records, [d EXCEPT !.form = f, !.createdAt = date])
    BY <1>1
  <1>3. \/ date = NullDate
        \/ \E e \in records \cup snapshot : e.id = d.id /\ e.createdAt = date
    BY DEF Remembered
  <1>4. snapshot' = snapshot /\ registrations' = registrations
    BY DEF Change
  <1> QED BY <1>2, <1>3, <1>4, ChangeNumbering DEF IInv, Edited

\* A removal takes a document away and brings none.
LEMMA RemoveIInv ==
  ASSUME IInv, Remove
  PROVE  IInv'
  BY DEF Remove, IInv, Numbering, DatedFrom

\* Every step keeps the invariant.
LEMMA StepIInv ==
  ASSUME IInv, [Next]_vars
  PROVE  IInv'
  <1>1. CASE UNCHANGED vars
    BY <1>1 DEF vars, IInv
  <1> QED BY <1>1, RegisterIInv, ChangeIInv, RemoveIInv DEF Next

----------------------------------------------------------------------------
(* The theorems *)

\* The types of the registry are kept.
THEOREM SerialTypeCorrect == Spec => []TypeOK
  <1>1. IInv => TypeOK
    BY DEF IInv, Numbering, TypeOK
  <1> QED BY <1>1, InitIInv, StepIInv, PTL DEF Spec

(***************************************************************************)
(* Dates and numbers agree after any number of registrations, edits and    *)
(* removals, so that generateId may look at the newest document only.      *)
(***************************************************************************)
THEOREM DatesAndNumbersAgree == Spec => []DatesOrderNumbers
  <1>1. IInv => DatesOrderNumbers
    BY NumberingInOrder DEF IInv, InOrder, DatesOrderNumbers, Dated
  <1> QED BY <1>1, InitIInv, StepIInv, PTL DEF Spec

(***************************************************************************)
(* However many patients there are, also beyond the tenth, a registration  *)
(* replaces no document that carries a date.                               *)
(***************************************************************************)
THEOREM DatedPatientsKept == Spec => RegistrationKept
  <1>1. IInv /\ [Next]_vars => [Register => \A d \in records \ records' : d.createdAt = NullDate]_vars
    BY RegisterIInv DEF Dated
  <1> QED BY <1>1, InitIInv, StepIInv, PTL DEF Spec, RegistrationKept

(***************************************************************************)
(* The patient a registration replaces has the number after the greatest   *)
(* dated one; without dates generateId goes by the names, and it has the   *)
(* first number of one digit more, however many digits the numbers have.   *)
(***************************************************************************)
THEOREM ReplacementsLocated == Spec => ReplacedNumber
  <1>1. ASSUME IInv, Register, NEW d \in records \ records'
        PROVE  IF Dated = {}
               THEN Width(d.id - 1) < Width(d.id)
               ELSE \E e \in Dated : d.id = e.id + 1 /\ \A f \in Dated : f.id <= e.id
    <2>1. PICK c \in Clients, f \in Forms, page \in Pages(records, 1) :
            records' = Put(records, toJson(newPatient(c, NextId(page), f, registrations')))
      BY <1>1 DEF Register
    <2> DEFINE new == toJson(newPatient(c, NextId(page), f, registrations'))
    <2>2. records \in SUBSET Doc
      BY <1>1 DEF IInv, Numbering
    <2>3. new.id = NextId(page)
      BY DEF toJson, newPatient
    <2> HIDE DEF new
    <2>4. d \in records /\ d.id = NextId(page)
      BY <1>1, <2>1, <2>3 DEF Put, new
    <2>5. CASE Dated = {}
      BY <2>2, <2>4, <2>5, ReplacedAtNewDigit DEF Dated
    <2>6. CASE Dated # {}
      <3>1. /\ page # <<>> /\ page[1] \in records
            /\ \A e \in records : page[1].createdAt.at >= e.createdAt.at
        BY <2>2, <2>4, NewestPage
      <3>2. page[1] \in Dated
        <4>1. PICK e \in records : e.createdAt # NullDate
          BY <2>6 DEF Dated
        <4>2. /\ e.createdAt.at \in Nat /\ e.createdAt.at # 0
              /\ page[1].createdAt.at \in Nat
              /\ page[1].createdAt = NullDate => page[1].createdAt.at = 0
          BY <2>2, <3>1, <4>1, DocDates
        <4> QED BY <3>1, <4>1, <4>2 DEF Dated
      <3>3. d.id = page[1].id + 1
        BY <2>4, <3>1 DEF NextId
      <3>4. \A e \in Dated : e.id \in Nat /\ page[1].id \in Nat /\ e.id < d.id
        BY <1>1, <2>2, <2>4, <3>1, NextIdBeyondDated, DocDates DEF IInv, Dated
      <3> QED BY <2>6, <3>2, <3>3, <3>4
    <2> QED BY <2>5, <2>6
  <1>2. IInv /\ [Next]_vars =>
          [Register => \A d \in records \ records' :
             IF Dated = {}
             THEN Width(d.id - 1) < Width(d.id)
             ELSE \E e \in Dated : d.id = e.id + 1 /\ \A f \in Dated : f.id <= e.id]_vars
    BY <1>1
  <1> QED BY <1>2, InitIInv, StepIInv, PTL DEF Spec, ReplacedNumber
=============================================================================
