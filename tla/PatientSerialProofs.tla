------------------------ MODULE PatientSerialProofs -------------------------
(***************************************************************************)
(* One device that saves one form at a time, deletes nobody and has no     *)
(* write refused implements the serial registry, for any number of saves,  *)
(* restarts and reloads, any page size and any forms.                      *)
(***************************************************************************)
EXTENDS PatientSerial, PatientSaveProofs

\* The device is the one whose documents are the registry.
LEMMA DeviceReads ==
  ASSUME NEW c, NEW s, Alone(c, s)
  PROVE  c \in Clients /\ s \in Slots /\ Reads = View(c) /\ Reads' = View(c)'
  <1>1. (CHOOSE d \in Clients : TRUE) = c
    BY DEF Alone
  <1> QED BY <1>1 DEF Alone, Reads, View

\* The inductive invariant: that of the saves, where snapshot is what the device
\* read after the last registration.
SerialInv(c, s) == SaveInv(c, s, snapshot)

----------------------------------------------------------------------------
(* The steps keep the invariant *)

\* Every step keeps the invariant.
LEMMA StepInv ==
  ASSUME NEW c, NEW s, Alone(c, s), SerialInv(c, s), SerialNext
  PROVE  SerialInv(c, s)'
  <1>1. /\ TypeOK' /\ Agreement' /\ Reads' = View(c)' /\ clock \in Nat
        /\ Quiet(c, s, snapshot) \/ Registers(c, s) \/ Changes(c, s, snapshot)
    BY DeviceReads, Known, StepKinds DEF SerialInv, SerialNext, TypeOK
  <1>2. /\ Quiet(c, s, snapshot) => Numbering(View(c)', snapshot, clock')
        /\ Registers(c, s) => Numbering(View(c)', View(c)', clock')
        /\ Changes(c, s, snapshot) => Numbering(View(c)', snapshot, clock')
    BY NumberingKept DEF SerialInv
  <1>3. snapshot' = IF Registers(c, s) THEN View(c)' ELSE snapshot
    BY <1>1 DEF SerialNext, Quiet, Registers, Changes
  <1> QED BY <1>1, <1>2, <1>3 DEF SerialInv, SaveInv, Quiet, Registers, Changes

\* The invariant holds at first.
LEMMA StartInv ==
  ASSUME NEW c, NEW s, Alone(c, s), SerialInit
  PROVE  SerialInv(c, s) /\ Reads = {}
  BY DeviceReads, SavesStart DEF SerialInit, SerialInv

\* A stutter keeps the invariant.
LEMMA StutterInv ==
  ASSUME NEW c, NEW s, Alone(c, s), SerialInv(c, s), [SerialNext]_<<vars, snapshot>>
  PROVE  SerialInv(c, s)'
  <1>1. ASSUME UNCHANGED <<vars, snapshot>> PROVE SerialInv(c, s)'
    BY <1>1
    DEF vars, storeVars, appVars, SerialInv, SaveInv, TypeOK, Agreement, View
  <1> QED BY <1>1, StepInv

----------------------------------------------------------------------------
(* The registry that the device implements *)

\* Its operators are those of the device.
LEMMA SameOperators ==
  /\ \A docs, d : Serial!Put(docs, d) = Put(docs, d)
  /\ \A docs : Serial!Pages(docs, 1) = Pages(docs, 1)
  /\ \A page : Serial!NextId(page) = NextId(page)
  /\ \A p : Serial!toJson(p) = toJson(p)
  /\ \A c, id, f, now : Serial!newPatient(c, id, f, now) = newPatient(c, id, f, now)
  /\ Serial!NullDate = NullDate
  <1>0. Serial!PowerOfTen = PowerOfTen
    BY Zenon DEF Serial!PowerOfTen, PowerOfTen
  <1>1. \A n : Serial!Width(n) = Width(n)
    BY <1>0, Zenon DEF Serial!Width, Width
  <1>2. \A m, n : Serial!NameBefore(m, n) <=> NameBefore(m, n)
    BY <1>0, <1>1, Zenon DEF Serial!NameBefore, NameBefore
  <1>3. \A d, e : Serial!Newer(d, e) <=> Newer(d, e)
    BY <1>2, Zenon DEF Serial!Newer, Newer
  <1>4. \A docs : Serial!Pages(docs, 1) = Pages(docs, 1)
    BY <1>3 DEF Serial!Pages, Pages
  <1>5. Serial!NullDate = NullDate /\ \A n : Serial!Timestamp(n) = Timestamp(n)
    BY DEF Serial!NullDate, NullDate, Serial!Timestamp, Timestamp
  <1>6. \A p : Serial!toJson(p) = toJson(p)
    BY <1>5 DEF Serial!toJson, toJson
  <1>7. \A c, id, f, now : Serial!newPatient(c, id, f, now) = newPatient(c, id, f, now)
    BY DEF Serial!newPatient, newPatient, Serial!DateTime, DateTime
  <1> QED BY <1>4, <1>5, <1>6, <1>7 DEF Serial!Put, Put, Serial!NextId, NextId

\* Every step is a step of the serial registry, or a stutter.
LEMMA StepRefines ==
  ASSUME NEW c, NEW s, Alone(c, s), SerialInv(c, s), SerialNext
  PROVE  [Serial!Next]_(Serial!vars)
  <1>1. /\ Reads = View(c) /\ Reads' = View(c)' /\ clock \in Nat /\ c \in Clients
    BY DeviceReads, Known DEF SerialInv, TypeOK
  <1>2. CASE Quiet(c, s, snapshot)
    BY <1>1, <1>2 DEF SerialNext, Quiet, Serial!vars
  <1>3. CASE Registers(c, s)
    <2>1. PICK f \in Forms, page \in Pages(View(c), 1) :
            View(c)' = Put(View(c), toJson(newPatient(c, NextId(page), f, clock + 1)))
      BY <1>3 DEF Registers
    <2>2. snapshot' = Reads' /\ clock' = clock + 1
      BY <1>1, <1>3 DEF SerialNext, Registers
    <2>3. /\ page \in Serial!Pages(Reads, 1)
          /\ Reads' = Serial!Put(Reads, Serial!toJson(
                        Serial!newPatient(c, Serial!NextId(page), f, clock')))
      BY <1>1, <2>1, <2>2, SameOperators
    <2>4. Serial!Register
      BY <1>1, <2>2, <2>3 DEF Serial!Register
    <2> QED BY <2>4 DEF Serial!Next
  <1>4. CASE Changes(c, s, snapshot)
    <2>1. PICK d \in View(c), f \in Forms, date \in Timestamps :
            /\ date = NullDate \/ \E e \in snapshot : e.id = d.id /\ e.createdAt = date
            /\ View(c)' = Put(View(c), Edited(d, f, date))
      BY <1>4 DEF Changes
    <2>2. snapshot' = snapshot /\ clock' = clock
      BY <1>1, <1>4 DEF SerialNext, Changes
    <2>3. date \in {Serial!NullDate} \cup Serial!Remembered(d.id)
      BY <2>1, SameOperators DEF Serial!Remembered
    <2>4. Reads' = Serial!Put(Reads, [d EXCEPT !.form = f, !.createdAt = date])
      BY <1>1, <2>1, SameOperators DEF Edited
    <2>5. Serial!Change
      BY <1>1, <2>2, <2>3, <2>4 DEF Serial!Change
    <2> QED BY <2>5 DEF Serial!Next
  <1> QED BY <1>2, <1>3, <1>4, StepKinds DEF SerialInv, SerialNext

----------------------------------------------------------------------------
(* The theorems *)

(***************************************************************************)
(* A device whose user saves one form at a time and deletes nobody         *)
(* implements the serial registry, whatever the connection does and        *)
(* however often the app is restarted, for any number of saves.            *)
(***************************************************************************)
THEOREM DeviceImplementsRegistry ==
  ASSUME NEW c, NEW s, Alone(c, s)
  PROVE  SerialSpec => SavesAreSerial
  <1>1. SerialInit => Serial!Init
    BY StartInv DEF SerialInit, Init, Serial!Init
  <1>2. SerialInv(c, s) /\ [SerialNext]_<<vars, snapshot>> => [Serial!Next]_(Serial!vars)
    <2>1. ASSUME UNCHANGED <<vars, snapshot>> PROVE UNCHANGED Serial!vars
      BY <2>1 DEF vars, storeVars, appVars, Serial!vars, Reads, View
    <2> QED BY <2>1, StepRefines
  <1>3. SerialInit => SerialInv(c, s)
    BY StartInv
  <1>4. SerialInv(c, s) /\ [SerialNext]_<<vars, snapshot>> => SerialInv(c, s)'
    BY StutterInv
  <1> QED BY <1>1, <1>2, <1>3, <1>4, PTL DEF SerialSpec, SavesAreSerial, Serial!Spec

\* On such a device dates and numbers agree for any number of registrations.
THEOREM DeviceDatesOrderNumbers ==
  ASSUME NEW c, NEW s, Alone(c, s)
  PROVE  SerialSpec => []DatesOrderNumbers
  <1>1. ASSUME SerialInv(c, s) PROVE DatesOrderNumbers
    <2>1. /\ Clients = {c} /\ View(c) \in SUBSET Doc /\ InOrder(View(c))
      BY <1>1, Known, NumberingInOrder DEF Alone, SerialInv, Numbering
    <2>2. ASSUME NEW d \in View(c), NEW e \in View(c),
                 d.createdAt.at > e.createdAt.at, e.createdAt # NullDate
          PROVE  d.id > e.id
      BY <2>1, <2>2, DocDates DEF InOrder
    <2> QED BY <2>1, <2>2 DEF DatesOrderNumbers
  <1>2. SerialInit => SerialInv(c, s)
    BY StartInv
  <1>3. SerialInv(c, s) /\ [SerialNext]_<<vars, snapshot>> => SerialInv(c, s)'
    BY StutterInv
  <1> QED BY <1>1, <1>2, <1>3, PTL DEF SerialSpec

\* And no registration on it replaces a document that carries a date.
THEOREM DeviceRegistrationKept ==
  ASSUME NEW c0, NEW s0, Alone(c0, s0)
  PROVE  SerialSpec => RegistrationKept
  <1>1. ASSUME SerialInv(c0, s0), SerialNext, clock' # clock,
               NEW d \in View(c0), NEW e \in View(c0)', d.id = e.id, d.createdAt # NullDate
        PROVE  d = e
    <2>1. Registers(c0, s0)
      BY <1>1, StepKinds DEF SerialInv, SerialNext, Quiet, Changes
    <2> QED BY <1>1, <2>1, RegistersReplacesNone DEF SerialInv
  <1>2. SerialInv(c0, s0) /\ [SerialNext]_<<vars, snapshot>>
          => [clock' # clock =>
                \A c \in Clients : \A d \in View(c), e \in View(c)' :
                  d.id = e.id /\ d.createdAt # NullDate => d = e]_vars
    BY <1>1 DEF Alone
  <1>3. SerialInit => SerialInv(c0, s0)
    BY StartInv
  <1>4. SerialInv(c0, s0) /\ [SerialNext]_<<vars, snapshot>> => SerialInv(c0, s0)'
    BY StutterInv
  <1> QED BY <1>2, <1>3, <1>4, PTL DEF SerialSpec, RegistrationKept
=============================================================================
