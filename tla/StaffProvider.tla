--------------------------- MODULE StaffProvider ---------------------------
(***************************************************************************)
(* The doctors: DoctorsNotifier, the Staff tab and the form of a doctor.   *)
(* addDoctor, updateDoctor and generateId are the methods of the patients' *)
(* notifier over again, so their steps are those of PatientProvider.  What *)
(* differs is here: no screen deletes a doctor, a tap on a card opens the  *)
(* form at once and prefilled, and the tab loads its list whenever it is   *)
(* visited, so that several loads can be in flight.                        *)
(***************************************************************************)
EXTENDS Naturals, Sequences

CONSTANTS Clients, Slots, PageSize, MaxSaves, MaxVisits, MayReject,
          Values,  \* what can be typed into a field
          Fields,  \* the fields of the form that an instance looks at
          Loads    \* bound: addDoctors calls in flight on one device

VARIABLES server, cache, queue, online,   \* the collection 'doctors', see Firestore
          doctors,   \* state of DoctorsNotifier: the list shown
          screen,    \* the list, or the form and the doctor it was built with
          fields,    \* what the form of an edit holds, and what the user typed
          calls,     \* the _saveAndValidate calls in flight
          loads,     \* the addDoctors calls in flight, by visits of the tab
          clock, saves, visits

storeVars == <<server, cache, queue, online>>
vars == <<storeVars, doctors, screen, fields, calls, loads, clock, saves, visits>>

\* The fields that an edit takes as they are, and the two it does not.
PlainFields == {"specialization", "registration_number"}

\* The field of the doctor that is the initialValue of field k.
ShownIn(k) ==
  IF k = "education" THEN "specialization"
  ELSE IF k = "role" THEN "registration_number" ELSE k

ASSUME FieldsAssumption ==
  /\ Fields \subseteq PlainFields \cup {"education", "role"}
  /\ \A k \in Fields : ShownIn(k) \in Fields
  /\ Values # {}

ASSUME PageSizeAssumption == PageSize \in Nat

ASSUME MayRejectAssumption == MayReject \in BOOLEAN

StaffForm == [Fields -> Values]

Registry == INSTANCE PatientProvider
              WITH Forms <- StaffForm, patients <- doctors, MaxPending <- 0

TypeOK ==
  /\ server \in SUBSET Registry!Doc
  /\ doctors \in [Clients -> Seq(Registry!Patient)]
  /\ fields \in [Clients -> [form : StaffForm, typed : SUBSET Fields]]
  /\ calls \in [Clients -> [Slots -> Registry!Call]]
  /\ loads \in [Clients -> [Loads -> Registry!Load]]

\* A form that nothing was typed into yet.
Untouched(form) == [form |-> form, typed |-> {}]
BlankForm == Untouched(CHOOSE f \in StaffForm : TRUE)

IdleLoads == [l \in Loads |-> Registry!IdleLoad]

\* The Staff tab is on screen, its first load has been asked for.
Init ==
  /\ Registry!StoreInit
  /\ doctors = [c \in Clients |-> <<>>]
  /\ screen = [c \in Clients |-> Registry!ListScreen]
  /\ fields = [c \in Clients |-> BlankForm]
  /\ calls = [c \in Clients |-> [s \in Slots |-> Registry!IdleCall]]
  /\ loads \in [Clients -> {[IdleLoads EXCEPT ![l] = Registry!AskedLoad] : l \in Loads}]
  /\ clock = 0 /\ saves = 0 /\ visits = 0

----------------------------------------------------------------------------
(* The form *)

\* What the form of an edit shows at first.
Prefilled(doctor) == [k \in Fields |-> doctor.form[ShownIn(k)]]

OpenAdd(c) == Registry!OpenAdd(c) /\ UNCHANGED fields

OpenEdit(c) ==
  /\ screen[c].at = "list"
  /\ \E i \in DOMAIN doctors[c] :
       /\ screen' = [screen EXCEPT ![c] = [at |-> "form", patient |-> {doctors[c][i]}]]
       /\ fields' = [fields EXCEPT ![c] = Untouched(Prefilled(doctors[c][i]))]
  /\ UNCHANGED <<storeVars, doctors, calls, loads, clock, saves, visits>>

Type(c) ==
  /\ screen[c].at = "form"
  /\ screen[c].patient # {}
  /\ \E k \in Fields : \E v \in Values \ {fields[c].form[k]} :
       fields' = [fields EXCEPT ![c].form[k] = v, ![c].typed = @ \cup {k}]
  /\ UNCHANGED <<storeVars, doctors, screen, calls, loads, clock, saves, visits>>

Back(c) == Registry!Back(c) /\ UNCHANGED fields

TapSave(c, s) == Registry!TapSave(c, s) /\ UNCHANGED fields

\* Mutation: whatever form is on screen by then is written.
StartUpdateUnmounted(c, s) ==
  /\ calls[c][s].stage = "userName"
  /\ \E w \in calls[c][s].widget :
       LET p == Registry!updatedPatient(w, fields[c].form)
       IN  /\ Registry!SetCall(c, s, [calls[c][s] EXCEPT
                 !.stage = "writing", !.form = fields[c].form, !.record = {p}])
           /\ Registry!Enqueue(c, Registry!Set(Registry!toJson(p), s))
  /\ UNCHANGED <<server, cache, online, doctors, screen, fields, loads, clock, saves, visits>>

\* An update writes what the form holds, also without an account name.
StartUpdate(c, s) ==
  /\ Registry!StartUpdate(c, s)
  /\ calls'[c][s].form = fields[c].form
  /\ UNCHANGED fields

SaveStep(c, s) ==
  \/ StartUpdate(c, s)
  \/ /\ \/ Registry!SaveAborted(c, s) \/ Registry!StartAdd(c, s)
        \/ Registry!ServeIdQuery(c, s) \/ Registry!IdQueryFails(c, s)
        \/ Registry!AddWrite(c, s) \/ Registry!FinishAdd(c, s)
        \/ Registry!FinishUpdate(c, s) \/ Registry!UpdateFindsNothing(c, s)
     /\ UNCHANGED fields

----------------------------------------------------------------------------
(* The list *)

\* The tab is left and visited again.  Bounds: MaxVisits, and one load of Loads
\* that is not in flight.
VisitStaff(c) ==
  /\ screen[c].at = "list"
  /\ visits < MaxVisits
  /\ visits' = visits + 1
  /\ \E l \in Loads :
       /\ loads[c][l].stage = "idle"
       /\ loads' = [loads EXCEPT ![c][l] = Registry!AskedLoad]
  /\ UNCHANGED <<storeVars, doctors, screen, fields, calls, clock, saves>>

\* get() reads its page; the answers need not come in the order of the visits.
ServeLoad(c, l) ==
  /\ loads[c][l].stage = "asked"
  /\ \E base \in Registry!Bases(c, PageSize) :
       /\ cache' = [cache EXCEPT ![c] = base]
       /\ \E page \in Registry!Pages(Registry!Overlay(base, queue[c]), PageSize) :
            loads' = [loads EXCEPT ![c][l] = [stage |-> "ready", page |-> page]]
  /\ UNCHANGED <<server, queue, online, doctors, screen, fields, calls, clock, saves, visits>>

FinishLoad(c, l) ==
  /\ loads[c][l].stage = "ready"
  /\ doctors' = [doctors EXCEPT ![c] =
       [i \in DOMAIN loads[c][l].page |-> Registry!fromMap(loads[c][l].page[i])]]
  /\ loads' = [loads EXCEPT ![c][l] = Registry!IdleLoad]
  /\ UNCHANGED <<storeVars, screen, fields, calls, clock, saves, visits>>

LoadFails(c, l) ==
  /\ loads[c][l].stage = "asked"
  /\ loads' = [loads EXCEPT ![c][l] = Registry!IdleLoad]
  /\ UNCHANGED <<storeVars, doctors, screen, fields, calls, clock, saves, visits>>

\* The app is killed, started again and shows the Staff tab.
Restart(c) ==
  /\ visits < MaxVisits
  /\ visits' = visits + 1
  /\ doctors' = [doctors EXCEPT ![c] = <<>>]
  /\ screen' = [screen EXCEPT ![c] = Registry!ListScreen]
  /\ calls' = [calls EXCEPT ![c] = [s \in Slots |-> Registry!IdleCall]]
  /\ \E l \in Loads :
       loads' = [loads EXCEPT ![c] = [IdleLoads EXCEPT ![l] = Registry!AskedLoad]]
  /\ Registry!ForgetWaiters(c)
  /\ UNCHANGED <<server, cache, online, fields, clock, saves>>

Next ==
  \E c \in Clients :
    \/ OpenAdd(c) \/ OpenEdit(c) \/ Type(c) \/ Back(c)
    \/ \E s \in Slots : TapSave(c, s) \/ SaveStep(c, s)
    \/ VisitStaff(c)
    \/ \E l \in Loads : ServeLoad(c, l) \/ FinishLoad(c, l) \/ LoadFails(c, l)
    \/ (Registry!WriteStep(c) \/ Registry!Network(c)) /\ UNCHANGED fields
    \/ Restart(c)

Spec == Init /\ [][Next]_vars

----------------------------------------------------------------------------
(* Properties *)

(***************************************************************************)
(* Nobody in the list is a ghost: whatever the order in which loads of     *)
(* several visits, registrations and edits end, on several devices, a      *)
(* doctor that is listed has a document that the device can read.          *)
(***************************************************************************)
ListedDoctorsExist ==
  \A c \in Clients : \A i \in DOMAIN doctors[c] :
    \E d \in Registry!View(c) : d.id = doctors[c][i].id

(***************************************************************************)
(* Doctors are never deleted, so on one device that saves one form at a    *)
(* time a registration replaces no doctor whose document carries a date,   *)
(* although lists of several visits, which bring back loaded and therefore *)
(* undated copies, can replace each other in any order.                    *)
(***************************************************************************)
DatedDoctorsKept == Registry!RegistrationKept

(***************************************************************************)
(* An update writes the form of the doctor it saves: between the tap and   *)
(* the write the save awaits getUserName, and if another doctor's form is  *)
(* on screen by then it writes nothing.  What it writes differs from the   *)
(* doctor only in what was typed, Education and Role apart.                *)
(***************************************************************************)
UpdateWritesItsForm ==
  [][\A c \in Clients, s \in Slots : StartUpdate(c, s) =>
       \A d \in calls[c][s].widget, r \in calls'[c][s].record :
         /\ r.id = d.id
         /\ \A k \in (Fields \cap PlainFields) \ fields[c].typed :
              r.form[k] = d.form[k]]_vars

(***************************************************************************)
(* The field labelled 'Education' shows the education and 'Role' the role: *)
(* a field the user has not typed into holds what the doctor has, so that  *)
(* saving an edit leaves it as it is.                                      *)
(***************************************************************************)
UntypedFieldsKept ==
  \A c \in Clients : screen[c].at = "form" =>
    \A d \in screen[c].patient, k \in Fields \ fields[c].typed :
      fields[c].form[k] = d.form[k]
=============================================================================
