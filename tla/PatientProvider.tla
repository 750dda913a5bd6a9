-------------------------- MODULE PatientProvider --------------------------
(***************************************************************************)
(* The patient registry of the app: the list that PatientsNotifier keeps,  *)
(* the screens that read and change it, and the calls they leave in        *)
(* flight, on every device, over the Firestore client of each.             *)
(*                                                                         *)
(* A method of the code is split where it awaits; everything up to the     *)
(* next await is one action, and between two awaits any other action may   *)
(* happen.                                                                 *)
(***************************************************************************)
EXTENDS Firestore

CONSTANTS PageSize,    \* limit(25) of addPatients
          MaxSaves,    \* bound: taps on the save button, all devices
          MaxVisits,   \* bound: restarts and repeated sign-ins, all devices
          MaxPending   \* bound: a delete is confirmed only below this queue length

ASSUME PageSizeAssumption == PageSize \in Nat

VARIABLES patients,  \* state of PatientsNotifier: the list shown
          screen,    \* the screen on top, and the patient it was built with
          calls,     \* the _saveAndValidate calls in flight
          loads,     \* the addPatients call in flight
          clock,     \* DateTime.now(): registrations so far
          saves,     \* taps on the save button so far
          visits     \* restarts and repeated sign-ins so far

appVars == <<patients, screen, calls, loads, clock, saves, visits>>
vars == <<storeVars, appVars>>

ToSet(s) == {s[i] : i \in DOMAIN s}

(***************************************************************************)
(* A screen has the patient it was built with: none on a form that adds.   *)
(* A call keeps that patient as widget, the number generateId answered as  *)
(* id, and the patient it is writing as record, each a set of at most one. *)
(***************************************************************************)
Screen == [at : {"list", "details", "form"}, patient : SUBSET Patient]
ListScreen == [at |-> "list", patient |-> {}]

Stages == {"idle", "userName", "idQuery", "idReady", "writing", "written"}
Call == [stage : Stages, mounted : BOOLEAN, widget : SUBSET Patient,
         form : Forms, id : SUBSET (Nat \ {0}), record : SUBSET Patient]
IdleCall == [stage |-> "idle", mounted |-> FALSE, widget |-> {},
             form |-> CHOOSE f \in Forms : TRUE, id |-> {}, record |-> {}]

Load == [stage : {"idle", "asked", "ready"}, page : Seq(Doc)]
IdleLoad == [stage |-> "idle", page |-> <<>>]
AskedLoad == [stage |-> "asked", page |-> <<>>]

TypeOK ==
  /\ server \in SUBSET Doc
  /\ cache \in [Clients -> SUBSET Doc]
  /\ queue \in [Clients -> Seq(Mutation)]
  /\ online \in [Clients -> BOOLEAN]
  /\ patients \in [Clients -> Seq(Patient)]
  /\ screen \in [Clients -> Screen]
  /\ calls \in [Clients -> [Slots -> Call]]
  /\ loads \in [Clients -> Load]
  /\ clock \in Nat
  /\ saves \in Nat
  /\ visits \in Nat

Init ==
  /\ StoreInit
  /\ patients = [c \in Clients |-> <<>>]
  /\ screen = [c \in Clients |-> ListScreen]
  /\ calls = [c \in Clients |-> [s \in Slots |-> IdleCall]]
  /\ loads = [c \in Clients |-> AskedLoad]
  /\ clock = 0
  /\ saves = 0
  /\ visits = 0

SetCall(c, s, call) == calls' = [calls EXCEPT ![c][s] = call]
EndCall(c, s) == SetCall(c, s, IdleCall)

\* The calls of a device once their screen has been disposed of.
Unmounted(c) == [s \in Slots |-> [calls[c][s] EXCEPT !.mounted = FALSE]]

\* Navigator.pop() of the form a call belongs to; it throws once the form is gone.
PopForm(c, s) ==
  IF calls[c][s].mounted
  THEN /\ screen' = [screen EXCEPT ![c] = ListScreen]
       /\ calls' = [calls EXCEPT ![c] = [Unmounted(c) EXCEPT ![s] = IdleCall]]
  ELSE EndCall(c, s) /\ UNCHANGED screen

----------------------------------------------------------------------------
(* Screens *)

OpenAdd(c) ==
  /\ screen[c].at = "list"
  /\ screen' = [screen EXCEPT ![c] = [at |-> "form", patient |-> {}]]
  /\ UNCHANGED <<storeVars, patients, calls, loads, clock, saves, visits>>

OpenDetails(c) ==
  /\ screen[c].at = "list"
  /\ \E p \in ToSet(patients[c]) :
       screen' = [screen EXCEPT ![c] = [at |-> "details", patient |-> {p}]]
  /\ UNCHANGED <<storeVars, patients, calls, loads, clock, saves, visits>>

EditPatient(c) ==
  /\ screen[c].at = "details"
  /\ screen' = [screen EXCEPT ![c].at = "form"]
  /\ UNCHANGED <<storeVars, patients, calls, loads, clock, saves, visits>>

Back(c) ==
  /\ screen[c].at # "list"
  /\ screen' = [screen EXCEPT ![c] = ListScreen]
  /\ calls' = [calls EXCEPT ![c] = Unmounted(c)]
  /\ UNCHANGED <<storeVars, patients, loads, clock, saves, visits>>

\* The one list that has the patients of list with other ids, in their order.
Without(list, id) ==
  LET kept == {i \in DOMAIN list : list[i].id # id}
      orders == {f \in [1 .. Cardinality(kept) -> kept] :
                   \A i, j \in DOMAIN f : i < j => f[i] < f[j]}
  IN  {[i \in DOMAIN f |-> list[f[i]]] : f \in orders}

\* "okay" in the delete dialog: removePatient, then back to the list.
ConfirmDelete(c) ==
  /\ screen[c].at = "details"
  /\ Len(queue[c]) < MaxPending
  /\ \E p \in screen[c].patient :
       /\ \E kept \in Without(patients[c], p.id) :
            patients' = [patients EXCEPT ![c] = kept]
       /\ Enqueue(c, Delete(p.id))
  /\ screen' = [screen EXCEPT ![c] = ListScreen]
  /\ UNCHANGED <<server, cache, online, calls, loads, clock, saves, visits>>

----------------------------------------------------------------------------
(* Saving a form: _saveAndValidate, addPatient, updatePatient *)

\* The button is live while earlier taps are still in flight.
TapSave(c, s) ==
  /\ screen[c].at = "form"
  /\ calls[c][s].stage = "idle"
  /\ saves < MaxSaves
  /\ SetCall(c, s, [IdleCall EXCEPT !.stage = "userName", !.mounted = TRUE,
                                    !.widget = screen[c].patient])
  /\ saves' = saves + 1
  /\ UNCHANGED <<storeVars, patients, screen, loads, clock, visits>>

\* No account name, an invalid field, or a form that is gone: nothing is saved.
SaveAborted(c, s) ==
  /\ calls[c][s].stage = "userName"
  /\ EndCall(c, s)
  /\ UNCHANGED <<storeVars, patients, screen, loads, clock, saves, visits>>

\* addPatient up to the query of generateId.
StartAdd(c, s) ==
  /\ calls[c][s].stage = "userName"
  /\ calls[c][s].mounted
  /\ calls[c][s].widget = {}
  /\ \E f \in Forms : SetCall(c, s, [calls[c][s] EXCEPT !.stage = "idQuery",
                                                       !.form = f])
  /\ UNCHANGED <<storeVars, patients, screen, loads, clock, saves, visits>>

\* Mutation: an edit dates the patient anew.
updatedPatientRedated(w, f) ==
  [id |-> w.id, form |-> f, createdAt |-> DateTime(clock + 1),
   createdBy |-> w.createdBy]

\* The map the form merges, read back: new fields, the identity of the widget.
updatedPatient(w, f) ==
  fromMap([id |-> w.id, form |-> f, createdAt |-> w.createdAt,
           createdBy |-> w.createdBy])

\* updatePatient up to its write.
StartUpdate(c, s) ==
  /\ calls[c][s].stage = "userName"
  /\ calls[c][s].mounted
  /\ \E w \in calls[c][s].widget, f \in Forms :
       LET p == updatedPatient(w, f)
       IN  /\ SetCall(c, s, [calls[c][s] EXCEPT !.stage = "writing",
                                                !.form = f, !.record = {p}])
           /\ Enqueue(c, Set(toJson(p), s))
  /\ UNCHANGED <<server, cache, online, patients, screen, loads, clock, saves, visits>>

ServeIdQuery(c, s) ==
  /\ calls[c][s].stage = "idQuery"
  /\ \E base \in Bases(c, 1) :
       /\ cache' = [cache EXCEPT ![c] = base]
       /\ \E page \in Pages(Overlay(base, queue[c]), 1) :
            SetCall(c, s, [calls[c][s] EXCEPT !.stage = "idReady",
                                              !.id = {NextId(page)}])
  /\ UNCHANGED <<server, queue, online, patients, screen, loads, clock, saves, visits>>

\* get() throws, and with it addPatient and _saveAndValidate.
IdQueryFails(c, s) ==
  /\ calls[c][s].stage = "idQuery"
  /\ EndCall(c, s)
  /\ UNCHANGED <<storeVars, patients, screen, loads, clock, saves, visits>>

\* addPatient from the answer of generateId to its write.
AddWrite(c, s) ==
  /\ calls[c][s].stage = "idReady"
  /\ clock' = clock + 1
  /\ \E id \in calls[c][s].id :
       LET p == newPatient(c, id, calls[c][s].form, clock + 1)
       IN  /\ SetCall(c, s, [calls[c][s] EXCEPT !.stage = "writing",
                                                !.record = {p}])
           /\ Enqueue(c, Set(toJson(p), s))
  /\ UNCHANGED <<server, cache, online, patients, screen, loads, saves, visits>>

\* addPatient after its write, failed or not, and the pop.
FinishAdd(c, s) ==
  /\ calls[c][s].stage = "written"
  /\ calls[c][s].widget = {}
  /\ \E p \in calls[c][s].record :
       patients' = [patients EXCEPT ![c] = <<p>> \o @]
  /\ PopForm(c, s)
  /\ UNCHANGED <<storeVars, loads, clock, saves, visits>>

IndicesOf(s, id) == {i \in DOMAIN s : s[i].id = id}

\* updatePatient after its write, failed or not: the first entry with the id
\* is replaced.
FinishUpdate(c, s) ==
  /\ calls[c][s].stage = "written"
  /\ calls[c][s].widget # {}
  /\ \E p \in calls[c][s].record, i \in DOMAIN patients[c] :
       /\ i \in IndicesOf(patients[c], p.id)
       /\ \A j \in IndicesOf(patients[c], p.id) : i <= j
       /\ patients' = [patients EXCEPT ![c][i] = p]
  /\ PopForm(c, s)
  /\ UNCHANGED <<storeVars, loads, clock, saves, visits>>

\* The patient has left the list meanwhile: updatedPatients[-1] throws.
UpdateFindsNothing(c, s) ==
  /\ calls[c][s].stage = "written"
  /\ calls[c][s].widget # {}
  /\ \E p \in calls[c][s].record : IndicesOf(patients[c], p.id) = {}
  /\ EndCall(c, s)
  /\ UNCHANGED <<storeVars, patients, screen, loads, clock, saves, visits>>

----------------------------------------------------------------------------
(* Loading the list: addPatients, called when HomeScreen is mounted *)

ServeLoad(c) ==
  /\ loads[c].stage = "asked"
  /\ \E base \in Bases(c, PageSize) :
       /\ cache' = [cache EXCEPT ![c] = base]
       /\ \E page \in Pages(Overlay(base, queue[c]), PageSize) :
            loads' = [loads EXCEPT ![c] = [stage |-> "ready", page |-> page]]
  /\ UNCHANGED <<server, queue, online, patients, screen, calls, clock, saves, visits>>

FinishLoad(c) ==
  /\ loads[c].stage = "ready"
  /\ patients' = [patients EXCEPT ![c] =
                    [i \in DOMAIN loads[c].page |-> fromMap(loads[c].page[i])]]
  /\ loads' = [loads EXCEPT ![c] = IdleLoad]
  /\ UNCHANGED <<storeVars, screen, calls, clock, saves, visits>>

\* get() throws and nobody catches it.
LoadFails(c) ==
  /\ loads[c].stage = "asked"
  /\ loads' = [loads EXCEPT ![c] = IdleLoad]
  /\ UNCHANGED <<storeVars, patients, screen, calls, clock, saves, visits>>

----------------------------------------------------------------------------
(* The app as a whole *)

\* Sign out and in again, with the logout button that the screens pushed over
\* the list cover: the provider and its list stay, and a new HomeScreen loads.
\* Bounds: no load in flight, and no save between its query and its write,
\* which would meet the queue of the signed-out user (see PatientSessions).
SignInAgain(c) ==
  /\ screen[c].at = "list"
  /\ loads[c].stage = "idle"
  /\ \A s \in Slots : calls[c][s].stage \notin {"idQuery", "idReady"}
  /\ visits < MaxVisits
  /\ visits' = visits + 1
  /\ loads' = [loads EXCEPT ![c] = AskedLoad]
  /\ UNCHANGED <<storeVars, patients, screen, calls, clock, saves>>

\* The app is killed and started again.
Restart(c) ==
  /\ visits < MaxVisits
  /\ visits' = visits + 1
  /\ patients' = [patients EXCEPT ![c] = <<>>]
  /\ screen' = [screen EXCEPT ![c] = ListScreen]
  /\ calls' = [calls EXCEPT ![c] = [s \in Slots |-> IdleCall]]
  /\ loads' = [loads EXCEPT ![c] = AskedLoad]
  /\ ForgetWaiters(c)
  /\ UNCHANGED <<server, cache, online, clock, saves>>

\* Mutation: an answer of the server completes the newest write.
CompleteWriteNewest(c) ==
  calls' = [calls EXCEPT ![c] =
              [s \in Slots |->
                 IF s \in queue[c][Len(queue[c])].waiter
                 THEN [calls[c][s] EXCEPT !.stage = "written"]
                 ELSE calls[c][s]]]

\* The future of set() completes, with an error or without: both are swallowed.
CompleteWrite(c) ==
  calls' = [calls EXCEPT ![c] =
              [s \in Slots |->
                 IF s \in Head(queue[c]).waiter
                 THEN [calls[c][s] EXCEPT !.stage = "written"]
                 ELSE calls[c][s]]]

WriteAcknowledged(c) ==
  /\ Acknowledge(c)
  /\ CompleteWrite(c)
  /\ UNCHANGED <<patients, screen, loads, clock, saves, visits>>

\* Mutation: the error of a refused write reaches nobody.
WriteRejectedSilently(c) ==
  /\ Reject(c)
  /\ UNCHANGED <<patients, screen, calls, loads, clock, saves, visits>>

WriteRejected(c) ==
  /\ Reject(c)
  /\ CompleteWrite(c)
  /\ UNCHANGED <<patients, screen, loads, clock, saves, visits>>

Network(c) ==
  /\ Disconnect(c) \/ Reconnect(c) \/ AcknowledgementLost(c)
  /\ UNCHANGED appVars

ScreenStep(c) ==
  OpenAdd(c) \/ OpenDetails(c) \/ EditPatient(c) \/ Back(c) \/ ConfirmDelete(c)

SaveStep(c, s) ==
  \/ SaveAborted(c, s) \/ StartAdd(c, s) \/ StartUpdate(c, s)
  \/ ServeIdQuery(c, s) \/ IdQueryFails(c, s) \/ AddWrite(c, s)
  \/ FinishAdd(c, s) \/ FinishUpdate(c, s) \/ UpdateFindsNothing(c, s)

LoadStep(c) == ServeLoad(c) \/ FinishLoad(c) \/ LoadFails(c)

WriteStep(c) == WriteAcknowledged(c) \/ WriteRejected(c)

Next ==
  \E c \in Clients :
    \/ ScreenStep(c)
    \/ \E s \in Slots : TapSave(c, s) \/ SaveStep(c, s)
    \/ LoadStep(c)
    \/ WriteStep(c)
    \/ Network(c)
    \/ SignInAgain(c)
    \/ Restart(c)

Spec == Init /\ [][Next]_vars

(***************************************************************************)
(* What the scheduler of the app and the SDK guarantee: a step that is     *)
(* ready is run, an answer or an error arrives for every read, and a write *)
(* whose device is online time and again is eventually confirmed.  Nothing *)
(* is assumed of the user, the network or the life of the app.             *)
(***************************************************************************)
Fairness ==
  \A c \in Clients :
    /\ \A s \in Slots : WF_vars(SaveStep(c, s))
    /\ WF_vars(LoadStep(c))
    /\ SF_vars(WriteStep(c))

FairSpec == Spec /\ Fairness

----------------------------------------------------------------------------
(* Properties *)

\* What call, in slot s, awaits of the queue q.
Awaits(q, s, call) ==
  IF call.stage = "writing"
  THEN \E i \in DOMAIN q :
         /\ \A j \in DOMAIN q : s \in q[j].waiter <=> j = i
         /\ q[i].docs = {toJson(p) : p \in call.record}
  ELSE \A j \in DOMAIN q : s \notin q[j].waiter

\* Every patient and document there is, by where it is held.
Cached == UNION {cache[c] : c \in Clients}
Queued == UNION {UNION {m.docs : m \in ToSet(queue[c])} : c \in Clients}
Listed == UNION {ToSet(patients[c]) : c \in Clients}
Shown == UNION {screen[c].patient : c \in Clients}
InFlight == UNION {UNION {calls[c][s].widget \cup calls[c][s].record : s \in Slots}
                     : c \in Clients}
Loaded == UNION {ToSet(loads[c].page) : c \in Clients}

Records ==
  server \cup Cached \cup Queued \cup Listed \cup Shown \cup InFlight \cup Loaded

(***************************************************************************)
(* The numbers generateId hands out never run ahead of the registrations:  *)
(* no record, on any device or in any copy, has a number or a creation     *)
(* date beyond the count of registrations, whatever the interleaving of    *)
(* the generateId queries, stale caches, refused writes and deletions.     *)
(***************************************************************************)
IdsBounded ==
  /\ \A r \in Records : r.id <= clock /\ r.createdAt.at <= clock
  /\ \A c \in Clients, s \in Slots : calls[c][s].id \subseteq 1 .. clock + 1

(***************************************************************************)
(* A creation date stands for one registration: two records that carry the *)
(* same date, in any list, form, cache, queue or on the server, have the   *)
(* same number and the same author.  Edits (_saveAndValidate merging the   *)
(* widget's identity, updatePatient) and loads never mix two patients.     *)
(***************************************************************************)
StampIdentifiesRegistration ==
  \A r, t \in Records :
    r.createdAt.at = t.createdAt.at /\ r.createdAt.at # 0
      => r.id = t.id /\ r.createdBy = t.createdBy

(***************************************************************************)
(* What a device reads from its own cache and queue, offline or online, is *)
(* what the server will hold once the queue is sent.  True while only one  *)
(* device writes and no write is refused, also across restarts and lost    *)
(* acknowledgements; generateId relies on it when it is asked offline.     *)
(***************************************************************************)
ViewIsCurrent ==
  \A c \in Clients : View(c) = Overlay(server, queue[c])

(***************************************************************************)
(* Nobody waits in vain, or for the write of somebody else: a save that    *)
(* awaits set() has exactly one write in the queue, that of its patient,   *)
(* and no write in the queue will answer a save that has ended or whose    *)
(* slot another save has taken.  So a confirmation, in order or after a    *)
(* reconnection, lets the right save go on, and a restart leaves none.     *)
(***************************************************************************)
SavesAwaitTheirWrite ==
  \A c \in Clients, s \in Slots : Awaits(queue[c], s, calls[c][s])

(***************************************************************************)
(* Of the documents a device reads that still carry a creation date, the   *)
(* newer has the greater number, which is why generateId may look at the   *)
(* newest only.  With one device, one save at a time, no deletion and no   *)
(* refused write the dates and the numbers stay in step, although edits of *)
(* loaded patients erase dates and generateId then reuses their numbers.   *)
(***************************************************************************)
DatesOrderNumbers ==
  \A c \in Clients : \A d, e \in View(c) :
    d.createdAt.at > e.createdAt.at /\ e.createdAt # NullDate => d.id > e.id

(***************************************************************************)
(* A registration replaces no document that carries a creation date: under *)
(* the same conditions the number generateId found is still free of dated  *)
(* patients when addPatient writes, whatever became of the connection, the *)
(* queue and the app in between.                                           *)
(***************************************************************************)
RegistrationKept ==
  [][clock' # clock =>
       \A c \in Clients : \A d \in View(c), e \in View(c)' :
         d.id = e.id /\ d.createdAt # NullDate => d = e]_vars

(***************************************************************************)
(* A registration replaces no document at all: generateId makes a new      *)
(* number ("split and regenerate Id before sending").                      *)
(***************************************************************************)
NumberFresh ==
  [][clock' # clock =>
       \A c \in Clients : \A d \in View(c), e \in View(c)' : d.id = e.id => d = e]_vars

(***************************************************************************)
(* A tap on the save button is eventually over, with the form saved or     *)
(* not, if the device is online time and again: no interleaving of lost    *)
(* connections, lost acknowledgements, restarts and reloads leaves         *)
(* addPatient or updatePatient waiting for ever.                           *)
(***************************************************************************)
SavesComplete ==
  \A c \in Clients : []<>online[c] =>
    \A s \in Slots : calls[c][s].stage # "idle" ~> calls[c][s].stage = "idle"
=============================================================================
