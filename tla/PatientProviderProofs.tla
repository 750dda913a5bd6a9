----------------------- MODULE PatientProviderProofs -----------------------
(***************************************************************************)
(* Theorems about the patient registry, for every number of devices, forms *)
(* and save calls in flight, and every page size.                          *)
(***************************************************************************)
EXTENDS PatientProvider, FiniteSetTheorems, SequenceTheorems, TLAPS

----------------------------------------------------------------------------
(* The conversions and the Firestore client *)

\* A document or an edited patient reads back as a patient (Patient.fromMap).
LEMMA FromMapType ==
  ASSUME NEW d \in Doc \cup Patient
  PROVE  fromMap(d) \in Patient
  BY DEF fromMap, TryParse, Doc, Patient, DateTimes, Timestamps, NullDate

\* An edit keeps the identity of the patient the form was opened with.
LEMMA UpdatedPatientType ==
  ASSUME NEW w \in Patient, NEW f \in Forms
  PROVE  /\ updatedPatient(w, f) \in Patient
         /\ updatedPatient(w, f).id = w.id
         /\ updatedPatient(w, f).createdBy = w.createdBy
         /\ updatedPatient(w, f).createdAt = w.createdAt
  BY DEF updatedPatient, fromMap, TryParse, Patient, DateTimes, NullDate

\* A patient that addPatient registers is a patient.
LEMMA NewPatientType ==
  ASSUME NEW c \in Clients, NEW id \in Nat \ {0}, NEW f \in Forms, NEW now \in Nat \ {0}
  PROVE  newPatient(c, id, f, now) \in Patient
  BY DEF newPatient, DateTime, Patient, DateTimes

\* What set() is given is stored as a document (Patient.toJson).
LEMMA ToJsonType ==
  ASSUME NEW p \in Patient
  PROVE  /\ toJson(p) \in Doc
         /\ toJson(p).id = p.id
         /\ toJson(p).createdBy = p.createdBy
         /\ toJson(p).createdAt.at = p.createdAt.at
  BY DEF toJson, Doc, Patient, DateTimes, Timestamps, NullDate, Timestamp

\* A page is a sequence of documents of the collection it is read from.
LEMMA PagesType ==
  ASSUME NEW docs, NEW limit \in Nat, NEW page \in Pages(docs, limit)
  PROVE  page \in Seq(docs) /\ ToSet(page) \subseteq docs
  <1>1. PICK n \in 0 .. limit : page \in [1 .. n -> docs]
    BY DEF Pages
  <1> QED BY <1>1 DEF ToSet

\* The overlay holds nothing that is not in the cache or the queue.
LEMMA OverlayHolds ==
  ASSUME NEW base, NEW q
  PROVE  Overlay(base, q) \subseteq base \cup UNION {q[i].docs : i \in DOMAIN q}
  BY DEF Overlay, LastWrites

\* A query reads from documents that the cache or the server holds.
LEMMA BasesHold ==
  ASSUME NEW c \in Clients, NEW limit, NEW base \in Bases(c, limit)
  PROVE  base \subseteq cache[c] \cup server
  BY DEF Bases, Refreshed

\* A delete leaves a list of patients that were in the list.
LEMMA WithoutType ==
  ASSUME NEW S, NEW list \in Seq(S), NEW id, NEW kept \in Without(list, id)
  PROVE  kept \in Seq(S) /\ ToSet(kept) \subseteq ToSet(list)
  <1> DEFINE K == {i \in DOMAIN list : list[i].id # id}
  <1>1. IsFiniteSet(K)
    BY FS_Interval, FS_Subset, K \subseteq 1 .. Len(list)
  <1>2. Cardinality(K) \in Nat
    BY <1>1, FS_CardinalityType
  <1>3. PICK f \in [1 .. Cardinality(K) -> K] : kept = [i \in DOMAIN f |-> list[f[i]]]
    BY DEF Without
  <1>4. \A i \in 1 .. Cardinality(K) : f[i] \in DOMAIN list /\ kept[i] = list[f[i]]
    BY <1>3
  <1> HIDE DEF K
  <1>5. kept \in [1 .. Cardinality(K) -> S]
    BY <1>3, <1>4
  <1>6. kept \in Seq(S)
    BY <1>2, <1>5
  <1>7. DOMAIN kept = 1 .. Cardinality(K)
    BY <1>5
  <1>8. ToSet(kept) \subseteq ToSet(list)
    BY <1>4, <1>7 DEF ToSet
  <1> QED BY <1>6, <1>8

\* What set() and delete() queue is a mutation.
LEMMA MutationType ==
  ASSUME NEW doc \in Doc, NEW s \in Slots, NEW id \in Nat \ {0}
  PROVE  Set(doc, s) \in Mutation /\ Delete(id) \in Mutation
  BY DEF Set, Delete, Mutation, Doc

\* A queue without its head, and with one more write.
LEMMA QueueType ==
  ASSUME NEW q \in Seq(Mutation)
  PROVE  /\ \A i \in DOMAIN q : q[i] \in Mutation
         /\ \A m \in Mutation : Append(q, m) \in Seq(Mutation)
         /\ q # <<>> => Head(q) \in Mutation /\ Tail(q) \in Seq(Mutation)
  <1> HIDE DEF Mutation
  <1> QED OBVIOUS

\* A mutation leaves a collection of documents.
LEMMA ApplyType ==
  ASSUME NEW docs \in SUBSET Doc, NEW m \in Mutation
  PROVE  Apply(docs, m) \in SUBSET Doc
  BY DEF Apply, Mutation

\* Sending the first n writes of a queue brings the documents they hold, and
\* leaves those whose id is not in the queue alone.
LEMMA FirstWrites ==
  ASSUME NEW q \in Seq(Mutation), NEW n \in 1 .. Len(q), NEW base
  PROVE  LET sent == Overlay(base, SubSeq(q, 1, n))
         IN  /\ sent \subseteq base \cup UNION {q[i].docs : i \in DOMAIN q}
             /\ \A d \in sent \cup base : ~Pending(q, d.id) => (d \in sent <=> d \in base)
  <1> DEFINE p == SubSeq(q, 1, n)
             sent == Overlay(base, p)
  <1>1. /\ DOMAIN p = 1 .. n /\ 1 .. n \subseteq DOMAIN q
        /\ \A i \in DOMAIN p : p[i] = q[i] /\ q[i] \in Mutation
    <2> HIDE DEF Mutation
    <2>1. \A i \in 1 .. n : q[i] \in Mutation
      OBVIOUS
    <2>2. p \in Seq(Mutation) /\ Len(p) = n /\ \A i \in 1 .. n : p[i] = q[i]
      BY <2>1, SubSeqProperties
    <2> QED BY <2>1, <2>2
  <1> HIDE DEF p
  <1>2. sent \subseteq base \cup UNION {q[i].docs : i \in DOMAIN q}
    BY <1>1 DEF Overlay, LastWrites
  <1>3. ASSUME NEW d \in sent \cup base, ~Pending(q, d.id)
        PROVE  d \in sent <=> d \in base
    <2>1. ~Pending(p, d.id)
      BY <1>1, <1>3 DEF Pending
    <2>2. \A i \in DOMAIN p : d \notin p[i].docs
      BY <1>1, <2>1 DEF Pending, Mutation
    <2> QED BY <2>1, <2>2 DEF Overlay, LastWrites
  <1> QED BY <1>2, <1>3 DEF p

\* The page a device reads is a page of documents.
LEMMA AnswerType ==
  ASSUME TypeOK, NEW c \in Clients, NEW limit \in Nat, NEW base \in Bases(c, limit),
         NEW page \in Pages(Overlay(base, queue[c]), limit)
  PROVE  base \in SUBSET Doc /\ page \in Seq(Doc)
  <1>1. base \in SUBSET Doc
    BY BasesHold DEF TypeOK
  <1>2. \A i \in DOMAIN queue[c] : queue[c][i].docs \subseteq Doc
    <2>1. queue[c] \in Seq(Mutation)
      BY DEF TypeOK
    <2>2. \A i \in DOMAIN queue[c] : queue[c][i] \in Mutation
      BY <2>1
    <2> QED BY <2>2 DEF Mutation
  <1>3. Overlay(base, queue[c]) \subseteq Doc
    BY <1>1, <1>2, OverlayHolds
  <1>4. page \in Seq(Overlay(base, queue[c]))
    BY PagesType
  <1> QED BY <1>1, <1>3, <1>4

\* The number that follows the newest patient of a page.
LEMMA NextIdType ==
  ASSUME NEW page \in Seq(Doc)
  PROVE  NextId(page) \in Nat \ {0}
  <1>1. CASE page = <<>>
    BY <1>1 DEF NextId
  <1>2. CASE page # <<>>
    <2>1. page[1] \in Doc
      BY <1>2
    <2> QED BY <2>1 DEF NextId, Doc
  <1> QED BY <1>1, <1>2

\* A save call that has not begun, or is over.
LEMMA IdleCallType ==
  IdleCall \in Call
  <1>1. (CHOOSE f \in Forms : TRUE) \in Forms
    BY FormsAssumption
  <1> QED BY <1>1 DEF IdleCall, Call, Stages

\* The save calls of a screen that has been disposed of.
LEMMA UnmountedType ==
  ASSUME TypeOK, NEW c \in Clients
  PROVE  Unmounted(c) \in [Slots -> Call]
  <1>1. ASSUME NEW s \in Slots PROVE [calls[c][s] EXCEPT !.mounted = FALSE] \in Call
    <2>1. calls[c][s] \in Call
      BY DEF TypeOK
    <2> QED BY <2>1 DEF Call
  <1> QED BY <1>1 DEF Unmounted

----------------------------------------------------------------------------
(* Type correctness *)

\* The screens, and removePatient, keep the types.
LEMMA ScreenStepType ==
  ASSUME TypeOK, NEW c \in Clients, ScreenStep(c)
  PROVE  TypeOK'
  <1>1. screen[c] \in Screen /\ ListScreen \in Screen
    BY DEF TypeOK, Screen, ListScreen
  <1>2. Unmounted(c) \in [Slots -> Call]
    BY UnmountedType
  <1>3. CASE OpenAdd(c)
    BY <1>3 DEF OpenAdd, TypeOK, Screen, storeVars
  <1>4. CASE OpenDetails(c)
    BY <1>4 DEF OpenDetails, TypeOK, Screen, ToSet, storeVars
  <1>5. CASE EditPatient(c)
    BY <1>1, <1>5 DEF EditPatient, TypeOK, Screen, storeVars
  <1>6. CASE Back(c)
    BY <1>1, <1>2, <1>6 DEF Back, TypeOK, storeVars
  <1>7. CASE ConfirmDelete(c)
    <2>1. PICK p \in screen[c].patient :
            /\ \E kept \in Without(patients[c], p.id) :
                 patients' = [patients EXCEPT ![c] = kept]
            /\ queue' = [queue EXCEPT ![c] = Append(@, Delete(p.id))]
      BY <1>7 DEF ConfirmDelete, Enqueue
    <2> PICK kept \in Without(patients[c], p.id) :
          patients' = [patients EXCEPT ![c] = kept]
      BY <2>1
    <2>2. p.id \in Nat \ {0}
      BY <1>1, <2>1 DEF Screen, Patient
    <2>3. Delete(p.id) \in Mutation
      BY <2>2 DEF Delete, Mutation
    <2>4. kept \in Seq(Patient)
      BY WithoutType DEF TypeOK
    <2> QED BY <1>1, <1>7, <2>1, <2>3, <2>4 DEF ConfirmDelete, TypeOK
  <1> QED BY <1>3, <1>4, <1>5, <1>6, <1>7 DEF ScreenStep

\* So does the pop at the end of a save.
LEMMA PopFormType ==
  ASSUME TypeOK, NEW c \in Clients, NEW s \in Slots, PopForm(c, s)
  PROVE  screen' \in [Clients -> Screen] /\ calls' \in [Clients -> [Slots -> Call]]
  <1>1. ListScreen \in Screen
    BY DEF ListScreen, Screen
  <1>2. IdleCall \in Call /\ Unmounted(c) \in [Slots -> Call]
    BY IdleCallType, UnmountedType
  <1>3. CASE calls[c][s].mounted
    <2>1. [Unmounted(c) EXCEPT ![s] = IdleCall] \in [Slots -> Call]
      BY <1>2
    <2>2. calls' \in [Clients -> [Slots -> Call]]
      BY <1>3, <2>1 DEF PopForm, TypeOK
    <2>3. screen' \in [Clients -> Screen]
      BY <1>1, <1>3 DEF PopForm, TypeOK
    <2> QED BY <2>2, <2>3
  <1>4. CASE ~calls[c][s].mounted
    <2>1. calls' = [calls EXCEPT ![c][s] = IdleCall] /\ screen' = screen
      BY <1>4 DEF PopForm, EndCall, SetCall
    <2> QED BY <1>2, <2>1 DEF TypeOK
  <1> QED BY <1>3, <1>4

\* The steps of _saveAndValidate, addPatient and updatePatient keep the types.
LEMMA SaveStepType ==
  ASSUME TypeOK, NEW c \in Clients, NEW s \in Slots, TapSave(c, s) \/ SaveStep(c, s)
  PROVE  TypeOK'
  <1> DEFINE call == calls[c][s]
  <1>1. call \in Call
    BY DEF TypeOK
  <1>2. IdleCall \in Call
    BY IdleCallType
  <1>3. ASSUME NEW new \in Call, SetCall(c, s, new)
        PROVE  calls' \in [Clients -> [Slots -> Call]]
    BY <1>3 DEF SetCall, TypeOK
  <1>4. ASSUME NEW m \in Mutation, Enqueue(c, m)
        PROVE  queue' \in [Clients -> Seq(Mutation)]
    BY <1>4 DEF Enqueue, TypeOK
  <1>5. CASE TapSave(c, s)
    <2>1. screen[c].patient \in SUBSET Patient
      BY DEF TypeOK, Screen
    <2>2. [IdleCall EXCEPT !.stage = "userName", !.mounted = TRUE,
                           !.widget = screen[c].patient] \in Call
      BY <1>2, <2>1 DEF Call, Stages
    <2> QED BY <1>3, <1>5, <2>2 DEF TapSave, TypeOK, storeVars
  <1>6. CASE SaveAborted(c, s)
    BY <1>2, <1>3, <1>6 DEF SaveAborted, EndCall, TypeOK, storeVars
  <1>7. CASE StartAdd(c, s)
    <2>1. PICK f \in Forms : SetCall(c, s, [call EXCEPT !.stage = "idQuery", !.form = f])
      BY <1>7 DEF StartAdd
    <2>2. [call EXCEPT !.stage = "idQuery", !.form = f] \in Call
      BY <1>1 DEF Call, Stages
    <2> QED BY <1>3, <1>7, <2>1, <2>2 DEF StartAdd, TypeOK, storeVars
  <1>8. CASE StartUpdate(c, s)
    <2>1. PICK w \in call.widget, f \in Forms :
            LET p == updatedPatient(w, f)
            IN  /\ SetCall(c, s, [call EXCEPT !.stage = "writing", !.form = f,
                                              !.record = {p}])
                /\ Enqueue(c, Set(toJson(p), s))
      BY <1>8 DEF StartUpdate
    <2> DEFINE p == updatedPatient(w, f)
    <2>2. w \in Patient
      BY <1>1, <2>1 DEF Call
    <2>3. p \in Patient
      BY <2>2, UpdatedPatientType
    <2>4. [call EXCEPT !.stage = "writing", !.form = f, !.record = {p}] \in Call
      BY <1>1, <2>3 DEF Call, Stages
    <2>5. Set(toJson(p), s) \in Mutation
      BY <2>3, ToJsonType, MutationType
    <2>6. calls' \in [Clients -> [Slots -> Call]]
      BY <1>3, <2>1, <2>4
    <2>7. queue' \in [Clients -> Seq(Mutation)]
      BY <1>4, <2>1, <2>5
    <2> QED BY <1>8, <2>6, <2>7 DEF StartUpdate, TypeOK
  <1>9. CASE ServeIdQuery(c, s)
    <2>1. PICK base \in Bases(c, 1) :
            /\ cache' = [cache EXCEPT ![c] = base]
            /\ \E page \in Pages(Overlay(base, queue[c]), 1) :
                 SetCall(c, s, [call EXCEPT !.stage = "idReady", !.id = {NextId(page)}])
      BY <1>9 DEF ServeIdQuery
    <2>2. PICK page \in Pages(Overlay(base, queue[c]), 1) :
            SetCall(c, s, [call EXCEPT !.stage = "idReady", !.id = {NextId(page)}])
      BY <2>1
    <2>3. base \in SUBSET Doc /\ page \in Seq(Doc)
      BY AnswerType
    <2>4. NextId(page) \in Nat \ {0}
      BY <2>3, NextIdType
    <2>5. [call EXCEPT !.stage = "idReady", !.id = {NextId(page)}] \in Call
      BY <1>1, <2>4 DEF Call, Stages
    <2> QED BY <1>3, <1>9, <2>1, <2>2, <2>3, <2>5 DEF ServeIdQuery, TypeOK
  <1>10. CASE IdQueryFails(c, s)
    BY <1>2, <1>3, <1>10 DEF IdQueryFails, EndCall, TypeOK, storeVars
  <1>11. CASE AddWrite(c, s)
    <2>1. PICK id \in call.id :
            LET p == newPatient(c, id, call.form, clock + 1)
            IN  /\ SetCall(c, s, [call EXCEPT !.stage = "writing", !.record = {p}])
                /\ Enqueue(c, Set(toJson(p), s))
      BY <1>11 DEF AddWrite
    <2> DEFINE p == newPatient(c, id, call.form, clock + 1)
    <2>2. id \in Nat \ {0} /\ call.form \in Forms /\ clock \in Nat
      BY <1>1, <2>1 DEF Call, TypeOK
    <2>3. p \in Patient
      BY <2>2, NewPatientType
    <2>4. [call EXCEPT !.stage = "writing", !.record = {p}] \in Call
      BY <1>1, <2>3 DEF Call, Stages
    <2>5. Set(toJson(p), s) \in Mutation
      BY <2>3, ToJsonType, MutationType
    <2>6. calls' \in [Clients -> [Slots -> Call]]
      BY <1>3, <2>1, <2>4
    <2>7. queue' \in [Clients -> Seq(Mutation)]
      BY <1>4, <2>1, <2>5
    <2> QED BY <1>11, <2>6, <2>7 DEF AddWrite, TypeOK
  <1>12. CASE FinishAdd(c, s)
    <2>1. PICK p \in call.record : patients' = [patients EXCEPT ![c] = <<p>> \o @]
      BY <1>12 DEF FinishAdd
    <2>2. p \in Patient
      BY <1>1, <2>1 DEF Call
    <2>3. patients' \in [Clients -> Seq(Patient)]
      BY <2>1, <2>2 DEF TypeOK
    <2> QED BY <1>12, <2>3, PopFormType DEF FinishAdd, TypeOK, storeVars
  <1>13. CASE FinishUpdate(c, s)
    <2>1. PICK p \in call.record, i \in DOMAIN patients[c] :
            patients' = [patients EXCEPT ![c][i] = p]
      BY <1>13 DEF FinishUpdate
    <2>2. p \in Patient
      BY <1>1, <2>1 DEF Call
    <2>3. patients' \in [Clients -> Seq(Patient)]
      BY <2>1, <2>2 DEF TypeOK
    <2> QED BY <1>13, <2>3, PopFormType DEF FinishUpdate, TypeOK, storeVars
  <1>14. CASE UpdateFindsNothing(c, s)
    BY <1>2, <1>3, <1>14 DEF UpdateFindsNothing, EndCall, TypeOK, storeVars
  <1> QED BY <1>5, <1>6, <1>7, <1>8, <1>9, <1>10, <1>11, <1>12, <1>13, <1>14
          DEF SaveStep

\* The steps of addPatients keep the types.
LEMMA LoadStepType ==
  ASSUME TypeOK, NEW c \in Clients, LoadStep(c)
  PROVE  TypeOK'
  <1>1. CASE ServeLoad(c)
    <2>1. PICK base \in Bases(c, PageSize) :
            /\ cache' = [cache EXCEPT ![c] = base]
            /\ \E page \in Pages(Overlay(base, queue[c]), PageSize) :
                 loads' = [loads EXCEPT ![c] = [stage |-> "ready", page |-> page]]
      BY <1>1 DEF ServeLoad
    <2>2. PICK page \in Pages(Overlay(base, queue[c]), PageSize) :
            loads' = [loads EXCEPT ![c] = [stage |-> "ready", page |-> page]]
      BY <2>1
    <2>3. base \in SUBSET Doc /\ page \in Seq(Doc)
      BY AnswerType, PageSizeAssumption
    <2> QED BY <1>1, <2>1, <2>2, <2>3 DEF ServeLoad, TypeOK, Load
  <1>2. CASE FinishLoad(c)
    <2> DEFINE page == loads[c].page
               list == [i \in DOMAIN page |-> fromMap(page[i])]
    <2>1. page \in Seq(Doc)
      BY DEF TypeOK, Load
    <2>2. ASSUME NEW i \in DOMAIN page PROVE fromMap(page[i]) \in Patient
      BY <2>1, FromMapType
    <2>3. list \in Seq(Patient)
      BY <2>1, <2>2
    <2>4. IdleLoad \in Load
      BY DEF IdleLoad, Load
    <2> QED BY <1>2, <2>3, <2>4 DEF FinishLoad, TypeOK, storeVars
  <1>3. CASE LoadFails(c)
    BY <1>3 DEF LoadFails, TypeOK, IdleLoad, Load, storeVars
  <1> QED BY <1>1, <1>2, <1>3 DEF LoadStep

\* A confirmed and a refused write keep the types.
LEMMA WriteStepType ==
  ASSUME TypeOK, NEW c \in Clients, WriteStep(c)
  PROVE  TypeOK'
  <1>1. queue[c] # <<>>
    BY DEF WriteStep, WriteAcknowledged, WriteRejected, Acknowledge, Reject
  <1>2. queue[c] \in Seq(Mutation)
    BY DEF TypeOK
  <1>3. Head(queue[c]) \in Mutation /\ Tail(queue[c]) \in Seq(Mutation)
    BY <1>1, <1>2
  <1>4. ASSUME NEW d \in Clients, NEW s \in Slots
        PROVE  [calls[d][s] EXCEPT !.stage = "written"] \in Call
    <2>1. calls[d][s] \in Call
      BY DEF TypeOK
    <2> QED BY <2>1 DEF Call, Stages
  <1>5. CompleteWrite(c) => calls' \in [Clients -> [Slots -> Call]]
    BY <1>4 DEF CompleteWrite, TypeOK
  <1>6. CASE WriteAcknowledged(c)
    <2>1. server' \in SUBSET Doc
      BY <1>3, <1>6, ApplyType DEF WriteAcknowledged, Acknowledge, TypeOK
    <2>2. Apply(cache[c], Head(queue[c])) \in SUBSET Doc
      BY <1>3, ApplyType DEF TypeOK
    <2> QED BY <1>3, <1>5, <1>6, <2>1, <2>2 DEF WriteAcknowledged, Acknowledge, TypeOK
  <1>7. CASE WriteRejected(c)
    BY <1>3, <1>5, <1>7 DEF WriteRejected, Reject, TypeOK
  <1> QED BY <1>6, <1>7 DEF WriteStep

\* Lost connections and acknowledgements keep the types.
LEMMA NetworkType ==
  ASSUME TypeOK, NEW c \in Clients, Network(c)
  PROVE  TypeOK'
  <1>1. CASE Disconnect(c) \/ Reconnect(c)
    BY <1>1 DEF Network, Disconnect, Reconnect, TypeOK, appVars
  <1>2. CASE AcknowledgementLost(c)
    <2>1. PICK n \in 1 .. Len(queue[c]) :
            server' = Overlay(server, SubSeq(queue[c], 1, n))
      BY <1>2 DEF AcknowledgementLost
    <2>2. server' \in SUBSET Doc
      <3>1. queue[c] \in Seq(Mutation) /\ server \in SUBSET Doc
        BY DEF TypeOK
      <3>2. \A i \in DOMAIN queue[c] : queue[c][i].docs \subseteq Doc
        BY <3>1, QueueType DEF Mutation
      <3> QED BY <2>1, <3>1, <3>2, FirstWrites
    <2> QED BY <1>2, <2>2 DEF Network, AcknowledgementLost, TypeOK, appVars
  <1> QED BY <1>1, <1>2 DEF Network

\* A restart and a second sign-in keep the types.
LEMMA RestartType ==
  ASSUME TypeOK, NEW c \in Clients, SignInAgain(c) \/ Restart(c)
  PROVE  TypeOK'
  <1>1. AskedLoad \in Load /\ ListScreen \in Screen
    BY DEF AskedLoad, Load, ListScreen, Screen
  <1>2. CASE SignInAgain(c)
    BY <1>1, <1>2 DEF SignInAgain, TypeOK, storeVars
  <1>3. CASE Restart(c)
    <2>1. queue[c] \in Seq(Mutation)
      BY DEF TypeOK
    <2>2. ASSUME NEW i \in DOMAIN queue[c]
          PROVE  [queue[c][i] EXCEPT !.waiter = {}] \in Mutation
      <3>1. queue[c][i] \in Mutation
        BY <2>1
      <3> QED BY <3>1 DEF Mutation
    <2> DEFINE q == [i \in DOMAIN queue[c] |-> [queue[c][i] EXCEPT !.waiter = {}]]
    <2>3. q \in Seq(Mutation)
      <3>1. DOMAIN queue[c] = 1 .. Len(queue[c]) /\ Len(queue[c]) \in Nat
        BY <2>1
      <3>2. q \in [1 .. Len(queue[c]) -> Mutation]
        BY <2>2, <3>1
      <3> QED BY <3>1, <3>2
    <2>4. queue' = [queue EXCEPT ![c] = q]
      BY <1>3, Zenon DEF Restart, ForgetWaiters
    <2> HIDE DEF q
    <2>5. queue' \in [Clients -> Seq(Mutation)]
      BY <2>3, <2>4 DEF TypeOK
    <2>6. [s \in Slots |-> IdleCall] \in [Slots -> Call]
      BY IdleCallType
    <2>7. calls' \in [Clients -> [Slots -> Call]]
      BY <1>3, <2>6 DEF Restart, TypeOK
    <2> QED BY <1>1, <1>3, <2>5, <2>7 DEF Restart, TypeOK
  <1> QED BY <1>2, <1>3

\* The initial states have the types.
LEMMA InitType ==
  Init => TypeOK
  BY IdleCallType
  DEF Init, StoreInit, TypeOK, Screen, ListScreen, Load, AskedLoad

\* Every variable keeps its type, whatever the devices, the network and the
\* server do.
THEOREM TypeCorrect == Spec => []TypeOK
  <1>1. Init => TypeOK
    BY InitType
  <1>2. TypeOK /\ [Next]_vars => TypeOK'
    <2>1. ASSUME TypeOK, Next PROVE TypeOK'
      BY <2>1, ScreenStepType, SaveStepType, LoadStepType, WriteStepType,
         NetworkType, RestartType DEF Next
    <2>2. ASSUME TypeOK, UNCHANGED vars PROVE TypeOK'
      BY <2>2 DEF vars, storeVars, appVars, TypeOK
    <2> QED BY <2>1, <2>2
  <1> QED BY <1>1, <1>2, PTL DEF Spec

----------------------------------------------------------------------------
(* What a device reads, when it is the only one that writes *)

\* A document whose id has no queued write is in the cache exactly when it is
\* on the server.  This is inductive; that the views agree follows from it.
Agreement ==
  \A c \in Clients : \A d \in cache[c] \cup server :
    ~Pending(queue[c], d.id) => (d \in cache[c] <=> d \in server)

\* Where nothing is pending cache and server agree, and the queue hides the rest.
LEMMA AgreementSuffices ==
  Agreement => ViewIsCurrent
  BY DEF Agreement, ViewIsCurrent, View, Overlay

\* What is pending in a queue that gained a write, lost its head, or lost the
\* futures of its writes.
LEMMA PendingAfter ==
  ASSUME NEW q \in Seq(Mutation), NEW id
  PROVE  /\ \A m \in Mutation : Pending(q, id) => Pending(Append(q, m), id)
         /\ q # <<>> /\ Pending(q, id) => Head(q).id = id \/ Pending(Tail(q), id)
         /\ q # <<>> => Pending(q, Head(q).id)
  <1>1. ASSUME NEW m \in Mutation, Pending(q, id)
        PROVE  Pending(Append(q, m), id)
    <2>1. PICK i \in DOMAIN q : q[i].id = id
      BY <1>1 DEF Pending
    <2>2. i \in DOMAIN Append(q, m) /\ Append(q, m)[i] = q[i]
      BY <2>1
    <2> QED BY <2>1, <2>2 DEF Pending
  <1>2. ASSUME q # <<>>, Pending(q, id)
        PROVE  Head(q).id = id \/ Pending(Tail(q), id)
    <2>1. PICK i \in DOMAIN q : q[i].id = id
      BY <1>2 DEF Pending
    <2>2. CASE i = 1
      BY <2>1, <2>2
    <2>3. CASE i # 1
      <3>1. i - 1 \in DOMAIN Tail(q) /\ Tail(q)[i - 1] = q[i]
        BY <1>2, <2>1, <2>3
      <3> QED BY <2>1, <3>1 DEF Pending
    <2> QED BY <2>2, <2>3
  <1>3. ASSUME q # <<>> PROVE Pending(q, Head(q).id)
    <2>1. 1 \in DOMAIN q /\ Head(q) = q[1]
      BY <1>3
    <2> QED BY <2>1 DEF Pending
  <1> QED BY <1>1, <1>2, <1>3

\* A write added to the queue hides more of the cache and of the server.
LEMMA EnqueueAgrees ==
  ASSUME TypeOK, Agreement, NEW c \in Clients, NEW m \in Mutation, Enqueue(c, m),
         UNCHANGED <<server, cache>>
  PROVE  Agreement'
  <1>1. ASSUME NEW d \in Clients, NEW id, ~Pending(queue'[d], id)
        PROVE  ~Pending(queue[d], id)
    <2>1. queue[d] \in Seq(Mutation)
      BY DEF TypeOK
    <2>2. CASE d = c
      BY <1>1, <2>1, <2>2, PendingAfter DEF Enqueue, TypeOK
    <2>3. CASE d # c
      BY <1>1, <2>3 DEF Enqueue, TypeOK
    <2> QED BY <2>2, <2>3
  <1> QED BY <1>1 DEF Agreement

\* An answer of the server brings the cache closer to it, or leaves it alone.
LEMMA AnswerAgrees ==
  ASSUME TypeOK, Agreement, NEW c \in Clients, NEW limit, NEW base \in Bases(c, limit),
         cache' = [cache EXCEPT ![c] = base], UNCHANGED <<server, queue>>
  PROVE  Agreement'
  <1>1. \/ base = cache[c]
        \/ \E ids : base = Refreshed(c, ids)
    BY DEF Bases
  <1>2. ASSUME NEW d \in base \cup server, ~Pending(queue[c], d.id)
        PROVE  d \in base <=> d \in server
    BY <1>1, <1>2 DEF Refreshed, Agreement
  <1>3. \A e \in Clients : cache'[e] = IF e = c THEN base ELSE cache[e]
    BY DEF TypeOK
  <1> QED BY <1>2, <1>3 DEF Agreement

\* The only device keeps the agreement while the server accepts its writes.
LEMMA WriteAgrees ==
  ASSUME TypeOK, Agreement, NEW c \in Clients, Clients = {c},
         Acknowledge(c)
  PROVE  Agreement'
  <1> DEFINE q == queue[c]
             h == Head(queue[c])
  <1>1. q \in Seq(Mutation) /\ q # <<>>
    BY DEF TypeOK, Acknowledge
  <1>2. h \in Mutation /\ \A d \in h.docs : d.id = h.id
    <2>1. h \in Mutation
      BY <1>1, QueueType
    <2> QED BY <2>1 DEF Mutation
  <1>3. server' = Apply(server, h)
    BY DEF Acknowledge
  <1>4. cache'[c] = Apply(cache[c], h) /\ queue'[c] = Tail(q)
    BY DEF Acknowledge, TypeOK
  <1>5. ASSUME NEW d \in cache'[c] \cup server', ~Pending(queue'[c], d.id)
        PROVE  d \in cache'[c] <=> d \in server'
    <2>1. d.id = h.id \/ ~Pending(q, d.id)
      BY <1>1, <1>4, <1>5, PendingAfter
    <2> QED BY <1>2, <1>3, <1>4, <1>5, <2>1 DEF Apply, Agreement
  <1> QED BY <1>5 DEF Agreement

\* Writes whose acknowledgements are lost stay pending, and hide what they did.
LEMMA LossAgrees ==
  ASSUME TypeOK, Agreement, NEW c \in Clients, Clients = {c},
         AcknowledgementLost(c)
  PROVE  Agreement'
  <1>1. queue[c] \in Seq(Mutation) /\ cache' = cache /\ queue' = queue
    BY DEF TypeOK, AcknowledgementLost
  <1>2. PICK n \in 1 .. Len(queue[c]) :
          server' = Overlay(server, SubSeq(queue[c], 1, n))
    BY DEF AcknowledgementLost
  <1>3. \A d \in server' \cup server :
          ~Pending(queue[c], d.id) => (d \in server' <=> d \in server)
    BY <1>1, <1>2, FirstWrites
  <1> QED BY <1>1, <1>3 DEF Agreement

\* A restart leaves cache, queue and server as they agree.
LEMMA ForgetAgrees ==
  ASSUME TypeOK, Agreement, NEW c \in Clients, ForgetWaiters(c),
         UNCHANGED <<server, cache>>
  PROVE  Agreement'
  <1> DEFINE q == [i \in DOMAIN queue[c] |-> [queue[c][i] EXCEPT !.waiter = {}]]
  <1>1. queue' = [queue EXCEPT ![c] = q]
    BY Zenon DEF ForgetWaiters
  <1>2. ASSUME NEW id PROVE Pending(q, id) <=> Pending(queue[c], id)
    <2>1. queue[c] \in Seq(Mutation)
      BY DEF TypeOK
    <2>2. \A i \in DOMAIN queue[c] : q[i].id = queue[c][i].id
      BY <2>1, QueueType DEF Mutation
    <2> QED BY <2>2 DEF Pending
  <1> HIDE DEF q
  <1>3. \A d \in Clients : queue'[d] = IF d = c THEN q ELSE queue[d]
    BY <1>1 DEF TypeOK
  <1> QED BY <1>2, <1>3 DEF Agreement

\* No save or delete of the only device touches the cache or the server.
LEMMA AppAgrees ==
  ASSUME TypeOK, Agreement, NEW c \in Clients,
         \/ ScreenStep(c)
         \/ \E s \in Slots : TapSave(c, s) \/ SaveStep(c, s)
         \/ LoadStep(c)
         \/ SignInAgain(c)
         \/ Restart(c)
  PROVE  Agreement'
  <1>1. ASSUME UNCHANGED storeVars PROVE Agreement'
    BY <1>1 DEF storeVars, Agreement
  <1>2. CASE ScreenStep(c)
    <2>1. CASE ConfirmDelete(c)
      <3>1. PICK p \in screen[c].patient : Enqueue(c, Delete(p.id))
        BY <2>1 DEF ConfirmDelete
      <3>2. p.id \in Nat \ {0}
        BY <3>1 DEF TypeOK, Screen, Patient
      <3>3. Delete(p.id) \in Mutation
        BY <3>2 DEF Delete, Mutation
      <3> QED BY <2>1, <3>1, <3>3, EnqueueAgrees DEF ConfirmDelete
    <2> QED BY <1>1, <1>2, <2>1
            DEF ScreenStep, OpenAdd, OpenDetails, EditPatient, Back
  <1>3. ASSUME NEW s \in Slots, TapSave(c, s) \/ SaveStep(c, s)
        PROVE  Agreement'
    <2>1. ASSUME NEW p \in Patient, Enqueue(c, Set(toJson(p), s)), UNCHANGED <<server, cache>>
          PROVE  Agreement'
      BY <2>1, ToJsonType, MutationType, EnqueueAgrees
    <2>2. CASE StartUpdate(c, s)
      <3>1. PICK w \in calls[c][s].widget, f \in Forms :
              Enqueue(c, Set(toJson(updatedPatient(w, f)), s))
        BY <2>2 DEF StartUpdate
      <3>2. w \in Patient
        BY <3>1 DEF TypeOK, Call
      <3>3. updatedPatient(w, f) \in Patient
        BY <3>2, UpdatedPatientType
      <3> QED BY <2>1, <2>2, <3>1, <3>3 DEF StartUpdate
    <2>3. CASE AddWrite(c, s)
      <3> DEFINE p(id) == newPatient(c, id, calls[c][s].form, clock + 1)
      <3>1. PICK id \in calls[c][s].id : Enqueue(c, Set(toJson(p(id)), s))
        BY <2>3 DEF AddWrite
      <3>2. id \in Nat \ {0} /\ calls[c][s].form \in Forms /\ clock \in Nat
        BY <3>1 DEF TypeOK, Call
      <3>3. p(id) \in Patient
        BY <3>2, NewPatientType
      <3> HIDE DEF p
      <3> QED BY <2>1, <2>3, <3>1, <3>3 DEF AddWrite
    <2>4. CASE ServeIdQuery(c, s)
      BY <2>4, AnswerAgrees DEF ServeIdQuery
    <2> QED BY <1>1, <1>3, <2>2, <2>3, <2>4
            DEF SaveStep, TapSave, SaveAborted, StartAdd, IdQueryFails, FinishAdd,
                FinishUpdate, UpdateFindsNothing
  <1>4. CASE LoadStep(c)
    <2>1. CASE ServeLoad(c)
      BY <2>1, AnswerAgrees DEF ServeLoad
    <2> QED BY <1>1, <1>4, <2>1 DEF LoadStep, FinishLoad, LoadFails
  <1>5. CASE SignInAgain(c)
    BY <1>1, <1>5 DEF SignInAgain
  <1>6. CASE Restart(c)
    BY <1>6, ForgetAgrees DEF Restart
  <1> QED BY <1>2, <1>3, <1>4, <1>5, <1>6

\* The only device reads, offline as well as online, what the server will hold
\* once its queue is sent.
THEOREM OneDeviceViewCurrent ==
  ASSUME NEW c0, Clients = {c0}, ~MayReject
  PROVE  Spec => []ViewIsCurrent
  <1>1. Init => Agreement
    BY DEF Init, StoreInit, Agreement
  <1>2. TypeOK /\ Agreement /\ [Next]_vars => Agreement'
    <2>1. ASSUME TypeOK, Agreement, Next PROVE Agreement'
      <3>1. PICK c \in Clients :
              \/ ScreenStep(c)
              \/ \E s \in Slots : TapSave(c, s) \/ SaveStep(c, s)
              \/ LoadStep(c)
              \/ WriteStep(c)
              \/ Network(c)
              \/ SignInAgain(c)
              \/ Restart(c)
        BY <2>1 DEF Next
      <3>2. CASE WriteStep(c)
        BY <2>1, <3>2, WriteAgrees DEF WriteStep, WriteAcknowledged, WriteRejected, Reject
      <3>3. CASE Network(c)
        <4>1. CASE AcknowledgementLost(c)
          BY <2>1, <4>1, LossAgrees
        <4> QED BY <2>1, <3>3, <4>1 DEF Network, Disconnect, Reconnect, Agreement
      <3> QED BY <2>1, <3>1, <3>2, <3>3, AppAgrees
    <2>2. ASSUME Agreement, UNCHANGED vars PROVE Agreement'
      BY <2>2 DEF vars, storeVars, Agreement
    <2> QED BY <2>1, <2>2
  <1> QED BY <1>1, <1>2, TypeCorrect, AgreementSuffices, PTL DEF Spec

----------------------------------------------------------------------------
(* What identifies a registration *)

\* r carries no creation date, or that of t, and is the same patient as t.
Copies(r, t) ==
  /\ r.id = t.id
  /\ r.createdBy = t.createdBy
  /\ r.createdAt.at = t.createdAt.at \/ r.createdAt.at = 0

\* Every record of S is a copy of one that is held now.
Copied(S) == \A r \in S : \E t \in Records : Copies(r, t)

RegistrationInv == TypeOK /\ IdsBounded /\ StampIdentifiesRegistration

\* Every record has a number, a date and an author.
LEMMA RecordsType ==
  ASSUME TypeOK
  PROVE  \A r \in Records : r \in Doc \cup Patient
  <1>1. \A c \in Clients : queue[c] \in Seq(Mutation) /\ patients[c] \in Seq(Patient)
                         /\ loads[c].page \in Seq(Doc) /\ cache[c] \subseteq Doc
                         /\ screen[c].patient \subseteq Patient
    BY DEF TypeOK, Screen, Load
  <1>2. \A c \in Clients : \A m \in ToSet(queue[c]) : m.docs \subseteq Doc
    <2> TAKE c \in Clients
    <2>1. \A i \in DOMAIN queue[c] : queue[c][i] \in Mutation
      BY <1>1, QueueType
    <2> QED BY <2>1 DEF ToSet, Mutation
  <1>3. \A c \in Clients, s \in Slots : calls[c][s].widget \cup calls[c][s].record \subseteq Patient
    BY DEF TypeOK, Call
  <1>4. Queued \subseteq Doc /\ Cached \subseteq Doc /\ server \subseteq Doc
    BY <1>1, <1>2 DEF Queued, Cached, TypeOK
  <1>5. Listed \subseteq Patient /\ Loaded \subseteq Doc
    BY <1>1 DEF Listed, Loaded, ToSet
  <1>6. Shown \subseteq Patient /\ InFlight \subseteq Patient
    BY <1>1, <1>3 DEF Shown, InFlight
  <1> QED BY <1>4, <1>5, <1>6 DEF Records

\* A step after which every record is a copy of an earlier one, and no call has
\* a number that is too large, keeps the invariant.
LEMMA CopyingStep ==
  ASSUME RegistrationInv, TypeOK', Copied(Records'), clock' = clock,
         \A c \in Clients, s \in Slots : calls'[c][s].id \subseteq 1 .. clock + 1
  PROVE  RegistrationInv'
  <1>1. ASSUME NEW r \in Records' PROVE r.id <= clock /\ r.createdAt.at <= clock
    <2>1. PICK t \in Records : Copies(r, t)
      BY <1>1 DEF Copied
    <2>2. t.id <= clock /\ t.createdAt.at <= clock
      BY <2>1 DEF RegistrationInv, IdsBounded
    <2>3. clock \in Nat
      BY DEF RegistrationInv, TypeOK
    <2> QED BY <2>1, <2>2, <2>3 DEF Copies
  <1>2. ASSUME NEW r \in Records', NEW t \in Records',
               r.createdAt.at = t.createdAt.at, r.createdAt.at # 0
        PROVE  r.id = t.id /\ r.createdBy = t.createdBy
    <2>1. PICK r0 \in Records : Copies(r, r0)
      BY DEF Copied
    <2>2. PICK t0 \in Records : Copies(t, t0)
      BY DEF Copied
    <2> QED BY <1>2, <2>1, <2>2 DEF Copies, RegistrationInv, StampIdentifiesRegistration
  <1> QED BY <1>1, <1>2 DEF RegistrationInv, IdsBounded, StampIdentifiesRegistration

\* A step that also adds records of one patient, dated by the clock it advances,
\* keeps the invariant: no earlier record carries that date.
LEMMA RegisteringStep ==
  ASSUME RegistrationInv, TypeOK', clock' = clock + 1,
         NEW id \in 1 .. clock + 1, NEW author,
         \A r \in Records' :
           \/ \E t \in Records : Copies(r, t)
           \/ r.id = id /\ r.createdBy = author /\ r.createdAt.at = clock + 1,
         \A c \in Clients, s \in Slots : calls'[c][s].id \subseteq 1 .. clock + 1
  PROVE  RegistrationInv'
  <1> DEFINE New(r) == r.id = id /\ r.createdBy = author /\ r.createdAt.at = clock + 1
  <1>1. clock \in Nat
    BY DEF RegistrationInv, TypeOK
  <1>2. \A t \in Records : t.id <= clock /\ t.createdAt.at <= clock
    BY DEF RegistrationInv, IdsBounded
  <1>3. \A t \in Records : t.id \in Nat /\ t.createdAt.at \in Nat
    BY RecordsType DEF RegistrationInv, Doc, Patient, DateTimes, Timestamps, NullDate
  <1>4. ASSUME NEW r \in Records'
        PROVE  /\ r.id <= clock + 1 /\ r.createdAt.at <= clock + 1
               /\ New(r) \/ r.createdAt.at # clock + 1
    BY <1>1, <1>2, <1>3 DEF Copies
  <1>5. ASSUME NEW r \in Records', NEW t \in Records',
               r.createdAt.at = t.createdAt.at, r.createdAt.at # 0
        PROVE  r.id = t.id /\ r.createdBy = t.createdBy
    <2>1. CASE New(r)
      BY <1>4, <1>5, <2>1
    <2>2. CASE New(t)
      BY <1>4, <1>5, <2>2
    <2>3. CASE ~New(r) /\ ~New(t)
      <3>1. PICK r0 \in Records : Copies(r, r0)
        BY <2>3
      <3>2. PICK t0 \in Records : Copies(t, t0)
        BY <2>3
      <3> QED BY <1>5, <3>1, <3>2 DEF Copies, RegistrationInv, StampIdentifiesRegistration
    <2> QED BY <2>1, <2>2, <2>3
  <1>6. \A c \in Clients, s \in Slots : calls'[c][s].id \subseteq 1 .. clock' + 1
    BY <1>1
  <1> QED BY <1>4, <1>5, <1>6 DEF RegistrationInv, IdsBounded, StampIdentifiesRegistration

(* What each kind of change adds to the records *)

\* The records of the calls once one call is replaced.
LEMMA SetCallHolds ==
  ASSUME TypeOK, NEW c \in Clients, NEW s \in Slots, NEW new, SetCall(c, s, new)
  PROVE  /\ InFlight' \subseteq InFlight \cup new.widget \cup new.record
         /\ \A d \in Clients, t \in Slots : calls'[d][t].id \subseteq calls[d][t].id \cup new.id
  <1>1. \A d \in Clients, t \in Slots : calls'[d][t] = calls[d][t] \/ calls'[d][t] = new
    BY DEF SetCall, TypeOK
  <1> QED BY <1>1 DEF InFlight

\* A call that ends leaves no record behind.
LEMMA EndCallHolds ==
  ASSUME TypeOK, NEW c \in Clients, NEW s \in Slots, EndCall(c, s)
  PROVE  /\ InFlight' \subseteq InFlight
         /\ \A d \in Clients, t \in Slots : calls'[d][t].id \subseteq calls[d][t].id
  <1>1. SetCall(c, s, IdleCall)
    BY DEF EndCall
  <1>2. IdleCall.widget = {} /\ IdleCall.record = {} /\ IdleCall.id = {}
    BY DEF IdleCall
  <1> QED BY <1>1, <1>2, SetCallHolds

\* The calls of a disposed screen hold what they held.
LEMMA UnmountedHolds ==
  ASSUME TypeOK, NEW c \in Clients, NEW t \in Slots
  PROVE  /\ Unmounted(c)[t].widget = calls[c][t].widget
         /\ Unmounted(c)[t].record = calls[c][t].record
         /\ Unmounted(c)[t].id = calls[c][t].id
  <1>1. calls[c][t] \in Call
    BY DEF TypeOK
  <1> QED BY <1>1 DEF Unmounted, Call

\* Disposing of a screen, alone or with the end of some of its calls.
LEMMA DisposedHolds ==
  ASSUME TypeOK, NEW c \in Clients, NEW new,
         \A t \in Slots : new[t] = Unmounted(c)[t] \/ new[t] = IdleCall,
         calls' = [calls EXCEPT ![c] = new]
  PROVE  /\ InFlight' \subseteq InFlight
         /\ \A d \in Clients, t \in Slots : calls'[d][t].id \subseteq calls[d][t].id
  <1>1. \A d \in Clients : calls'[d] = IF d = c THEN new ELSE calls[d]
    BY DEF TypeOK
  <1>2. IdleCall.widget = {} /\ IdleCall.record = {} /\ IdleCall.id = {}
    BY DEF IdleCall
  <1>3. \A d \in Clients, t \in Slots :
          /\ calls'[d][t].widget \subseteq calls[d][t].widget
          /\ calls'[d][t].record \subseteq calls[d][t].record
          /\ calls'[d][t].id \subseteq calls[d][t].id
    BY <1>1, <1>2, UnmountedHolds
  <1> QED BY <1>3 DEF InFlight

\* The records of the screens once one screen is replaced.
LEMMA ScreenHolds ==
  ASSUME TypeOK, NEW c \in Clients, NEW new, screen' = [screen EXCEPT ![c] = new]
  PROVE  Shown' \subseteq Shown \cup new.patient
  BY DEF Shown, TypeOK

\* The pop of a form brings no record.
LEMMA PopFormHolds ==
  ASSUME TypeOK, NEW c \in Clients, NEW s \in Slots, PopForm(c, s)
  PROVE  /\ InFlight' \subseteq InFlight
         /\ \A d \in Clients, t \in Slots : calls'[d][t].id \subseteq calls[d][t].id
         /\ Shown' \subseteq Shown
  <1>1. CASE calls[c][s].mounted
    <2>1. /\ screen' = [screen EXCEPT ![c] = ListScreen]
          /\ calls' = [calls EXCEPT ![c] = [Unmounted(c) EXCEPT ![s] = IdleCall]]
      BY <1>1 DEF PopForm
    <2>2. Shown' \subseteq Shown
      <3>1. ListScreen.patient = {}
        BY DEF ListScreen
      <3> HIDE DEF ListScreen
      <3> QED BY <2>1, <3>1, ScreenHolds
    <2>3. /\ InFlight' \subseteq InFlight
          /\ \A d \in Clients, t \in Slots : calls'[d][t].id \subseteq calls[d][t].id
      <3> DEFINE new == [Unmounted(c) EXCEPT ![s] = IdleCall]
      <3>1. \A t \in Slots : new[t] = Unmounted(c)[t] \/ new[t] = IdleCall
        BY UnmountedType
      <3>2. calls' = [calls EXCEPT ![c] = new]
        BY <2>1
      <3> HIDE DEF new
      <3> QED BY <3>1, <3>2, DisposedHolds
    <2> QED BY <2>2, <2>3
  <1>2. CASE ~calls[c][s].mounted
    <2>1. EndCall(c, s) /\ screen' = screen
      BY <1>2 DEF PopForm
    <2> QED BY <2>1, EndCallHolds DEF Shown
  <1> QED BY <1>1, <1>2

\* The records of the queues once one write is added.
LEMMA EnqueueHolds ==
  ASSUME TypeOK, NEW c \in Clients, NEW m \in Mutation, Enqueue(c, m)
  PROVE  Queued' \subseteq Queued \cup m.docs
  <1>1. queue[c] \in Seq(Mutation)
    BY DEF TypeOK
  <1>2. ToSet(Append(queue[c], m)) \subseteq ToSet(queue[c]) \cup {m}
    BY <1>1 DEF ToSet
  <1>3. \A d \in Clients : ToSet(queue'[d]) \subseteq ToSet(queue[d]) \cup {m}
    BY <1>2 DEF Enqueue, TypeOK
  <1> QED BY <1>3 DEF Queued

\* The records of the lists once one list is replaced.
LEMMA ListHolds ==
  ASSUME TypeOK, NEW c \in Clients, NEW list, patients' = [patients EXCEPT ![c] = list]
  PROVE  Listed' \subseteq Listed \cup ToSet(list)
  BY DEF Listed, TypeOK

\* The records of the loads once one load is replaced.
LEMMA PageHolds ==
  ASSUME TypeOK, NEW c \in Clients, NEW new, loads' = [loads EXCEPT ![c] = new]
  PROVE  Loaded' \subseteq Loaded \cup ToSet(new.page)
  BY DEF Loaded, TypeOK

\* An answer holds what the cache, the server and the queue hold.
LEMMA AnswerHolds ==
  ASSUME TypeOK, NEW c \in Clients, NEW limit \in Nat, NEW base \in Bases(c, limit),
         cache' = [cache EXCEPT ![c] = base]
  PROVE  /\ Cached' \subseteq Records
         /\ \A page \in Pages(Overlay(base, queue[c]), limit) : ToSet(page) \subseteq Records
  <1>1. base \subseteq cache[c] \cup server
    BY BasesHold
  <1>2. cache[c] \subseteq Cached
    BY DEF Cached
  <1>3. Cached' \subseteq Cached \cup base
    BY DEF Cached, TypeOK
  <1>4. UNION {queue[c][i].docs : i \in DOMAIN queue[c]} \subseteq Queued
    BY DEF Queued, ToSet
  <1>5. Overlay(base, queue[c]) \subseteq Records
    BY <1>1, <1>2, <1>4, OverlayHolds DEF Records
  <1> QED BY <1>1, <1>2, <1>3, <1>5, PagesType DEF Records

----------------------------------------------------------------------------
(* Every step keeps what identifies a registration *)

NumbersBounded ==
  \A c \in Clients, s \in Slots : calls[c][s].id \subseteq 1 .. clock + 1

\* A step that adds no record and no number.
LEMMA NothingNew ==
  ASSUME RegistrationInv, TypeOK', clock' = clock, Records' \subseteq Records,
         \A c \in Clients, s \in Slots : calls'[c][s].id \subseteq calls[c][s].id
  PROVE  RegistrationInv'
  <1>1. Copied(Records')
    BY DEF Copied, Copies
  <1> QED BY <1>1, CopyingStep DEF RegistrationInv, IdsBounded

\* The screens, and removePatient, keep the registration invariant.
LEMMA ScreenStepKeeps ==
  ASSUME RegistrationInv, NEW c \in Clients, ScreenStep(c)
  PROVE  RegistrationInv'
  <1>1. TypeOK /\ TypeOK'
    BY ScreenStepType DEF RegistrationInv
  <1>2. screen[c].patient \subseteq Shown /\ ToSet(patients[c]) \subseteq Listed
    BY DEF Shown, Listed
  <1>3. ListScreen.patient = {}
    BY DEF ListScreen
  <1>4. CASE OpenAdd(c)
    <2>1. Shown' \subseteq Shown
      <3> DEFINE new == [at |-> "form", patient |-> {}]
      <3>1. new.patient = {} /\ screen' = [screen EXCEPT ![c] = new]
        BY <1>4 DEF OpenAdd
      <3> HIDE DEF new
      <3> QED BY <1>1, <3>1, ScreenHolds
    <2> QED BY <1>1, <1>4, <2>1, NothingNew
            DEF OpenAdd, storeVars, Records, Cached, Queued, Listed, InFlight, Loaded
  <1>5. CASE OpenDetails(c)
    <2>1. Shown' \subseteq Shown \cup Listed
      <3>1. PICK p \in ToSet(patients[c]) :
              screen' = [screen EXCEPT ![c] = [at |-> "details", patient |-> {p}]]
        BY <1>5 DEF OpenDetails
      <3> DEFINE new == [at |-> "details", patient |-> {p}]
      <3>2. new.patient = {p} /\ screen' = [screen EXCEPT ![c] = new]
        BY <3>1
      <3> HIDE DEF new
      <3> QED BY <1>1, <1>2, <3>2, ScreenHolds
    <2> QED BY <1>1, <1>5, <2>1, NothingNew
            DEF OpenDetails, storeVars, Records, Cached, Queued, Listed, InFlight, Loaded
  <1>6. CASE EditPatient(c)
    <2>1. Shown' \subseteq Shown
      BY <1>1, <1>6 DEF EditPatient, Shown, TypeOK, Screen
    <2> QED BY <1>1, <1>6, <2>1, NothingNew
            DEF EditPatient, storeVars, Records, Cached, Queued, Listed, InFlight, Loaded
  <1>7. CASE Back(c)
    <2>1. Shown' \subseteq Shown
      BY <1>1, <1>3, <1>7, ScreenHolds DEF Back
    <2>2. /\ InFlight' \subseteq InFlight
          /\ \A d \in Clients, t \in Slots : calls'[d][t].id \subseteq calls[d][t].id
      BY <1>1, <1>7, DisposedHolds DEF Back
    <2> QED BY <1>1, <1>7, <2>1, <2>2, NothingNew
            DEF Back, storeVars, Records, Cached, Queued, Listed, Loaded
  <1>8. CASE ConfirmDelete(c)
    <2>1. PICK p \in screen[c].patient :
            /\ \E kept \in Without(patients[c], p.id) :
                 patients' = [patients EXCEPT ![c] = kept]
            /\ Enqueue(c, Delete(p.id))
      BY <1>8 DEF ConfirmDelete
    <2>2. PICK kept \in Without(patients[c], p.id) :
            patients' = [patients EXCEPT ![c] = kept]
      BY <2>1
    <2>3. Listed' \subseteq Listed
      <3>1. patients[c] \in Seq(Patient)
        BY <1>1 DEF TypeOK
      <3>2. ToSet(kept) \subseteq ToSet(patients[c])
        BY <3>1, WithoutType
      <3> QED BY <1>1, <1>2, <2>2, <3>2, ListHolds
    <2>4. p.id \in Nat \ {0}
      <3>1. p \in Patient
        BY <1>1 DEF TypeOK, Screen
      <3> QED BY <3>1 DEF Patient
    <2>5. Delete(p.id) \in Mutation /\ Delete(p.id).docs = {}
      BY <2>4 DEF Delete, Mutation
    <2>6. Queued' \subseteq Queued
      BY <1>1, <2>1, <2>5, EnqueueHolds
    <2>7. Shown' \subseteq Shown
      BY <1>1, <1>3, <1>8, ScreenHolds DEF ConfirmDelete
    <2> QED BY <1>1, <1>8, <2>3, <2>6, <2>7, NothingNew
            DEF ConfirmDelete, Records, Cached, InFlight, Loaded
  <1> QED BY <1>4, <1>5, <1>6, <1>7, <1>8 DEF ScreenStep

\* So do the steps of a save: only AddWrite brings a new record.
LEMMA SaveStepKeeps ==
  ASSUME RegistrationInv, NEW c \in Clients, NEW s \in Slots,
         TapSave(c, s) \/ SaveStep(c, s)
  PROVE  RegistrationInv'
  <1> DEFINE call == calls[c][s]
  <1>1. TypeOK /\ TypeOK' /\ call \in Call
    BY SaveStepType DEF RegistrationInv, TypeOK
  <1>2. call.widget \cup call.record \subseteq InFlight
    BY DEF InFlight
  <1>3. ASSUME EndCall(c, s), UNCHANGED <<storeVars, patients, screen, loads, clock>>
        PROVE  RegistrationInv'
    BY <1>1, <1>3, EndCallHolds, NothingNew
       DEF storeVars, Records, Cached, Queued, Listed, Shown, Loaded
  <1>4. CASE TapSave(c, s)
    <2> DEFINE new == [IdleCall EXCEPT !.stage = "userName", !.mounted = TRUE,
                                       !.widget = screen[c].patient]
    <2>1. new.widget = screen[c].patient /\ new.record = {} /\ new.id = {}
      BY DEF IdleCall
    <2>2. SetCall(c, s, new)
      BY <1>4 DEF TapSave
    <2> HIDE DEF new
    <2>3. screen[c].patient \subseteq Shown
      BY DEF Shown
    <2>4. /\ InFlight' \subseteq InFlight \cup Shown
          /\ \A d \in Clients, t \in Slots : calls'[d][t].id \subseteq calls[d][t].id
      BY <1>1, <2>1, <2>2, <2>3, SetCallHolds
    <2> QED BY <1>1, <1>4, <2>4, NothingNew
            DEF TapSave, storeVars, Records, Cached, Queued, Listed, Shown, Loaded
  <1>5. CASE SaveAborted(c, s)
    BY <1>3, <1>5 DEF SaveAborted
  <1>6. ASSUME NEW new, SetCall(c, s, new), new.widget = call.widget
        PROVE  /\ InFlight' \subseteq InFlight \cup new.record
               /\ new.id \subseteq 1 .. clock + 1 =>
                    \A d \in Clients, t \in Slots : calls'[d][t].id \subseteq 1 .. clock + 1
    <2>1. \A d \in Clients, t \in Slots : calls[d][t].id \subseteq 1 .. clock + 1
      BY DEF RegistrationInv, IdsBounded
    <2> QED BY <1>1, <1>2, <1>6, <2>1, SetCallHolds
  <1>7. call.id \subseteq 1 .. clock + 1 /\ clock \in Nat
    BY <1>1 DEF RegistrationInv, IdsBounded, TypeOK
  <1>8. CASE StartAdd(c, s)
    <2>1. PICK f \in Forms : SetCall(c, s, [call EXCEPT !.stage = "idQuery", !.form = f])
      BY <1>8 DEF StartAdd
    <2> DEFINE new == [call EXCEPT !.stage = "idQuery", !.form = f]
    <2>2. new.widget = call.widget /\ new.record = call.record /\ new.id = call.id
      BY <1>1 DEF Call
    <2>3. SetCall(c, s, new)
      BY <2>1
    <2> HIDE DEF new
    <2>4. InFlight' \subseteq InFlight
      BY <1>2, <1>6, <2>2, <2>3
    <2>5. \A d \in Clients, t \in Slots : calls'[d][t].id \subseteq 1 .. clock + 1
      BY <1>6, <1>7, <2>2, <2>3
    <2>6. Records' \subseteq Records
      BY <1>8, <2>4 DEF StartAdd, storeVars, Records, Cached, Queued, Listed, Shown, Loaded
    <2>7. Copied(Records')
      BY <2>6 DEF Copied, Copies
    <2> QED BY <1>1, <1>8, <2>5, <2>7, CopyingStep DEF StartAdd
  <1>9. CASE StartUpdate(c, s)
    <2>1. PICK w \in call.widget, f \in Forms :
            /\ SetCall(c, s, [call EXCEPT !.stage = "writing", !.form = f,
                                          !.record = {updatedPatient(w, f)}])
            /\ Enqueue(c, Set(toJson(updatedPatient(w, f)), s))
      BY <1>9 DEF StartUpdate
    <2> DEFINE p == updatedPatient(w, f)
               new == [call EXCEPT !.stage = "writing", !.form = f, !.record = {p}]
               m == Set(toJson(p), s)
    <2>2. w \in Patient /\ w \in Records
      BY <1>1, <1>2 DEF Call, Records
    <2>3. p \in Patient /\ Copies(p, w)
      BY <2>2, UpdatedPatientType DEF Copies
    <2>4. Copies(toJson(p), w)
      BY <2>3, ToJsonType DEF Copies
    <2>5. m \in Mutation /\ m.docs = {toJson(p)}
      BY <2>3, ToJsonType, MutationType DEF Set
    <2>6. new.widget = call.widget /\ new.record = {p} /\ new.id = call.id
      BY <1>1 DEF Call
    <2>7. SetCall(c, s, new) /\ Enqueue(c, m)
      BY <2>1
    <2> HIDE DEF p, new, m
    <2>8. InFlight' \subseteq InFlight \cup {p}
      BY <1>6, <2>6, <2>7
    <2>9. \A d \in Clients, t \in Slots : calls'[d][t].id \subseteq 1 .. clock + 1
      BY <1>6, <1>7, <2>6, <2>7
    <2>10. Queued' \subseteq Queued \cup {toJson(p)}
      BY <1>1, <2>5, <2>7, EnqueueHolds
    <2>11. Records' \subseteq Records \cup {p, toJson(p)}
      BY <1>9, <2>8, <2>10 DEF StartUpdate, Records, Cached, Listed, Shown, Loaded
    <2>12. Copied(Records')
      <3>1. \A r \in Records : Copies(r, r)
        BY DEF Copies
      <3> QED BY <2>2, <2>3, <2>4, <2>11, <3>1 DEF Copied
    <2> QED BY <1>1, <1>9, <2>9, <2>12, CopyingStep DEF StartUpdate
  <1>10. CASE ServeIdQuery(c, s)
    <2>1. PICK base \in Bases(c, 1) :
            /\ cache' = [cache EXCEPT ![c] = base]
            /\ \E page \in Pages(Overlay(base, queue[c]), 1) :
                 SetCall(c, s, [call EXCEPT !.stage = "idReady", !.id = {NextId(page)}])
      BY <1>10 DEF ServeIdQuery
    <2>2. PICK page \in Pages(Overlay(base, queue[c]), 1) :
            SetCall(c, s, [call EXCEPT !.stage = "idReady", !.id = {NextId(page)}])
      BY <2>1
    <2> DEFINE new == [call EXCEPT !.stage = "idReady", !.id = {NextId(page)}]
    <2>3. Cached' \subseteq Records /\ ToSet(page) \subseteq Records
      BY <1>1, <2>1, AnswerHolds
    <2>4. page \in Seq(Doc)
      BY <1>1, AnswerType
    <2>5. NextId(page) \in 1 .. clock + 1
      <3>1. CASE page = <<>>
        BY <1>7, <3>1 DEF NextId
      <3>2. CASE page # <<>>
        <4>1. page[1] \in Records /\ page[1] \in Doc
          BY <2>3, <2>4, <3>2 DEF ToSet
        <4>2. page[1].id <= clock
          BY <4>1 DEF RegistrationInv, IdsBounded
        <4>3. page[1].id \in Nat
          BY <4>1 DEF Doc
        <4> QED BY <1>7, <3>2, <4>2, <4>3 DEF NextId
      <3> QED BY <3>1, <3>2
    <2>6. new.widget = call.widget /\ new.record = call.record /\ new.id = {NextId(page)}
      BY <1>1 DEF Call
    <2>7. SetCall(c, s, new)
      BY <2>2
    <2> HIDE DEF new
    <2>8. InFlight' \subseteq InFlight
      BY <1>2, <1>6, <2>6, <2>7
    <2>9. \A d \in Clients, t \in Slots : calls'[d][t].id \subseteq 1 .. clock + 1
      BY <1>6, <2>5, <2>6, <2>7
    <2>10. Records' \subseteq Records
      BY <1>10, <2>3, <2>8 DEF ServeIdQuery, Records, Queued, Listed, Shown, Loaded
    <2>11. Copied(Records')
      BY <2>10 DEF Copied, Copies
    <2> QED BY <1>1, <1>10, <2>9, <2>11, CopyingStep DEF ServeIdQuery
  <1>11. CASE IdQueryFails(c, s)
    BY <1>3, <1>11 DEF IdQueryFails
  <1>12. CASE AddWrite(c, s)
    <2>1. PICK id \in call.id :
            /\ SetCall(c, s, [call EXCEPT !.stage = "writing",
                                !.record = {newPatient(c, id, call.form, clock + 1)}])
            /\ Enqueue(c, Set(toJson(newPatient(c, id, call.form, clock + 1)), s))
      BY <1>12 DEF AddWrite
    <2> DEFINE p == newPatient(c, id, call.form, clock + 1)
               new == [call EXCEPT !.stage = "writing", !.record = {p}]
               m == Set(toJson(p), s)
    <2>2. id \in 1 .. clock + 1 /\ id \in Nat \ {0} /\ call.form \in Forms
      BY <1>1, <1>7, <2>1 DEF Call
    <2>3. p \in Patient /\ p.id = id /\ p.createdBy = c /\ p.createdAt.at = clock + 1
      BY <1>7, <2>2, NewPatientType DEF newPatient, DateTime
    <2>4. m \in Mutation /\ m.docs = {toJson(p)}
      BY <2>3, ToJsonType, MutationType DEF Set
    <2>5. /\ toJson(p).id = id /\ toJson(p).createdBy = c
          /\ toJson(p).createdAt.at = clock + 1
      BY <2>3, ToJsonType
    <2>6. new.widget = call.widget /\ new.record = {p} /\ new.id = call.id
      BY <1>1 DEF Call
    <2>7. SetCall(c, s, new) /\ Enqueue(c, m)
      BY <2>1
    <2> HIDE DEF p, new, m
    <2>8. InFlight' \subseteq InFlight \cup {p}
      BY <1>6, <2>6, <2>7
    <2>9. \A d \in Clients, t \in Slots : calls'[d][t].id \subseteq 1 .. clock + 1
      BY <1>6, <1>7, <2>6, <2>7
    <2>10. Queued' \subseteq Queued \cup {toJson(p)}
      BY <1>1, <2>4, <2>7, EnqueueHolds
    <2>11. Records' \subseteq Records \cup {p, toJson(p)}
      BY <1>12, <2>8, <2>10 DEF AddWrite, Records, Cached, Listed, Shown, Loaded
    <2>12. \A r \in Records' :
             \/ \E t \in Records : Copies(r, t)
             \/ r.id = id /\ r.createdBy = c /\ r.createdAt.at = clock + 1
      <3>1. \A r \in Records : Copies(r, r)
        BY DEF Copies
      <3> QED BY <2>3, <2>5, <2>11, <3>1
    <2>13. clock' = clock + 1
      BY <1>12 DEF AddWrite
    <2> QED BY <1>1, <2>2, <2>9, <2>12, <2>13, RegisteringStep
  <1>13. CASE FinishAdd(c, s)
    <2>1. PICK p \in call.record : patients' = [patients EXCEPT ![c] = <<p>> \o @]
      BY <1>13 DEF FinishAdd
    <2>2. p \in Patient /\ p \in InFlight /\ patients[c] \in Seq(Patient)
      BY <1>1, <1>2, <2>1 DEF Call, TypeOK
    <2>3. ToSet(<<p>> \o patients[c]) \subseteq {p} \cup ToSet(patients[c])
      BY <2>2 DEF ToSet
    <2>4. Listed' \subseteq Listed \cup {p}
      BY <1>1, <2>1, <2>3, ListHolds DEF Listed
    <2>5. PopForm(c, s)
      BY <1>13 DEF FinishAdd
    <2> QED BY <1>1, <1>13, <2>2, <2>4, <2>5, PopFormHolds, NothingNew
            DEF FinishAdd, storeVars, Records, Cached, Queued, Loaded
  <1>14. CASE FinishUpdate(c, s)
    <2>1. PICK p \in call.record, i \in DOMAIN patients[c] :
            patients' = [patients EXCEPT ![c][i] = p]
      BY <1>14 DEF FinishUpdate
    <2>2. p \in InFlight /\ patients[c] \in Seq(Patient)
      BY <1>1, <1>2, <2>1 DEF TypeOK
    <2> DEFINE list == [patients[c] EXCEPT ![i] = p]
    <2>3. ToSet(list) \subseteq {p} \cup ToSet(patients[c])
      BY <2>2 DEF ToSet
    <2>4. patients' = [patients EXCEPT ![c] = list]
      BY <2>1
    <2> HIDE DEF list
    <2>5. Listed' \subseteq Listed \cup {p}
      BY <1>1, <2>3, <2>4, ListHolds DEF Listed
    <2>6. PopForm(c, s)
      BY <1>14 DEF FinishUpdate
    <2> QED BY <1>1, <1>14, <2>2, <2>5, <2>6, PopFormHolds, NothingNew
            DEF FinishUpdate, storeVars, Records, Cached, Queued, Loaded
  <1>15. CASE UpdateFindsNothing(c, s)
    BY <1>3, <1>15 DEF UpdateFindsNothing
  <1> QED BY <1>4, <1>5, <1>8, <1>9, <1>10, <1>11, <1>12, <1>13, <1>14, <1>15
          DEF SaveStep

\* So do the steps of addPatients, which lose dates but mix no patients.
LEMMA LoadStepKeeps ==
  ASSUME RegistrationInv, NEW c \in Clients, LoadStep(c)
  PROVE  RegistrationInv'
  <1>1. TypeOK /\ TypeOK'
    BY LoadStepType DEF RegistrationInv
  <1>2. IdleLoad.page = <<>> /\ ToSet(<<>>) = {}
    BY DEF IdleLoad, ToSet
  <1>3. NumbersBounded
    BY DEF RegistrationInv, IdsBounded, NumbersBounded
  <1>4. CASE ServeLoad(c)
    <2>1. PICK base \in Bases(c, PageSize) :
            /\ cache' = [cache EXCEPT ![c] = base]
            /\ \E page \in Pages(Overlay(base, queue[c]), PageSize) :
                 loads' = [loads EXCEPT ![c] = [stage |-> "ready", page |-> page]]
      BY <1>4 DEF ServeLoad
    <2>2. PICK page \in Pages(Overlay(base, queue[c]), PageSize) :
            loads' = [loads EXCEPT ![c] = [stage |-> "ready", page |-> page]]
      BY <2>1
    <2>3. Cached' \subseteq Records /\ ToSet(page) \subseteq Records
      BY <1>1, <2>1, AnswerHolds, PageSizeAssumption
    <2> DEFINE new == [stage |-> "ready", page |-> page]
    <2>4. new.page = page /\ loads' = [loads EXCEPT ![c] = new]
      BY <2>2
    <2> HIDE DEF new
    <2>5. Loaded' \subseteq Loaded \cup ToSet(page)
      BY <1>1, <2>4, PageHolds
    <2> QED BY <1>1, <1>4, <2>3, <2>5, NothingNew
            DEF ServeLoad, Records, Queued, Listed, Shown, InFlight
  <1>5. CASE FinishLoad(c)
    <2> DEFINE page == loads[c].page
               list == [i \in DOMAIN page |-> fromMap(page[i])]
    <2>1. page \in Seq(Doc) /\ ToSet(page) \subseteq Records
      BY <1>1 DEF TypeOK, Load, Records, Loaded
    <2>2. ASSUME NEW r \in ToSet(list) PROVE \E t \in Records : Copies(r, t)
      <3>1. PICK i \in DOMAIN page : r = fromMap(page[i])
        BY DEF ToSet
      <3>2. page[i] \in Doc /\ page[i] \in Records
        BY <2>1, <3>1 DEF ToSet
      <3>3. Copies(fromMap(page[i]), page[i])
        BY <3>2 DEF Copies, fromMap, TryParse, NullDate, Doc
      <3> QED BY <3>1, <3>2, <3>3
    <2>3. patients' = [patients EXCEPT ![c] = list] /\ loads' = [loads EXCEPT ![c] = IdleLoad]
      BY <1>5 DEF FinishLoad
    <2> HIDE DEF page, list
    <2>4. Listed' \subseteq Listed \cup ToSet(list) /\ Loaded' \subseteq Loaded
      BY <1>1, <1>2, <2>3, ListHolds, PageHolds
    <2>5. Records' \subseteq Records \cup ToSet(list)
      BY <1>5, <2>4 DEF FinishLoad, storeVars, Records, Cached, Queued, Shown, InFlight
    <2>6. Copied(Records')
      <3>1. \A r \in Records : Copies(r, r)
        BY DEF Copies
      <3> QED BY <2>2, <2>5, <3>1 DEF Copied
    <2> QED BY <1>1, <1>3, <1>5, <2>6, CopyingStep DEF FinishLoad, NumbersBounded
  <1>6. CASE LoadFails(c)
    <2>1. Loaded' \subseteq Loaded
      BY <1>1, <1>2, <1>6, PageHolds DEF LoadFails
    <2> QED BY <1>1, <1>6, <2>1, NothingNew
            DEF LoadFails, storeVars, Records, Cached, Queued, Listed, Shown, InFlight
  <1> QED BY <1>4, <1>5, <1>6 DEF LoadStep

\* The documents of a mutation at the head of a queue, and of the rest of it.
LEMMA HeadHolds ==
  ASSUME TypeOK, NEW c \in Clients, queue[c] # <<>>
  PROVE  /\ Head(queue[c]).docs \subseteq Queued
         /\ queue' = [queue EXCEPT ![c] = Tail(@)] => Queued' \subseteq Queued
  <1>1. queue[c] \in Seq(Mutation)
    BY DEF TypeOK
  <1>2. Head(queue[c]) \in ToSet(queue[c])
    <2>1. 1 \in DOMAIN queue[c] /\ Head(queue[c]) = queue[c][1]
      BY <1>1
    <2> QED BY <2>1 DEF ToSet
  <1>3. ToSet(Tail(queue[c])) \subseteq ToSet(queue[c])
    <2>1. ASSUME NEW i \in DOMAIN Tail(queue[c])
          PROVE  i + 1 \in DOMAIN queue[c] /\ Tail(queue[c])[i] = queue[c][i + 1]
      BY <1>1
    <2> QED BY <2>1 DEF ToSet
  <1>4. ASSUME queue' = [queue EXCEPT ![c] = Tail(@)]
        PROVE  \A d \in Clients : ToSet(queue'[d]) \subseteq ToSet(queue[d])
    BY <1>3, <1>4 DEF TypeOK
  <1>5. Head(queue[c]).docs \subseteq Queued
    BY <1>2 DEF Queued
  <1>6. ASSUME queue' = [queue EXCEPT ![c] = Tail(@)]
        PROVE  Queued' \subseteq Queued
    BY <1>4, <1>6 DEF Queued
  <1> QED BY <1>5, <1>6

\* The future of a write brings no record.
LEMMA CompleteWriteHolds ==
  ASSUME TypeOK, NEW c \in Clients, CompleteWrite(c)
  PROVE  /\ InFlight' \subseteq InFlight
         /\ \A d \in Clients, t \in Slots : calls'[d][t].id \subseteq calls[d][t].id
  <1>1. ASSUME NEW d \in Clients, NEW t \in Slots
        PROVE  calls'[d][t] \in {calls[d][t], [calls[d][t] EXCEPT !.stage = "written"]}
    BY DEF CompleteWrite, TypeOK
  <1>2. ASSUME NEW d \in Clients, NEW t \in Slots
        PROVE  /\ calls'[d][t].widget = calls[d][t].widget
               /\ calls'[d][t].record = calls[d][t].record
               /\ calls'[d][t].id = calls[d][t].id
    <2>1. calls[d][t] \in Call
      BY DEF TypeOK
    <2> QED BY <1>1, <2>1 DEF Call
  <1> QED BY <1>2 DEF InFlight

\* A confirmed write copies a queued record, a refused one drops it.
LEMMA WriteStepKeeps ==
  ASSUME RegistrationInv, NEW c \in Clients, WriteStep(c)
  PROVE  RegistrationInv'
  <1>1. TypeOK /\ TypeOK' /\ queue[c] # <<>>
    BY WriteStepType
    DEF RegistrationInv, WriteStep, WriteAcknowledged, WriteRejected, Acknowledge, Reject
  <1>2. /\ Head(queue[c]).docs \subseteq Queued
        /\ Queued' \subseteq Queued
    BY <1>1, HeadHolds
    DEF WriteStep, WriteAcknowledged, WriteRejected, Acknowledge, Reject
  <1>3. /\ InFlight' \subseteq InFlight
        /\ \A d \in Clients, t \in Slots : calls'[d][t].id \subseteq calls[d][t].id
    BY <1>1, CompleteWriteHolds DEF WriteStep, WriteAcknowledged, WriteRejected
  <1>4. CASE WriteAcknowledged(c)
    <2>1. server' \subseteq server \cup Queued
      BY <1>2, <1>4 DEF WriteAcknowledged, Acknowledge, Apply
    <2>2. Cached' \subseteq Cached \cup Queued
      BY <1>1, <1>2, <1>4 DEF WriteAcknowledged, Acknowledge, Apply, Cached, TypeOK
    <2> QED BY <1>1, <1>2, <1>3, <1>4, <2>1, <2>2, NothingNew
            DEF WriteAcknowledged, Records, Listed, Shown, Loaded
  <1>5. CASE WriteRejected(c)
    BY <1>1, <1>2, <1>3, <1>5, NothingNew
    DEF WriteRejected, Reject, Records, Cached, Listed, Shown, Loaded
  <1> QED BY <1>4, <1>5 DEF WriteStep

\* So does a lost acknowledgement.
LEMMA NetworkKeeps ==
  ASSUME RegistrationInv, NEW c \in Clients, Network(c)
  PROVE  RegistrationInv'
  <1>1. TypeOK /\ TypeOK'
    BY NetworkType DEF RegistrationInv
  <1>2. server' \subseteq server \cup Queued
    <2>1. CASE AcknowledgementLost(c)
      <3>1. PICK n \in 1 .. Len(queue[c]) :
              server' = Overlay(server, SubSeq(queue[c], 1, n))
        BY <2>1 DEF AcknowledgementLost
      <3>2. queue[c] \in Seq(Mutation)
        BY <1>1 DEF TypeOK
      <3>3. UNION {queue[c][i].docs : i \in DOMAIN queue[c]} \subseteq Queued
        BY DEF Queued, ToSet
      <3> QED BY <3>1, <3>2, <3>3, FirstWrites
    <2> QED BY <2>1 DEF Network, Disconnect, Reconnect
  <1> QED BY <1>1, <1>2, NothingNew
          DEF Network, Disconnect, Reconnect, AcknowledgementLost, appVars,
              Records, Cached, Queued, Listed, Shown, InFlight, Loaded

\* A restart and a second sign-in only forget.
LEMMA RestartKeeps ==
  ASSUME RegistrationInv, NEW c \in Clients, SignInAgain(c) \/ Restart(c)
  PROVE  RegistrationInv'
  <1>1. TypeOK /\ TypeOK'
    BY RestartType DEF RegistrationInv
  <1>2. ListScreen.patient = {} /\ AskedLoad.page = <<>> /\ ToSet(<<>>) = {}
    BY DEF ListScreen, AskedLoad, ToSet
  <1>3. Loaded' \subseteq Loaded
    BY <1>1, <1>2, PageHolds DEF SignInAgain, Restart
  <1>4. CASE SignInAgain(c)
    <2>1. /\ Shown' = Shown /\ InFlight' = InFlight
          /\ \A d \in Clients, t \in Slots : calls'[d][t].id \subseteq calls[d][t].id
      BY <1>4 DEF SignInAgain, Shown, InFlight
    <2> QED BY <1>1, <1>3, <1>4, <2>1, NothingNew
            DEF SignInAgain, storeVars, Records, Cached, Queued, Listed
  <1>5. CASE Restart(c)
    <2> DEFINE new == [s \in Slots |-> IdleCall]
    <2>1. \A t \in Slots : new[t] = Unmounted(c)[t] \/ new[t] = IdleCall
      OBVIOUS
    <2>2. calls' = [calls EXCEPT ![c] = new]
      BY <1>5 DEF Restart
    <2> HIDE DEF new
    <2>3. /\ InFlight' \subseteq InFlight
          /\ \A d \in Clients, t \in Slots : calls'[d][t].id \subseteq calls[d][t].id
      BY <1>1, <2>1, <2>2, DisposedHolds
    <2>4. Queued' \subseteq Queued
      <3> DEFINE q == [i \in DOMAIN queue[c] |-> [queue[c][i] EXCEPT !.waiter = {}]]
      <3>1. queue' = [queue EXCEPT ![c] = q]
        BY <1>5, Zenon DEF Restart, ForgetWaiters
      <3>2. \A i \in DOMAIN queue[c] : queue[c][i] \in Mutation
        BY <1>1, QueueType DEF TypeOK
      <3>3. \A i \in DOMAIN q : i \in DOMAIN queue[c] /\ q[i].docs = queue[c][i].docs
        BY <3>2 DEF Mutation
      <3> HIDE DEF q
      <3>4. \A d \in Clients : queue'[d] = IF d = c THEN q ELSE queue[d]
        BY <1>1, <3>1 DEF TypeOK
      <3> QED BY <3>3, <3>4 DEF Queued, ToSet
    <2>5. Shown' \subseteq Shown
      BY <1>1, <1>2, <1>5, ScreenHolds DEF Restart
    <2>6. Listed' \subseteq Listed
      BY <1>1, <1>2, <1>5, ListHolds DEF Restart
    <2> QED BY <1>1, <1>3, <1>5, <2>3, <2>4, <2>5, <2>6, NothingNew
            DEF Restart, Records, Cached
  <1> QED BY <1>4, <1>5

\* The registration invariant holds in every reachable state.
LEMMA RegistrationInvariant ==
  Spec => []RegistrationInv
  <1>1. Init => RegistrationInv
    <2>1. Init => Records = {} /\ NumbersBounded
      BY DEF Init, StoreInit, Records, Cached, Queued, Listed, Shown, InFlight, Loaded,
             ToSet, ListScreen, IdleCall, AskedLoad, NumbersBounded
    <2>2. Init => TypeOK
      BY InitType
    <2> QED BY <2>1, <2>2
            DEF RegistrationInv, IdsBounded, StampIdentifiesRegistration, NumbersBounded
  <1>2. RegistrationInv /\ [Next]_vars => RegistrationInv'
    <2>1. ASSUME RegistrationInv, Next PROVE RegistrationInv'
      BY <2>1, ScreenStepKeeps, SaveStepKeeps, LoadStepKeeps, WriteStepKeeps,
         NetworkKeeps, RestartKeeps DEF Next
    <2>2. ASSUME RegistrationInv, UNCHANGED vars PROVE RegistrationInv'
      <3>1. TypeOK'
        BY <2>2 DEF RegistrationInv, TypeOK, vars, storeVars, appVars
      <3> QED BY <2>2, <3>1, NothingNew
              DEF vars, storeVars, appVars, Records, Cached, Queued, Listed, Shown,
                  InFlight, Loaded
    <2> QED BY <2>1, <2>2
  <1> QED BY <1>1, <1>2, PTL DEF Spec

\* No number runs ahead of the registrations, on any number of devices.
THEOREM NumbersNeverRunAhead == Spec => []IdsBounded
  BY RegistrationInvariant, PTL DEF RegistrationInv

\* A creation date stands for one registration, on any number of devices.
THEOREM StampsIdentify == Spec => []StampIdentifiesRegistration
  BY RegistrationInvariant, PTL DEF RegistrationInv
=============================================================================
