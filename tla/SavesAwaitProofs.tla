-------------------------- MODULE SavesAwaitProofs --------------------------
(***************************************************************************)
(* Saves and the writes they await, for every number of devices and save   *)
(* calls in flight, whatever the connection, the server and the life of    *)
(* the app do: SavesAwaitTheirWrite is inductive beside the types.         *)
(***************************************************************************)
EXTENDS PatientProviderProofs

----------------------------------------------------------------------------
(* Queues *)

\* A save waits before and after a step for the same write, or for none.
SameWait(call, new) ==
  /\ new.stage = "writing" <=> call.stage = "writing"
  /\ call.stage = "writing" => new.record = call.record

\* A save that goes on awaits what it awaited, and one that ends or begins
\* awaits nothing before and after.
LEMMA AwaitsSame ==
  ASSUME NEW q, NEW s, NEW call, NEW new, Awaits(q, s, call), SameWait(call, new)
  PROVE  Awaits(q, s, new)
  BY DEF Awaits, SameWait

\* The write of another save, or a delete, joins the queue.
LEMMA AwaitsOther ==
  ASSUME NEW q \in Seq(Mutation), NEW m \in Mutation, NEW s, NEW call,
         Awaits(q, s, call), s \notin m.waiter
  PROVE  Awaits(Append(q, m), s, call)
  <1> DEFINE r == Append(q, m)
  <1>1. /\ DOMAIN r = DOMAIN q \cup {Len(q) + 1}
        /\ Len(q) + 1 \notin DOMAIN q
        /\ r[Len(q) + 1] = m
        /\ \A i \in DOMAIN q : r[i] = q[i]
    <2> HIDE DEF Mutation
    <2> QED OBVIOUS
  <1> HIDE DEF r
  <1>2. CASE call.stage = "writing"
    <2>1. PICK i \in DOMAIN q :
            /\ \A j \in DOMAIN q : s \in q[j].waiter <=> j = i
            /\ q[i].docs = {toJson(p) : p \in call.record}
      BY <1>2 DEF Awaits
    <2>2. i \in DOMAIN r /\ r[i].docs = {toJson(p) : p \in call.record}
      BY <1>1, <2>1
    <2>3. \A j \in DOMAIN r : s \in r[j].waiter <=> j = i
      BY <1>1, <2>1
    <2> QED BY <1>2, <2>2, <2>3 DEF Awaits, r
  <1>3. CASE call.stage # "writing"
    BY <1>1, <1>3 DEF Awaits, r
  <1> QED BY <1>2, <1>3

\* The write of the save itself joins the queue.
LEMMA AwaitsOwn ==
  ASSUME NEW q \in Seq(Mutation), NEW m \in Mutation, NEW s, NEW call, NEW new,
         Awaits(q, s, call), call.stage # "writing", new.stage = "writing",
         s \in m.waiter, m.docs = {toJson(p) : p \in new.record}
  PROVE  Awaits(Append(q, m), s, new)
  <1> DEFINE r == Append(q, m)
  <1>1. /\ DOMAIN r = DOMAIN q \cup {Len(q) + 1}
        /\ Len(q) + 1 \notin DOMAIN q
        /\ r[Len(q) + 1] = m
        /\ \A i \in DOMAIN q : r[i] = q[i]
    <2> HIDE DEF Mutation
    <2> QED OBVIOUS
  <1> HIDE DEF r
  <1>2. \A j \in DOMAIN q : s \notin q[j].waiter
    BY DEF Awaits
  <1>3. \A j \in DOMAIN r : s \in r[j].waiter <=> j = Len(q) + 1
    BY <1>1, <1>2
  <1>4. r[Len(q) + 1].docs = {toJson(p) : p \in new.record}
    BY <1>1
  <1>5. \E i \in DOMAIN r :
          /\ \A j \in DOMAIN r : s \in r[j].waiter <=> j = i
          /\ r[i].docs = {toJson(p) : p \in new.record}
    BY <1>1, <1>3, <1>4
  <1> QED BY <1>5 DEF Awaits, r

\* The oldest write is answered: the save that awaits it goes on, the others
\* still have their write.
LEMMA AwaitsAnswer ==
  ASSUME NEW q \in Seq(Mutation), q # <<>>, NEW s, NEW call, NEW new,
         Awaits(q, s, call),
         s \in Head(q).waiter => new.stage = "written",
         s \notin Head(q).waiter => new = call
  PROVE  Awaits(Tail(q), s, new)
  <1> DEFINE r == Tail(q)
  <1>1. /\ 1 \in DOMAIN q /\ Head(q) = q[1]
        /\ DOMAIN q \subseteq Nat
        /\ \A i \in DOMAIN r : i \in Nat \ {0} /\ i + 1 \in DOMAIN q /\ r[i] = q[i + 1]
        /\ \A i \in DOMAIN q : i # 1 => i - 1 \in DOMAIN r /\ r[i - 1] = q[i]
    <2> HIDE DEF Mutation
    <2> QED OBVIOUS
  <1> HIDE DEF r
  <1>2. CASE s \in Head(q).waiter
    <2>1. call.stage = "writing"
      BY <1>1, <1>2 DEF Awaits
    <2>2. \A j \in DOMAIN q : s \in q[j].waiter => j = 1
      BY <1>1, <1>2, <2>1 DEF Awaits
    <2>3. \A j \in DOMAIN r : s \notin r[j].waiter
      BY <1>1, <2>2
    <2> QED BY <1>2, <2>3 DEF Awaits, r
  <1>3. CASE s \notin Head(q).waiter
    <2>1. CASE call.stage = "writing"
      <3>1. PICK i \in DOMAIN q :
              /\ \A j \in DOMAIN q : s \in q[j].waiter <=> j = i
              /\ q[i].docs = {toJson(p) : p \in call.record}
        BY <2>1 DEF Awaits
      <3>2. i # 1
        BY <1>1, <1>3, <3>1
      <3>3. i - 1 \in DOMAIN r /\ r[i - 1].docs = {toJson(p) : p \in call.record}
        BY <1>1, <3>1, <3>2
      <3>4. ASSUME NEW j \in DOMAIN r PROVE s \in r[j].waiter <=> j = i - 1
        BY <1>1, <3>1
      <3>5. \E k \in DOMAIN r :
              /\ \A j \in DOMAIN r : s \in r[j].waiter <=> j = k
              /\ r[k].docs = {toJson(p) : p \in call.record}
        BY <3>3, <3>4
      <3> QED BY <1>3, <2>1, <3>5 DEF Awaits, r
    <2>2. CASE call.stage # "writing"
      <3>1. \A j \in DOMAIN r : s \notin r[j].waiter
        BY <1>1, <2>2 DEF Awaits
      <3> QED BY <1>3, <2>2, <3>1 DEF Awaits, r
    <2> QED BY <2>1, <2>2
  <1> QED BY <1>2, <1>3

----------------------------------------------------------------------------
(* The calls in flight *)

\* Nobody's wait has changed.
WaitsKept ==
  \A d \in Clients, r \in Slots : SameWait(calls[d][r], calls[d][r]')

\* A step that leaves the queues and the waits alone.
LEMMA QuietStep ==
  ASSUME SavesAwaitTheirWrite, UNCHANGED queue, WaitsKept
  PROVE  SavesAwaitTheirWrite'
  BY AwaitsSame DEF SavesAwaitTheirWrite, WaitsKept

\* A call that is set to one with the same wait.
LEMMA SetCallWaits ==
  ASSUME TypeOK, NEW c \in Clients, NEW s \in Slots, NEW new, SetCall(c, s, new),
         SameWait(calls[c][s], new)
  PROVE  WaitsKept
  <1>1. /\ calls[c][s]' = new
        /\ \A d \in Clients, r \in Slots : d # c \/ r # s => calls[d][r]' = calls[d][r]
    BY DEF SetCall, TypeOK
  <1>2. \A d \in Clients, r \in Slots : SameWait(calls[d][r], calls[d][r])
    BY DEF SameWait
  <1> QED BY <1>1, <1>2 DEF WaitsKept

\* A call that is over and awaited nothing.
LEMMA EndCallWaits ==
  ASSUME TypeOK, NEW c \in Clients, NEW s \in Slots, EndCall(c, s),
         calls[c][s].stage # "writing"
  PROVE  WaitsKept
  <1>1. SameWait(calls[c][s], IdleCall)
    BY DEF SameWait, IdleCall
  <1> QED BY <1>1, SetCallWaits DEF EndCall

\* The calls of a screen that is disposed of wait on.
LEMMA UnmountedWaits ==
  ASSUME TypeOK, NEW c \in Clients, calls' = [calls EXCEPT ![c] = Unmounted(c)]
  PROVE  WaitsKept
  <1>1. ASSUME NEW s \in Slots PROVE SameWait(calls[c][s], Unmounted(c)[s])
    <2>1. calls[c][s] \in Call
      BY DEF TypeOK
    <2> QED BY <2>1 DEF SameWait, Unmounted, Call
  <1>2. \A d \in Clients, r \in Slots : SameWait(calls[d][r], calls[d][r])
    BY DEF SameWait
  <1>3. /\ calls'[c] = Unmounted(c)
        /\ \A d \in Clients : d # c => calls'[d] = calls[d]
    BY DEF TypeOK
  <1> QED BY <1>1, <1>2, <1>3 DEF WaitsKept

\* The pop at the end of a call that awaits nothing.
LEMMA PopFormWaits ==
  ASSUME TypeOK, NEW c \in Clients, NEW s \in Slots, PopForm(c, s),
         calls[c][s].stage # "writing"
  PROVE  WaitsKept
  <1>1. CASE ~calls[c][s].mounted
    BY <1>1, EndCallWaits DEF PopForm
  <1>2. CASE calls[c][s].mounted
    <2> DEFINE popped == [Unmounted(c) EXCEPT ![s] = IdleCall]
    <2>1. calls' = [calls EXCEPT ![c] = popped]
      BY <1>2 DEF PopForm
    <2>2. ASSUME NEW r \in Slots PROVE SameWait(calls[c][r], popped[r])
      <3>1. calls[c][r] \in Call
        BY DEF TypeOK
      <3>2. r # s => popped[r] = [calls[c][r] EXCEPT !.mounted = FALSE]
        BY DEF Unmounted
      <3>3. popped[s] = IdleCall
        BY DEF Unmounted
      <3>4. CASE r = s
        BY <3>3, <3>4 DEF SameWait, IdleCall
      <3>5. CASE r # s
        BY <3>1, <3>2, <3>5 DEF SameWait, Call
      <3> QED BY <3>4, <3>5
    <2> HIDE DEF popped
    <2>3. /\ calls'[c] = popped
          /\ \A d \in Clients : d # c => calls'[d] = calls[d]
      BY <2>1 DEF TypeOK
    <2>4. \A d \in Clients, r \in Slots : SameWait(calls[d][r], calls[d][r])
      BY DEF SameWait
    <2> QED BY <2>2, <2>3, <2>4 DEF WaitsKept
  <1> QED BY <1>1, <1>2

\* A call begins to wait for the write it has queued.
LEMMA OwnWrite ==
  ASSUME TypeOK, SavesAwaitTheirWrite, NEW c \in Clients, NEW s \in Slots,
         NEW p \in Patient, NEW new \in Call,
         calls[c][s].stage # "writing", new.stage = "writing", new.record = {p},
         SetCall(c, s, new), Enqueue(c, Set(toJson(p), s))
  PROVE  SavesAwaitTheirWrite'
  <1> DEFINE m == Set(toJson(p), s)
  <1>1. m \in Mutation
    BY ToJsonType, MutationType
  <1>2. m.waiter = {s} /\ m.docs = {toJson(r) : r \in new.record}
    BY DEF Set
  <1> HIDE DEF m
  <1>3. queue[c] \in Seq(Mutation)
    BY DEF TypeOK
  <1>4. /\ queue'[c] = Append(queue[c], m)
        /\ \A d \in Clients : d # c => queue'[d] = queue[d]
    BY DEF Enqueue, TypeOK, m
  <1>5. /\ calls[c][s]' = new
        /\ \A d \in Clients, r \in Slots : d # c \/ r # s => calls[d][r]' = calls[d][r]
    BY DEF SetCall, TypeOK
  <1>6. ASSUME NEW d \in Clients, NEW r \in Slots
        PROVE  Awaits(queue'[d], r, calls[d][r]')
    <2>0. Awaits(queue[d], r, calls[d][r])
      BY DEF SavesAwaitTheirWrite
    <2>1. CASE d # c
      BY <1>4, <1>5, <2>0, <2>1
    <2>2. CASE d = c /\ r # s
      <3>1. r \notin m.waiter
        BY <1>2, <2>2
      <3>2. Awaits(queue[c], r, calls[c][r])
        BY <2>0, <2>2
      <3>3. Awaits(Append(queue[c], m), r, calls[c][r])
        BY <1>1, <1>3, <3>1, <3>2, AwaitsOther
      <3> QED BY <1>4, <1>5, <2>2, <3>3
    <2>3. CASE d = c /\ r = s
      <3>1. s \in m.waiter
        BY <1>2
      <3>2. Awaits(queue[c], s, calls[c][s])
        BY <2>0, <2>3
      <3>3. Awaits(Append(queue[c], m), s, new)
        BY <1>1, <1>2, <1>3, <3>1, <3>2, AwaitsOwn
      <3> QED BY <1>4, <1>5, <2>3, <3>3
    <2> QED BY <2>1, <2>2, <2>3
  <1> QED BY <1>6 DEF SavesAwaitTheirWrite

----------------------------------------------------------------------------
(* The steps *)

\* The screens change no wait; the delete of removePatient is awaited by nobody.
LEMMA ScreenStepWaits ==
  ASSUME TypeOK, SavesAwaitTheirWrite, NEW c \in Clients, ScreenStep(c)
  PROVE  SavesAwaitTheirWrite'
  <1>1. CASE OpenAdd(c) \/ OpenDetails(c) \/ EditPatient(c)
    <2>1. UNCHANGED <<queue, calls>>
      BY <1>1 DEF OpenAdd, OpenDetails, EditPatient, storeVars
    <2> QED BY <2>1 DEF SavesAwaitTheirWrite
  <1>2. CASE Back(c)
    BY <1>2, UnmountedWaits, QuietStep DEF Back, storeVars
  <1>3. CASE ConfirmDelete(c)
    <2>1. PICK p \in screen[c].patient :
            queue' = [queue EXCEPT ![c] = Append(@, Delete(p.id))]
      BY <1>3 DEF ConfirmDelete, Enqueue
    <2> DEFINE m == Delete(p.id)
    <2>2. p \in Patient
      BY <2>1 DEF TypeOK, Screen
    <2>3. m \in Mutation
      BY <2>2 DEF Delete, Mutation, Patient
    <2>4. m.waiter = {}
      BY DEF Delete
    <2> HIDE DEF m
    <2>5. /\ queue'[c] = Append(queue[c], m)
          /\ \A d \in Clients : d # c => queue'[d] = queue[d]
      BY <2>1 DEF TypeOK, m
    <2>6. queue[c] \in Seq(Mutation) /\ calls' = calls
      BY <1>3 DEF TypeOK, ConfirmDelete
    <2>7. ASSUME NEW d \in Clients, NEW r \in Slots
          PROVE  Awaits(queue'[d], r, calls'[d][r])
      <3>1. Awaits(queue[d], r, calls[d][r])
        BY DEF SavesAwaitTheirWrite
      <3>2. CASE d # c
        BY <2>5, <2>6, <3>1, <3>2
      <3>3. CASE d = c
        <4>1. Awaits(Append(queue[c], m), r, calls[c][r])
          BY <2>3, <2>4, <2>6, <3>1, <3>3, AwaitsOther
        <4> QED BY <2>5, <2>6, <3>3, <4>1
      <3> QED BY <3>2, <3>3
    <2> QED BY <2>7 DEF SavesAwaitTheirWrite
  <1> QED BY <1>1, <1>2, <1>3 DEF ScreenStep

\* Of the steps of a save, those before its write and after it change no wait.
LEMMA SaveStepWaits ==
  ASSUME TypeOK, SavesAwaitTheirWrite, NEW c \in Clients, NEW s \in Slots,
         TapSave(c, s) \/ SaveStep(c, s)
  PROVE  SavesAwaitTheirWrite'
  <1> DEFINE call == calls[c][s]
  <1>1. call \in Call
    BY DEF TypeOK
  <1>2. CASE TapSave(c, s)
    <2> DEFINE new == [IdleCall EXCEPT !.stage = "userName", !.mounted = TRUE,
                                       !.widget = screen[c].patient]
    <2>1. new.stage = "userName"
      BY DEF IdleCall
    <2>2. SetCall(c, s, new) /\ call.stage = "idle" /\ queue' = queue
      BY <1>2 DEF TapSave, storeVars
    <2>3. SameWait(call, new)
      BY <2>1, <2>2 DEF SameWait
    <2> QED BY <2>2, <2>3, SetCallWaits, QuietStep
  <1>3. CASE SaveAborted(c, s) \/ IdQueryFails(c, s) \/ UpdateFindsNothing(c, s)
    <2>1. EndCall(c, s) /\ call.stage # "writing" /\ queue' = queue
      BY <1>3 DEF SaveAborted, IdQueryFails, UpdateFindsNothing, storeVars
    <2> QED BY <2>1, EndCallWaits, QuietStep
  <1>4. CASE FinishAdd(c, s) \/ FinishUpdate(c, s)
    <2>1. PopForm(c, s) /\ call.stage # "writing" /\ queue' = queue
      BY <1>4 DEF FinishAdd, FinishUpdate, storeVars
    <2> QED BY <2>1, PopFormWaits, QuietStep
  <1>5. CASE StartAdd(c, s)
    <2>1. PICK f \in Forms : SetCall(c, s, [call EXCEPT !.stage = "idQuery", !.form = f])
      BY <1>5 DEF StartAdd
    <2> DEFINE new == [call EXCEPT !.stage = "idQuery", !.form = f]
    <2>2. new.stage = "idQuery" /\ call.stage = "userName" /\ queue' = queue
      BY <1>1, <1>5 DEF StartAdd, Call, storeVars
    <2>3. SameWait(call, new)
      BY <2>2 DEF SameWait
    <2> QED BY <2>1, <2>2, <2>3, SetCallWaits, QuietStep
  <1>6. CASE ServeIdQuery(c, s)
    <2>1. PICK base \in Bases(c, 1) :
            \E page \in Pages(Overlay(base, queue[c]), 1) :
              SetCall(c, s, [call EXCEPT !.stage = "idReady", !.id = {NextId(page)}])
      BY <1>6 DEF ServeIdQuery
    <2>2. PICK page \in Pages(Overlay(base, queue[c]), 1) :
            SetCall(c, s, [call EXCEPT !.stage = "idReady", !.id = {NextId(page)}])
      BY <2>1
    <2> DEFINE new == [call EXCEPT !.stage = "idReady", !.id = {NextId(page)}]
    <2>3. new.stage = "idReady" /\ call.stage = "idQuery" /\ queue' = queue
      BY <1>1, <1>6 DEF ServeIdQuery, Call
    <2>4. SameWait(call, new)
      BY <2>3 DEF SameWait
    <2> QED BY <2>2, <2>3, <2>4, SetCallWaits, QuietStep
  <1>7. CASE StartUpdate(c, s)
    <2>1. PICK w \in call.widget, f \in Forms :
            LET p == updatedPatient(w, f)
            IN  /\ SetCall(c, s, [call EXCEPT !.stage = "writing", !.form = f,
                                              !.record = {p}])
                /\ Enqueue(c, Set(toJson(p), s))
      BY <1>7 DEF StartUpdate
    <2> DEFINE p == updatedPatient(w, f)
               new == [call EXCEPT !.stage = "writing", !.form = f, !.record = {p}]
    <2>2. p \in Patient
      BY <1>1, <2>1, UpdatedPatientType DEF Call
    <2>3. new \in Call /\ new.stage = "writing" /\ new.record = {p}
      BY <1>1, <2>2 DEF Call, Stages
    <2>4. call.stage # "writing"
      BY <1>7 DEF StartUpdate
    <2> QED BY <2>1, <2>2, <2>3, <2>4, OwnWrite
  <1>8. CASE AddWrite(c, s)
    <2>1. PICK id \in call.id :
            LET p == newPatient(c, id, call.form, clock + 1)
            IN  /\ SetCall(c, s, [call EXCEPT !.stage = "writing", !.record = {p}])
                /\ Enqueue(c, Set(toJson(p), s))
      BY <1>8 DEF AddWrite
    <2> DEFINE p == newPatient(c, id, call.form, clock + 1)
               new == [call EXCEPT !.stage = "writing", !.record = {p}]
    <2>2. id \in Nat \ {0} /\ call.form \in Forms /\ clock + 1 \in Nat \ {0}
      BY <1>1, <2>1 DEF Call, TypeOK
    <2>3. p \in Patient
      BY <2>2, NewPatientType
    <2>4. new \in Call /\ new.stage = "writing" /\ new.record = {p}
      BY <1>1, <2>3 DEF Call, Stages
    <2>5. call.stage # "writing"
      BY <1>8 DEF AddWrite
    <2> QED BY <2>1, <2>3, <2>4, <2>5, OwnWrite
  <1> QED BY <1>2, <1>3, <1>4, <1>5, <1>6, <1>7, <1>8 DEF SaveStep

\* The answer to the oldest write completes the save that awaits it.
LEMMA WriteStepWaits ==
  ASSUME TypeOK, SavesAwaitTheirWrite, NEW c \in Clients, WriteStep(c)
  PROVE  SavesAwaitTheirWrite'
  <1>1. /\ queue[c] # <<>>
        /\ queue' = [queue EXCEPT ![c] = Tail(@)]
        /\ CompleteWrite(c)
    BY DEF WriteStep, WriteAcknowledged, WriteRejected, Acknowledge, Reject
  <1>2. queue[c] \in Seq(Mutation)
    BY DEF TypeOK
  <1>3. /\ queue'[c] = Tail(queue[c])
        /\ \A d \in Clients : d # c => queue'[d] = queue[d]
    BY <1>1 DEF TypeOK
  <1>4. /\ \A r \in Slots : calls'[c][r] = IF r \in Head(queue[c]).waiter
                                        THEN [calls[c][r] EXCEPT !.stage = "written"]
                                        ELSE calls[c][r]
        /\ \A d \in Clients : d # c => calls'[d] = calls[d]
    BY <1>1 DEF CompleteWrite, TypeOK
  <1>5. ASSUME NEW d \in Clients, NEW r \in Slots
        PROVE  Awaits(queue'[d], r, calls'[d][r])
    <2>1. Awaits(queue[d], r, calls[d][r])
      BY DEF SavesAwaitTheirWrite
    <2>2. CASE d # c
      BY <1>3, <1>4, <2>1, <2>2
    <2>3. CASE d = c
      <3>1. calls[c][r] \in Call
        BY DEF TypeOK
      <3>2. r \in Head(queue[c]).waiter => calls'[c][r].stage = "written"
        BY <1>4, <3>1 DEF Call
      <3>3. r \notin Head(queue[c]).waiter => calls'[c][r] = calls[c][r]
        BY <1>4
      <3>4. Awaits(Tail(queue[c]), r, calls'[c][r])
        BY <1>1, <1>2, <2>1, <2>3, <3>2, <3>3, AwaitsAnswer
      <3> QED BY <1>3, <2>3, <3>4
    <2> QED BY <2>2, <2>3
  <1> QED BY <1>5 DEF SavesAwaitTheirWrite

\* A restart leaves no save, and no write that one could await.
LEMMA RestartWaits ==
  ASSUME TypeOK, SavesAwaitTheirWrite, NEW c \in Clients, Restart(c)
  PROVE  SavesAwaitTheirWrite'
  <1> DEFINE q == [i \in DOMAIN queue[c] |-> [queue[c][i] EXCEPT !.waiter = {}]]
  <1>1. queue' = [queue EXCEPT ![c] = q]
    BY Zenon DEF Restart, ForgetWaiters
  <1>2. queue[c] \in Seq(Mutation)
    BY DEF TypeOK
  <1>3. \A i \in DOMAIN q : q[i].waiter = {}
    <2>1. \A i \in DOMAIN queue[c] : queue[c][i] \in Mutation
      BY <1>2, QueueType
    <2> QED BY <2>1 DEF Mutation
  <1> HIDE DEF q
  <1>4. /\ queue'[c] = q
        /\ \A d \in Clients : d # c => queue'[d] = queue[d]
    BY <1>1 DEF TypeOK
  <1>5. /\ \A s \in Slots : calls'[c][s].stage = "idle"
        /\ \A d \in Clients : d # c => calls'[d] = calls[d]
    BY DEF Restart, TypeOK, IdleCall
  <1>6. ASSUME NEW d \in Clients, NEW r \in Slots
        PROVE  Awaits(queue'[d], r, calls'[d][r])
    <2>1. CASE d # c
      BY <1>4, <1>5, <2>1 DEF SavesAwaitTheirWrite
    <2>2. CASE d = c
      <3>1. calls'[d][r].stage # "writing" /\ \A j \in DOMAIN q : r \notin q[j].waiter
        BY <1>3, <1>5, <2>2
      <3>2. queue'[d] = q
        BY <1>4, <2>2
      <3> QED BY <3>1, <3>2 DEF Awaits
    <2> QED BY <2>1, <2>2
  <1> QED BY <1>6 DEF SavesAwaitTheirWrite

\* Whatever the devices, the network and the server do, a save in flight
\* awaits exactly its own write, and no write is awaited by anybody else.
THEOREM SavesAwait == Spec => []SavesAwaitTheirWrite
  <1>1. Init => SavesAwaitTheirWrite
    BY DEF Init, StoreInit, SavesAwaitTheirWrite, Awaits, IdleCall
  <1>2. TypeOK /\ SavesAwaitTheirWrite /\ [Next]_vars => SavesAwaitTheirWrite'
    <2>1. ASSUME TypeOK, SavesAwaitTheirWrite, NEW c \in Clients,
                 LoadStep(c) \/ Network(c) \/ SignInAgain(c)
          PROVE  SavesAwaitTheirWrite'
      <3>1. UNCHANGED <<queue, calls>>
        BY <2>1 DEF LoadStep, ServeLoad, FinishLoad, LoadFails, Network, Disconnect,
           Reconnect, AcknowledgementLost, SignInAgain, storeVars, appVars
      <3> QED BY <2>1, <3>1 DEF SavesAwaitTheirWrite
    <2>2. ASSUME TypeOK, SavesAwaitTheirWrite, Next PROVE SavesAwaitTheirWrite'
      BY <2>1, <2>2, ScreenStepWaits, SaveStepWaits, WriteStepWaits, RestartWaits
      DEF Next
    <2>3. ASSUME SavesAwaitTheirWrite, UNCHANGED vars PROVE SavesAwaitTheirWrite'
      BY <2>3 DEF vars, storeVars, appVars, SavesAwaitTheirWrite
    <2> QED BY <2>2, <2>3
  <1> QED BY <1>1, <1>2, TypeCorrect, PTL DEF Spec
=============================================================================
