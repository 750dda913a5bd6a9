-------------------------- MODULE PatientSaveProofs --------------------------
(***************************************************************************)
(* What the saves, loads, restarts and confirmations of one device do to   *)
(* the documents it reads and to what the app remembers of them, while it  *)
(* saves one form at a time, deletes nobody and has no write refused: for  *)
(* any number of saves, any page size and any forms.                       *)
(***************************************************************************)
EXTENDS PatientProviderProofs, DocumentsProofs

\* The conditions, for device c and its slot s.
Alone(c, s) == Clients = {c} /\ Slots = {s} /\ MaxPending = 0 /\ ~MayReject

----------------------------------------------------------------------------
(* What a device reads *)

\* A queued write takes effect in what the device reads.
LEMMA OverlayAppend ==
  ASSUME NEW base, NEW q \in Seq(Mutation), NEW m \in Mutation
  PROVE  Overlay(base, Append(q, m)) = Apply(Overlay(base, q), m)
  <1> DEFINE n == Len(q) + 1
             r == Append(q, m)
  <1>1. /\ DOMAIN q = 1 .. Len(q) /\ Len(q) \in Nat /\ DOMAIN r = 1 .. n
        /\ r[n] = m /\ \A i \in DOMAIN q : r[i] = q[i] /\ q[i] \in Mutation
    <2> HIDE DEF Mutation
    <2> QED OBVIOUS
  <1> HIDE DEF r
  <1>2. \A id : Pending(r, id) <=> Pending(q, id) \/ id = m.id
    BY <1>1 DEF Pending
  <1>3. ASSUME NEW i \in DOMAIN q
        PROVE  i \in LastWrites(r) <=> i \in LastWrites(q) /\ q[i].id # m.id
    BY <1>1 DEF LastWrites
  <1>4. n \in LastWrites(r) /\ LastWrites(r) \subseteq DOMAIN q \cup {n}
    BY <1>1 DEF LastWrites
  <1>5. UNION {r[i].docs : i \in LastWrites(r)}
          = {d \in UNION {q[i].docs : i \in LastWrites(q)} : d.id # m.id} \cup m.docs
    <2>1. \A i \in LastWrites(q) : i \in DOMAIN q /\ \A d \in q[i].docs : d.id = q[i].id
      BY <1>1 DEF LastWrites, Mutation
    <2> QED BY <1>1, <1>3, <1>4, <2>1
  <1> QED BY <1>2, <1>5 DEF Overlay, Apply, r

\* A write that the server confirms moves from the queue to the cache, and the
\* device reads what it read before.
LEMMA OverlaySent ==
  ASSUME NEW base, NEW q \in Seq(Mutation), q # <<>>
  PROVE  Overlay(Apply(base, Head(q)), Tail(q)) = Overlay(base, q)
  <1> DEFINE h == Head(q)
             t == Tail(q)
  <1>1. /\ DOMAIN q = 1 .. Len(q) /\ Len(q) \in Nat /\ 1 \in DOMAIN q /\ h = q[1]
        /\ DOMAIN t = 1 .. Len(q) - 1
        /\ \A i \in DOMAIN t : t[i] = q[i + 1]
        /\ \A i \in DOMAIN q : q[i] \in Mutation
    <2> HIDE DEF Mutation
    <2> QED OBVIOUS
  <1> HIDE DEF h, t
  <1>2. \A i \in DOMAIN q : i # 1 => i - 1 \in DOMAIN t /\ t[i - 1] = q[i]
    BY <1>1
  <1>3. \A i \in DOMAIN q : \A d \in q[i].docs : d.id = q[i].id
    BY <1>1 DEF Mutation
  <1>4. \A id : Pending(q, id) <=> Pending(t, id) \/ id = h.id
    <2>1. \A i \in DOMAIN t : i + 1 \in DOMAIN q
      BY <1>1
    <2> QED BY <1>1, <1>2, <2>1 DEF Pending
  <1>5. ASSUME NEW i \in DOMAIN t
        PROVE  i \in LastWrites(t) <=> i + 1 \in LastWrites(q)
    <2>1. i \in Nat /\ i + 1 \in DOMAIN q /\ q[i + 1] = t[i]
      BY <1>1
    <2>2. \A j \in DOMAIN t : j > i => j + 1 \in DOMAIN q /\ j + 1 > i + 1 /\ q[j + 1] = t[j]
      BY <1>1
    <2>3. \A j \in DOMAIN q : j > i + 1 => j - 1 \in DOMAIN t /\ j - 1 > i /\ q[j] = t[j - 1]
      BY <1>1, <1>2
    <2> QED BY <2>1, <2>2, <2>3 DEF LastWrites
  <1>6. 1 \in LastWrites(q) <=> ~Pending(t, h.id)
    <2>1. \A j \in DOMAIN q : j > 1 => j - 1 \in DOMAIN t /\ q[j] = t[j - 1]
      BY <1>1, <1>2
    <2>2. \A j \in DOMAIN t : j + 1 \in DOMAIN q /\ j + 1 > 1 /\ q[j + 1] = t[j]
      BY <1>1
    <2> QED BY <1>1, <2>1, <2>2 DEF LastWrites, Pending
  <1>7. LastWrites(q) \subseteq DOMAIN q /\ LastWrites(t) \subseteq DOMAIN t
    BY DEF LastWrites
  <1> DEFINE L == UNION {q[i].docs : i \in LastWrites(q)}
             R == UNION {t[i].docs : i \in LastWrites(t)}
             H == {d \in h.docs : ~Pending(t, d.id)}
             B == {d \in base : ~Pending(q, d.id)}
  <1>8. L = R \cup H
    <2>1. ASSUME NEW d, NEW i \in LastWrites(q), d \in q[i].docs
          PROVE  \/ \E j \in LastWrites(t) : d \in t[j].docs
                 \/ d \in h.docs /\ ~Pending(t, d.id)
      <3>1. CASE i = 1
        BY <1>1, <1>3, <1>6, <2>1, <3>1
      <3>2. CASE i # 1
        <4>1. i - 1 \in DOMAIN t /\ t[i - 1] = q[i] /\ (i - 1) + 1 = i
          BY <1>1, <1>2, <1>7, <3>2
        <4> QED BY <1>5, <2>1, <4>1
      <3> QED BY <3>1, <3>2
    <2>2. ASSUME NEW d, NEW i \in LastWrites(t), d \in t[i].docs
          PROVE  \E j \in LastWrites(q) : d \in q[j].docs
      BY <1>1, <1>5, <1>7, <2>2
    <2>3. ASSUME NEW d \in h.docs, ~Pending(t, d.id)
          PROVE  \E j \in LastWrites(q) : d \in q[j].docs
      BY <1>1, <1>3, <1>6, <2>3
    <2>4. L \subseteq R \cup H
      BY <2>1
    <2>5. R \subseteq L /\ H \subseteq L
      BY <2>2, <2>3
    <2> HIDE DEF L, R, H
    <2> QED BY <2>4, <2>5
  <1>9. {d \in Apply(base, h) : ~Pending(t, d.id)} = B \cup H
    BY <1>4 DEF Apply
  <1>10. Overlay(Apply(base, h), t) = (B \cup H) \cup R
    <2> HIDE DEF B, H
    <2> QED BY <1>9 DEF Overlay
  <1>11. Overlay(base, q) = B \cup L
    BY DEF Overlay
  <1> HIDE DEF L, R, H, B
  <1> QED BY <1>8, <1>10, <1>11 DEF h, t

\* The futures of the writes have nothing to do with what is read.
LEMMA OverlayForgets ==
  ASSUME NEW base, NEW q \in Seq(Mutation)
  PROVE  Overlay(base, [i \in DOMAIN q |-> [q[i] EXCEPT !.waiter = {}]]) = Overlay(base, q)
  <1> DEFINE r == [i \in DOMAIN q |-> [q[i] EXCEPT !.waiter = {}]]
  <1>1. DOMAIN r = DOMAIN q /\ \A i \in DOMAIN q : r[i].id = q[i].id /\ r[i].docs = q[i].docs
    BY QueueType DEF Mutation
  <1> HIDE DEF r
  <1>2. LastWrites(r) = LastWrites(q) /\ \A id : Pending(r, id) <=> Pending(q, id)
    BY <1>1 DEF LastWrites, Pending
  <1>3. LastWrites(q) \subseteq DOMAIN q
    BY DEF LastWrites
  <1>4. UNION {r[i].docs : i \in LastWrites(r)} = UNION {q[i].docs : i \in LastWrites(q)}
    BY <1>1, <1>2, <1>3
  <1>5. Overlay(base, r) = Overlay(base, q)
    BY <1>2, <1>4 DEF Overlay
  <1> QED BY <1>5 DEF r

\* Nor has the answer of the server, while the device alone writes.
LEMMA OverlayAnswer ==
  ASSUME Agreement, NEW c \in Clients, NEW limit, NEW base \in Bases(c, limit)
  PROVE  Overlay(base, queue[c]) = View(c)
  <1>1. \/ base = cache[c]
        \/ \E ids : base = Refreshed(c, ids)
    BY DEF Bases
  <1>2. \A d \in base \cup cache[c] : ~Pending(queue[c], d.id) => (d \in base <=> d \in cache[c])
    BY <1>1 DEF Refreshed, Agreement
  <1> QED BY <1>2 DEF Overlay, View

----------------------------------------------------------------------------
(* What the app remembers of what it has read *)

\* Patient p has a document in docs; and one with the date of p, if p has one.
Has(docs, p) == \E d \in docs : d.id = p.id
Dates(docs, p) ==
  p.createdAt # NullDate => \E d \in docs : d.id = p.id /\ d.createdAt.at = p.createdAt.at

Writing(call) == call.stage \in {"writing", "written"}

\* A call registers a patient, or edits the one its form was opened with.
Stage(call) ==
  /\ call.stage \in {"idQuery", "idReady"} => call.widget = {}
  /\ ~Writing(call) => call.record = {}
  /\ \A r, t \in call.record : r = t

\* No copy of a patient has a date that snap does not have.
Remembered(docs, snap, list, shown, call) ==
  \A p \in ToSet(list) \cup shown \cup call.widget \cup call.record :
    Has(docs, p) /\ Dates(snap, p)

(***************************************************************************)
(* The dates in the list are those of the documents, but for the patient   *)
(* whose edit is under way.  Of several entries of one patient, which a    *)
(* load during a registration leaves, only the first can have a date, and  *)
(* that is the one an edit replaces.                                       *)
(***************************************************************************)
ListInStep(docs, list, call) ==
  /\ \A p \in ToSet(list) :
       \/ Dates(docs, p)
       \/ call.widget # {} /\ \E r \in call.record : r.id = p.id
  /\ \A i, j \in DOMAIN list :
       i < j /\ list[i].id = list[j].id => list[j].createdAt = NullDate

\* So are those of the patient written and, from the tap on "save" to the write
\* of a registration, of the patient on screen.
ScreenInStep(docs, shown, call) ==
  /\ \A r \in call.record : Dates(docs, r)
  /\ call.widget = {} /\ call.stage \in {"userName", "idQuery", "idReady"}
       => \A p \in shown : Dates(docs, p)

\* The number that generateId found is still the next one, and afterwards no
\* dated patient in the list has it.
NumberInStep(docs, list, call) ==
  /\ call.stage = "idReady" => \E page \in Pages(docs, 1) : call.id = {NextId(page)}
  /\ call.widget = {} => \A r \in call.record, p \in ToSet(list) :
                           p.id = r.id => p.createdAt = NullDate

Memory(docs, snap, list, shown, call, page) ==
  /\ Stage(call)
  /\ Remembered(docs, snap, list, shown, call)
  /\ \A d \in ToSet(page) : Has(docs, d)
  /\ ListInStep(docs, list, call)
  /\ ScreenInStep(docs, shown, call)
  /\ NumberInStep(docs, list, call)

(***************************************************************************)
(* The inductive invariant, with snap for what the device read after the   *)
(* last registration.  A registration needs that the number found before   *)
(* the await still follows the newest document after it, and an edit that  *)
(* the date it writes back is one that snap has.                           *)
(***************************************************************************)
SaveInv(c, s, snap) ==
  /\ TypeOK
  /\ Agreement
  /\ Numbering(View(c), snap, clock)
  /\ Memory(View(c), snap, patients[c], screen[c].patient, calls[c][s], loads[c].page)

----------------------------------------------------------------------------
(* What changes the memory, where the documents stay as they are *)

\* What an idle call holds.
LEMMA IdleCallFields ==
  IdleCall.stage = "idle" /\ IdleCall.widget = {} /\ IdleCall.record = {}
  BY DEF IdleCall

\* A call goes on: to the query, to its answer, to the end of its write.
LEMMA CallGoesOn ==
  ASSUME NEW docs, NEW snap, NEW list, NEW shown, NEW call, NEW page, NEW new,
         Memory(docs, snap, list, shown, call, page),
         new.widget = call.widget, new.record = call.record,
         \/ new.stage = call.stage /\ new.id = call.id
         \/ new.stage = "idQuery" /\ call.stage = "userName" /\ call.widget = {}
         \/ /\ new.stage = "idReady" /\ call.stage = "idQuery"
            /\ \E pg \in Pages(docs, 1) : new.id = {NextId(pg)}
         \/ new.stage = "written"
  PROVE  Memory(docs, snap, list, shown, new, page)
  <1>1. Stage(new)
    BY DEF Memory, Stage, Writing
  <1>2. Remembered(docs, snap, list, shown, new) /\ ListInStep(docs, list, new)
    BY DEF Memory, Remembered, ListInStep
  <1>3. ScreenInStep(docs, shown, new)
    BY DEF Memory, ScreenInStep
  <1>4. NumberInStep(docs, list, new)
    BY DEF Memory, NumberInStep
  <1> QED BY <1>1, <1>2, <1>3, <1>4 DEF Memory

\* A call that has not written anything ends.
LEMMA CallEnds ==
  ASSUME NEW docs, NEW snap, NEW list, NEW shown, NEW call, NEW page,
         Memory(docs, snap, list, shown, call, page), ~Writing(call)
  PROVE  Memory(docs, snap, list, shown, IdleCall, page)
  BY IdleCallFields
  DEF Memory, Stage, Remembered, ListInStep, ScreenInStep, NumberInStep, Writing

\* The patient on screen is the one that a save starts with.
LEMMA CallBegins ==
  ASSUME NEW docs, NEW snap, NEW list, NEW shown, NEW call, NEW page, NEW new,
         Memory(docs, snap, list, shown, call, page), call.stage = "idle",
         new.stage = "userName", new.widget = shown, new.record = {}
  PROVE  Memory(docs, snap, list, shown, new, page)
  BY DEF Memory, Stage, Remembered, ListInStep, ScreenInStep, NumberInStep, Writing

\* A patient of the list, or none, is shown.
LEMMA ScreenChanges ==
  ASSUME NEW docs, NEW snap, NEW list, NEW shown, NEW call, NEW page, NEW new,
         Memory(docs, snap, list, shown, call, page),
         new = {} \/ \E p \in ToSet(list) : new = {p}
  PROVE  Memory(docs, snap, list, new, call, page)
  <1>1. Remembered(docs, snap, list, new, call)
    BY DEF Memory, Remembered
  <1>2. ScreenInStep(docs, new, call)
    BY DEF Memory, Stage, ScreenInStep, ListInStep
  <1> QED BY <1>1, <1>2 DEF Memory

\* The answer of a load is read, and becomes the list.
LEMMA PageRead ==
  ASSUME NEW docs, NEW snap, NEW list, NEW shown, NEW call, NEW page, NEW new,
         Memory(docs, snap, list, shown, call, page),
         \A d \in ToSet(new) : Has(docs, d)
  PROVE  Memory(docs, snap, list, shown, call, new)
  BY DEF Memory

\* A list that was loaded holds undated copies.
LEMMA ListLoaded ==
  ASSUME NEW docs, NEW snap, NEW list, NEW shown, NEW call, NEW page, NEW new,
         Memory(docs, snap, list, shown, call, page),
         \A p \in ToSet(new) : Has(docs, p) /\ p.createdAt = NullDate
  PROVE  Memory(docs, snap, new, shown, call, page)
  <1>1. Remembered(docs, snap, new, shown, call)
    BY DEF Memory, Remembered, Dates
  <1>2. ListInStep(docs, new, call) /\ NumberInStep(docs, new, call)
    BY DEF Memory, ListInStep, NumberInStep, Dates, ToSet
  <1> QED BY <1>1, <1>2 DEF Memory

\* The app starts.
LEMMA MemoryEmpty ==
  ASSUME NEW docs, NEW snap
  PROVE  Memory(docs, snap, <<>>, {}, IdleCall, <<>>)
  BY IdleCallFields
  DEF Memory, Stage, Remembered, ListInStep, ScreenInStep, NumberInStep, Writing, ToSet

\* The patient registered is put in front of the list.
LEMMA ListGrows ==
  ASSUME NEW docs, NEW snap, NEW list \in Seq(Patient), NEW shown, NEW call, NEW page,
         Memory(docs, snap, list, shown, call, page),
         call.widget = {}, NEW p \in call.record, p \in Patient
  PROVE  Memory(docs, snap, <<p>> \o list, shown, IdleCall, page)
  <1> DEFINE new == <<p>> \o list
  <1>1. /\ DOMAIN list = 1 .. Len(list) /\ Len(list) \in Nat
        /\ DOMAIN new = 1 .. Len(list) + 1 /\ new[1] = p
        /\ \A i \in DOMAIN new : i # 1 => i - 1 \in DOMAIN list /\ new[i] = list[i - 1]
    <2> HIDE DEF Patient
    <2> QED OBVIOUS
  <1> HIDE DEF new
  <1>2. ToSet(new) \subseteq {p} \cup ToSet(list)
    BY <1>1 DEF ToSet
  <1>3. Remembered(docs, snap, new, shown, IdleCall)
    BY <1>2, IdleCallFields DEF Memory, Remembered
  <1>4. \A q \in ToSet(new) : Dates(docs, q)
    BY <1>2 DEF Memory, ListInStep, ScreenInStep
  <1>5. ASSUME NEW i \in DOMAIN new, NEW j \in DOMAIN new, i < j, new[i].id = new[j].id
        PROVE  new[j].createdAt = NullDate
    <2>1. j # 1 /\ j - 1 \in DOMAIN list /\ new[j] = list[j - 1]
      BY <1>1, <1>5
    <2>2. CASE i = 1
      BY <1>1, <1>5, <2>1, <2>2 DEF Memory, NumberInStep, ToSet
    <2>3. CASE i # 1
      BY <1>1, <1>5, <2>1, <2>3 DEF Memory, ListInStep
    <2> QED BY <2>2, <2>3
  <1>6. Memory(docs, snap, new, shown, IdleCall, page)
    BY <1>3, <1>4, <1>5, IdleCallFields
    DEF Memory, Stage, ListInStep, ScreenInStep, NumberInStep, Writing
  <1> QED BY <1>6 DEF new

\* The patient edited replaces the first entry with its number.
LEMMA ListUpdated ==
  ASSUME NEW docs, NEW snap, NEW list \in Seq(Patient), NEW shown, NEW call, NEW page,
         Memory(docs, snap, list, shown, call, page),
         NEW p \in call.record, NEW i \in DOMAIN list, list[i].id = p.id,
         \A j \in IndicesOf(list, p.id) : i <= j
  PROVE  Memory(docs, snap, [list EXCEPT ![i] = p], shown, IdleCall, page)
  <1> DEFINE new == [list EXCEPT ![i] = p]
  <1>1. /\ DOMAIN list \subseteq Nat /\ DOMAIN new = DOMAIN list /\ new[i] = p
        /\ \A j \in DOMAIN list : j # i => new[j] = list[j]
    <2> HIDE DEF Patient
    <2> QED OBVIOUS
  <1> HIDE DEF new
  <1>2. \A j \in DOMAIN list : list[j].id = p.id => i <= j
    BY DEF IndicesOf
  <1>3. \A q \in ToSet(new) : q = p \/ q \in ToSet(list)
    BY <1>1 DEF ToSet
  <1>4. Remembered(docs, snap, new, shown, IdleCall)
    BY <1>3, IdleCallFields DEF Memory, Remembered
  <1>5. ASSUME NEW j \in DOMAIN new PROVE Dates(docs, new[j])
    <2>1. CASE j = i
      BY <1>1, <2>1 DEF Memory, ScreenInStep
    <2>2. CASE j # i /\ list[j].id = p.id
      <3>1. i < j /\ new[j] = list[j]
        BY <1>1, <1>2, <2>2
      <3> QED BY <1>1, <2>2, <3>1 DEF Memory, ListInStep, Dates
    <2>3. CASE j # i /\ list[j].id # p.id
      <3>1. \A r \in call.record : r = p
        BY DEF Memory, Stage
      <3>2. new[j] = list[j] /\ list[j] \in ToSet(list)
        BY <1>1, <2>3 DEF ToSet
      <3> QED BY <2>3, <3>1, <3>2 DEF Memory, ListInStep
    <2> QED BY <2>1, <2>2, <2>3
  <1>6. ASSUME NEW a \in DOMAIN new, NEW b \in DOMAIN new, a < b, new[a].id = new[b].id
        PROVE  new[b].createdAt = NullDate
    <2>1. b # i
      BY <1>1, <1>2, <1>6
    <2>2. new[a].id = list[a].id /\ new[b] = list[b]
      BY <1>1, <2>1
    <2> QED BY <1>1, <1>6, <2>2 DEF Memory, ListInStep
  <1>7. Memory(docs, snap, new, shown, IdleCall, page)
    BY <1>4, <1>5, <1>6, IdleCallFields
    DEF Memory, Stage, ListInStep, ScreenInStep, NumberInStep, Writing, ToSet
  <1> QED BY <1>7 DEF new

\* The patient edited has left the list.
LEMMA NothingUpdated ==
  ASSUME NEW docs, NEW snap, NEW list, NEW shown, NEW call, NEW page,
         Memory(docs, snap, list, shown, call, page),
         NEW p \in call.record, IndicesOf(list, p.id) = {}
  PROVE  Memory(docs, snap, list, shown, IdleCall, page)
  <1>1. \A q \in ToSet(list) : q.id # p.id
    BY DEF ToSet, IndicesOf
  <1>2. \A r \in call.record : r = p
    BY DEF Memory, Stage
  <1> QED BY <1>1, <1>2, IdleCallFields
          DEF Memory, Stage, Remembered, ListInStep, ScreenInStep, NumberInStep, Writing

----------------------------------------------------------------------------
(* Registrations and edits *)

\* A patient in memory has a date, or no time.
LEMMA PatientDates ==
  ASSUME NEW p \in Patient
  PROVE  /\ p.id \in Nat \ {0}
         /\ p.createdAt = NullDate <=> p.createdAt.at = 0
         /\ toJson(p).createdAt = IF p.createdAt = NullDate THEN NullDate
                                  ELSE Timestamp(p.createdAt.at)
  BY DEF Patient, DateTimes, NullDate, toJson, Timestamp

\* All that is remembered has a type.
Typed(list, shown, call) ==
  /\ list \in Seq(Patient)
  /\ shown \subseteq Patient
  /\ call.widget \subseteq Patient
  /\ call.record \subseteq Patient

\* A date in step names a document with that very date.
LEMMA DatesFound ==
  ASSUME NEW docs \in SUBSET Doc, NEW p \in Patient, Dates(docs, p), p.createdAt # NullDate
  PROVE  \E d \in docs : d.id = p.id /\ d.createdAt = Timestamp(p.createdAt.at)
                         /\ d.createdAt # NullDate
  <1>1. PICK d \in docs : d.id = p.id /\ d.createdAt.at = p.createdAt.at
    BY DEF Dates
  <1>2. p.createdAt.at # 0
    BY PatientDates
  <1> QED BY <1>1, <1>2, DocDates

\* A registration is written with the number that generateId found before.
LEMMA MemoryRegisters ==
  ASSUME NEW docs, NEW snap, NEW n, Numbering(docs, snap, n),
         NEW list, NEW shown, NEW call, NEW page, Typed(list, shown, call),
         Memory(docs, snap, list, shown, call, page), call.stage = "idReady",
         NEW pg \in Pages(docs, 1), NEW c \in Clients, NEW f \in Forms, NEW new,
         new.stage = "writing", new.widget = call.widget,
         new.record = {newPatient(c, NextId(pg), f, n + 1)}
  PROVE  LET d == Put(docs, toJson(newPatient(c, NextId(pg), f, n + 1)))
         IN  Memory(d, d, list, shown, new, page)
  <1> DEFINE id == NextId(pg)
             p == newPatient(c, id, f, n + 1)
             d == Put(docs, toJson(p))
  <1>1. n \in Nat /\ docs \in SUBSET Doc
    BY DEF Numbering
  <1>2. id \in Nat \ {0} /\ \A e \in docs : e.createdAt # NullDate => e.id < id
    BY NextIdBeyondDated
  <1> HIDE DEF id
  <1>3. p \in Patient /\ p.id = id /\ p.createdAt = DateTime(n + 1)
    BY <1>1, <1>2, NewPatientType DEF newPatient
  <1> HIDE DEF p
  <1>4. toJson(p).id = p.id /\ toJson(p).createdAt.at = p.createdAt.at
    BY <1>3, ToJsonType
  <1>5. \A e \in docs : e.createdAt # NullDate => e \in d
    BY RegisterNumbering DEF p, id
  <1>6. \A q : Has(docs, q) => Has(d, q)
    BY <1>4 DEF Has, Put
  <1>7. Has(d, p) /\ Dates(d, p)
    BY <1>4 DEF Has, Dates, Put
  <1>8. ASSUME NEW q \in Patient, Dates(docs, q)
        PROVE  Dates(d, q) /\ (q.id = p.id => q.createdAt = NullDate)
    <2>1. CASE q.createdAt = NullDate
      BY <2>1 DEF Dates
    <2>2. CASE q.createdAt # NullDate
      <3>1. PICK e \in docs : /\ e.id = q.id /\ e.createdAt = Timestamp(q.createdAt.at)
                              /\ e.createdAt # NullDate
        BY <1>1, <1>8, <2>2, DatesFound
      <3>2. e \in d /\ e.id < id /\ e.id \in Nat
        BY <1>1, <1>2, <1>5, <3>1, DocDates
      <3> QED BY <1>2, <1>3, <3>1, <3>2 DEF Dates, Timestamp
    <2> QED BY <2>1, <2>2
  <1> HIDE DEF d
  <1>9. call.widget = {} /\ call.record = {} /\ new.record = {p}
    BY DEF Memory, Stage, Writing, p, id
  <1>10. \A q \in ToSet(list) \cup shown : q \in Patient /\ Dates(docs, q) /\ Has(docs, q)
    <2>1. \A q \in ToSet(list) : q \in Patient
      BY DEF Typed, ToSet
    <2> QED BY <1>9, <2>1 DEF Typed, Memory, Remembered, ListInStep, ScreenInStep
  <1>11. Remembered(d, d, list, shown, new)
    BY <1>6, <1>7, <1>8, <1>9, <1>10 DEF Remembered
  <1>12. ListInStep(d, list, new)
    BY <1>8, <1>10 DEF Memory, ListInStep
  <1>13. ScreenInStep(d, shown, new) /\ NumberInStep(d, list, new) /\ Stage(new)
    BY <1>7, <1>8, <1>9, <1>10 DEF ScreenInStep, NumberInStep, Stage, Writing
  <1>14. Memory(d, d, list, shown, new, page)
    BY <1>6, <1>11, <1>12, <1>13 DEF Memory
  <1> QED BY <1>14 DEF d, p, id

\* The write of an edit is a change of the registry, and the list may be out of
\* step until it is confirmed.
LEMMA MemoryChanges ==
  ASSUME NEW docs, NEW snap, NEW n, Numbering(docs, snap, n),
         NEW list, NEW shown, NEW call, NEW page, Typed(list, shown, call),
         Memory(docs, snap, list, shown, call, page), call.stage = "userName",
         NEW w \in call.widget, NEW f \in Forms, NEW new,
         new.stage = "writing", new.widget = call.widget,
         new.record = {updatedPatient(w, f)},
         \E c : Clients = {c}
  PROVE  LET j == toJson(updatedPatient(w, f))
         IN  /\ \E e \in docs, date \in Timestamps :
                  /\ date = NullDate \/ \E t \in snap : t.id = e.id /\ t.createdAt = date
                  /\ j = Edited(e, f, date)
             /\ Memory(Put(docs, j), snap, list, shown, new, page)
  <1> DEFINE p == updatedPatient(w, f)
             j == toJson(p)
             d == Put(docs, j)
  <1>1. docs \in SUBSET Doc /\ snap \in SUBSET Doc /\ w \in Patient
    BY DEF Numbering, Typed
  <1>2. p \in Patient /\ p.id = w.id /\ p.createdAt = w.createdAt /\ p.form = f
    BY <1>1, UpdatedPatientType DEF updatedPatient, fromMap
  <1>3. Has(docs, w) /\ Dates(snap, w)
    BY DEF Memory, Remembered
  <1>4. PICK e \in docs : e.id = w.id
    BY <1>3 DEF Has
  <1> HIDE DEF p
  <1>5. /\ j \in Doc /\ j.id = w.id /\ j.form = f /\ j.createdAt.at = p.createdAt.at
        /\ j.createdAt = IF w.createdAt = NullDate THEN NullDate
                         ELSE Timestamp(w.createdAt.at)
    BY <1>1, <1>2, ToJsonType, PatientDates DEF toJson, Patient
  <1> HIDE DEF j
  <1>6. j = Edited(e, f, j.createdAt)
    BY <1>1, <1>4, <1>5 DEF Doc, Edited
  <1>7. /\ j.createdAt = NullDate \/ \E t \in snap : t.id = e.id /\ t.createdAt = j.createdAt
        /\ j.createdAt \in Timestamps
    BY <1>1, <1>3, <1>4, <1>5, DatesFound DEF Doc
  <1>8. \A q : Has(docs, q) => Has(d, q)
    BY DEF Has, Put
  <1>9. \A q : q.id # j.id /\ Dates(docs, q) => Dates(d, q)
    BY DEF Dates, Put
  <1>10. j \in d
    BY DEF Put
  <1> HIDE DEF d
  <1>11. call.record = {} /\ new.record = {p} /\ call.widget # {}
    BY DEF Memory, Stage, Writing, p
  <1>12. Remembered(d, snap, list, shown, new)
    BY <1>2, <1>3, <1>8, <1>11 DEF Memory, Remembered, Has, Dates
  <1>13. ListInStep(d, list, new)
    BY <1>2, <1>5, <1>9, <1>11 DEF Memory, ListInStep
  <1>14. ScreenInStep(d, shown, new) /\ NumberInStep(d, list, new) /\ Stage(new)
    BY <1>2, <1>5, <1>10, <1>11 DEF ScreenInStep, NumberInStep, Stage, Writing, Dates
  <1>15. Memory(d, snap, list, shown, new, page)
    BY <1>8, <1>12, <1>13, <1>14 DEF Memory
  <1> QED BY <1>6, <1>7, <1>15 DEF d, j, p

----------------------------------------------------------------------------
(* The steps that leave the documents as they are *)

\* The device is the only one, and its call the only one.
LEMMA TheDevice ==
  ASSUME NEW c, NEW s, Alone(c, s)
  PROVE  c \in Clients /\ s \in Slots
  BY DEF Alone

\* What the invariant says of the device.
LEMMA Known ==
  ASSUME NEW c, NEW s, NEW snap, Alone(c, s), SaveInv(c, s, snap)
  PROVE  /\ TypeOK /\ Agreement
         /\ Numbering(View(c), snap, clock)
         /\ Memory(View(c), snap, patients[c], screen[c].patient, calls[c][s],
                   loads[c].page)
         /\ Typed(patients[c], screen[c].patient, calls[c][s])
         /\ calls[c][s] \in Call
         /\ queue[c] \in Seq(Mutation)
  <1>1. c \in Clients /\ s \in Slots
    BY TheDevice
  <1>2. TypeOK
    BY DEF SaveInv
  <1>3. calls[c][s] \in Call /\ queue[c] \in Seq(Mutation)
    BY <1>1, <1>2 DEF TypeOK
  <1>4. Typed(patients[c], screen[c].patient, calls[c][s])
    BY <1>1, <1>2 DEF TypeOK, Typed, Screen, Call
  <1> QED BY <1>3, <1>4 DEF SaveInv

\* A step that the user cannot see in the documents.
Quiet(c, s, snap) ==
  /\ View(c)' = View(c)
  /\ clock' = clock
  /\ Memory(View(c), snap, (patients[c])', (screen[c].patient)', (calls[c][s])',
            (loads[c].page)')

\* A call whose screen goes.
LEMMA UnmountedCall ==
  ASSUME TypeOK, NEW c \in Clients, NEW s \in Slots
  PROVE  /\ Unmounted(c)[s].widget = calls[c][s].widget
         /\ Unmounted(c)[s].record = calls[c][s].record
         /\ Unmounted(c)[s].id = calls[c][s].id
         /\ Unmounted(c)[s].stage = calls[c][s].stage
  <1>1. calls[c][s] \in Call
    BY DEF TypeOK
  <1> QED BY <1>1 DEF Unmounted, Call

\* A step of the user interface changes nothing that the registry has.
LEMMA ScreenStepQuiet ==
  ASSUME NEW c, NEW s, NEW snap, Alone(c, s), SaveInv(c, s, snap), ScreenStep(c)
  PROVE  Quiet(c, s, snap)
  <1> DEFINE Now(shown, call) ==
        Memory(View(c), snap, patients[c], shown, call, loads[c].page)
  <1>1. /\ c \in Clients /\ s \in Slots /\ TypeOK
        /\ queue[c] \in Seq(Mutation) /\ Now(screen[c].patient, calls[c][s])
    BY TheDevice, Known
  <1>2. \A new : new = {} \/ (\E p \in ToSet(patients[c]) : new = {p})
          => Now(new, calls[c][s])
    BY <1>1, ScreenChanges
  <1>3. Now({}, Unmounted(c)[s])
    BY <1>1, <1>2, CallGoesOn, UnmountedCall
  <1> HIDE DEF Now
  <1>4. CASE OpenAdd(c)
    <2>1. (screen[c].patient)' = {} /\ UNCHANGED <<cache, queue, patients, calls, loads, clock>>
      BY <1>1, <1>4 DEF OpenAdd, TypeOK, storeVars
    <2> QED BY <1>2, <2>1 DEF Quiet, Now, View
  <1>5. CASE OpenDetails(c)
    <2>1. /\ \E p \in ToSet(patients[c]) : (screen[c].patient)' = {p}
          /\ UNCHANGED <<cache, queue, patients, calls, loads, clock>>
      BY <1>1, <1>5 DEF OpenDetails, TypeOK, storeVars
    <2> QED BY <1>2, <2>1 DEF Quiet, Now, View
  <1>6. CASE EditPatient(c)
    <2>1. /\ (screen[c].patient)' = screen[c].patient
          /\ UNCHANGED <<cache, queue, patients, calls, loads, clock>>
      BY <1>1, <1>6 DEF EditPatient, TypeOK, Screen, storeVars
    <2> QED BY <1>1, <2>1 DEF Quiet, Now, View
  <1>7. CASE Back(c)
    <2>1. /\ (screen[c].patient)' = {} /\ (calls[c][s])' = Unmounted(c)[s]
          /\ UNCHANGED <<cache, queue, patients, loads, clock>>
      BY <1>1, <1>7 DEF Back, TypeOK, ListScreen, storeVars
    <2> QED BY <1>3, <2>1 DEF Quiet, Now, View
  <1>8. ~ConfirmDelete(c)
    BY <1>1 DEF ConfirmDelete, Alone
  <1> QED BY <1>4, <1>5, <1>6, <1>7, <1>8 DEF ScreenStep

\* A pop ends the call; the list is shown, or what was shown stays.
LEMMA PopFormEnds ==
  ASSUME TypeOK, NEW c \in Clients, NEW s \in Slots, PopForm(c, s)
  PROVE  /\ (calls[c][s])' = IdleCall
         /\ (screen[c].patient)' = {} \/ (screen[c].patient)' = screen[c].patient
  <1>1. CASE calls[c][s].mounted
    BY <1>1 DEF PopForm, TypeOK, ListScreen, Unmounted
  <1>2. CASE ~calls[c][s].mounted
    BY <1>2 DEF PopForm, EndCall, SetCall, TypeOK
  <1> QED BY <1>1, <1>2

\* The steps of a save before and after its write.
LEMMA CallQuiet ==
  ASSUME NEW c, NEW s, NEW snap, Alone(c, s), SaveInv(c, s, snap),
         \/ TapSave(c, s) \/ SaveAborted(c, s) \/ StartAdd(c, s)
         \/ ServeIdQuery(c, s) \/ IdQueryFails(c, s)
  PROVE  Quiet(c, s, snap)
  <1> DEFINE Now(call) ==
        Memory(View(c), snap, patients[c], screen[c].patient, call, loads[c].page)
             call == calls[c][s]
  <1>1. /\ c \in Clients /\ s \in Slots /\ TypeOK /\ Agreement /\ call \in Call
        /\ Now(call)
    BY TheDevice, Known
  <1>2. ~Writing(call) => Now(IdleCall)
    BY <1>1, CallEnds
  <1>3. \A new : /\ new.widget = call.widget /\ new.record = call.record
                 /\ \/ new.stage = "idQuery" /\ call.stage = "userName" /\ call.widget = {}
                    \/ /\ new.stage = "idReady" /\ call.stage = "idQuery"
                       /\ \E page \in Pages(View(c), 1) : new.id = {NextId(page)}
                 => Now(new)
    BY <1>1, CallGoesOn
  <1>4. \A new : /\ call.stage = "idle" /\ new.stage = "userName"
                 /\ new.widget = screen[c].patient /\ new.record = {}
                 => Now(new)
    BY <1>1, CallBegins
  <1> HIDE DEF Now
  <1>5. SUFFICES /\ View(c)' = View(c) /\ UNCHANGED <<clock, patients, screen, loads>>
                 /\ Now((calls[c][s])')
    BY <1>1 DEF Quiet, Now
  <1>6. CASE TapSave(c, s)
    <2> DEFINE new == [IdleCall EXCEPT !.stage = "userName", !.mounted = TRUE,
                                       !.widget = screen[c].patient]
    <2>1. new.stage = "userName" /\ new.widget = screen[c].patient /\ new.record = {}
      BY DEF IdleCall
    <2>2. (calls[c][s])' = new /\ call.stage = "idle"
      BY <1>1, <1>6 DEF TapSave, SetCall, TypeOK
    <2> HIDE DEF new
    <2> QED BY <1>4, <1>6, <2>1, <2>2 DEF TapSave, View, storeVars
  <1>7. CASE SaveAborted(c, s) \/ IdQueryFails(c, s)
    <2>1. (calls[c][s])' = IdleCall /\ ~Writing(call)
      BY <1>1, <1>7 DEF SaveAborted, IdQueryFails, EndCall, SetCall, TypeOK, Writing
    <2> QED BY <1>2, <1>7, <2>1 DEF SaveAborted, IdQueryFails, View, storeVars
  <1>8. CASE StartAdd(c, s)
    <2>1. PICK f \in Forms :
            SetCall(c, s, [call EXCEPT !.stage = "idQuery", !.form = f])
      BY <1>8 DEF StartAdd
    <2> DEFINE new == [call EXCEPT !.stage = "idQuery", !.form = f]
    <2>2. new.stage = "idQuery" /\ new.widget = call.widget /\ new.record = call.record
      BY <1>1 DEF Call
    <2>3. (calls[c][s])' = new
      BY <1>1, <2>1 DEF SetCall, TypeOK
    <2> HIDE DEF new
    <2> QED BY <1>3, <1>8, <2>2, <2>3 DEF StartAdd, View, storeVars
  <1>9. CASE ServeIdQuery(c, s)
    <2>1. PICK base \in Bases(c, 1) :
            /\ cache' = [cache EXCEPT ![c] = base]
            /\ \E page \in Pages(Overlay(base, queue[c]), 1) :
                 SetCall(c, s, [call EXCEPT !.stage = "idReady", !.id = {NextId(page)}])
      BY <1>9 DEF ServeIdQuery
    <2>2. Overlay(base, queue[c]) = View(c)
      BY <1>1, OverlayAnswer
    <2>3. PICK page \in Pages(View(c), 1) :
            SetCall(c, s, [call EXCEPT !.stage = "idReady", !.id = {NextId(page)}])
      BY <2>1, <2>2
    <2>4. View(c)' = View(c)
      BY <1>1, <1>9, <2>1, <2>2 DEF ServeIdQuery, View, TypeOK
    <2> DEFINE new == [call EXCEPT !.stage = "idReady", !.id = {NextId(page)}]
    <2>5. /\ new.stage = "idReady" /\ new.id = {NextId(page)}
          /\ new.widget = call.widget /\ new.record = call.record
      BY <1>1 DEF Call
    <2>6. (calls[c][s])' = new
      BY <1>1, <2>3 DEF SetCall, TypeOK
    <2> HIDE DEF new
    <2> QED BY <1>3, <1>9, <2>4, <2>5, <2>6 DEF ServeIdQuery
  <1> QED BY <1>6, <1>7, <1>8, <1>9

\* A save that ends changes the list, not the documents.
LEMMA FinishQuiet ==
  ASSUME NEW c, NEW s, NEW snap, Alone(c, s), SaveInv(c, s, snap),
         FinishAdd(c, s) \/ FinishUpdate(c, s) \/ UpdateFindsNothing(c, s)
  PROVE  Quiet(c, s, snap)
  <1> DEFINE call == calls[c][s]
             list == patients[c]
             shown == screen[c].patient
             page == loads[c].page
  <1>1. /\ c \in Clients /\ s \in Slots /\ TypeOK
        /\ Memory(View(c), snap, list, shown, call, page)
        /\ list \in Seq(Patient) /\ call.record \subseteq Patient
    BY TheDevice, Known DEF Typed
  <1>2. SUFFICES \E sh \in {shown, (screen[c].patient)'} :
                   /\ Memory(View(c), snap, (patients[c])', sh, IdleCall, page)
                   /\ (calls[c][s])' = IdleCall
                   /\ (screen[c].patient)' \in {sh, {}}
    <2>1. View(c)' = View(c) /\ clock' = clock /\ loads' = loads
      BY DEF FinishAdd, FinishUpdate, UpdateFindsNothing, View, storeVars
    <2>2. Memory(View(c), snap, (patients[c])', (screen[c].patient)', IdleCall, page)
      BY <1>2, ScreenChanges
    <2> QED BY <1>2, <2>1, <2>2 DEF Quiet
  <1>3. CASE FinishAdd(c, s)
    <2>1. PICK p \in call.record : patients' = [patients EXCEPT ![c] = <<p>> \o @]
      BY <1>3 DEF FinishAdd
    <2>2. (patients[c])' = <<p>> \o list
      BY <1>1, <2>1 DEF TypeOK
    <2>3. Memory(View(c), snap, <<p>> \o list, shown, IdleCall, page)
      BY <1>1, <1>3, ListGrows DEF FinishAdd
    <2> QED BY <1>1, <1>3, <2>2, <2>3, PopFormEnds DEF FinishAdd
  <1>4. CASE FinishUpdate(c, s)
    <2>1. PICK p \in call.record, i \in DOMAIN list :
            /\ i \in IndicesOf(list, p.id)
            /\ \A j \in IndicesOf(list, p.id) : i <= j
            /\ patients' = [patients EXCEPT ![c][i] = p]
      BY <1>4 DEF FinishUpdate
    <2>2. (patients[c])' = [list EXCEPT ![i] = p]
      BY <1>1, <2>1 DEF TypeOK
    <2>3. Memory(View(c), snap, [list EXCEPT ![i] = p], shown, IdleCall, page)
      BY <1>1, <2>1, ListUpdated DEF IndicesOf
    <2> QED BY <1>1, <1>4, <2>2, <2>3, PopFormEnds DEF FinishUpdate
  <1>5. CASE UpdateFindsNothing(c, s)
    <2>1. PICK p \in call.record : IndicesOf(list, p.id) = {}
      BY <1>5 DEF UpdateFindsNothing
    <2>2. Memory(View(c), snap, list, shown, IdleCall, page)
      BY <1>1, <2>1, NothingUpdated
    <2>3. (calls[c][s])' = IdleCall /\ UNCHANGED <<patients, screen>>
      BY <1>1, <1>5 DEF UpdateFindsNothing, EndCall, SetCall, TypeOK
    <2> QED BY <2>2, <2>3
  <1> QED BY <1>3, <1>4, <1>5

\* A load changes the cache, not what the device reads.
LEMMA LoadStepQuiet ==
  ASSUME NEW c, NEW s, NEW snap, Alone(c, s), SaveInv(c, s, snap), LoadStep(c)
  PROVE  Quiet(c, s, snap)
  <1> DEFINE Now(list, page) ==
        Memory(View(c), snap, list, screen[c].patient, calls[c][s], page)
  <1>1. /\ c \in Clients /\ s \in Slots /\ TypeOK /\ Agreement
        /\ Numbering(View(c), snap, clock) /\ Now(patients[c], loads[c].page)
    BY TheDevice, Known
  <1>2. \A list, page : /\ \A d \in ToSet(page) : Has(View(c), d)
                        /\ \/ list = patients[c]
                           \/ \A p \in ToSet(list) : Has(View(c), p) /\ p.createdAt = NullDate
          => Now(list, page)
    BY <1>1, PageRead, ListLoaded
  <1>3. IdleLoad.page = <<>> /\ ToSet(<<>>) = {}
    BY DEF IdleLoad, ToSet
  <1>4. \A d \in ToSet(loads[c].page) : Has(View(c), d)
    BY <1>1 DEF Memory
  <1> HIDE DEF Now
  <1>5. CASE ServeLoad(c)
    <2>1. PICK base \in Bases(c, PageSize) :
            /\ cache' = [cache EXCEPT ![c] = base]
            /\ \E page \in Pages(Overlay(base, queue[c]), PageSize) :
                 loads' = [loads EXCEPT ![c] = [stage |-> "ready", page |-> page]]
      BY <1>5 DEF ServeLoad
    <2>2. Overlay(base, queue[c]) = View(c)
      BY <1>1, OverlayAnswer
    <2>3. PICK page \in Pages(View(c), PageSize) :
            loads' = [loads EXCEPT ![c] = [stage |-> "ready", page |-> page]]
      BY <2>1, <2>2
    <2>4. ToSet(page) \subseteq View(c)
      BY PageSizeAssumption, PagesType
    <2>5. (loads[c].page)' = page
      BY <1>1, <2>3 DEF TypeOK
    <2>6. View(c)' = View(c)
      BY <1>1, <1>5, <2>1, <2>2 DEF ServeLoad, View, TypeOK
    <2>7. Now(patients[c], page)
      BY <1>2, <2>4 DEF Has
    <2> QED BY <1>5, <2>5, <2>6, <2>7 DEF ServeLoad, Quiet, Now
  <1>6. CASE FinishLoad(c)
    <2> DEFINE page == loads[c].page
               new == [i \in DOMAIN page |-> fromMap(page[i])]
    <2>1. (patients[c])' = new /\ (loads[c].page)' = <<>>
      BY <1>1, <1>3, <1>6 DEF FinishLoad, TypeOK
    <2>2. ASSUME NEW p \in ToSet(new)
          PROVE  Has(View(c), p) /\ p.createdAt = NullDate
      <3>1. PICK i \in DOMAIN page : p = fromMap(page[i])
        BY DEF ToSet
      <3>2. page[i] \in Doc /\ Has(View(c), page[i])
        BY <1>1, <1>4 DEF TypeOK, Load, ToSet
      <3>3. p.id = page[i].id /\ p.createdAt = NullDate
        BY <3>1, <3>2 DEF fromMap, TryParse, Doc, Timestamps, NullDate, Timestamp
      <3> QED BY <3>2, <3>3 DEF Has
    <2> HIDE DEF new
    <2>3. Now(new, <<>>)
      BY <1>2, <1>3, <2>2
    <2> QED BY <1>6, <2>1, <2>3 DEF FinishLoad, Quiet, Now, View, storeVars
  <1>7. CASE LoadFails(c)
    <2>1. (loads[c].page)' = <<>>
      BY <1>1, <1>3, <1>7 DEF LoadFails, TypeOK
    <2>2. Now(patients[c], <<>>)
      BY <1>2, <1>3
    <2> QED BY <1>7, <2>1, <2>2 DEF LoadFails, Quiet, Now, View, storeVars
  <1> QED BY <1>5, <1>6, <1>7 DEF LoadStep

\* A confirmed write moves from the queue to the cache and the server.
LEMMA WriteStepQuiet ==
  ASSUME NEW c, NEW s, NEW snap, Alone(c, s), SaveInv(c, s, snap), WriteStep(c)
  PROVE  Quiet(c, s, snap)
  <1> DEFINE Now(call) ==
        Memory(View(c), snap, patients[c], screen[c].patient, call, loads[c].page)
             call == calls[c][s]
  <1>1. /\ c \in Clients /\ s \in Slots /\ TypeOK /\ call \in Call /\ Now(call)
        /\ queue[c] \in Seq(Mutation)
    BY TheDevice, Known
  <1>2. \A new : /\ new.widget = call.widget /\ new.record = call.record
                 /\ new.stage = "written"
                 => Now(new)
    BY <1>1, CallGoesOn
  <1> HIDE DEF Now
  <1>3. WriteAcknowledged(c)
    BY DEF WriteStep, WriteRejected, Reject, Alone
  <1>4. /\ queue[c] # <<>>
        /\ (cache[c])' = Apply(cache[c], Head(queue[c]))
        /\ (queue[c])' = Tail(queue[c])
    BY <1>1, <1>3 DEF WriteAcknowledged, Acknowledge, TypeOK
  <1>5. View(c)' = View(c)
    BY <1>1, <1>4, OverlaySent DEF View
  <1>6. (calls[c][s])' \in {call, [call EXCEPT !.stage = "written"]}
    BY <1>1, <1>3 DEF WriteAcknowledged, CompleteWrite, TypeOK
  <1>7. Now((calls[c][s])')
    BY <1>1, <1>2, <1>6 DEF Call
  <1> QED BY <1>3, <1>5, <1>7 DEF WriteAcknowledged, Quiet, Now

\* The connection changes nothing that the device reads.
LEMMA NetworkQuiet ==
  ASSUME NEW c, NEW s, NEW snap, Alone(c, s), SaveInv(c, s, snap), Network(c)
  PROVE  Quiet(c, s, snap) /\ Agreement'
  <1>1. /\ c \in Clients /\ Clients = {c} /\ TypeOK /\ Agreement
        /\ Memory(View(c), snap, patients[c], screen[c].patient, calls[c][s],
                  loads[c].page)
    BY TheDevice, Known DEF Alone
  <1>2. UNCHANGED <<cache, queue>>
    BY DEF Network, Disconnect, Reconnect, AcknowledgementLost
  <1>3. UNCHANGED appVars
    BY DEF Network
  <1>4. Quiet(c, s, snap)
    BY <1>1, <1>2, <1>3 DEF Quiet, View, appVars
  <1>5. CASE Disconnect(c) \/ Reconnect(c)
    <2>1. server' = server
      BY <1>5 DEF Disconnect, Reconnect
    <2> QED BY <1>1, <1>2, <1>4, <2>1 DEF Agreement
  <1>6. CASE AcknowledgementLost(c)
    BY <1>1, <1>4, <1>6, LossAgrees
  <1> QED BY <1>4, <1>5, <1>6 DEF Network

\* A restart or a new sign-in keeps cache and queue.
LEMMA VisitQuiet ==
  ASSUME NEW c, NEW s, NEW snap, Alone(c, s), SaveInv(c, s, snap), SignInAgain(c) \/ Restart(c)
  PROVE  Quiet(c, s, snap)
  <1>1. /\ c \in Clients /\ s \in Slots /\ TypeOK /\ queue[c] \in Seq(Mutation)
        /\ Memory(View(c), snap, patients[c], screen[c].patient, calls[c][s],
                  loads[c].page)
    BY TheDevice, Known
  <1>2. AskedLoad.page = <<>> /\ ListScreen.patient = {}
    BY DEF AskedLoad, ListScreen
  <1>3. CASE SignInAgain(c)
    <2>1. /\ (loads[c].page)' = <<>>
          /\ UNCHANGED <<cache, queue, patients, screen, calls, clock>>
      BY <1>1, <1>2, <1>3 DEF SignInAgain, TypeOK, storeVars
    <2>2. Memory(View(c), snap, patients[c], screen[c].patient, calls[c][s], <<>>)
      BY <1>1, PageRead DEF ToSet
    <2> QED BY <2>1, <2>2 DEF Quiet, View
  <1>4. CASE Restart(c)
    <2>1. /\ (patients[c])' = <<>> /\ (screen[c].patient)' = {}
          /\ (calls[c][s])' = IdleCall /\ (loads[c].page)' = <<>>
          /\ UNCHANGED <<cache, clock>>
      BY <1>1, <1>2, <1>4 DEF Restart, TypeOK
    <2>2. (queue[c])' = [i \in DOMAIN queue[c] |-> [queue[c][i] EXCEPT !.waiter = {}]]
      BY <1>1, <1>4, Zenon DEF Restart, ForgetWaiters, TypeOK
    <2>3. View(c)' = View(c)
      BY <1>1, <2>1, <2>2, OverlayForgets DEF View
    <2> QED BY <2>1, <2>3, MemoryEmpty DEF Quiet
  <1> QED BY <1>3, <1>4

----------------------------------------------------------------------------
(* The two writes, and the invariant *)

\* Calling set() takes effect at once in what the device reads.
LEMMA WriteRead ==
  ASSUME NEW c \in Clients, NEW s \in Slots, TypeOK, NEW d \in Doc,
         Enqueue(c, Set(d, s)), cache' = cache
  PROVE  View(c)' = Put(View(c), d)
  <1>1. queue[c] \in Seq(Mutation) /\ Set(d, s) \in Mutation
    BY MutationType DEF TypeOK, Doc
  <1>2. (queue[c])' = Append(queue[c], Set(d, s))
    BY DEF Enqueue, TypeOK
  <1>3. View(c)' = Apply(View(c), Set(d, s))
    BY <1>1, <1>2, OverlayAppend DEF View
  <1> QED BY <1>3 DEF Apply, Set, Put

\* The number is used that generateId makes of the documents as they are now.
Registers(c, s) ==
  /\ clock' = clock + 1
  /\ \E f \in Forms, page \in Pages(View(c), 1) :
       View(c)' = Put(View(c), toJson(newPatient(c, NextId(page), f, clock + 1)))
  /\ Memory(View(c)', View(c)', (patients[c])', (screen[c].patient)', (calls[c][s])',
            (loads[c].page)')

\* A document gets a new form; its date is erased or one of snap.
Changes(c, s, snap) ==
  /\ clock' = clock
  /\ \E d \in View(c), f \in Forms, date \in Timestamps :
       /\ date = NullDate \/ \E e \in snap : e.id = d.id /\ e.createdAt = date
       /\ View(c)' = Put(View(c), Edited(d, f, date))
  /\ Memory(View(c)', snap, (patients[c])', (screen[c].patient)', (calls[c][s])',
            (loads[c].page)')

\* The write of addPatient is the step Register.
LEMMA AddWriteRegisters ==
  ASSUME NEW c, NEW s, NEW snap, Alone(c, s), SaveInv(c, s, snap), AddWrite(c, s)
  PROVE  Registers(c, s)
  <1> DEFINE call == calls[c][s]
             f == calls[c][s].form
  <1>1. /\ c \in Clients /\ s \in Slots /\ TypeOK /\ call \in Call
        /\ Numbering(View(c), snap, clock)
        /\ Typed(patients[c], screen[c].patient, call)
        /\ Memory(View(c), snap, patients[c], screen[c].patient, call, loads[c].page)
    BY TheDevice, Known
  <1>2. call.stage = "idReady" /\ f \in Forms /\ clock \in Nat
    BY <1>1 DEF AddWrite, Call, TypeOK
  <1>3. PICK page \in Pages(View(c), 1) : call.id = {NextId(page)}
    BY <1>1, <1>2 DEF Memory, NumberInStep
  <1> DEFINE p == newPatient(c, NextId(page), f, clock + 1)
             new == [call EXCEPT !.stage = "writing", !.record = {p}]
  <1>4. SetCall(c, s, new) /\ Enqueue(c, Set(toJson(p), s))
    BY <1>3 DEF AddWrite
  <1>5. NextId(page) \in Nat \ {0}
    BY <1>1, NextIdBeyondDated
  <1>6. p \in Patient /\ toJson(p) \in Doc
    BY <1>1, <1>2, <1>5, NewPatientType, ToJsonType
  <1>7. new.stage = "writing" /\ new.widget = call.widget /\ new.record = {p}
    BY <1>1 DEF Call
  <1>8. (calls[c][s])' = new
    BY <1>1, <1>4 DEF SetCall, TypeOK
  <1> HIDE DEF new
  <1>9. UNCHANGED <<cache, patients, screen, loads>> /\ clock' = clock + 1
    BY DEF AddWrite
  <1>10. View(c)' = Put(View(c), toJson(p))
    BY <1>1, <1>4, <1>6, <1>9, WriteRead
  <1>11. Memory(Put(View(c), toJson(p)), Put(View(c), toJson(p)), patients[c],
                screen[c].patient, new, loads[c].page)
    BY <1>1, <1>2, <1>7, MemoryRegisters
  <1> QED BY <1>2, <1>8, <1>9, <1>10, <1>11 DEF Registers

\* The write of updatePatient is the step Change.
LEMMA StartUpdateChanges ==
  ASSUME NEW c, NEW s, NEW snap, Alone(c, s), SaveInv(c, s, snap), StartUpdate(c, s)
  PROVE  Changes(c, s, snap)
  <1> DEFINE call == calls[c][s]
  <1>1. /\ c \in Clients /\ s \in Slots /\ TypeOK /\ call \in Call
        /\ Numbering(View(c), snap, clock)
        /\ Typed(patients[c], screen[c].patient, call)
        /\ Memory(View(c), snap, patients[c], screen[c].patient, call, loads[c].page)
    BY TheDevice, Known
  <1>2. PICK w \in call.widget, f \in Forms :
          LET p == updatedPatient(w, f)
          IN  /\ SetCall(c, s, [call EXCEPT !.stage = "writing", !.form = f, !.record = {p}])
              /\ Enqueue(c, Set(toJson(p), s))
    BY DEF StartUpdate
  <1> DEFINE p == updatedPatient(w, f)
             j == toJson(p)
             new == [call EXCEPT !.stage = "writing", !.form = f, !.record = {p}]
  <1>3. j \in Doc
    BY <1>1, UpdatedPatientType, ToJsonType DEF Typed
  <1>4. new.stage = "writing" /\ new.widget = call.widget /\ new.record = {p}
    BY <1>1 DEF Call
  <1>5. (calls[c][s])' = new
    BY <1>1, <1>2 DEF SetCall, TypeOK
  <1> HIDE DEF new
  <1>6. UNCHANGED <<cache, patients, screen, loads, clock>> /\ call.stage = "userName"
    BY DEF StartUpdate
  <1>7. View(c)' = Put(View(c), j)
    BY <1>1, <1>2, <1>3, <1>6, WriteRead
  <1>8. /\ \E e \in View(c), date \in Timestamps :
             /\ date = NullDate \/ \E t \in snap : t.id = e.id /\ t.createdAt = date
             /\ j = Edited(e, f, date)
        /\ Memory(Put(View(c), j), snap, patients[c], screen[c].patient, new,
                  loads[c].page)
    <2>1. \E d : Clients = {d}
      BY DEF Alone
    <2> QED BY <1>1, <1>4, <1>6, <2>1, MemoryChanges
  <1> HIDE DEF j
  <1>9. PICK e \in View(c), date \in Timestamps :
          /\ date = NullDate \/ \E t \in snap : t.id = e.id /\ t.createdAt = date
          /\ j = Edited(e, f, date)
    BY <1>8
  <1>10. \E d \in View(c), g \in Forms, at \in Timestamps :
           /\ at = NullDate \/ \E t \in snap : t.id = d.id /\ t.createdAt = at
           /\ View(c)' = Put(View(c), Edited(d, g, at))
    BY <1>7, <1>9
  <1> QED BY <1>5, <1>6, <1>7, <1>8, <1>10 DEF Changes

\* Every step writes a registration, writes an edit, or is quiet.
LEMMA StepKinds ==
  ASSUME NEW c, NEW s, NEW snap, Alone(c, s), SaveInv(c, s, snap), Next
  PROVE  /\ TypeOK' /\ Agreement'
         /\ Quiet(c, s, snap) \/ Registers(c, s) \/ Changes(c, s, snap)
  <1>1. c \in Clients /\ Clients = {c} /\ s \in Slots /\ Slots = {s}
        /\ TypeOK /\ Agreement
    BY TheDevice, Known DEF Alone
  <1>2. \/ ScreenStep(c) \/ TapSave(c, s) \/ SaveStep(c, s) \/ LoadStep(c)
        \/ WriteStep(c) \/ Network(c) \/ SignInAgain(c) \/ Restart(c)
    BY <1>1 DEF Next
  <1>3. CASE ScreenStep(c)
    BY <1>1, <1>3, ScreenStepQuiet, ScreenStepType, AppAgrees
  <1>4. CASE TapSave(c, s) \/ SaveStep(c, s)
    <2>1. TypeOK' /\ Agreement'
      BY <1>1, <1>4, SaveStepType, AppAgrees
    <2>2. CASE StartUpdate(c, s)
      BY <2>1, <2>2, StartUpdateChanges
    <2>3. CASE AddWrite(c, s)
      BY <2>1, <2>3, AddWriteRegisters
    <2>4. CASE FinishAdd(c, s) \/ FinishUpdate(c, s) \/ UpdateFindsNothing(c, s)
      BY <2>1, <2>4, FinishQuiet
    <2>5. CASE \/ TapSave(c, s) \/ SaveAborted(c, s) \/ StartAdd(c, s)
               \/ ServeIdQuery(c, s) \/ IdQueryFails(c, s)
      BY <2>1, <2>5, CallQuiet
    <2> QED BY <1>4, <2>2, <2>3, <2>4, <2>5 DEF SaveStep
  <1>5. CASE LoadStep(c)
    BY <1>1, <1>5, LoadStepQuiet, LoadStepType, AppAgrees
  <1>6. CASE WriteStep(c)
    <2>1. Acknowledge(c)
      BY <1>6 DEF WriteStep, WriteAcknowledged, WriteRejected, Reject, Alone
    <2> QED BY <1>1, <1>6, <2>1, WriteStepQuiet, WriteStepType, WriteAgrees
  <1>7. CASE Network(c)
    BY <1>1, <1>7, NetworkQuiet, NetworkType
  <1>8. CASE SignInAgain(c) \/ Restart(c)
    BY <1>1, <1>8, VisitQuiet, RestartType, AppAgrees
  <1> QED BY <1>2, <1>3, <1>4, <1>5, <1>6, <1>7, <1>8

\* The documents stay numbered in order; after a registration they are what the
\* dates that an edit may write back come from.
LEMMA NumberingKept ==
  ASSUME NEW c, NEW s, NEW snap, Alone(c, s), SaveInv(c, s, snap)
  PROVE  /\ Quiet(c, s, snap) => Numbering(View(c)', snap, clock')
         /\ Registers(c, s) => Numbering(View(c)', View(c)', clock')
         /\ Changes(c, s, snap) => Numbering(View(c)', snap, clock')
  <1>1. Numbering(View(c), snap, clock) /\ c \in Clients
    BY TheDevice, Known
  <1>2. ASSUME Registers(c, s) PROVE Numbering(View(c)', View(c)', clock')
    <2>1. PICK f \in Forms, page \in Pages(View(c), 1) :
            View(c)' = Put(View(c), toJson(newPatient(c, NextId(page), f, clock + 1)))
      BY <1>2 DEF Registers
    <2>2. clock' = clock + 1
      BY <1>2 DEF Registers
    <2> QED BY <1>1, <2>1, <2>2, RegisterNumbering
  <1>3. ASSUME Changes(c, s, snap) PROVE Numbering(View(c)', snap, clock')
    <2>1. PICK d \in View(c), f \in Forms, date \in Timestamps :
            /\ date = NullDate \/ \E e \in snap : e.id = d.id /\ e.createdAt = date
            /\ View(c)' = Put(View(c), Edited(d, f, date))
      BY <1>3 DEF Changes
    <2>2. \/ date = NullDate
          \/ \E e \in View(c) \cup snap : e.id = d.id /\ e.createdAt = date
      BY <2>1
    <2>3. clock' = clock
      BY <1>3 DEF Changes
    <2> QED BY <1>1, <2>1, <2>2, <2>3, ChangeNumbering
  <1> QED BY <1>1, <1>2, <1>3 DEF Quiet

\* A registration leaves a document that has a date as it is.
LEMMA RegistersReplacesNone ==
  ASSUME NEW c, NEW s, NEW snap, Alone(c, s), SaveInv(c, s, snap), Registers(c, s),
         NEW d \in View(c), NEW e \in View(c)', d.id = e.id, d.createdAt # NullDate
  PROVE  d = e
  <1>1. Numbering(View(c), snap, clock) /\ c \in Clients
    BY TheDevice, Known
  <1>2. PICK f \in Forms, page \in Pages(View(c), 1) :
          View(c)' = Put(View(c), toJson(newPatient(c, NextId(page), f, clock + 1)))
    BY DEF Registers
  <1>3. Numbering(View(c)', View(c)', clock + 1) /\ d \in View(c)'
    BY <1>1, <1>2, RegisterNumbering
  <1> QED BY <1>3 DEF Numbering

\* Whoever has a document keeps one.
LEMMA DocumentsStay ==
  ASSUME NEW c, NEW s, NEW snap, NEW p, Has(View(c), p),
         Quiet(c, s, snap) \/ Registers(c, s) \/ Changes(c, s, snap)
  PROVE  Has(View(c)', p)
  <1>1. \A docs, d : Has(docs, p) => Has(Put(docs, d), p)
    BY DEF Has, Put
  <1> QED BY <1>1 DEF Quiet, Registers, Changes

\* At first there is nothing to number or to remember.
LEMMA SavesStart ==
  ASSUME NEW c, NEW s, Alone(c, s), Init
  PROVE  SaveInv(c, s, {}) /\ View(c) = {}
  <1>1. c \in Clients /\ s \in Slots /\ TypeOK
    BY TheDevice, InitType
  <1>2. View(c) = {}
    <2>1. cache[c] = {} /\ queue[c] = <<>>
      BY <1>1 DEF Init, StoreInit
    <2> QED BY <2>1 DEF View, Overlay, LastWrites
  <1>3. Agreement /\ clock = 0
    BY DEF Init, StoreInit, Agreement
  <1>4. Numbering({}, {}, 0)
    BY DEF Numbering, InOrder, DatedFrom
  <1>5. /\ patients[c] = <<>> /\ screen[c].patient = {} /\ calls[c][s] = IdleCall
        /\ loads[c].page = <<>>
    BY <1>1 DEF Init, ListScreen, AskedLoad
  <1> QED BY <1>1, <1>2, <1>3, <1>4, <1>5, MemoryEmpty DEF SaveInv
=============================================================================
