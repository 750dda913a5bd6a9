------------------------ MODULE StaffProviderProofs ------------------------
(***************************************************************************)
(* The staff screens keep their types, an update writes the form it was    *)
(* saved from, and nobody in the list of doctors is a ghost: proofs for    *)
(* any number of devices, saves in flight and loads in flight.  On one     *)
(* device that saves one form at a time a registration replaces no doctor  *)
(* whose document has a date, however many loads are in flight.            *)
(***************************************************************************)
EXTENDS StaffProvider, SequenceTheorems, WellFoundedInduction, TLAPS

\* The writes of the staff screens: no doctor is ever deleted.
Writes == {m \in Registry!Mutation : m.docs # {}}

Types ==
  /\ TypeOK
  /\ cache \in [Clients -> SUBSET Registry!Doc]
  /\ queue \in [Clients -> Seq(Writes)]
  /\ screen \in [Clients -> Registry!Screen]
  /\ clock \in Nat

Numbers(docs) == {d.id : d \in docs}

Queued(q) == {q[i].id : i \in DOMAIN q}

(***************************************************************************)
(* The numbers that what the app holds may have: those of the doctors that *)
(* are cached or whose write is queued.  Where the server refuses writes a *)
(* doctor in the list can lose its document, and any number will do.       *)
(***************************************************************************)
Allowed(c) ==
  IF MayReject THEN Nat \ {0} ELSE Numbers(cache[c]) \cup Queued(queue[c])

(***************************************************************************)
(* The doctors that a list, a screen, the calls and the loads of a device  *)
(* hold all have numbers in ids.                                           *)
(***************************************************************************)
CallHolds(call) == Numbers(call.widget \cup call.record)
PageHolds(load) == Numbers(Registry!ToSet(load.page))

Covered(list, shown, cs, ls, ids) ==
  /\ Numbers(Registry!ToSet(list)) \subseteq ids
  /\ Numbers(shown.patient) \subseteq ids
  /\ \A s \in Slots : CallHolds(cs[s]) \subseteq ids
  /\ \A l \in Loads : PageHolds(ls[l]) \subseteq ids

(***************************************************************************)
(* The inductive invariant: whatever the app holds can be read, unless a   *)
(* write was refused, and what is cached the server has, so that an answer *)
(* takes nothing away.                                                     *)
(***************************************************************************)
Exist ==
  \A c \in Clients :
    /\ Numbers(cache[c]) \subseteq Numbers(server)
    /\ Covered(doctors[c], screen[c], calls[c], loads[c], Allowed(c))

IInv == Types /\ Exist

----------------------------------------------------------------------------
(* The store *)

\* What queues of writes are made of.
LEMMA QueueOfWrites ==
  ASSUME NEW q \in Seq(Writes)
  PROVE  /\ DOMAIN q = 1 .. Len(q) /\ Len(q) \in Nat
         /\ \A i \in DOMAIN q : q[i] \in Writes
         /\ \A m \in Writes : Append(q, m) \in Seq(Writes)
         /\ q # <<>> => Head(q) \in Writes /\ Tail(q) \in Seq(Writes)
  <1> HIDE DEF Writes
  <1> QED OBVIOUS

\* A write sets one document, and has its number.
LEMMA WriteSets ==
  ASSUME NEW m \in Writes
  PROVE  /\ \E d \in m.docs : d.id = m.id
         /\ \A d \in m.docs : d.id = m.id /\ d \in Registry!Doc
  BY DEF Writes, Registry!Mutation

\* Of the queued writes of one number there is a last one.
LEMMA LastWrite ==
  ASSUME NEW q \in Seq(Writes), NEW id \in Queued(q)
  PROVE  \E i \in Registry!LastWrites(q) : q[i].id = id
  <1>1. DOMAIN q = 1 .. Len(q) /\ Len(q) \in Nat
    BY QueueOfWrites
  <1> DEFINE T == {n \in Nat : \E i \in DOMAIN q : q[i].id = id /\ n = Len(q) - i}
  <1>2. PICK k \in DOMAIN q : q[k].id = id
    BY DEF Queued
  <1>3. Len(q) - k \in T
    BY <1>1, <1>2
  <1>4. PICK n \in T : \A m \in T : ~(<<m, n>> \in OpToRel(<, Nat))
    <2>1. T \subseteq Nat /\ T # {}
      BY <1>3
    <2> HIDE DEF T
    <2> QED BY <2>1, NatLessThanWellFounded, WFMin
  <1>5. \A m \in T : ~(m < n)
    BY <1>4 DEF OpToRel
  <1>6. PICK i \in DOMAIN q : q[i].id = id /\ n = Len(q) - i
    OBVIOUS
  <1>7. ASSUME NEW j \in DOMAIN q, j > i PROVE q[j].id # id
    <2>1. Len(q) - j \in Nat /\ Len(q) - j < n
      BY <1>1, <1>6, <1>7
    <2> QED BY <1>5, <2>1
  <1> QED BY <1>6, <1>7 DEF Registry!LastWrites

\* A query finds every cached document and every queued write, and nothing else.
LEMMA OverlayFinds ==
  ASSUME NEW base \in SUBSET Registry!Doc, NEW q \in Seq(Writes)
  PROVE  /\ Registry!Overlay(base, q) \in SUBSET Registry!Doc
         /\ Numbers(Registry!Overlay(base, q)) = Numbers(base) \cup Queued(q)
  <1> DEFINE Docs == Registry!Overlay(base, q)
  <1>1. ASSUME NEW id \in Queued(q) PROVE \E d \in Docs : d.id = id
    <2>1. PICK i \in Registry!LastWrites(q) : q[i].id = id
      BY LastWrite
    <2>2. q[i] \in Writes
      BY QueueOfWrites DEF Registry!LastWrites
    <2> QED BY <2>1, <2>2, WriteSets DEF Registry!Overlay
  <1>2. ASSUME NEW d \in base, d.id \notin Queued(q) PROVE d \in Docs
    BY <1>2 DEF Registry!Overlay, Registry!Pending, Queued
  <1>3. ASSUME NEW d \in Docs PROVE d \in Registry!Doc /\ (d \in base \/ d.id \in Queued(q))
    <2>1. CASE d \in base
      BY <2>1
    <2>2. CASE d \notin base
      <3>1. PICK i \in DOMAIN q : d \in q[i].docs
        BY <2>2 DEF Registry!Overlay, Registry!LastWrites
      <3>2. d.id = q[i].id /\ d \in Registry!Doc
        BY <3>1, QueueOfWrites, WriteSets
      <3> QED BY <3>1, <3>2 DEF Queued
    <2> QED BY <2>1, <2>2
  <1> HIDE DEF Docs
  <1>4. Numbers(Docs) = Numbers(base) \cup Queued(q)
    BY <1>1, <1>2, <1>3 DEF Numbers
  <1> QED BY <1>3, <1>4 DEF Docs

\* Doctors that a list holds can be read, so the property follows.
LEMMA ListedSuffices ==
  ASSUME IInv, ~MayReject
  PROVE  ListedDoctorsExist
  <1>1. ASSUME NEW c \in Clients, NEW i \in DOMAIN doctors[c]
        PROVE  \E d \in Registry!View(c) : d.id = doctors[c][i].id
    <2>1. doctors[c][i].id \in Allowed(c)
      BY DEF IInv, Exist, Covered, Registry!ToSet, Numbers
    <2>2. queue[c] \in Seq(Writes) /\ cache[c] \in SUBSET Registry!Doc
      BY DEF IInv, Types
    <2>3. Numbers(Registry!View(c)) = Allowed(c)
      BY <2>2, OverlayFinds DEF Allowed, Registry!View
    <2> QED BY <2>1, <2>3 DEF Numbers
  <1> QED BY <1>1 DEF ListedDoctorsExist

\* What a step leaves of the store: nothing that could be read is lost.
Keeps ==
  /\ server' \in SUBSET Registry!Doc
  /\ cache' \in [Clients -> SUBSET Registry!Doc]
  /\ queue' \in [Clients -> Seq(Writes)]
  /\ \A c \in Clients : /\ Allowed(c) \subseteq Allowed(c)'
                        /\ Numbers(cache'[c]) \subseteq Numbers(server')

\* A step that leaves the store alone loses nothing.
LEMMA UnchangedKeeps ==
  ASSUME IInv, UNCHANGED <<server, cache, queue>>
  PROVE  Keeps
  BY DEF IInv, Types, TypeOK, Exist, Keeps, Allowed

\* An answer of the server replaces documents and takes none away.
LEMMA AnswerKeeps ==
  ASSUME IInv, NEW c \in Clients, NEW limit \in Nat, NEW base \in Registry!Bases(c, limit),
         cache' = [cache EXCEPT ![c] = base], UNCHANGED <<server, queue>>
  PROVE  /\ Keeps
         /\ \A page \in Registry!Pages(Registry!Overlay(base, queue[c]), limit) :
              page \in Seq(Registry!Doc) /\ Numbers(Registry!ToSet(page)) \subseteq Allowed(c)'
  <1>1. /\ server \in SUBSET Registry!Doc /\ cache[c] \in SUBSET Registry!Doc
        /\ cache \in [Clients -> SUBSET Registry!Doc] /\ queue \in [Clients -> Seq(Writes)]
        /\ \A d \in Clients : Numbers(cache[d]) \subseteq Numbers(server)
    BY DEF IInv, Types, TypeOK, Exist
  <1>2. \/ base = cache[c]
        \/ \E ids : base = Registry!Refreshed(c, ids)
    BY DEF Registry!Bases
  <1>3. base \in SUBSET Registry!Doc
    BY <1>1, <1>2 DEF Registry!Refreshed
  <1>4. Numbers(cache[c]) \subseteq Numbers(base) /\ Numbers(base) \subseteq Numbers(server)
    BY <1>1, <1>2 DEF Registry!Refreshed, Numbers
  <1>5. \A d \in Clients : cache'[d] = IF d = c THEN base ELSE cache[d]
    BY <1>1
  <1>6. cache' \in [Clients -> SUBSET Registry!Doc]
    BY <1>1, <1>3
  <1>7. Keeps
    BY <1>1, <1>4, <1>5, <1>6 DEF Keeps, Allowed
  <1>8. ASSUME NEW page \in Registry!Pages(Registry!Overlay(base, queue[c]), limit)
        PROVE  page \in Seq(Registry!Doc) /\ Numbers(Registry!ToSet(page)) \subseteq Allowed(c)'
    <2> DEFINE Docs == Registry!Overlay(base, queue[c])
    <2>1. Docs \in SUBSET Registry!Doc /\ Numbers(Docs) \subseteq Allowed(c)'
      <3>1. /\ Docs \in SUBSET Registry!Doc
            /\ Numbers(Docs) = Numbers(cache'[c]) \cup Queued(queue'[c])
        BY <1>1, <1>3, <1>5, OverlayFinds
      <3> HIDE DEF Docs
      <3>2. Numbers(Docs) \subseteq Nat \ {0}
        BY <3>1 DEF Numbers, Registry!Doc
      <3> QED BY <3>1, <3>2 DEF Allowed
    <2> HIDE DEF Docs
    <2>2. PICK n \in 0 .. limit : page \in [1 .. n -> Docs]
      BY DEF Registry!Pages, Docs
    <2> QED BY <2>1, <2>2 DEF Registry!ToSet, Numbers
  <1> QED BY <1>7, <1>8

\* A write can be read at once.
LEMMA EnqueueKeeps ==
  ASSUME IInv, NEW c \in Clients, NEW s \in Slots, NEW doc \in Registry!Doc,
         Registry!Enqueue(c, Registry!Set(doc, s)), UNCHANGED <<server, cache>>
  PROVE  Keeps /\ doc.id \in Allowed(c)'
  <1> DEFINE m == Registry!Set(doc, s)
             q == Append(queue[c], m)
  <1>1. m \in Writes /\ m.id = doc.id /\ doc.id \in Nat \ {0}
    BY DEF Registry!Set, Writes, Registry!Mutation, Registry!Doc
  <1>2. queue \in [Clients -> Seq(Writes)] /\ queue[c] \in Seq(Writes)
    BY DEF IInv, Types
  <1>3. q \in Seq(Writes) /\ Queued(q) = Queued(queue[c]) \cup {doc.id}
    <2>1. q \in Seq(Writes) /\ Len(q) = Len(queue[c]) + 1 /\ q[Len(q)] = m
          /\ \A i \in 1 .. Len(queue[c]) : q[i] = queue[c][i]
      <3> HIDE DEF Writes, m
      <3> QED BY <1>1, <1>2
    <2> HIDE DEF q, m
    <2>2. DOMAIN q = 1 .. Len(q) /\ DOMAIN queue[c] = 1 .. Len(queue[c]) /\ Len(queue[c]) \in Nat
      BY <1>2, <2>1, QueueOfWrites
    <2> QED BY <1>1, <2>1, <2>2 DEF Queued
  <1> HIDE DEF q
  <1>4. queue' = [queue EXCEPT ![c] = q]
    BY <1>2 DEF Registry!Enqueue, q
  <1>5. queue' \in [Clients -> Seq(Writes)]
        /\ \A d \in Clients : queue'[d] = IF d = c THEN q ELSE queue[d]
    BY <1>2, <1>3, <1>4
  <1> QED BY <1>1, <1>3, <1>5 DEF IInv, Types, TypeOK, Exist, Keeps, Allowed

\* A refused write is gone, and no number is promised any more.
LEMMA RejectKeeps ==
  ASSUME IInv, NEW c \in Clients, Registry!Reject(c)
  PROVE  Keeps
  <1>1. queue \in [Clients -> Seq(Writes)] /\ queue[c] \in Seq(Writes) /\ queue[c] # <<>>
    BY DEF IInv, Types, Registry!Reject
  <1>2. Tail(queue[c]) \in Seq(Writes)
    BY <1>1, QueueOfWrites
  <1>3. queue' = [queue EXCEPT ![c] = Tail(queue[c])]
    BY <1>1 DEF Registry!Reject
  <1>4. queue' \in [Clients -> Seq(Writes)]
    <2> HIDE DEF Writes
    <2> QED BY <1>1, <1>2, <1>3
  <1>5. MayReject /\ UNCHANGED <<server, cache>>
    BY DEF Registry!Reject
  <1> QED BY <1>4, <1>5 DEF IInv, Types, TypeOK, Exist, Keeps, Allowed

\* A confirmed write moves to the cache of the device and to the server.
LEMMA AcknowledgeKeeps ==
  ASSUME IInv, NEW c \in Clients, Registry!Acknowledge(c)
  PROVE  Keeps
  <1> DEFINE q == queue[c]
             h == Head(queue[c])
             t == Tail(queue[c])
  <1>1. /\ queue \in [Clients -> Seq(Writes)] /\ q \in Seq(Writes) /\ q # <<>>
        /\ server \in SUBSET Registry!Doc /\ cache \in [Clients -> SUBSET Registry!Doc]
        /\ \A d \in Clients : Numbers(cache[d]) \subseteq Numbers(server)
    BY DEF IInv, Types, TypeOK, Exist, Registry!Acknowledge
  <1>2. h \in Writes /\ t \in Seq(Writes)
    BY <1>1, QueueOfWrites
  <1>3. Queued(q) \subseteq Queued(t) \cup {h.id}
    <2>1. /\ h = q[1] /\ Len(t) = Len(q) - 1 /\ \A i \in 1 .. Len(t) : t[i] = q[i + 1]
      <3> HIDE DEF Writes
      <3> QED BY <1>1
    <2>2. /\ DOMAIN q = 1 .. Len(q) /\ DOMAIN t = 1 .. Len(t)
          /\ Len(q) \in Nat /\ Len(t) \in Nat
      BY <1>1, <1>2, QueueOfWrites
    <2> HIDE DEF q, h, t
    <2>3. ASSUME NEW i \in DOMAIN q, i # 1
          PROVE  i - 1 \in DOMAIN t /\ t[i - 1] = q[i]
      BY <2>1, <2>2, <2>3
    <2> QED BY <2>1, <2>3 DEF Queued
  <1>4. \A docs \in SUBSET Registry!Doc :
          /\ Registry!Apply(docs, h) \in SUBSET Registry!Doc
          /\ Numbers(Registry!Apply(docs, h)) = Numbers(docs) \cup {h.id}
    BY <1>2, WriteSets DEF Registry!Apply, Numbers
  <1> HIDE DEF h, t
  <1>5. /\ server' = Registry!Apply(server, h)
        /\ cache' = [cache EXCEPT ![c] = Registry!Apply(cache[c], h)]
        /\ queue' = [queue EXCEPT ![c] = t]
    BY <1>1 DEF Registry!Acknowledge, h, t
  <1>6. cache[c] \in SUBSET Registry!Doc
    BY <1>1
  <1>7. /\ server' \in SUBSET Registry!Doc
        /\ cache' \in [Clients -> SUBSET Registry!Doc]
        /\ queue' \in [Clients -> Seq(Writes)]
    BY <1>1, <1>2, <1>4, <1>5, <1>6
  <1>8. ASSUME NEW d \in Clients
        PROVE  /\ Allowed(d) \subseteq Allowed(d)'
               /\ Numbers(cache'[d]) \subseteq Numbers(server')
    <2>1. CASE d = c
      <3>1. cache'[d] = Registry!Apply(cache[c], h) /\ queue'[d] = t
        BY <1>1, <1>5, <2>1
      <3> QED BY <1>1, <1>3, <1>4, <1>5, <1>6, <2>1, <3>1 DEF Allowed
    <2>2. CASE d # c
      <3>1. cache'[d] = cache[d] /\ queue'[d] = queue[d]
        BY <1>1, <1>5, <2>2
      <3> QED BY <1>1, <1>4, <1>5, <3>1 DEF Allowed
    <2> QED BY <2>1, <2>2
  <1> QED BY <1>7, <1>8 DEF Keeps

\* So do the writes whose acknowledgements are lost, on the server.
LEMMA NetworkKeeps ==
  ASSUME IInv, NEW c \in Clients, Registry!Network(c)
  PROVE  Keeps
  <1>1. CASE Registry!Disconnect(c) \/ Registry!Reconnect(c)
    BY <1>1, UnchangedKeeps DEF Registry!Disconnect, Registry!Reconnect
  <1>2. CASE Registry!AcknowledgementLost(c)
    <2>1. /\ queue[c] \in Seq(Writes) /\ server \in SUBSET Registry!Doc
          /\ cache' = cache /\ queue' = queue
      BY <1>2 DEF IInv, Types, TypeOK, Registry!AcknowledgementLost
    <2>2. PICK n \in 1 .. Len(queue[c]) :
            server' = Registry!Overlay(server, SubSeq(queue[c], 1, n))
      BY <1>2 DEF Registry!AcknowledgementLost
    <2>3. SubSeq(queue[c], 1, n) \in Seq(Writes)
      <3> HIDE DEF Writes
      <3> QED BY <2>1, <2>2
    <2>4. server' \in SUBSET Registry!Doc /\ Numbers(server) \subseteq Numbers(server')
      BY <2>1, <2>2, <2>3, OverlayFinds
    <2> QED BY <2>1, <2>4 DEF IInv, Types, Exist, Keeps, Allowed
  <1> QED BY <1>1, <1>2 DEF Registry!Network

\* A restart keeps the queue, without the futures.
LEMMA ForgetKeeps ==
  ASSUME IInv, NEW c \in Clients, Registry!ForgetWaiters(c), UNCHANGED <<server, cache>>
  PROVE  Keeps
  <1> DEFINE q == [i \in DOMAIN queue[c] |-> [queue[c][i] EXCEPT !.waiter = {}]]
  <1>1. queue \in [Clients -> Seq(Writes)] /\ queue[c] \in Seq(Writes)
    BY DEF IInv, Types
  <1>2. \A i \in DOMAIN queue[c] : q[i] \in Writes /\ q[i].id = queue[c][i].id
    BY <1>1, QueueOfWrites DEF Writes, Registry!Mutation
  <1>3. q \in Seq(Writes)
    <2> HIDE DEF Writes
    <2> QED BY <1>1, <1>2
  <1>4. Queued(q) = Queued(queue[c])
    BY <1>2 DEF Queued
  <1>5. queue' = [queue EXCEPT ![c] = q]
    BY <1>1, Zenon DEF Registry!ForgetWaiters
  <1> HIDE DEF q
  <1>6. queue' \in [Clients -> Seq(Writes)]
        /\ \A d \in Clients : queue'[d] = IF d = c THEN q ELSE queue[d]
    BY <1>1, <1>3, <1>5
  <1> QED BY <1>4, <1>6 DEF IInv, Types, TypeOK, Exist, Keeps, Allowed

----------------------------------------------------------------------------
(* The app *)

\* Device c, and only it, now has this list, screen, calls and loads.
AppStep(c, list, shown, cs, ls) ==
  /\ doctors' = [doctors EXCEPT ![c] = list]
  /\ screen' = [screen EXCEPT ![c] = shown]
  /\ calls' = [calls EXCEPT ![c] = cs]
  /\ loads' = [loads EXCEPT ![c] = ls]

\* Numbers that suffice still do when there are more of them.
LEMMA Wider ==
  ASSUME NEW list, NEW shown, NEW cs, NEW ls, NEW ids, NEW wider,
         Covered(list, shown, cs, ls, ids), ids \subseteq wider
  PROVE  Covered(list, shown, cs, ls, wider)
  BY DEF Covered

\* A step of one device keeps the invariant if what it holds can be read after it.
LEMMA AppStepKeeps ==
  ASSUME IInv, Keeps, NEW c \in Clients,
         NEW list \in Seq(Registry!Patient), NEW shown \in Registry!Screen,
         NEW cs \in [Slots -> Registry!Call], NEW ls \in [Loads -> Registry!Load],
         AppStep(c, list, shown, cs, ls),
         Covered(list, shown, cs, ls, Allowed(c)'),
         fields' \in [Clients -> [form : StaffForm, typed : SUBSET Fields]],
         clock' \in Nat
  PROVE  IInv'
  <1>1. /\ doctors \in [Clients -> Seq(Registry!Patient)]
        /\ screen \in [Clients -> Registry!Screen]
        /\ calls \in [Clients -> [Slots -> Registry!Call]]
        /\ loads \in [Clients -> [Loads -> Registry!Load]]
    BY DEF IInv, Types, TypeOK
  <1>2. /\ doctors' \in [Clients -> Seq(Registry!Patient)]
        /\ screen' \in [Clients -> Registry!Screen]
        /\ calls' \in [Clients -> [Slots -> Registry!Call]]
        /\ loads' \in [Clients -> [Loads -> Registry!Load]]
    <2> DEFINE P == Seq(Registry!Patient)
               R == Registry!Screen
               C == [Slots -> Registry!Call]
               L == [Loads -> Registry!Load]
    <2>1. list \in P /\ shown \in R /\ cs \in C /\ ls \in L
      OBVIOUS
    <2>2. /\ doctors \in [Clients -> P] /\ screen \in [Clients -> R]
          /\ calls \in [Clients -> C] /\ loads \in [Clients -> L]
      BY <1>1
    <2> HIDE DEF P, R, C, L
    <2>3. /\ doctors' \in [Clients -> P] /\ screen' \in [Clients -> R]
          /\ calls' \in [Clients -> C] /\ loads' \in [Clients -> L]
      BY <2>1, <2>2 DEF AppStep
    <2> QED BY <2>3 DEF P, R, C, L
  <1>3. Types'
    BY <1>2 DEF Types, TypeOK, Keeps
  <1>4. ASSUME NEW d \in Clients
        PROVE  Covered(doctors'[d], screen'[d], calls'[d], loads'[d], Allowed(d)')
    <2>1. CASE d = c
      <3>1. doctors'[d] = list /\ screen'[d] = shown /\ calls'[d] = cs /\ loads'[d] = ls
        BY <1>1, <2>1 DEF AppStep
      <3> QED BY <2>1, <3>1
    <2>2. CASE d # c
      <3>1. /\ doctors'[d] = doctors[d] /\ screen'[d] = screen[d]
            /\ calls'[d] = calls[d] /\ loads'[d] = loads[d]
        BY <1>1, <2>2 DEF AppStep
      <3>2. Covered(doctors[d], screen[d], calls[d], loads[d], Allowed(d)')
        BY Wider DEF IInv, Exist, Keeps
      <3> QED BY <3>1, <3>2
    <2> QED BY <2>1, <2>2
  <1>5. Exist'
    BY <1>4 DEF Exist, Keeps, Covered, CallHolds, PageHolds, Numbers
  <1> QED BY <1>3, <1>5 DEF IInv

\* What device c holds can still be read after a step.
LEMMA StillReadable ==
  ASSUME IInv, Keeps, NEW c \in Clients
  PROVE  /\ doctors[c] \in Seq(Registry!Patient) /\ screen[c] \in Registry!Screen
         /\ calls[c] \in [Slots -> Registry!Call] /\ loads[c] \in [Loads -> Registry!Load]
         /\ Covered(doctors[c], screen[c], calls[c], loads[c], Allowed(c)')
         /\ AppStep(c, doctors[c], screen[c], calls[c], loads[c])
              <=> UNCHANGED <<doctors, screen, calls, loads>>
  <1>1. Covered(doctors[c], screen[c], calls[c], loads[c], Allowed(c)')
    BY Wider DEF IInv, Exist, Keeps
  <1> QED BY <1>1 DEF IInv, Types, TypeOK, AppStep

\* The values that hold nothing.
LEMMA NothingHeld ==
  /\ Registry!ListScreen \in Registry!Screen /\ Registry!ListScreen.patient = {}
  /\ Registry!IdleCall \in Registry!Call /\ CallHolds(Registry!IdleCall) = {}
  /\ Registry!IdleLoad \in Registry!Load /\ PageHolds(Registry!IdleLoad) = {}
  /\ Registry!AskedLoad \in Registry!Load /\ PageHolds(Registry!AskedLoad) = {}
  /\ Registry!ToSet(<<>>) = {} /\ <<>> \in Seq(Registry!Patient)
  /\ Numbers({}) = {}
  <1>1. PICK v \in Values : TRUE
    BY FieldsAssumption
  <1>2. [k \in Fields |-> v] \in StaffForm
    BY DEF StaffForm
  <1>3. (CHOOSE f \in StaffForm : TRUE) \in StaffForm
    BY <1>2
  <1> HIDE DEF StaffForm
  <1>4. Registry!IdleCall \in Registry!Call
    BY <1>3 DEF Registry!IdleCall, Registry!Call, Registry!Stages
  <1>5. Numbers({}) = {}
    BY DEF Numbers
  <1>6. CallHolds(Registry!IdleCall) = {}
    BY <1>5 DEF CallHolds, Registry!IdleCall
  <1>7. Registry!ToSet(<<>>) = {}
    BY DEF Registry!ToSet
  <1> QED BY <1>4, <1>5, <1>6, <1>7
          DEF Registry!ListScreen, Registry!Screen, Registry!IdleLoad,
              Registry!AskedLoad, Registry!Load, PageHolds

\* A step of the user interface: nothing is read, written or dated.
LEMMA ScreenKeeps ==
  ASSUME IInv, NEW c \in Clients, NEW shown \in Registry!Screen,
         NEW cs \in [Slots -> Registry!Call], NEW ls \in [Loads -> Registry!Load],
         AppStep(c, doctors[c], shown, cs, ls),
         Covered(doctors[c], shown, cs, ls, Allowed(c)),
         fields' \in [Clients -> [form : StaffForm, typed : SUBSET Fields]],
         UNCHANGED <<server, cache, queue, clock>>
  PROVE  IInv'
  <1>1. Keeps
    BY UnchangedKeeps
  <1>2. Covered(doctors[c], shown, cs, ls, Allowed(c)')
    BY <1>1, Wider DEF Keeps
  <1>3. doctors[c] \in Seq(Registry!Patient) /\ clock' \in Nat
    BY DEF IInv, Types, TypeOK
  <1> QED BY <1>1, <1>2, <1>3, AppStepKeeps DEF IInv, Types, TypeOK

\* The calls of a screen that goes hold what they held.
LEMMA UnmountedCovered ==
  ASSUME IInv, NEW c \in Clients
  PROVE  /\ Registry!Unmounted(c) \in [Slots -> Registry!Call]
         /\ \A list, shown, ls, ids :
              Covered(list, shown, calls[c], ls, ids)
                => Covered(list, shown, Registry!Unmounted(c), ls, ids)
  <1>1. calls[c] \in [Slots -> Registry!Call]
    BY DEF IInv, Types, TypeOK
  <1>2. \A s \in Slots : /\ Registry!Unmounted(c)[s] \in Registry!Call
                         /\ Registry!Unmounted(c)[s].widget = calls[c][s].widget
                         /\ Registry!Unmounted(c)[s].record = calls[c][s].record
    BY <1>1 DEF Registry!Unmounted, Registry!Call
  <1>3. Registry!Unmounted(c) \in [Slots -> Registry!Call]
    BY <1>2 DEF Registry!Unmounted
  <1> QED BY <1>2, <1>3 DEF Covered, CallHolds

\* What the invariant says of one device.
LEMMA NowReadable ==
  ASSUME IInv, NEW c \in Clients
  PROVE  /\ doctors[c] \in Seq(Registry!Patient) /\ screen[c] \in Registry!Screen
         /\ calls[c] \in [Slots -> Registry!Call] /\ loads[c] \in [Loads -> Registry!Load]
         /\ Covered(doctors[c], screen[c], calls[c], loads[c], Allowed(c))
  BY DEF IInv, Types, TypeOK, Exist

\* A form that adds was built with no doctor.
LEMMA OpenAddKeeps ==
  ASSUME IInv, NEW c \in Clients, OpenAdd(c)
  PROVE  IInv'
  <1> DEFINE shown == [at |-> "form", patient |-> {}]
  <1>1. shown \in Registry!Screen
    BY DEF Registry!Screen
  <1>2. Covered(doctors[c], shown, calls[c], loads[c], Allowed(c))
    BY NowReadable, NothingHeld DEF Covered
  <1> HIDE DEF shown
  <1>3. AppStep(c, doctors[c], shown, calls[c], loads[c])
    BY DEF OpenAdd, Registry!OpenAdd, shown, AppStep, IInv, Types, TypeOK
  <1>4. fields' \in [Clients -> [form : StaffForm, typed : SUBSET Fields]]
    BY DEF OpenAdd, IInv, Types, TypeOK
  <1> QED BY <1>1, <1>2, <1>3, <1>4, NowReadable, ScreenKeeps
          DEF OpenAdd, Registry!OpenAdd, Registry!storeVars

\* The form of a listed doctor is filled from the doctor.
LEMMA OpenEditKeeps ==
  ASSUME IInv, NEW c \in Clients, OpenEdit(c)
  PROVE  IInv'
  <1>1. PICK i \in DOMAIN doctors[c] :
          /\ screen' = [screen EXCEPT ![c] = [at |-> "form", patient |-> {doctors[c][i]}]]
          /\ fields' = [fields EXCEPT ![c] = Untouched(Prefilled(doctors[c][i]))]
    BY DEF OpenEdit
  <1> DEFINE p == doctors[c][i]
             shown == [at |-> "form", patient |-> {p}]
  <1>2. p \in Registry!Patient
    BY NowReadable
  <1>3. shown \in Registry!Screen
    BY <1>2 DEF Registry!Screen
  <1>4. Covered(doctors[c], shown, calls[c], loads[c], Allowed(c))
    BY NowReadable DEF Covered, Registry!ToSet, Numbers
  <1>5. Prefilled(p) \in StaffForm
    BY <1>2, FieldsAssumption DEF Prefilled, StaffForm, Registry!Patient
  <1> HIDE DEF p
  <1>6. fields' \in [Clients -> [form : StaffForm, typed : SUBSET Fields]]
    BY <1>1, <1>5 DEF IInv, Types, TypeOK, Untouched, p
  <1> HIDE DEF shown
  <1>7. AppStep(c, doctors[c], shown, calls[c], loads[c])
    BY <1>1 DEF OpenEdit, shown, p, AppStep, IInv, Types, TypeOK
  <1> QED BY <1>3, <1>4, <1>6, <1>7, NowReadable, ScreenKeeps
          DEF OpenEdit, storeVars

\* Typing changes one field of the form.
LEMMA TypeKeeps ==
  ASSUME IInv, NEW c \in Clients, Type(c)
  PROVE  IInv'
  <1>1. fields' \in [Clients -> [form : StaffForm, typed : SUBSET Fields]]
    <2>1. PICK k \in Fields, v \in Values :
            fields' = [fields EXCEPT ![c].form[k] = v, ![c].typed = @ \cup {k}]
      BY DEF Type
    <2>2. /\ fields \in [Clients -> [form : StaffForm, typed : SUBSET Fields]]
          /\ fields[c].form \in StaffForm
      BY DEF IInv, Types, TypeOK
    <2>3. [fields[c].form EXCEPT ![k] = v] \in StaffForm
      BY <2>2 DEF StaffForm
    <2> HIDE DEF StaffForm
    <2> QED BY <2>1, <2>2, <2>3
  <1>2. AppStep(c, doctors[c], screen[c], calls[c], loads[c])
    BY DEF Type, AppStep, IInv, Types, TypeOK
  <1> QED BY <1>1, <1>2, NowReadable, ScreenKeeps DEF Type, storeVars

\* A form that is left takes its doctor with it.
LEMMA BackKeeps ==
  ASSUME IInv, NEW c \in Clients, Back(c)
  PROVE  IInv'
  <1>1. fields' \in [Clients -> [form : StaffForm, typed : SUBSET Fields]]
    BY DEF Back, IInv, Types, TypeOK
  <1>2. AppStep(c, doctors[c], Registry!ListScreen, Registry!Unmounted(c), loads[c])
    BY DEF Back, Registry!Back, AppStep, IInv, Types, TypeOK
  <1>3. Covered(doctors[c], Registry!ListScreen, Registry!Unmounted(c), loads[c], Allowed(c))
    <2>1. Covered(doctors[c], Registry!ListScreen, calls[c], loads[c], Allowed(c))
      BY NowReadable, NothingHeld DEF Covered
    <2> QED BY <2>1, UnmountedCovered
  <1> QED BY <1>1, <1>2, <1>3, NowReadable, NothingHeld, UnmountedCovered, ScreenKeeps
          DEF Back, Registry!Back, Registry!storeVars

----------------------------------------------------------------------------
(* Saving a form *)

\* A step of a save that sets its call.
LEMMA SetCallKeeps ==
  ASSUME IInv, Keeps, NEW c \in Clients, NEW s \in Slots, NEW call \in Registry!Call,
         Registry!SetCall(c, s, call), CallHolds(call) \subseteq Allowed(c)',
         UNCHANGED <<doctors, screen, loads, fields>>, clock' \in Nat
  PROVE  IInv'
  <1> DEFINE cs == [calls[c] EXCEPT ![s] = call]
  <1>1. /\ calls \in [Clients -> [Slots -> Registry!Call]]
        /\ calls[c] \in [Slots -> Registry!Call]
        /\ fields' \in [Clients -> [form : StaffForm, typed : SUBSET Fields]]
    BY DEF IInv, Types, TypeOK
  <1>2. cs \in [Slots -> Registry!Call] /\ \A r \in Slots : cs[r] = IF r = s THEN call ELSE calls[c][r]
    BY <1>1
  <1>3. calls' = [calls EXCEPT ![c] = cs]
    BY <1>1 DEF Registry!SetCall
  <1> HIDE DEF cs
  <1>4. AppStep(c, doctors[c], screen[c], cs, loads[c])
    BY <1>3 DEF AppStep, IInv, Types, TypeOK
  <1>5. Covered(doctors[c], screen[c], cs, loads[c], Allowed(c)')
    BY <1>2, StillReadable DEF Covered
  <1> QED BY <1>1, <1>2, <1>4, <1>5, StillReadable, AppStepKeeps

\* What a call holds can be read.
LEMMA CallReadable ==
  ASSUME IInv, NEW c \in Clients, NEW s \in Slots
  PROVE  /\ calls[c][s] \in Registry!Call
         /\ \A p \in calls[c][s].widget \cup calls[c][s].record :
              p \in Registry!Patient /\ p.id \in Allowed(c)
  BY NowReadable DEF Registry!Call, Covered, CallHolds, Numbers

\* A save starts with the doctor of its screen.
LEMMA TapSaveKeeps ==
  ASSUME IInv, NEW c \in Clients, NEW s \in Slots, TapSave(c, s)
  PROVE  IInv'
  <1> DEFINE call == [Registry!IdleCall EXCEPT !.stage = "userName", !.mounted = TRUE,
                                               !.widget = screen[c].patient]
  <1>1. Keeps
    BY UnchangedKeeps DEF TapSave, Registry!TapSave, Registry!storeVars
  <1>2. call \in Registry!Call
    BY NothingHeld, NowReadable DEF Registry!Call, Registry!Stages, Registry!Screen
  <1>3. CallHolds(call) \subseteq Allowed(c)
    BY NothingHeld, NowReadable DEF CallHolds, Covered, Registry!IdleCall
  <1> HIDE DEF call
  <1>4. Registry!SetCall(c, s, call) /\ UNCHANGED <<doctors, screen, loads, fields>>
        /\ UNCHANGED clock
    BY DEF TapSave, Registry!TapSave, call
  <1> QED BY <1>1, <1>2, <1>3, <1>4, SetCallKeeps DEF Keeps, IInv, Types

\* A save that ends, or that waits for its number.
LEMMA CallOnlyKeeps ==
  ASSUME IInv, NEW c \in Clients, NEW s \in Slots, UNCHANGED fields,
         \/ Registry!SaveAborted(c, s) \/ Registry!StartAdd(c, s)
         \/ Registry!IdQueryFails(c, s) \/ Registry!UpdateFindsNothing(c, s)
  PROVE  IInv'
  <1>1. UNCHANGED <<server, cache, queue, doctors, screen, loads, clock>>
    BY DEF Registry!SaveAborted, Registry!StartAdd, Registry!IdQueryFails,
           Registry!UpdateFindsNothing, Registry!storeVars
  <1>2. Keeps
    BY <1>1, UnchangedKeeps
  <1>3. \E call \in Registry!Call : /\ Registry!SetCall(c, s, call)
                                    /\ CallHolds(call) \subseteq Allowed(c)
    <2>1. CASE Registry!StartAdd(c, s)
      <3>1. PICK f \in StaffForm :
              Registry!SetCall(c, s, [calls[c][s] EXCEPT !.stage = "idQuery", !.form = f])
        BY <2>1 DEF Registry!StartAdd
      <3> DEFINE call == [calls[c][s] EXCEPT !.stage = "idQuery", !.form = f]
      <3>2. call \in Registry!Call /\ call.widget = calls[c][s].widget
            /\ call.record = calls[c][s].record
        BY CallReadable DEF Registry!Call, Registry!Stages
      <3>3. CallHolds(call) \subseteq Allowed(c)
        BY <3>2, CallReadable DEF CallHolds, Numbers
      <3> QED BY <3>1, <3>2, <3>3
    <2>2. CASE Registry!EndCall(c, s)
      BY <2>2, NothingHeld DEF Registry!EndCall
    <2> QED BY <2>1, <2>2 DEF Registry!SaveAborted, Registry!IdQueryFails,
                              Registry!UpdateFindsNothing
  <1> QED BY <1>1, <1>2, <1>3, SetCallKeeps DEF Keeps, IInv, Types

\* generateId reads documents and makes a number of them.
LEMMA ServeIdQueryKeeps ==
  ASSUME IInv, NEW c \in Clients, NEW s \in Slots, UNCHANGED fields,
         Registry!ServeIdQuery(c, s)
  PROVE  IInv'
  <1>1. PICK base \in Registry!Bases(c, 1) :
          /\ cache' = [cache EXCEPT ![c] = base]
          /\ \E page \in Registry!Pages(Registry!Overlay(base, queue[c]), 1) :
               Registry!SetCall(c, s, [calls[c][s] EXCEPT !.stage = "idReady",
                                                          !.id = {Registry!NextId(page)}])
    BY DEF Registry!ServeIdQuery
  <1>2. PICK page \in Registry!Pages(Registry!Overlay(base, queue[c]), 1) :
          Registry!SetCall(c, s, [calls[c][s] EXCEPT !.stage = "idReady",
                                                     !.id = {Registry!NextId(page)}])
    BY <1>1
  <1>3. UNCHANGED <<server, queue, doctors, screen, loads, clock>>
    BY DEF Registry!ServeIdQuery
  <1>4. Keeps /\ page \in Seq(Registry!Doc)
    BY <1>1, <1>2, <1>3, AnswerKeeps
  <1>5. Registry!NextId(page) \in Nat \ {0}
    <2>1. ASSUME page # <<>> PROVE page[1] \in Registry!Doc
      <3> DEFINE D == Registry!Doc
      <3>1. page \in Seq(D)
        BY <1>4
      <3> HIDE DEF D
      <3>2. page[1] \in D
        BY <2>1, <3>1
      <3> QED BY <3>2 DEF D
    <2>2. \A d \in Registry!Doc : d.id + 1 \in Nat \ {0}
      BY DEF Registry!Doc
    <2> QED BY <2>1, <2>2 DEF Registry!NextId
  <1> DEFINE call == [calls[c][s] EXCEPT !.stage = "idReady", !.id = {Registry!NextId(page)}]
  <1>6. call \in Registry!Call /\ call.widget = calls[c][s].widget
        /\ call.record = calls[c][s].record
    BY <1>5, CallReadable DEF Registry!Call, Registry!Stages
  <1>7. CallHolds(call) \subseteq Allowed(c)
    BY <1>6, CallReadable DEF CallHolds, Numbers
  <1> QED BY <1>2, <1>3, <1>4, <1>6, <1>7, SetCallKeeps DEF Keeps, IInv, Types

\* The conversions keep the number of a doctor.
LEMMA Conversions ==
  /\ \A d \in Registry!Doc \cup Registry!Patient :
       Registry!fromMap(d) \in Registry!Patient /\ Registry!fromMap(d).id = d.id
  /\ \A p \in Registry!Patient :
       Registry!toJson(p) \in Registry!Doc /\ Registry!toJson(p).id = p.id
  /\ \A w \in Registry!Patient, f \in StaffForm :
       /\ Registry!updatedPatient(w, f) \in Registry!Patient
       /\ Registry!updatedPatient(w, f).id = w.id
  /\ \A c \in Clients, id \in Nat \ {0}, f \in StaffForm, now \in Nat \ {0} :
       /\ Registry!newPatient(c, id, f, now) \in Registry!Patient
       /\ Registry!newPatient(c, id, f, now).id = id
  <1>1. ASSUME NEW d \in Registry!Doc \cup Registry!Patient
        PROVE  Registry!fromMap(d) \in Registry!Patient /\ Registry!fromMap(d).id = d.id
    <2> HIDE DEF StaffForm
    <2> QED BY DEF Registry!fromMap, Registry!TryParse, Registry!Doc, Registry!Patient,
                   Registry!DateTimes, Registry!Timestamps, Registry!NullDate
  <1>2. ASSUME NEW p \in Registry!Patient
        PROVE  Registry!toJson(p) \in Registry!Doc /\ Registry!toJson(p).id = p.id
    <2> HIDE DEF StaffForm
    <2> QED BY DEF Registry!toJson, Registry!Doc, Registry!Patient, Registry!DateTimes,
                   Registry!Timestamps, Registry!NullDate, Registry!Timestamp
  <1>3. ASSUME NEW w \in Registry!Patient, NEW f \in StaffForm
        PROVE  /\ Registry!updatedPatient(w, f) \in Registry!Patient
               /\ Registry!updatedPatient(w, f).id = w.id
    <2> HIDE DEF StaffForm
    <2> QED BY DEF Registry!updatedPatient, Registry!fromMap, Registry!TryParse,
                   Registry!Patient, Registry!DateTimes, Registry!NullDate
  <1>4. ASSUME NEW c \in Clients, NEW id \in Nat \ {0}, NEW f \in StaffForm,
               NEW now \in Nat \ {0}
        PROVE  /\ Registry!newPatient(c, id, f, now) \in Registry!Patient
               /\ Registry!newPatient(c, id, f, now).id = id
    <2> HIDE DEF StaffForm
    <2> QED BY DEF Registry!newPatient, Registry!DateTime, Registry!Patient, Registry!DateTimes
  <1> QED BY <1>1, <1>2, <1>3, <1>4

\* A save that writes: what it writes can be read at once.
LEMMA WriteKeeps ==
  ASSUME IInv, NEW c \in Clients, NEW s \in Slots, NEW p \in Registry!Patient,
         NEW f \in StaffForm,
         Registry!SetCall(c, s, [calls[c][s] EXCEPT !.stage = "writing",
                                                    !.form = f, !.record = {p}]),
         Registry!Enqueue(c, Registry!Set(Registry!toJson(p), s)),
         UNCHANGED <<server, cache, doctors, screen, loads, fields>>, clock' \in Nat
  PROVE  IInv'
  <1> DEFINE call == [calls[c][s] EXCEPT !.stage = "writing", !.form = f, !.record = {p}]
  <1>1. Keeps /\ p.id \in Allowed(c)'
    BY Conversions, EnqueueKeeps
  <1>2. /\ call \in Registry!Call
        /\ call.widget = calls[c][s].widget /\ call.record = {p}
    BY CallReadable DEF Registry!Call, Registry!Stages
  <1>3. Registry!SetCall(c, s, call)
    OBVIOUS
  <1> HIDE DEF call
  <1>4. CallHolds(call) \subseteq Allowed(c)'
    BY <1>1, <1>2, CallReadable DEF CallHolds, Numbers, Keeps
  <1> QED BY <1>1, <1>2, <1>3, <1>4, SetCallKeeps

\* An update queues the edited doctor under its number.
LEMMA StartUpdateKeeps ==
  ASSUME IInv, NEW c \in Clients, NEW s \in Slots, StartUpdate(c, s)
  PROVE  IInv'
  <1>1. PICK w \in calls[c][s].widget, f \in StaffForm :
          LET p == Registry!updatedPatient(w, f)
          IN  /\ Registry!SetCall(c, s, [calls[c][s] EXCEPT !.stage = "writing",
                                                            !.form = f, !.record = {p}])
              /\ Registry!Enqueue(c, Registry!Set(Registry!toJson(p), s))
    BY DEF StartUpdate, Registry!StartUpdate
  <1>2. Registry!updatedPatient(w, f) \in Registry!Patient
    BY CallReadable, Conversions
  <1>3. UNCHANGED <<server, cache, doctors, screen, loads, fields>> /\ clock' \in Nat
    BY DEF StartUpdate, Registry!StartUpdate, IInv, Types
  <1> QED BY <1>1, <1>2, <1>3, WriteKeeps

\* addDoctor queues the new doctor, which is readable before it is listed.
LEMMA AddWriteKeeps ==
  ASSUME IInv, NEW c \in Clients, NEW s \in Slots, UNCHANGED fields,
         Registry!AddWrite(c, s)
  PROVE  IInv'
  <1> DEFINE f == calls[c][s].form
  <1>1. PICK id \in calls[c][s].id :
          LET p == Registry!newPatient(c, id, f, clock + 1)
          IN  /\ Registry!SetCall(c, s, [calls[c][s] EXCEPT !.stage = "writing",
                                                            !.record = {p}])
              /\ Registry!Enqueue(c, Registry!Set(Registry!toJson(p), s))
    BY DEF Registry!AddWrite
  <1> DEFINE p == Registry!newPatient(c, id, f, clock + 1)
  <1>2. id \in Nat \ {0} /\ f \in StaffForm /\ clock \in Nat /\ clock + 1 \in Nat \ {0}
    BY CallReadable DEF Registry!Call, IInv, Types
  <1>3. p \in Registry!Patient
    BY <1>2, Conversions
  <1>4. [calls[c][s] EXCEPT !.stage = "writing", !.record = {p}]
          = [calls[c][s] EXCEPT !.stage = "writing", !.form = f, !.record = {p}]
    <2> HIDE DEF p
    <2> QED BY CallReadable DEF Registry!Call
  <1>5. UNCHANGED <<server, cache, doctors, screen, loads, fields>> /\ clock' \in Nat
    BY <1>2 DEF Registry!AddWrite
  <1> QED BY <1>1, <1>2, <1>3, <1>4, <1>5, WriteKeeps

\* A save that ends with a new list, and pops its form if that is still there.
LEMMA FinishKeeps ==
  ASSUME IInv, NEW c \in Clients, NEW s \in Slots, NEW list \in Seq(Registry!Patient),
         doctors' = [doctors EXCEPT ![c] = list], Registry!PopForm(c, s),
         Numbers(Registry!ToSet(list)) \subseteq Allowed(c),
         UNCHANGED <<server, cache, queue, loads, fields, clock>>
  PROVE  IInv'
  <1>1. /\ calls \in [Clients -> [Slots -> Registry!Call]]
        /\ screen \in [Clients -> Registry!Screen]
        /\ loads' = [loads EXCEPT ![c] = loads[c]]
        /\ fields' \in [Clients -> [form : StaffForm, typed : SUBSET Fields]]
        /\ clock' \in Nat
    BY DEF IInv, Types, TypeOK
  <1>2. Keeps
    BY UnchangedKeeps
  <1>3. PICK before \in {calls[c], Registry!Unmounted(c)}, shown \in {screen[c], Registry!ListScreen} :
          AppStep(c, list, shown, [before EXCEPT ![s] = Registry!IdleCall], loads[c])
    <2>1. CASE calls[c][s].mounted
      BY <1>1, <2>1 DEF Registry!PopForm, AppStep
    <2>2. CASE ~calls[c][s].mounted
      <3>1. calls' = [calls EXCEPT ![c] = [calls[c] EXCEPT ![s] = Registry!IdleCall]]
        BY <1>1, <2>2 DEF Registry!PopForm, Registry!EndCall, Registry!SetCall
      <3>2. screen' = [screen EXCEPT ![c] = screen[c]]
        BY <1>1, <2>2 DEF Registry!PopForm
      <3> QED BY <1>1, <3>1, <3>2 DEF AppStep
    <2> QED BY <2>1, <2>2
  <1> DEFINE cs == [before EXCEPT ![s] = Registry!IdleCall]
  <1>4. before \in [Slots -> Registry!Call]
    BY NowReadable, UnmountedCovered
  <1>5. /\ cs \in [Slots -> Registry!Call]
        /\ \A r \in Slots : cs[r] = IF r = s THEN Registry!IdleCall ELSE before[r]
    BY <1>4, NothingHeld
  <1>6. Covered(doctors[c], screen[c], before, loads[c], Allowed(c))
    BY NowReadable, UnmountedCovered
  <1>7. shown \in Registry!Screen /\ Numbers(shown.patient) \subseteq Allowed(c)
    BY NowReadable, NothingHeld DEF Covered
  <1> HIDE DEF cs
  <1>8. Covered(list, shown, cs, loads[c], Allowed(c))
    BY <1>5, <1>6, <1>7, NothingHeld DEF Covered
  <1>9. Covered(list, shown, cs, loads[c], Allowed(c)')
    BY <1>2, <1>8, Wider DEF Keeps
  <1> QED BY <1>1, <1>2, <1>3, <1>5, <1>7, <1>9, NowReadable, AppStepKeeps DEF cs

\* The new doctor enters the list, after its write.
LEMMA FinishAddKeeps ==
  ASSUME IInv, NEW c \in Clients, NEW s \in Slots, UNCHANGED fields,
         Registry!FinishAdd(c, s)
  PROVE  IInv'
  <1>1. PICK p \in calls[c][s].record : doctors' = [doctors EXCEPT ![c] = <<p>> \o @]
    BY DEF Registry!FinishAdd
  <1> DEFINE old == doctors[c]
             list == <<p>> \o old
  <1>2. p \in Registry!Patient /\ p.id \in Allowed(c) /\ old \in Seq(Registry!Patient)
    BY CallReadable, NowReadable
  <1>3. list \in Seq(Registry!Patient) /\ Registry!ToSet(list) \subseteq {p} \cup Registry!ToSet(old)
    <2> DEFINE P == Registry!Patient
    <2>1. p \in P /\ old \in Seq(P)
      BY <1>2
    <2> HIDE DEF P, old
    <2>2. /\ list \in Seq(P) /\ DOMAIN list = 1 .. Len(old) + 1 /\ Len(old) \in Nat
          /\ DOMAIN old = 1 .. Len(old) /\ list[1] = p
          /\ \A i \in DOMAIN old : list[i + 1] = old[i]
      BY <2>1
    <2> HIDE DEF list
    <2>3. ASSUME NEW i \in DOMAIN list, i # 1
          PROVE  i - 1 \in DOMAIN old /\ list[i] = old[i - 1]
      <3>1. i - 1 \in DOMAIN old /\ (i - 1) + 1 = i
        BY <2>2, <2>3
      <3> QED BY <2>2, <3>1
    <2>4. Registry!ToSet(list) \subseteq {p} \cup Registry!ToSet(old)
      BY <2>2, <2>3 DEF Registry!ToSet
    <2> QED BY <2>2, <2>4 DEF P
  <1>4. Numbers(Registry!ToSet(list)) \subseteq Allowed(c)
    BY <1>2, <1>3, NowReadable DEF Covered, Numbers
  <1>5. doctors' = [doctors EXCEPT ![c] = list]
    BY <1>1
  <1> HIDE DEF list
  <1> QED BY <1>3, <1>4, <1>5, FinishKeeps DEF Registry!FinishAdd, Registry!storeVars

\* The edited doctor replaces the first entry with its number.
LEMMA FinishUpdateKeeps ==
  ASSUME IInv, NEW c \in Clients, NEW s \in Slots, UNCHANGED fields,
         Registry!FinishUpdate(c, s)
  PROVE  IInv'
  <1>1. PICK p \in calls[c][s].record, i \in DOMAIN doctors[c] :
          doctors' = [doctors EXCEPT ![c][i] = p]
    BY DEF Registry!FinishUpdate
  <1> DEFINE old == doctors[c]
             list == [old EXCEPT ![i] = p]
  <1>2. p \in Registry!Patient /\ p.id \in Allowed(c) /\ old \in Seq(Registry!Patient)
    BY CallReadable, NowReadable
  <1>3. list \in Seq(Registry!Patient) /\ Registry!ToSet(list) \subseteq {p} \cup Registry!ToSet(old)
    <2> DEFINE P == Registry!Patient
    <2>1. p \in P /\ old \in Seq(P) /\ i \in DOMAIN old
      BY <1>2
    <2> HIDE DEF P, old
    <2>2. /\ list \in Seq(P) /\ DOMAIN list = DOMAIN old
          /\ \A j \in DOMAIN old : list[j] = IF j = i THEN p ELSE old[j]
      BY <2>1
    <2> HIDE DEF list
    <2>3. Registry!ToSet(list) \subseteq {p} \cup Registry!ToSet(old)
      BY <2>2 DEF Registry!ToSet
    <2> QED BY <2>2, <2>3 DEF P
  <1>4. Numbers(Registry!ToSet(list)) \subseteq Allowed(c)
    BY <1>2, <1>3, NowReadable DEF Covered, Numbers
  <1>5. doctors' = [doctors EXCEPT ![c] = list]
    BY <1>1 DEF IInv, Types, TypeOK
  <1> HIDE DEF list
  <1> QED BY <1>3, <1>4, <1>5, FinishKeeps DEF Registry!FinishUpdate, Registry!storeVars

\* So do all steps of a save.
LEMMA SaveStepKeeps ==
  ASSUME IInv, NEW c \in Clients, NEW s \in Slots, SaveStep(c, s)
  PROVE  IInv'
  BY StartUpdateKeeps, CallOnlyKeeps, ServeIdQueryKeeps, AddWriteKeeps, FinishAddKeeps,
     FinishUpdateKeeps
     DEF SaveStep

----------------------------------------------------------------------------
(* The list, the store and the device *)

\* A load of the device is asked for, answered or ended.
LEMMA LoadsOf ==
  ASSUME IInv, NEW c \in Clients, NEW l \in Loads, NEW load \in Registry!Load, NEW ids,
         PageHolds(load) \subseteq ids,
         Covered(doctors[c], screen[c], calls[c], loads[c], ids)
  PROVE  /\ [loads[c] EXCEPT ![l] = load] \in [Loads -> Registry!Load]
         /\ Covered(doctors[c], screen[c], calls[c], [loads[c] EXCEPT ![l] = load], ids)
         /\ [loads EXCEPT ![c][l] = load]
              = [loads EXCEPT ![c] = [loads[c] EXCEPT ![l] = load]]
  <1> DEFINE ls == [loads[c] EXCEPT ![l] = load]
  <1>1. loads \in [Clients -> [Loads -> Registry!Load]]
    BY DEF IInv, Types, TypeOK
  <1>2. /\ ls \in [Loads -> Registry!Load]
        /\ \A k \in Loads : ls[k] = IF k = l THEN load ELSE loads[c][k]
    BY <1>1
  <1>3. [loads EXCEPT ![c][l] = load] = [loads EXCEPT ![c] = ls]
    BY <1>1
  <1> HIDE DEF ls
  <1>4. Covered(doctors[c], screen[c], calls[c], ls, ids)
    BY <1>2 DEF Covered
  <1> QED BY <1>2, <1>3, <1>4 DEF ls

\* A load that holds no page: the list is asked for, or the query failed.
LEMMA EmptyLoadKeeps ==
  ASSUME IInv, NEW c \in Clients, NEW l \in Loads,
         NEW load \in {Registry!IdleLoad, Registry!AskedLoad},
         loads' = [loads EXCEPT ![c][l] = load],
         UNCHANGED <<server, cache, queue, doctors, screen, calls, fields, clock>>
  PROVE  IInv'
  <1> DEFINE ls == [loads[c] EXCEPT ![l] = load]
  <1>1. load \in Registry!Load /\ PageHolds(load) = {}
    BY NothingHeld
  <1>2. /\ ls \in [Loads -> Registry!Load]
        /\ Covered(doctors[c], screen[c], calls[c], ls, Allowed(c))
        /\ loads' = [loads EXCEPT ![c] = ls]
    BY <1>1, LoadsOf, NowReadable
  <1> HIDE DEF ls
  <1>3. AppStep(c, doctors[c], screen[c], calls[c], ls)
    BY <1>2 DEF AppStep, IInv, Types, TypeOK
  <1>4. fields' \in [Clients -> [form : StaffForm, typed : SUBSET Fields]]
    BY DEF IInv, Types, TypeOK
  <1> QED BY <1>2, <1>3, <1>4, NowReadable, ScreenKeeps

\* A visit of the tab asks for a page.
LEMMA VisitStaffKeeps ==
  ASSUME IInv, NEW c \in Clients, VisitStaff(c)
  PROVE  IInv'
  BY EmptyLoadKeeps DEF VisitStaff, storeVars

\* A load that fails leaves the list as it is.
LEMMA LoadFailsKeeps ==
  ASSUME IInv, NEW c \in Clients, NEW l \in Loads, LoadFails(c, l)
  PROVE  IInv'
  BY EmptyLoadKeeps DEF LoadFails, storeVars

\* A page is of documents that were just read.
LEMMA ServeLoadKeeps ==
  ASSUME IInv, NEW c \in Clients, NEW l \in Loads, ServeLoad(c, l)
  PROVE  IInv'
  <1>1. PICK base \in Registry!Bases(c, PageSize) :
          /\ cache' = [cache EXCEPT ![c] = base]
          /\ \E page \in Registry!Pages(Registry!Overlay(base, queue[c]), PageSize) :
               loads' = [loads EXCEPT ![c][l] = [stage |-> "ready", page |-> page]]
    BY DEF ServeLoad
  <1>2. PICK page \in Registry!Pages(Registry!Overlay(base, queue[c]), PageSize) :
          loads' = [loads EXCEPT ![c][l] = [stage |-> "ready", page |-> page]]
    BY <1>1
  <1>3. UNCHANGED <<server, queue, doctors, screen, calls, fields, clock>>
    BY DEF ServeLoad
  <1>4. Keeps /\ page \in Seq(Registry!Doc) /\ Numbers(Registry!ToSet(page)) \subseteq Allowed(c)'
    BY <1>1, <1>2, <1>3, AnswerKeeps, PageSizeAssumption
  <1> DEFINE load == [stage |-> "ready", page |-> page]
             ls == [loads[c] EXCEPT ![l] = load]
  <1>5. load \in Registry!Load /\ PageHolds(load) \subseteq Allowed(c)'
    BY <1>4 DEF Registry!Load, PageHolds
  <1>6. Covered(doctors[c], screen[c], calls[c], loads[c], Allowed(c)')
    BY <1>4, StillReadable
  <1> HIDE DEF load
  <1>7. /\ ls \in [Loads -> Registry!Load]
        /\ Covered(doctors[c], screen[c], calls[c], ls, Allowed(c)')
        /\ loads' = [loads EXCEPT ![c] = ls]
    BY <1>2, <1>5, <1>6, LoadsOf DEF load
  <1> HIDE DEF ls
  <1>8. AppStep(c, doctors[c], screen[c], calls[c], ls)
    BY <1>3, <1>7 DEF AppStep, IInv, Types, TypeOK
  <1>9. fields' \in [Clients -> [form : StaffForm, typed : SUBSET Fields]] /\ clock' \in Nat
    BY <1>3 DEF IInv, Types, TypeOK
  <1> QED BY <1>4, <1>7, <1>8, <1>9, NowReadable, AppStepKeeps

\* The list becomes the page that was read.
LEMMA FinishLoadKeeps ==
  ASSUME IInv, NEW c \in Clients, NEW l \in Loads, FinishLoad(c, l)
  PROVE  IInv'
  <1> DEFINE page == loads[c][l].page
             list == [i \in DOMAIN page |-> Registry!fromMap(page[i])]
             ls == [loads[c] EXCEPT ![l] = Registry!IdleLoad]
  <1>1. /\ doctors' = [doctors EXCEPT ![c] = list]
        /\ loads' = [loads EXCEPT ![c][l] = Registry!IdleLoad]
        /\ UNCHANGED <<server, cache, queue, screen, calls, fields, clock>>
    BY DEF FinishLoad, storeVars
  <1>2. page \in Seq(Registry!Doc) /\ Numbers(Registry!ToSet(page)) \subseteq Allowed(c)
    BY NowReadable DEF Registry!Load, Covered, PageHolds
  <1>3. /\ list \in Seq(Registry!Patient)
        /\ Numbers(Registry!ToSet(list)) \subseteq Allowed(c)
    <2> DEFINE D == Registry!Doc
               P == Registry!Patient
    <2>1. /\ \A d \in D : Registry!fromMap(d) \in P /\ Registry!fromMap(d).id = d.id
          /\ page \in Seq(D)
      BY <1>2, Conversions
    <2> HIDE DEF D, P, page
    <2>2. \A i \in DOMAIN page : page[i] \in D
      BY <2>1
    <2>3. list \in Seq(P)
      BY <2>1, <2>2
    <2>4. \A i \in DOMAIN list : i \in DOMAIN page /\ list[i].id = page[i].id
      BY <2>1, <2>2
    <2> HIDE DEF list
    <2>5. Numbers(Registry!ToSet(list)) \subseteq Numbers(Registry!ToSet(page))
      BY <2>4 DEF Numbers, Registry!ToSet
    <2> QED BY <1>2, <2>3, <2>5 DEF P
  <1>4. /\ ls \in [Loads -> Registry!Load]
        /\ Covered(doctors[c], screen[c], calls[c], ls, Allowed(c))
        /\ loads' = [loads EXCEPT ![c] = ls]
    BY <1>1, LoadsOf, NothingHeld, NowReadable
  <1> HIDE DEF ls, list
  <1>5. Keeps
    BY <1>1, UnchangedKeeps
  <1>6. Covered(list, screen[c], calls[c], ls, Allowed(c)')
    <2>1. Covered(list, screen[c], calls[c], ls, Allowed(c))
      BY <1>3, <1>4 DEF Covered
    <2> QED BY <1>5, <2>1, Wider DEF Keeps
  <1>7. AppStep(c, list, screen[c], calls[c], ls)
    BY <1>1, <1>4 DEF AppStep, IInv, Types, TypeOK
  <1>8. fields' \in [Clients -> [form : StaffForm, typed : SUBSET Fields]] /\ clock' \in Nat
    BY <1>1 DEF IInv, Types, TypeOK
  <1> QED BY <1>3, <1>4, <1>5, <1>6, <1>7, <1>8, NowReadable, AppStepKeeps

\* A confirmed or refused write ends a wait, and what is still promised is kept.
LEMMA WriteStepKeeps ==
  ASSUME IInv, NEW c \in Clients, Registry!WriteStep(c), UNCHANGED fields
  PROVE  IInv'
  <1>1. Registry!WriteAcknowledged(c) \/ Registry!WriteRejected(c)
    BY DEF Registry!WriteStep
  <1>2. Keeps
    BY <1>1, AcknowledgeKeeps, RejectKeeps
       DEF Registry!WriteAcknowledged, Registry!WriteRejected
  <1> DEFINE cs == [s \in Slots |->
                      IF s \in Head(queue[c]).waiter
                      THEN [calls[c][s] EXCEPT !.stage = "written"]
                      ELSE calls[c][s]]
  <1>3. \A s \in Slots : /\ cs[s] \in Registry!Call
                         /\ cs[s].widget = calls[c][s].widget
                         /\ cs[s].record = calls[c][s].record
    BY CallReadable DEF Registry!Call, Registry!Stages
  <1>4. cs \in [Slots -> Registry!Call]
    BY <1>3
  <1>5. calls' = [calls EXCEPT ![c] = cs] /\ UNCHANGED <<doctors, screen, loads, clock>>
    BY <1>1 DEF Registry!WriteAcknowledged, Registry!WriteRejected, Registry!CompleteWrite
  <1> HIDE DEF cs
  <1>6. Covered(doctors[c], screen[c], cs, loads[c], Allowed(c)')
    BY <1>2, <1>3, StillReadable DEF Covered, CallHolds
  <1>7. AppStep(c, doctors[c], screen[c], cs, loads[c])
    BY <1>5 DEF AppStep, IInv, Types, TypeOK
  <1>8. fields' \in [Clients -> [form : StaffForm, typed : SUBSET Fields]] /\ clock' \in Nat
    BY <1>5 DEF IInv, Types, TypeOK
  <1> QED BY <1>2, <1>4, <1>6, <1>7, <1>8, NowReadable, AppStepKeeps

\* The connection changes only what the server has.
LEMMA NetworkStepKeeps ==
  ASSUME IInv, NEW c \in Clients, Registry!Network(c), UNCHANGED fields
  PROVE  IInv'
  <1>1. Keeps
    BY NetworkKeeps
  <1>2. UNCHANGED <<doctors, screen, calls, loads, clock>>
    BY DEF Registry!Network, Registry!appVars
  <1>3. AppStep(c, doctors[c], screen[c], calls[c], loads[c])
    BY <1>2 DEF AppStep, IInv, Types, TypeOK
  <1>4. fields' \in [Clients -> [form : StaffForm, typed : SUBSET Fields]] /\ clock' \in Nat
    BY <1>2 DEF IInv, Types, TypeOK
  <1> QED BY <1>1, <1>3, <1>4, NowReadable, StillReadable, AppStepKeeps

\* A restart keeps cache and queue, and the app starts with an empty list.
LEMMA RestartKeeps ==
  ASSUME IInv, NEW c \in Clients, Restart(c)
  PROVE  IInv'
  <1> DEFINE cs == [s \in Slots |-> Registry!IdleCall]
  <1>1. PICK l \in Loads :
          loads' = [loads EXCEPT ![c] = [IdleLoads EXCEPT ![l] = Registry!AskedLoad]]
    BY DEF Restart
  <1> DEFINE ls == [IdleLoads EXCEPT ![l] = Registry!AskedLoad]
  <1>2. UNCHANGED <<server, cache, fields, clock>> /\ Registry!ForgetWaiters(c)
    BY DEF Restart
  <1>3. Keeps
    BY <1>2, ForgetKeeps
  <1>4. cs \in [Slots -> Registry!Call] /\ \A s \in Slots : CallHolds(cs[s]) = {}
    BY NothingHeld
  <1>5. /\ ls \in [Loads -> Registry!Load]
        /\ \A k \in Loads : PageHolds(ls[k]) = {}
    BY NothingHeld DEF IdleLoads
  <1>6. AppStep(c, <<>>, Registry!ListScreen, cs, ls)
    BY <1>1 DEF Restart, AppStep
  <1> HIDE DEF cs, ls
  <1>7. Covered(<<>>, Registry!ListScreen, cs, ls, Allowed(c)')
    BY <1>4, <1>5, NothingHeld DEF Covered
  <1>8. fields' \in [Clients -> [form : StaffForm, typed : SUBSET Fields]] /\ clock' \in Nat
    BY <1>2 DEF IInv, Types, TypeOK
  <1> QED BY <1>3, <1>4, <1>5, <1>6, <1>7, <1>8, NothingHeld, AppStepKeeps

----------------------------------------------------------------------------
(* The theorems *)

\* At first nothing is held, cached or queued.
LEMMA StartKeeps ==
  ASSUME Init
  PROVE  IInv
  <1>1. /\ server = {} /\ cache = [c \in Clients |-> {}] /\ queue = [c \in Clients |-> <<>>]
        /\ doctors = [c \in Clients |-> <<>>]
        /\ screen = [c \in Clients |-> Registry!ListScreen]
        /\ fields = [c \in Clients |-> BlankForm]
        /\ calls = [c \in Clients |-> [s \in Slots |-> Registry!IdleCall]]
        /\ loads \in [Clients -> {[IdleLoads EXCEPT ![l] = Registry!AskedLoad] : l \in Loads}]
        /\ clock = 0
    BY DEF Init, Registry!StoreInit
  <1>2. \A c \in Clients :
          /\ loads[c] \in [Loads -> Registry!Load]
          /\ \A k \in Loads : PageHolds(loads[c][k]) = {}
    <2> TAKE c \in Clients
    <2>1. PICK l \in Loads : loads[c] = [IdleLoads EXCEPT ![l] = Registry!AskedLoad]
      BY <1>1
    <2>2. \A k \in Loads : loads[c][k] \in {Registry!IdleLoad, Registry!AskedLoad}
      BY <2>1 DEF IdleLoads
    <2>3. loads[c] = [k \in Loads |-> loads[c][k]]
      BY <2>1 DEF IdleLoads
    <2> QED BY <2>2, <2>3, NothingHeld
  <1>3. BlankForm \in [form : StaffForm, typed : SUBSET Fields]
    <2>1. PICK v \in Values : TRUE
      BY FieldsAssumption
    <2>2. [k \in Fields |-> v] \in StaffForm
      BY DEF StaffForm
    <2>3. (CHOOSE f \in StaffForm : TRUE) \in StaffForm
      BY <2>2
    <2> HIDE DEF StaffForm
    <2> QED BY <2>3 DEF BlankForm, Untouched
  <1>4. loads \in [Clients -> [Loads -> Registry!Load]]
    BY <1>1, <1>2
  <1>5. queue \in [Clients -> Seq(Writes)]
    <2> HIDE DEF Writes
    <2> QED BY <1>1
  <1>6. Types
    BY <1>1, <1>3, <1>4, <1>5, NothingHeld DEF Types, TypeOK
  <1>7. ASSUME NEW c \in Clients
        PROVE  /\ Numbers(cache[c]) \subseteq Numbers(server)
               /\ Covered(doctors[c], screen[c], calls[c], loads[c], Allowed(c))
    BY <1>1, <1>2, NothingHeld DEF Covered
  <1> QED BY <1>6, <1>7 DEF IInv, Exist

\* A stutter keeps the invariant.
LEMMA StutterKeeps ==
  ASSUME IInv, UNCHANGED vars
  PROVE  IInv'
  <1>1. UNCHANGED <<server, cache, queue, doctors, screen, fields, calls, loads, clock>>
    BY DEF vars, storeVars
  <1>2. Types'
    BY <1>1 DEF IInv, Types, TypeOK
  <1>3. ASSUME NEW c \in Clients
        PROVE  Covered(doctors'[c], screen'[c], calls'[c], loads'[c], Allowed(c)')
    BY <1>1, NowReadable DEF Allowed
  <1>4. Exist'
    BY <1>1, <1>3 DEF IInv, Exist, Covered, CallHolds, PageHolds, Numbers
  <1> QED BY <1>2, <1>4 DEF IInv

\* Every step keeps the invariant.
LEMMA StepKeeps ==
  ASSUME IInv, [Next]_vars
  PROVE  IInv'
  <1>1. CASE UNCHANGED vars
    BY <1>1, StutterKeeps
  <1>2. CASE Next
    <2>1. PICK c \in Clients :
            \/ OpenAdd(c) \/ OpenEdit(c) \/ Type(c) \/ Back(c)
            \/ \E s \in Slots : TapSave(c, s) \/ SaveStep(c, s)
            \/ VisitStaff(c)
            \/ \E l \in Loads : ServeLoad(c, l) \/ FinishLoad(c, l) \/ LoadFails(c, l)
            \/ (Registry!WriteStep(c) \/ Registry!Network(c)) /\ UNCHANGED fields
            \/ Restart(c)
      BY <1>2 DEF Next
    <2>2. CASE OpenAdd(c) \/ OpenEdit(c) \/ Type(c) \/ Back(c)
      BY <2>2, OpenAddKeeps, OpenEditKeeps, TypeKeeps, BackKeeps
    <2>3. CASE \E s \in Slots : TapSave(c, s) \/ SaveStep(c, s)
      BY <2>3, TapSaveKeeps, SaveStepKeeps
    <2>4. CASE VisitStaff(c)
      BY <2>4, VisitStaffKeeps
    <2>5. CASE \E l \in Loads : ServeLoad(c, l) \/ FinishLoad(c, l) \/ LoadFails(c, l)
      BY <2>5, ServeLoadKeeps, FinishLoadKeeps, LoadFailsKeeps
    <2>6. CASE (Registry!WriteStep(c) \/ Registry!Network(c)) /\ UNCHANGED fields
      BY <2>6, WriteStepKeeps, NetworkStepKeeps
    <2>7. CASE Restart(c)
      BY <2>7, RestartKeeps
    <2> QED BY <2>1, <2>2, <2>3, <2>4, <2>5, <2>6, <2>7
  <1> QED BY <1>1, <1>2

(***************************************************************************)
(* If the server refuses no write, a doctor that a device lists has a      *)
(* document the device can read: for any number of devices, of saves and   *)
(* of loads in flight, whatever the order in which they end.               *)
(***************************************************************************)
THEOREM NoGhostDoctors ==
  ASSUME ~MayReject
  PROVE  Spec => []ListedDoctorsExist
  <1>1. Init => IInv
    BY StartKeeps
  <1>2. IInv /\ [Next]_vars => IInv'
    BY StepKeeps
  <1>3. IInv => ListedDoctorsExist
    BY ListedSuffices
  <1> QED BY <1>1, <1>2, <1>3, PTL DEF Spec

(***************************************************************************)
(* Documents, lists, forms, saves and loads of the staff screens keep      *)
(* their types, whatever the devices, the network and the server do.       *)
(***************************************************************************)
THEOREM StaffTypeCorrect == Spec => []TypeOK
  <1>1. Init => IInv
    BY StartKeeps
  <1>2. IInv /\ [Next]_vars => IInv'
    BY StepKeeps
  <1>3. IInv => TypeOK
    BY DEF IInv, Types
  <1> QED BY <1>1, <1>2, <1>3, PTL DEF Spec

----------------------------------------------------------------------------
(* The form of an edit *)

(***************************************************************************)
(* What makes an update write its form: a field that was not typed into    *)
(* still holds what the doctor on screen has, and a call whose form is     *)
(* still mounted belongs to the form on screen.                            *)
(***************************************************************************)
FormHolds(shown, field) ==
  shown.at = "form" =>
    \A d \in shown.patient, k \in (Fields \cap PlainFields) \ field.typed :
      field.form[k] = d.form[k]

CallOfScreen(shown, call) ==
  call.mounted => shown.at = "form" /\ call.widget = shown.patient

OneDoctor(docs) == \A d, e \in docs : d = e

FormInv ==
  \A c \in Clients :
    /\ FormHolds(screen[c], fields[c])
    /\ OneDoctor(screen[c].patient)
    /\ \A s \in Slots : CallOfScreen(screen[c], calls[c][s])

\* What the types say of one device.
LEMMA FormTypes ==
  ASSUME IInv, NEW c \in Clients
  PROVE  /\ screen \in [Clients -> Registry!Screen] /\ screen[c] \in Registry!Screen
         /\ fields \in [Clients -> [form : StaffForm, typed : SUBSET Fields]]
         /\ fields[c] \in [form : StaffForm, typed : SUBSET Fields]
         /\ calls \in [Clients -> [Slots -> Registry!Call]]
         /\ \A s \in Slots : calls[c][s] \in Registry!Call
  BY DEF IInv, Types, TypeOK

\* A step in which one device has a new screen, form and calls.
LEMMA FormStep ==
  ASSUME FormInv, NEW c \in Clients,
         \A d \in Clients : d # c => /\ screen'[d] = screen[d] /\ fields'[d] = fields[d]
                                     /\ calls'[d] = calls[d],
         FormHolds(screen'[c], fields'[c]), OneDoctor(screen'[c].patient),
         \A s \in Slots : CallOfScreen(screen'[c], calls'[c][s])
  PROVE  FormInv'
  <1>1. ASSUME NEW d \in Clients
        PROVE  /\ FormHolds(screen'[d], fields'[d])
               /\ OneDoctor(screen'[d].patient)
               /\ \A s \in Slots : CallOfScreen(screen'[d], calls'[d][s])
    <2>1. CASE d = c
      BY <2>1
    <2>2. CASE d # c
      BY <2>2 DEF FormInv
    <2> QED BY <2>1, <2>2
  <1> QED BY <1>1 DEF FormInv

\* The screen goes, and its calls with it, or the app starts again.
LEMMA LeaveForm ==
  ASSUME IInv, FormInv, NEW c \in Clients,
         screen' = [screen EXCEPT ![c] = Registry!ListScreen], UNCHANGED fields,
         \A d \in Clients : d # c => calls'[d] = calls[d],
         \A s \in Slots : ~calls'[c][s].mounted
  PROVE  FormInv'
  <1>1. /\ screen'[c] = Registry!ListScreen
        /\ \A d \in Clients : d # c => screen'[d] = screen[d]
    BY FormTypes
  <1>2. FormHolds(Registry!ListScreen, fields[c]) /\ OneDoctor(Registry!ListScreen.patient)
    BY DEF Registry!ListScreen, FormHolds, OneDoctor
  <1>3. \A s \in Slots : CallOfScreen(Registry!ListScreen, calls'[c][s])
    BY DEF CallOfScreen
  <1> QED BY <1>1, <1>2, <1>3, FormStep

\* A call that is set, and is on no screen or on the one it was on.
LEMMA SetCallForm ==
  ASSUME IInv, FormInv, NEW c \in Clients, NEW s \in Slots, NEW call,
         Registry!SetCall(c, s, call), UNCHANGED <<screen, fields>>,
         CallOfScreen(screen[c], call)
  PROVE  FormInv'
  <1>1. /\ \A r \in Slots : calls'[c][r] = IF r = s THEN call ELSE calls[c][r]
        /\ \A d \in Clients : d # c => calls'[d] = calls[d]
    BY FormTypes DEF Registry!SetCall
  <1> QED BY <1>1, FormStep DEF FormInv

\* A call that is over.
LEMMA EndCallForm ==
  ASSUME IInv, FormInv, NEW c \in Clients, NEW s \in Slots,
         Registry!EndCall(c, s), UNCHANGED <<screen, fields>>
  PROVE  FormInv'
  <1>1. CallOfScreen(screen[c], Registry!IdleCall)
    BY DEF CallOfScreen, Registry!IdleCall
  <1> QED BY <1>1, SetCallForm DEF Registry!EndCall

\* The pop at the end of a save.
LEMMA PopForm ==
  ASSUME IInv, FormInv, NEW c \in Clients, NEW s \in Slots,
         Registry!PopForm(c, s), UNCHANGED fields
  PROVE  FormInv'
  <1>1. CASE ~calls[c][s].mounted
    BY <1>1, EndCallForm DEF Registry!PopForm
  <1>2. CASE calls[c][s].mounted
    <2> DEFINE cs == [Registry!Unmounted(c) EXCEPT ![s] = Registry!IdleCall]
    <2>1. /\ screen' = [screen EXCEPT ![c] = Registry!ListScreen]
          /\ calls' = [calls EXCEPT ![c] = cs]
      BY <1>2 DEF Registry!PopForm
    <2>2. \A r \in Slots : ~cs[r].mounted
      <3>1. \A r \in Slots : ~Registry!Unmounted(c)[r].mounted
        BY FormTypes DEF Registry!Unmounted, Registry!Call
      <3> QED BY <3>1 DEF Registry!Unmounted, Registry!IdleCall
    <2> HIDE DEF cs
    <2>3. /\ calls'[c] = cs
          /\ \A d \in Clients : d # c => calls'[d] = calls[d]
      BY <2>1, FormTypes
    <2> QED BY <2>1, <2>2, <2>3, LeaveForm
  <1> QED BY <1>1, <1>2

\* A form is opened: the calls of earlier forms are unmounted.
LEMMA OpenForm ==
  ASSUME IInv, FormInv, NEW c \in Clients, OpenAdd(c) \/ OpenEdit(c)
  PROVE  FormInv'
  <1>1. \A s \in Slots : ~calls[c][s].mounted
    BY DEF OpenAdd, OpenEdit, Registry!OpenAdd, FormInv, CallOfScreen
  <1>2. CASE OpenAdd(c)
    <2>1. /\ screen' = [screen EXCEPT ![c] = [at |-> "form", patient |-> {}]]
          /\ UNCHANGED <<calls, fields>>
      BY <1>2 DEF OpenAdd, Registry!OpenAdd
    <2>2. /\ screen'[c].patient = {}
          /\ \A d \in Clients : d # c => screen'[d] = screen[d]
      BY <2>1, FormTypes
    <2>3. FormHolds(screen'[c], fields[c]) /\ OneDoctor(screen'[c].patient)
      BY <2>2 DEF FormHolds, OneDoctor
    <2> QED BY <1>1, <2>1, <2>2, <2>3, FormStep DEF CallOfScreen
  <1>3. CASE OpenEdit(c)
    <2>1. PICK i \in DOMAIN doctors[c] :
            /\ screen' = [screen EXCEPT ![c] = [at |-> "form", patient |-> {doctors[c][i]}]]
            /\ fields' = [fields EXCEPT ![c] = Untouched(Prefilled(doctors[c][i]))]
      BY <1>3 DEF OpenEdit
    <2> DEFINE p == doctors[c][i]
    <2>2. /\ screen'[c].patient = {p} /\ calls' = calls
          /\ fields'[c] = Untouched(Prefilled(p))
          /\ \A d \in Clients : d # c => screen'[d] = screen[d] /\ fields'[d] = fields[d]
      BY <1>3, <2>1, FormTypes DEF OpenEdit
    <2>3. \A k \in Fields \cap PlainFields : Prefilled(p)[k] = p.form[k]
      BY DEF Prefilled, ShownIn, PlainFields
    <2> HIDE DEF p
    <2>4. FormHolds(screen'[c], fields'[c]) /\ OneDoctor(screen'[c].patient)
      BY <2>2, <2>3 DEF FormHolds, OneDoctor, Untouched
    <2> QED BY <1>1, <2>2, <2>4, FormStep DEF CallOfScreen
  <1> QED BY <1>2, <1>3

\* A typed field is one of those typed into; the others stay.
LEMMA TypeForm ==
  ASSUME IInv, FormInv, NEW c \in Clients, Type(c)
  PROVE  FormInv'
  <1>1. PICK k \in Fields, v \in Values :
          fields' = [fields EXCEPT ![c].form[k] = v, ![c].typed = @ \cup {k}]
    BY DEF Type
  <1>2. UNCHANGED <<screen, calls>>
    BY DEF Type
  <1>3. /\ fields'[c].typed = fields[c].typed \cup {k}
        /\ \A j \in Fields : j # k => fields'[c].form[j] = fields[c].form[j]
        /\ \A d \in Clients : d # c => fields'[d] = fields[d]
    BY <1>1, FormTypes DEF StaffForm
  <1>4. FormHolds(screen[c], fields'[c])
    BY <1>3 DEF FormInv, FormHolds
  <1> QED BY <1>2, <1>3, <1>4, FormStep DEF FormInv

\* A save belongs to the form its button is on, until that is left.
LEMMA SaveForm ==
  ASSUME IInv, FormInv, NEW c \in Clients, NEW s \in Slots,
         TapSave(c, s) \/ SaveStep(c, s)
  PROVE  FormInv'
  <1> DEFINE call == calls[c][s]
  <1>0. fields' = fields
    BY DEF SaveStep, TapSave, StartUpdate
  <1>1. call \in Registry!Call /\ CallOfScreen(screen[c], call)
    BY FormTypes DEF FormInv
  <1>2. CASE TapSave(c, s)
    <2> DEFINE new == [Registry!IdleCall EXCEPT !.stage = "userName", !.mounted = TRUE,
                                                !.widget = screen[c].patient]
    <2>1. /\ Registry!SetCall(c, s, new) /\ UNCHANGED <<screen, fields>>
          /\ screen[c].at = "form"
      BY <1>2 DEF TapSave, Registry!TapSave
    <2>2. new.widget = screen[c].patient
      BY DEF Registry!IdleCall
    <2> HIDE DEF new
    <2> QED BY <2>1, <2>2, SetCallForm DEF CallOfScreen
  <1>3. CASE Registry!SaveAborted(c, s) \/ Registry!IdQueryFails(c, s)
             \/ Registry!UpdateFindsNothing(c, s)
    <2>1. Registry!EndCall(c, s) /\ screen' = screen
      BY <1>3 DEF Registry!SaveAborted, Registry!IdQueryFails, Registry!UpdateFindsNothing
    <2> QED BY <1>0, <2>1, EndCallForm
  <1>4. CASE Registry!FinishAdd(c, s) \/ Registry!FinishUpdate(c, s)
    BY <1>0, <1>4, PopForm DEF Registry!FinishAdd, Registry!FinishUpdate
  <1>5. ASSUME NEW new, Registry!SetCall(c, s, new), screen' = screen,
               new.mounted = call.mounted, new.widget = call.widget
        PROVE  FormInv'
    BY <1>0, <1>1, <1>5, SetCallForm DEF CallOfScreen
  <1>6. CASE Registry!StartAdd(c, s)
    <2>1. PICK f \in StaffForm :
            Registry!SetCall(c, s, [call EXCEPT !.stage = "idQuery", !.form = f])
      BY <1>6 DEF Registry!StartAdd
    <2> DEFINE new == [call EXCEPT !.stage = "idQuery", !.form = f]
    <2>2. new.mounted = call.mounted /\ new.widget = call.widget
      BY <1>1 DEF Registry!Call
    <2> QED BY <1>5, <1>6, <2>1, <2>2 DEF Registry!StartAdd
  <1>7. CASE Registry!ServeIdQuery(c, s)
    <2>1. PICK base \in Registry!Bases(c, 1) :
            \E page \in Registry!Pages(Registry!Overlay(base, queue[c]), 1) :
              Registry!SetCall(c, s, [call EXCEPT !.stage = "idReady",
                                                  !.id = {Registry!NextId(page)}])
      BY <1>7 DEF Registry!ServeIdQuery
    <2>2. PICK page \in Registry!Pages(Registry!Overlay(base, queue[c]), 1) :
            Registry!SetCall(c, s, [call EXCEPT !.stage = "idReady",
                                                !.id = {Registry!NextId(page)}])
      BY <2>1
    <2> DEFINE new == [call EXCEPT !.stage = "idReady", !.id = {Registry!NextId(page)}]
    <2>3. new.mounted = call.mounted /\ new.widget = call.widget
      BY <1>1 DEF Registry!Call
    <2> QED BY <1>5, <1>7, <2>2, <2>3 DEF Registry!ServeIdQuery
  <1>8. CASE Registry!AddWrite(c, s)
    <2>1. PICK id \in call.id :
            LET p == Registry!newPatient(c, id, call.form, clock + 1)
            IN  Registry!SetCall(c, s, [call EXCEPT !.stage = "writing", !.record = {p}])
      BY <1>8 DEF Registry!AddWrite
    <2> DEFINE p == Registry!newPatient(c, id, call.form, clock + 1)
               new == [call EXCEPT !.stage = "writing", !.record = {p}]
    <2>2. new.mounted = call.mounted /\ new.widget = call.widget
      BY <1>1 DEF Registry!Call
    <2> QED BY <1>5, <1>8, <2>1, <2>2 DEF Registry!AddWrite
  <1>9. CASE StartUpdate(c, s)
    <2>1. PICK w \in call.widget, f \in StaffForm :
            LET p == Registry!updatedPatient(w, f)
            IN  Registry!SetCall(c, s, [call EXCEPT !.stage = "writing", !.form = f,
                                                    !.record = {p}])
      BY <1>9 DEF StartUpdate, Registry!StartUpdate
    <2> DEFINE p == Registry!updatedPatient(w, f)
               new == [call EXCEPT !.stage = "writing", !.form = f, !.record = {p}]
    <2>2. new.mounted = call.mounted /\ new.widget = call.widget
      BY <1>1 DEF Registry!Call
    <2> QED BY <1>5, <1>9, <2>1, <2>2 DEF StartUpdate, Registry!StartUpdate
  <1> QED BY <1>2, <1>3, <1>4, <1>6, <1>7, <1>8, <1>9 DEF SaveStep

\* An answer to a write changes nothing but the stage of a call.
LEMMA AnswerForm ==
  ASSUME IInv, FormInv, NEW c \in Clients, Registry!WriteStep(c), UNCHANGED fields
  PROVE  FormInv'
  <1>1. /\ Registry!CompleteWrite(c) /\ UNCHANGED screen
    BY DEF Registry!WriteStep, Registry!WriteAcknowledged, Registry!WriteRejected
  <1>2. /\ \A s \in Slots : calls'[c][s] = IF s \in Head(queue[c]).waiter
                                        THEN [calls[c][s] EXCEPT !.stage = "written"]
                                        ELSE calls[c][s]
        /\ \A d \in Clients : d # c => calls'[d] = calls[d]
    BY <1>1, FormTypes DEF Registry!CompleteWrite
  <1>3. \A s \in Slots : /\ calls'[c][s].mounted = calls[c][s].mounted
                         /\ calls'[c][s].widget = calls[c][s].widget
    BY <1>2, FormTypes DEF Registry!Call
  <1>4. \A s \in Slots : CallOfScreen(screen[c], calls'[c][s])
    BY <1>3 DEF FormInv, CallOfScreen
  <1> QED BY <1>1, <1>2, <1>4, FormStep DEF FormInv

\* Every step keeps the form of an edit and its calls together.
LEMMA FormKept ==
  ASSUME IInv, FormInv, [Next]_vars
  PROVE  FormInv'
  <1>1. ASSUME UNCHANGED <<screen, fields, calls>> PROVE FormInv'
    BY <1>1 DEF FormInv
  <1>2. CASE UNCHANGED vars
    BY <1>1, <1>2 DEF vars
  <1>3. CASE Next
    <2>1. PICK c \in Clients :
            \/ OpenAdd(c) \/ OpenEdit(c) \/ Type(c) \/ Back(c)
            \/ \E s \in Slots : TapSave(c, s) \/ SaveStep(c, s)
            \/ VisitStaff(c)
            \/ \E l \in Loads : ServeLoad(c, l) \/ FinishLoad(c, l) \/ LoadFails(c, l)
            \/ (Registry!WriteStep(c) \/ Registry!Network(c)) /\ UNCHANGED fields
            \/ Restart(c)
      BY <1>3 DEF Next
    <2>2. CASE VisitStaff(c) \/ \E l \in Loads : ServeLoad(c, l) \/ FinishLoad(c, l) \/ LoadFails(c, l)
      BY <1>1, <2>2 DEF VisitStaff, ServeLoad, FinishLoad, LoadFails
    <2>3. CASE Registry!Network(c) /\ UNCHANGED fields
      BY <1>1, <2>3 DEF Registry!Network, Registry!appVars
    <2>4. CASE Back(c)
      <3>1. /\ screen' = [screen EXCEPT ![c] = Registry!ListScreen] /\ fields' = fields
            /\ calls' = [calls EXCEPT ![c] = Registry!Unmounted(c)]
        BY <2>4 DEF Back, Registry!Back
      <3>2. \A s \in Slots : ~Registry!Unmounted(c)[s].mounted
        BY FormTypes DEF Registry!Unmounted, Registry!Call
      <3> QED BY <3>1, <3>2, FormTypes, LeaveForm
    <2>5. CASE Restart(c)
      <3>1. /\ screen' = [screen EXCEPT ![c] = Registry!ListScreen] /\ fields' = fields
            /\ calls' = [calls EXCEPT ![c] = [s \in Slots |-> Registry!IdleCall]]
        BY <2>5 DEF Restart
      <3>2. \A s \in Slots : ~[r \in Slots |-> Registry!IdleCall][s].mounted
        BY DEF Registry!IdleCall
      <3> QED BY <3>1, <3>2, FormTypes, LeaveForm
    <2> QED BY <2>1, <2>2, <2>3, <2>4, <2>5, OpenForm, TypeForm, SaveForm, AnswerForm
  <1> QED BY <1>2, <1>3

\* What an update of a mounted form writes.
LEMMA UpdateOfForm ==
  ASSUME IInv, FormInv, NEW c \in Clients, NEW s \in Slots, StartUpdate(c, s),
         NEW d \in calls[c][s].widget, NEW r \in calls'[c][s].record
  PROVE  /\ r.id = d.id
         /\ \A k \in (Fields \cap PlainFields) \ fields[c].typed : r.form[k] = d.form[k]
  <1> DEFINE call == calls[c][s]
  <1>1. PICK w \in call.widget, f \in StaffForm :
          LET p == Registry!updatedPatient(w, f)
          IN  Registry!SetCall(c, s, [call EXCEPT !.stage = "writing", !.form = f,
                                                  !.record = {p}])
    BY DEF StartUpdate, Registry!StartUpdate
  <1> DEFINE p == Registry!updatedPatient(w, f)
             new == [call EXCEPT !.stage = "writing", !.form = f, !.record = {p}]
  <1>2. call \in Registry!Call /\ call.mounted /\ CallOfScreen(screen[c], call)
    BY FormTypes DEF StartUpdate, Registry!StartUpdate, FormInv
  <1>3. new.record = {p} /\ new.form = f
    BY <1>2 DEF Registry!Call
  <1>4. calls'[c][s] = new
    BY <1>1, FormTypes DEF Registry!SetCall
  <1>5. r = p /\ f = fields[c].form
    BY <1>3, <1>4 DEF StartUpdate
  <1>6. p.form = f /\ p.id = w.id
    BY DEF Registry!updatedPatient, Registry!fromMap
  <1>7. w = d /\ d \in screen[c].patient /\ screen[c].at = "form"
    BY <1>2 DEF CallOfScreen, FormInv, OneDoctor
  <1>8. FormHolds(screen[c], fields[c])
    BY DEF FormInv
  <1> QED BY <1>5, <1>6, <1>7, <1>8 DEF FormHolds

(***************************************************************************)
(* An update writes the form of the doctor it saves, for any number of     *)
(* devices, saves and loads in flight, whatever the server refuses: what   *)
(* was not typed into is what the doctor has, Education and Role apart.    *)
(***************************************************************************)
THEOREM FormsWritten == Spec => UpdateWritesItsForm
  <1>1. Init => IInv /\ FormInv
    <2>1. ASSUME Init PROVE FormInv
      <3>1. /\ \A c \in Clients : screen[c] = Registry!ListScreen
            /\ \A c \in Clients, s \in Slots : ~calls[c][s].mounted
        BY <2>1 DEF Init, Registry!IdleCall
      <3>2. Registry!ListScreen.at = "list" /\ Registry!ListScreen.patient = {}
        BY DEF Registry!ListScreen
      <3> QED BY <3>1, <3>2 DEF FormInv, FormHolds, OneDoctor, CallOfScreen
    <2> QED BY <2>1, StartKeeps
  <1>2. IInv /\ FormInv /\ [Next]_vars => (IInv /\ FormInv)'
    BY StepKeeps, FormKept
  <1>3. IInv /\ FormInv /\ [Next]_vars =>
          [\A c \in Clients, s \in Slots : StartUpdate(c, s) =>
             \A d \in calls[c][s].widget, r \in calls'[c][s].record :
               /\ r.id = d.id
               /\ \A k \in (Fields \cap PlainFields) \ fields[c].typed :
                    r.form[k] = d.form[k]]_vars
    BY UpdateOfForm
  <1> QED BY <1>1, <1>2, <1>3, PTL DEF Spec, UpdateWritesItsForm

----------------------------------------------------------------------------
(* Dated doctors *)

(***************************************************************************)
(* One device that saves one form at a time: what is proved of the saves   *)
(* of patients holds of those of doctors.  The loads of the Staff tab are  *)
(* not those of the patients, so the instance has one that never moves.    *)
(***************************************************************************)
Device == INSTANCE PatientSaveProofs
            WITH Forms <- StaffForm, patients <- doctors, MaxPending <- 0,
                 loads <- [c \in Clients |-> Registry!AskedLoad]

\* What the lemmas of the instance assume of the constants.
LEMMA Instance ==
  StaffForm # {} /\ PageSize \in Nat /\ MayReject \in BOOLEAN
  <1>1. [k \in Fields |-> CHOOSE v \in Values : TRUE] \in StaffForm
    BY FieldsAssumption DEF StaffForm
  <1> QED BY <1>1, PageSizeAssumption, MayRejectAssumption

\* What a save, a confirmation or the network does is the same in both.
LEMMA SameSteps ==
  ASSUME NEW c, NEW s
  PROVE  /\ Registry!OpenAdd(c) => Device!OpenAdd(c)
         /\ Registry!Back(c) => Device!Back(c)
         /\ Registry!TapSave(c, s) => Device!TapSave(c, s)
         /\ Registry!SaveStep(c, s) => Device!SaveStep(c, s)
         /\ Registry!WriteStep(c) => Device!WriteStep(c)
         /\ Registry!Network(c) => Device!Network(c)
  <1> USE DEF
      Registry!NullDate, Device!NullDate, Registry!DateTime,
      Device!DateTime, Registry!Timestamp, Device!Timestamp,
      Registry!TryParse, Device!TryParse, Registry!fromMap,
      Device!fromMap, Registry!toJson, Device!toJson, Registry!Put,
      Device!Put, Registry!PowerOfTen, Device!PowerOfTen, Registry!Width,
      Device!Width, Registry!NameBefore, Device!NameBefore,
      Registry!Newer, Device!Newer, Registry!Pages, Device!Pages,
      Registry!NextId, Device!NextId, Registry!newPatient,
      Device!newPatient, Registry!Set, Device!Set, Registry!Apply,
      Device!Apply, Registry!Pending, Device!Pending, Registry!LastWrites,
      Device!LastWrites, Registry!Overlay, Device!Overlay,
      Registry!DocIds, Device!DocIds, Registry!PageIds, Device!PageIds, Registry!Refreshed,
      Device!Refreshed, Registry!Served, Device!Served, Registry!NoLimbo,
      Device!NoLimbo, Registry!Bases, Device!Bases, Registry!View,
      Device!View, Registry!Enqueue, Device!Enqueue, Registry!Acknowledge,
      Device!Acknowledge, Registry!AcknowledgementLost,
      Device!AcknowledgementLost, Registry!Reject, Device!Reject,
      Registry!Disconnect, Device!Disconnect, Registry!Reconnect,
      Device!Reconnect, Registry!storeVars, Device!storeVars,
      Registry!SetCall, Device!SetCall, Registry!EndCall, Device!EndCall,
      Registry!IdleCall, Device!IdleCall, Registry!ListScreen,
      Device!ListScreen, Registry!Unmounted, Device!Unmounted,
      Registry!PopForm, Device!PopForm, Registry!IndicesOf,
      Device!IndicesOf, Registry!updatedPatient, Device!updatedPatient,
      Registry!CompleteWrite, Device!CompleteWrite
  <1>1. Registry!OpenAdd(c) => Device!OpenAdd(c)
    BY Zenon DEF Registry!OpenAdd, Device!OpenAdd
  <1>2. Registry!Back(c) => Device!Back(c)
    BY Zenon DEF Registry!Back, Device!Back
  <1>3. Registry!TapSave(c, s) => Device!TapSave(c, s)
    BY Zenon DEF Registry!TapSave, Device!TapSave
  <1>4. Registry!SaveStep(c, s) => Device!SaveStep(c, s)
    <2>1. Registry!SaveAborted(c, s) => Device!SaveAborted(c, s)
      BY Zenon DEF Registry!SaveAborted, Device!SaveAborted
    <2>2. Registry!StartAdd(c, s) => Device!StartAdd(c, s)
      BY Zenon DEF Registry!StartAdd, Device!StartAdd
    <2>3. Registry!StartUpdate(c, s) => Device!StartUpdate(c, s)
      BY Zenon DEF Registry!StartUpdate, Device!StartUpdate
    <2>4. Registry!ServeIdQuery(c, s) => Device!ServeIdQuery(c, s)
      BY Zenon DEF Registry!ServeIdQuery, Device!ServeIdQuery
    <2>5. Registry!IdQueryFails(c, s) => Device!IdQueryFails(c, s)
      BY Zenon DEF Registry!IdQueryFails, Device!IdQueryFails
    <2>6. Registry!AddWrite(c, s) => Device!AddWrite(c, s)
      BY Zenon DEF Registry!AddWrite, Device!AddWrite
    <2>7. Registry!FinishAdd(c, s) => Device!FinishAdd(c, s)
      BY Zenon DEF Registry!FinishAdd, Device!FinishAdd
    <2>8. Registry!FinishUpdate(c, s) => Device!FinishUpdate(c, s)
      BY Zenon DEF Registry!FinishUpdate, Device!FinishUpdate
    <2>9. Registry!UpdateFindsNothing(c, s) => Device!UpdateFindsNothing(c, s)
      BY Zenon DEF Registry!UpdateFindsNothing, Device!UpdateFindsNothing
    <2> QED BY <2>1, <2>2, <2>3, <2>4, <2>5, <2>6, <2>7, <2>8, <2>9 DEF Registry!SaveStep, Device!SaveStep
  <1>5. Registry!WriteStep(c) => Device!WriteStep(c)
    BY Zenon DEF
      Registry!WriteStep, Device!WriteStep, Registry!WriteAcknowledged,
      Device!WriteAcknowledged, Registry!WriteRejected,
      Device!WriteRejected
  <1>6. Registry!Network(c) => Device!Network(c)
    BY Zenon DEF Registry!Network, Device!Network, Registry!appVars, Device!appVars
  <1> QED BY <1>1, <1>2, <1>3, <1>4, <1>5, <1>6

\* So is what an answer, a page of it and a loaded doctor are.
LEMMA SameReads ==
  ASSUME NEW c
  PROVE  /\ Registry!View(c) = Device!View(c) /\ Registry!View(c)' = Device!View(c)'
         /\ Registry!Bases(c, PageSize) = Device!Bases(c, PageSize)
         /\ \A base : Registry!Pages(Registry!Overlay(base, queue[c]), PageSize)
                        = Device!Pages(Device!Overlay(base, queue[c]), PageSize)
         /\ \A d : Registry!fromMap(d) = Device!fromMap(d)
         /\ Registry!Screen = Device!Screen /\ Registry!Doc = Device!Doc
         /\ Registry!Patient = Device!Patient
  <1> USE DEF
      Registry!NullDate, Device!NullDate, Registry!DateTime,
      Device!DateTime, Registry!Timestamp, Device!Timestamp,
      Registry!TryParse, Device!TryParse, Registry!fromMap,
      Device!fromMap, Registry!toJson, Device!toJson, Registry!Put,
      Device!Put, Registry!PowerOfTen, Device!PowerOfTen, Registry!Width,
      Device!Width, Registry!NameBefore, Device!NameBefore,
      Registry!Newer, Device!Newer, Registry!Pages, Device!Pages,
      Registry!NextId, Device!NextId, Registry!newPatient,
      Device!newPatient, Registry!Set, Device!Set, Registry!Apply,
      Device!Apply, Registry!Pending, Device!Pending, Registry!LastWrites,
      Device!LastWrites, Registry!Overlay, Device!Overlay,
      Registry!DocIds, Device!DocIds, Registry!PageIds, Device!PageIds, Registry!Refreshed,
      Device!Refreshed, Registry!Served, Device!Served, Registry!NoLimbo,
      Device!NoLimbo, Registry!Bases, Device!Bases, Registry!View,
      Device!View
  <1>1. Registry!View(c) = Device!View(c)
    BY Zenon
  <1>2. Registry!View(c)' = Device!View(c)'
    BY Zenon
  <1>3. Registry!Bases(c, PageSize) = Device!Bases(c, PageSize)
    BY Zenon
  <1>4. \A base : Registry!Pages(Registry!Overlay(base, queue[c]), PageSize)
                   = Device!Pages(Device!Overlay(base, queue[c]), PageSize)
    BY Zenon
  <1>5. \A d : Registry!fromMap(d) = Device!fromMap(d)
    BY Zenon
  <1>6. Registry!Screen = Device!Screen /\ Registry!Doc = Device!Doc
        /\ Registry!Patient = Device!Patient
    BY Zenon DEF Registry!Screen, Device!Screen, Registry!Doc, Device!Doc,
       Registry!Patient, Device!Patient, Registry!DateTimes, Device!DateTimes,
       Registry!Timestamps, Device!Timestamps
  <1> QED BY <1>1, <1>2, <1>3, <1>4, <1>5, <1>6

(***************************************************************************)
(* The inductive invariant: that of the saves, for the documents read      *)
(* after some registration; and the pages of all loads hold doctors that   *)
(* have documents.                                                         *)
(***************************************************************************)
PagesRead(c) ==
  \A l \in Loads : \A d \in Registry!ToSet(loads[c][l].page) : Device!Has(Device!View(c), d)

DatedInv(c, s) ==
  /\ \E snap : Device!SaveInv(c, s, snap)
  /\ PagesRead(c)

\* The documents a step can leave.
Saves(c, s, snap) ==
  /\ Device!TypeOK' /\ Device!Agreement'
  /\ \/ Device!Quiet(c, s, snap) \/ Device!Registers(c, s) \/ Device!Changes(c, s, snap)

\* The steps of the saves, the queue and the network, and a restart, are steps of
\* the instance.
LEMMA SharedStep ==
  ASSUME NEW c, NEW s, Device!Alone(c, s),
         \/ OpenAdd(c) \/ Back(c) \/ TapSave(c, s) \/ SaveStep(c, s)
         \/ Registry!WriteStep(c) \/ Registry!Network(c) \/ Restart(c)
  PROVE  Device!Next
  <1>1. c \in Clients /\ s \in Slots
    BY DEF Device!Alone
  <1>2. CASE Restart(c)
    <2>1. /\ Registry!ListScreen = Device!ListScreen /\ Registry!IdleCall = Device!IdleCall
          /\ Registry!AskedLoad = Device!AskedLoad
          /\ Registry!ForgetWaiters(c) => Device!ForgetWaiters(c)
      BY Zenon DEF Registry!ListScreen, Device!ListScreen, Registry!IdleCall,
         Device!IdleCall, Registry!AskedLoad, Device!AskedLoad, Registry!ForgetWaiters,
         Device!ForgetWaiters
    <2>2. [d \in Clients |-> Registry!AskedLoad]
            = [[d \in Clients |-> Registry!AskedLoad] EXCEPT ![c] = Device!AskedLoad]
      BY <2>1
    <2>3. Device!Restart(c)
      BY <1>2, <2>1, <2>2, Zenon DEF Restart, Device!Restart
    <2> QED BY <1>1, <2>3 DEF Device!Next
  <1>3. CASE \/ OpenAdd(c) \/ Back(c) \/ TapSave(c, s) \/ SaveStep(c, s)
             \/ Registry!WriteStep(c) \/ Registry!Network(c)
    <2>1. SaveStep(c, s) => Registry!SaveStep(c, s)
      BY DEF SaveStep, StartUpdate, Registry!SaveStep
    <2> QED BY <1>1, <1>3, <2>1, SameSteps
            DEF OpenAdd, Back, TapSave, Device!ScreenStep, Device!Next
  <1> QED BY <1>2, <1>3

\* A step of the list and of the loads changes nothing that can be read.
LEMMA OwnStepSaves ==
  ASSUME NEW c, NEW s, NEW snap, Device!Alone(c, s), Device!SaveInv(c, s, snap),
         PagesRead(c), IInv,
         \/ OpenEdit(c) \/ Type(c) \/ VisitStaff(c)
         \/ \E l \in Loads : ServeLoad(c, l) \/ FinishLoad(c, l) \/ LoadFails(c, l)
  PROVE  Saves(c, s, snap)
  <1> DEFINE Now(list, shown) ==
        Device!Memory(Device!View(c), snap, list, shown, calls[c][s], Registry!AskedLoad.page)
  <1>1. /\ c \in Clients /\ Device!TypeOK /\ Device!Agreement
        /\ Now(doctors[c], screen[c].patient)
        /\ [d \in Clients |-> Registry!AskedLoad][c] = Registry!AskedLoad
    BY Instance, Device!TheDevice, Device!Known
  <1>2. \A list : (\A p \in Device!ToSet(list) : Device!Has(Device!View(c), p)
                                                /\ p.createdAt = Device!NullDate)
          => Now(list, screen[c].patient)
    BY <1>1, Instance, Device!ListLoaded
  <1>3. \A p \in Device!ToSet(doctors[c]) : Now(doctors[c], {p})
    BY <1>1, Instance, Device!ScreenChanges
  <1> HIDE DEF Now
  <1>4. SUFFICES /\ Device!TypeOK' /\ Device!Agreement' /\ Device!View(c)' = Device!View(c)
                 /\ UNCHANGED <<calls, clock>>
                 /\ Now((doctors[c])', (screen[c].patient)')
    BY <1>1 DEF Saves, Device!Quiet, Now
  <1>5. ASSUME UNCHANGED Registry!storeVars
        PROVE  Device!Agreement' /\ Device!View(c)' = Device!View(c)
    BY <1>1, <1>5 DEF Registry!storeVars, Device!Agreement, Device!View
  <1>6. CASE OpenEdit(c)
    <2>1. PICK i \in DOMAIN doctors[c] :
            screen' = [screen EXCEPT ![c] = [at |-> "form", patient |-> {doctors[c][i]}]]
      BY <1>6 DEF OpenEdit
    <2>2. /\ UNCHANGED <<storeVars, doctors, calls, clock, saves, visits>>
          /\ UNCHANGED Registry!storeVars
      BY <1>6 DEF OpenEdit, storeVars, Registry!storeVars
    <2>3. doctors[c][i] \in Device!Patient /\ doctors[c][i] \in Device!ToSet(doctors[c])
      BY <1>1 DEF Device!TypeOK, Device!ToSet
    <2>4. screen' \in [Clients -> Device!Screen] /\ (screen[c].patient)' = {doctors[c][i]}
      BY <1>1, <2>1, <2>3 DEF Device!TypeOK, Device!Screen
    <2>5. Device!TypeOK'
      BY <1>1, <2>2, <2>4 DEF storeVars, Device!TypeOK
    <2> QED BY <1>3, <1>5, <2>2, <2>3, <2>4, <2>5
  <1>7. CASE Type(c) \/ VisitStaff(c) \/ \E l \in Loads : LoadFails(c, l)
    <2>1. /\ UNCHANGED <<storeVars, doctors, screen, calls, clock, saves>>
          /\ UNCHANGED Registry!storeVars /\ visits' \in {visits, visits + 1}
      BY <1>7 DEF Type, VisitStaff, LoadFails, storeVars, Registry!storeVars
    <2>2. Device!TypeOK'
      BY <1>1, <2>1 DEF storeVars, Device!TypeOK
    <2> QED BY <1>1, <1>5, <2>1, <2>2
  <1>8. CASE \E l \in Loads : ServeLoad(c, l)
    <2>1. PICK base \in Device!Bases(c, PageSize) : cache' = [cache EXCEPT ![c] = base]
      BY <1>8, SameReads DEF ServeLoad
    <2>2. UNCHANGED <<server, queue, online, doctors, screen, calls, clock, saves, visits>>
      BY <1>8 DEF ServeLoad
    <2>3. Device!Overlay(base, queue[c]) = Device!View(c)
      BY <1>1, Instance, Device!OverlayAnswer
    <2>4. Device!Agreement'
      BY <1>1, <2>1, <2>2, Instance, Device!AnswerAgrees
    <2>5. base \in SUBSET Device!Doc
      BY <1>1, Instance, Device!BasesHold DEF Device!TypeOK
    <2>6. Device!TypeOK'
      BY <1>1, <2>1, <2>2, <2>5 DEF Device!TypeOK
    <2>7. Device!View(c)' = Device!View(c)
      BY <1>1, <2>1, <2>2, <2>3 DEF Device!View, Device!TypeOK
    <2> QED BY <1>1, <2>2, <2>4, <2>6, <2>7
  <1>9. CASE \E l \in Loads : FinishLoad(c, l)
    <2>1. PICK l \in Loads : FinishLoad(c, l)
      BY <1>9
    <2> DEFINE page == loads[c][l].page
               new == [i \in DOMAIN page |-> Device!fromMap(page[i])]
    <2>2. doctors' = [doctors EXCEPT ![c] = new]
      BY <2>1, SameReads DEF FinishLoad
    <2>3. /\ UNCHANGED <<storeVars, screen, calls, clock, saves, visits>>
          /\ UNCHANGED Registry!storeVars
      BY <2>1 DEF FinishLoad, storeVars, Registry!storeVars
    <2>4. page \in Seq(Device!Doc)
      BY <1>1, SameReads DEF IInv, Types, TypeOK, Registry!Load
    <2>5. new \in Seq(Device!Patient)
      BY <2>4, Instance, Device!FromMapType
    <2>6. ASSUME NEW p \in Device!ToSet(new)
          PROVE  Device!Has(Device!View(c), p) /\ p.createdAt = Device!NullDate
      <3>1. PICK i \in DOMAIN page : p = Device!fromMap(page[i])
        BY DEF Device!ToSet
      <3>2. page[i] \in Device!Doc /\ Device!Has(Device!View(c), page[i])
        BY <2>4 DEF PagesRead, Registry!ToSet
      <3>3. p.id = page[i].id /\ p.createdAt = Device!NullDate
        BY <3>1, <3>2 DEF Device!fromMap, Device!TryParse, Device!Doc, Device!Timestamps,
           Device!NullDate, Device!Timestamp
      <3> QED BY <3>2, <3>3 DEF Device!Has
    <2> HIDE DEF new
    <2>7. (doctors[c])' = new /\ Device!TypeOK'
      BY <1>1, <2>2, <2>3, <2>5 DEF storeVars, Device!TypeOK
    <2> QED BY <1>2, <1>5, <2>3, <2>6, <2>7
  <1> QED BY <1>6, <1>7, <1>8, <1>9

\* The pages of the loads are read from the documents there are.
LEMMA PagesKept ==
  ASSUME NEW c, NEW s, NEW snap, Device!Alone(c, s), Device!SaveInv(c, s, snap),
         PagesRead(c), IInv, Next, Saves(c, s, snap)
  PROVE  PagesRead(c)'
  <1>1. c \in Clients /\ Clients = {c} /\ Device!Agreement
    BY Instance, Device!Known DEF Device!Alone
  <1>2. \A p : Device!Has(Device!View(c), p) => Device!Has(Device!View(c)', p)
    BY Instance, Device!DocumentsStay DEF Saves
  <1>3. \A l \in Loads : loads[c] \in [Loads -> Registry!Load]
    BY <1>1 DEF IInv, Types, TypeOK
  <1>4. ASSUME NEW l \in Loads,
               (loads[c][l].page)' \in {loads[c][l].page, <<>>}
        PROVE  \A d \in Registry!ToSet((loads[c][l].page)') : Device!Has(Device!View(c)', d)
    BY <1>2, <1>4 DEF PagesRead, Registry!ToSet
  <1>5. CASE \E l \in Loads : ServeLoad(c, l)
    <2>1. PICK l \in Loads : ServeLoad(c, l)
      BY <1>5
    <2>2. PICK base \in Device!Bases(c, PageSize) :
            \E page \in Device!Pages(Device!Overlay(base, queue[c]), PageSize) :
              loads' = [loads EXCEPT ![c][l] = [stage |-> "ready", page |-> page]]
      <3>1. PICK base \in Registry!Bases(c, PageSize) :
              \E page \in Registry!Pages(Registry!Overlay(base, queue[c]), PageSize) :
                loads' = [loads EXCEPT ![c][l] = [stage |-> "ready", page |-> page]]
        BY <2>1 DEF ServeLoad
      <3>2. Registry!Bases(c, PageSize) = Device!Bases(c, PageSize)
        BY SameReads
      <3>3. Registry!Pages(Registry!Overlay(base, queue[c]), PageSize)
              = Device!Pages(Device!Overlay(base, queue[c]), PageSize)
        BY SameReads
      <3>4. base \in Device!Bases(c, PageSize)
        BY <3>1, <3>2, Zenon
      <3>5. \E page \in Device!Pages(Device!Overlay(base, queue[c]), PageSize) :
              loads' = [loads EXCEPT ![c][l] = [stage |-> "ready", page |-> page]]
        BY <3>1, <3>3, Zenon
      <3> QED BY <3>4, <3>5, Zenon
    <2>3. PICK page \in Device!Pages(Device!View(c), PageSize) :
            loads' = [loads EXCEPT ![c][l] = [stage |-> "ready", page |-> page]]
      BY <1>1, <2>2, Instance, Device!OverlayAnswer
    <2>4. Device!ToSet(page) \subseteq Device!View(c)
      BY <2>3, Instance, Device!PagesType
    <2>5. \A d \in Registry!ToSet(page) : Device!Has(Device!View(c)', d)
      BY <1>2, <2>4 DEF Device!Has, Device!ToSet, Registry!ToSet
    <2>6. \A k \in Loads : (loads[c][k].page)' = IF k = l THEN page ELSE loads[c][k].page
      BY <1>1, <1>3, <2>3 DEF IInv, Types, TypeOK
    <2> QED BY <2>5, <2>6, <1>4 DEF PagesRead
  <1>6. CASE ~ \E l \in Loads : ServeLoad(c, l)
    <2>1. \A l \in Loads : (loads[c][l].page)' \in {loads[c][l].page, <<>>}
      <3>1. \/ loads' = loads
            \/ \E l \in Loads : \E new \in {Registry!AskedLoad, Registry!IdleLoad} :
                 loads' = [loads EXCEPT ![c][l] = new]
            \/ \E l \in Loads :
                 loads' = [loads EXCEPT ![c] = [IdleLoads EXCEPT ![l] = Registry!AskedLoad]]
        <4>1. CASE \/ OpenAdd(c) \/ OpenEdit(c) \/ Type(c) \/ Back(c)
                   \/ \E s1 \in Slots : TapSave(c, s1) \/ SaveStep(c, s1)
          BY <4>1 DEF OpenAdd, OpenEdit, Type, Back, TapSave, SaveStep, StartUpdate,
             Registry!OpenAdd, Registry!Back, Registry!TapSave, Registry!SaveAborted,
             Registry!StartAdd, Registry!StartUpdate, Registry!ServeIdQuery,
             Registry!IdQueryFails, Registry!AddWrite, Registry!FinishAdd,
             Registry!FinishUpdate, Registry!UpdateFindsNothing
        <4>2. CASE Registry!WriteStep(c) \/ Registry!Network(c)
          BY <4>2 DEF Registry!WriteStep, Registry!WriteAcknowledged,
             Registry!WriteRejected, Registry!Network, Registry!appVars
        <4>3. CASE \/ VisitStaff(c) \/ Restart(c)
                   \/ \E l \in Loads : FinishLoad(c, l) \/ LoadFails(c, l)
          BY <4>3 DEF VisitStaff, Restart, FinishLoad, LoadFails
        <4> QED BY <1>1, <1>6, <4>1, <4>2, <4>3 DEF Next
      <3>2. Registry!AskedLoad.page = <<>> /\ Registry!IdleLoad.page = <<>>
        BY DEF Registry!AskedLoad, Registry!IdleLoad
      <3> QED BY <1>1, <1>3, <3>1, <3>2 DEF IdleLoads, IInv, Types, TypeOK
    <2> QED BY <1>4, <2>1 DEF PagesRead
  <1> QED BY <1>5, <1>6

\* Every step keeps the invariant, and is one of the kinds of steps of a save.
LEMMA DatedStep ==
  ASSUME NEW c, NEW s, Device!Alone(c, s), IInv, DatedInv(c, s), Next
  PROVE  DatedInv(c, s)' /\ \E snap : Device!SaveInv(c, s, snap) /\ Saves(c, s, snap)
  <1>1. PICK snap : Device!SaveInv(c, s, snap)
    BY DEF DatedInv
  <1>2. Saves(c, s, snap)
    <2>1. Clients = {c} /\ Slots = {s}
      BY DEF Device!Alone
    <2>2. \/ OpenAdd(c) \/ Back(c) \/ TapSave(c, s) \/ SaveStep(c, s)
          \/ Registry!WriteStep(c) \/ Registry!Network(c) \/ Restart(c)
          \/ OpenEdit(c) \/ Type(c) \/ VisitStaff(c)
          \/ \E l \in Loads : ServeLoad(c, l) \/ FinishLoad(c, l) \/ LoadFails(c, l)
      BY <2>1 DEF Next
    <2>3. Device!Next => Saves(c, s, snap)
      BY <1>1, Instance, Device!StepKinds DEF Saves
    <2> QED BY <1>1, <2>2, <2>3, SharedStep, OwnStepSaves DEF DatedInv
  <1>3. \E new : Device!SaveInv(c, s, new)'
    <2>1. /\ Device!Quiet(c, s, snap) => Device!Numbering(Device!View(c)', snap, clock')
          /\ Device!Registers(c, s)
               => Device!Numbering(Device!View(c)', Device!View(c)', clock')
          /\ Device!Changes(c, s, snap) => Device!Numbering(Device!View(c)', snap, clock')
      BY <1>1, Instance, Device!NumberingKept
    <2>2. CASE Device!Quiet(c, s, snap) \/ Device!Changes(c, s, snap)
      <3>1. Device!SaveInv(c, s, snap)'
        BY <1>2, <2>1, <2>2 DEF Saves, Device!SaveInv, Device!Quiet, Device!Changes
      <3> QED BY <3>1
    <2>3. CASE Device!Registers(c, s)
      <3> DEFINE Holds(new) ==
            /\ Device!TypeOK' /\ Device!Agreement'
            /\ Device!Numbering(Device!View(c)', new, clock')
            /\ Device!Memory(Device!View(c)', new, (doctors[c])', (screen[c].patient)',
                             (calls[c][s])', Registry!AskedLoad.page)
      <3>1. c \in Clients
        BY DEF Device!Alone
      <3>2. Holds(Device!View(c)')
        BY <1>2, <2>1, <2>3, <3>1 DEF Saves, Device!Registers
      <3>3. \A new : Holds(new) => Device!SaveInv(c, s, new)'
        BY <3>1 DEF Device!SaveInv
      <3> HIDE DEF Holds
      <3> QED BY <3>2, <3>3
    <2> QED BY <1>2, <2>2, <2>3 DEF Saves
  <1>4. PagesRead(c)'
    BY <1>1, <1>2, PagesKept DEF DatedInv
  <1> QED BY <1>1, <1>2, <1>3, <1>4 DEF DatedInv

(***************************************************************************)
(* On one device that saves one form at a time, and while no write is      *)
(* refused, a registration replaces no doctor whose document carries a     *)
(* date, however many loads of the Staff tab are in flight and in whatever *)
(* order their answers come; for any number of saves, visits and restarts. *)
(***************************************************************************)
THEOREM DatedDoctorsStay ==
  ASSUME NEW c0, NEW s0, Clients = {c0}, Slots = {s0}, ~MayReject
  PROVE  Spec => DatedDoctorsKept
  <1>1. Device!Alone(c0, s0)
    BY DEF Device!Alone
  <1>2. Init => IInv /\ DatedInv(c0, s0)
    <2>1. ASSUME Init PROVE DatedInv(c0, s0)
      <3>1. Device!Init
        <4>1. /\ Registry!StoreInit => Device!StoreInit
              /\ Registry!ListScreen = Device!ListScreen
              /\ Registry!IdleCall = Device!IdleCall /\ Registry!AskedLoad = Device!AskedLoad
          BY Zenon DEF Registry!StoreInit, Device!StoreInit, Registry!ListScreen,
             Device!ListScreen, Registry!IdleCall, Device!IdleCall, Registry!AskedLoad,
             Device!AskedLoad
        <4> QED BY <2>1, <4>1, Zenon DEF Init, Device!Init
      <3>2. Device!SaveInv(c0, s0, {})
        BY <1>1, <3>1, Instance, Device!SavesStart
      <3>3. \A l \in Loads : loads[c0][l].page = <<>>
        <4>1. PICK k \in Loads : loads[c0] = [IdleLoads EXCEPT ![k] = Registry!AskedLoad]
          BY <2>1 DEF Init
        <4> QED BY <4>1 DEF IdleLoads, Registry!AskedLoad, Registry!IdleLoad
      <3>4. PagesRead(c0)
        BY <3>3 DEF PagesRead, Registry!ToSet
      <3> QED BY <3>2, <3>4 DEF DatedInv
    <2> QED BY <2>1, StartKeeps
  <1>3. IInv /\ DatedInv(c0, s0) /\ [Next]_vars => (IInv /\ DatedInv(c0, s0))'
    <2>1. ASSUME UNCHANGED vars, DatedInv(c0, s0) PROVE DatedInv(c0, s0)'
      <3>1. PICK snap : Device!SaveInv(c0, s0, snap)
        BY <2>1 DEF DatedInv
      <3>2. Device!SaveInv(c0, s0, snap)' /\ PagesRead(c0)'
        BY <2>1, <3>1 DEF vars, storeVars, DatedInv, PagesRead, Device!SaveInv,
           Device!TypeOK, Device!Agreement, Device!View
      <3> QED BY <3>2 DEF DatedInv
    <2> QED BY <1>1, <2>1, DatedStep, StepKeeps
  <1>4. ASSUME IInv, DatedInv(c0, s0), Next, clock' # clock,
               NEW d \in Registry!View(c0), NEW e \in Registry!View(c0)',
               d.id = e.id, d.createdAt # Registry!NullDate
        PROVE  d = e
    <2>1. PICK snap : Device!SaveInv(c0, s0, snap) /\ Saves(c0, s0, snap)
      BY <1>1, <1>4, DatedStep
    <2>2. Device!Registers(c0, s0)
      BY <1>4, <2>1 DEF Saves, Device!Quiet, Device!Changes
    <2>3. Registry!View(c0) = Device!View(c0) /\ Registry!View(c0)' = Device!View(c0)'
      BY SameReads
    <2>4. Registry!NullDate = Device!NullDate
      BY DEF Registry!NullDate, Device!NullDate
    <2> QED BY <1>1, <1>4, <2>1, <2>2, <2>3, <2>4, Instance, Device!RegistersReplacesNone
  <1>5. IInv /\ DatedInv(c0, s0) /\ [Next]_vars
          => [clock' # clock =>
                \A c \in Clients : \A d \in Registry!View(c), e \in Registry!View(c)' :
                  d.id = e.id /\ d.createdAt # Registry!NullDate => d = e]_(Registry!vars)
    BY <1>4 DEF vars, storeVars, Registry!vars, Registry!storeVars, Registry!appVars
  <1> QED BY <1>2, <1>3, <1>5, PTL DEF Spec, DatedDoctorsKept, Registry!RegistrationKept
====
