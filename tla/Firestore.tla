----------------------------- MODULE Firestore -----------------------------
(***************************************************************************)
(* The collection 'patients' on the server and, on every device, the       *)
(* Firestore SDK: the cache of server documents, the persistent queue of   *)
(* local mutations, the overlay of the one on the other that every query   *)
(* reads, and the stream that sends the queue, head first, while the       *)
(* device is online.  A collection is a set of documents, one per id.      *)
(***************************************************************************)
EXTENDS Documents, FiniteSets

CONSTANTS Slots,      \* save calls that can be in flight on one device
          MayReject   \* can the server refuse a write for good?

ASSUME MayRejectAssumption == MayReject \in BOOLEAN

VARIABLES server,   \* the documents the server holds
          cache,    \* per device, the server documents it has cached
          queue,    \* per device, the mutations the server has not confirmed
          online    \* per device, does it reach the server?

storeVars == <<server, cache, queue, online>>

(***************************************************************************)
(* A mutation leaves the documents docs under its id: one for a set, none  *)
(* for a delete.  waiter is the save call whose future it completes.       *)
(***************************************************************************)
Mutation ==
  {m \in [id : Nat \ {0}, docs : SUBSET Doc, waiter : SUBSET Slots] :
     \A d \in m.docs : d.id = m.id}

Set(doc, s) == [id |-> doc.id, docs |-> {doc}, waiter |-> {s}]
Delete(id) == [id |-> id, docs |-> {}, waiter |-> {}]

DocIds(docs) == {d.id : d \in docs}

Apply(docs, m) == {d \in docs : d.id # m.id} \cup m.docs

Pending(q, id) == \E i \in DOMAIN q : q[i].id = id

\* The indices of the mutations that no later one of the same id hides.
LastWrites(q) == {i \in DOMAIN q : \A j \in DOMAIN q : j > i => q[j].id # q[i].id}

Overlay(base, q) ==
  {d \in base : ~Pending(q, d.id)} \cup UNION {q[i].docs : i \in LastWrites(q)}

PageIds(page) == {page[i].id : i \in DOMAIN page}

\* The cache once the documents with these ids are as the server has them.
Refreshed(c, ids) ==
  {d \in cache[c] : d.id \notin ids} \cup {d \in server : d.id \in ids}

(***************************************************************************)
(* What get() reads its page from.  Offline it is the cache as it is.      *)
(* Online the server sends its page, and the answer waits until no         *)
(* document in it is in limbo, that is, cached only: such a document is    *)
(* looked up on the server.  extra are the limbo documents looked up.      *)
(***************************************************************************)
Served(limit) == UNION {PageIds(p) : p \in Pages(server, limit)}

NoLimbo(c, ids, limit) ==
  \A p \in Pages(Overlay(Refreshed(c, ids), queue[c]), limit) :
    \A id \in PageIds(p) : id \in ids \/ Pending(queue[c], id)

Bases(c, limit) ==
  IF online[c]
  THEN {Refreshed(c, Served(limit) \cup extra) :
          extra \in {x \in SUBSET DocIds(cache[c]) :
                       NoLimbo(c, Served(limit) \cup x, limit)}}
  ELSE {cache[c]}

\* What a query reads on the device.
View(c) == Overlay(cache[c], queue[c])

----------------------------------------------------------------------------
StoreInit ==
  /\ server = {}
  /\ cache = [c \in Clients |-> {}]
  /\ queue = [c \in Clients |-> <<>>]
  /\ online = [c \in Clients |-> TRUE]

\* doc(id).set() and doc(id).delete() return at once; the write is queued.
Enqueue(c, m) == queue' = [queue EXCEPT ![c] = Append(@, m)]

\* Mutation: a confirmed write leaves the queue without entering the cache.
AcknowledgeUncached(c) ==
  /\ online[c]
  /\ queue[c] # <<>>
  /\ server' = Apply(server, Head(queue[c]))
  /\ queue' = [queue EXCEPT ![c] = Tail(@)]
  /\ UNCHANGED <<cache, online>>

\* The server applies the oldest write and the device hears of it.
Acknowledge(c) ==
  /\ online[c]
  /\ queue[c] # <<>>
  /\ server' = Apply(server, Head(queue[c]))
  /\ cache' = [cache EXCEPT ![c] = Apply(@, Head(queue[c]))]
  /\ queue' = [queue EXCEPT ![c] = Tail(@)]
  /\ UNCHANGED online

\* The server applies the first n writes and the connection drops before the
\* device hears of any of them: they stay queued and are sent again.
AcknowledgementLost(c) ==
  /\ online[c]
  /\ \E n \in 1 .. Len(queue[c]) : server' = Overlay(server, SubSeq(queue[c], 1, n))
  /\ online' = [online EXCEPT ![c] = FALSE]
  /\ UNCHANGED <<cache, queue>>

\* The server refuses the oldest write with a permanent error.
Reject(c) ==
  /\ MayReject
  /\ online[c]
  /\ queue[c] # <<>>
  /\ queue' = [queue EXCEPT ![c] = Tail(@)]
  /\ UNCHANGED <<server, cache, online>>

Disconnect(c) ==
  /\ online[c]
  /\ online' = [online EXCEPT ![c] = FALSE]
  /\ UNCHANGED <<server, cache, queue>>

Reconnect(c) ==
  /\ ~online[c]
  /\ online' = [online EXCEPT ![c] = TRUE]
  /\ UNCHANGED <<server, cache, queue>>

\* A restart of the app: cache and queue are on disk, the futures are lost.
ForgetWaiters(c) ==
  queue' = [queue EXCEPT ![c] =
              [i \in DOMAIN @ |-> [@[i] EXCEPT !.waiter = {}]]]
=============================================================================
