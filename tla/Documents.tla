----------------------------- MODULE Documents -----------------------------
(***************************************************************************)
(* A collection of patient documents as the queries of the app see it: the *)
(* order of the documents, the page a query returns, and the number that   *)
(* generateId makes from the newest.  A collection is a set of documents,  *)
(* one per id.                                                             *)
(***************************************************************************)
EXTENDS PatientRecord, Sequences

\* The collection docs once d is written.
Put(docs, d) == {e \in docs : e.id # d.id} \cup {d}

(***************************************************************************)
(* Names compare as text: the fewer digits of a number, scaled up to the   *)
(* width of the other, so that "P-10" comes before "P-9".                  *)
(***************************************************************************)
PowerOfTen[n \in Nat] == IF n = 0 THEN 1 ELSE 10 * PowerOfTen[n - 1]

Width(n) == CHOOSE w \in 1 .. n : PowerOfTen[w - 1] <= n /\ n < PowerOfTen[w]

NameBefore(m, n) ==
  LET w == Width(m)
      v == Width(n)
  IN  \/ w <= v /\ m # n /\ m * PowerOfTen[v - w] <= n
      \/ w > v /\ m < n * PowerOfTen[w - v]

\* Mutation: without orderBy('createdAt') the names alone decide.
NewerByName(d, e) == NameBefore(e.id, d.id)

\* Mutation: ties go by ascending name.
NewerTiesAscending(d, e) ==
  \/ d.createdAt.at > e.createdAt.at
  \/ d.createdAt.at = e.createdAt.at /\ NameBefore(d.id, e.id)

\* orderBy('createdAt', descending: true): null last, ties by descending name.
Newer(d, e) ==
  \/ d.createdAt.at > e.createdAt.at
  \/ d.createdAt.at = e.createdAt.at /\ NameBefore(e.id, d.id)

\* The one page of the newest documents that limit(limit) returns.
Pages(docs, limit) ==
  {p \in UNION {[1 .. n -> docs] : n \in 0 .. limit} :
     /\ \A i, j \in DOMAIN p : i < j => Newer(p[i], p[j])
     /\ \A d \in docs \ {p[i] : i \in DOMAIN p} :
          Len(p) = limit /\ \A i \in DOMAIN p : Newer(p[i], d)}

\* Mutation: the numbering of an empty collection starts at 0.
NextIdFromZero(page) == IF page = <<>> THEN 0 ELSE page[1].id + 1

\* Mutation: one too many is added to the newest number.
NextIdSkipping(page) == IF page = <<>> THEN 1 ELSE page[1].id + 2

\* generateId: one more than the number of the newest patient.
NextId(page) == IF page = <<>> THEN 1 ELSE page[1].id + 1

\* Mutation: only the day of the registration is kept.
newPatientByDay(c, id, f, now) ==
  [id |-> id, form |-> f, createdAt |-> DateTime(1), createdBy |-> c]

\* What addPatient makes of a form: a number, the time and the account.
newPatient(c, id, f, now) ==
  [id |-> id, form |-> f, createdAt |-> DateTime(now), createdBy |-> c]
=============================================================================
