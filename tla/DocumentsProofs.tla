--------------------------- MODULE DocumentsProofs --------------------------
(***************************************************************************)
(* Facts about a collection of patient documents that only registrations   *)
(* and edits change.                                                       *)
(***************************************************************************)
EXTENDS Documents, WellFoundedInduction, TLAPS

\* A later date comes with a greater number.
InOrder(docs) ==
  \A d, e \in docs :
    d.createdAt # NullDate /\ e.createdAt # NullDate
      => /\ d.createdAt.at > e.createdAt.at => d.id > e.id
         /\ d.createdAt.at = e.createdAt.at => d.id = e.id

\* Every dated document has its date from snapshot.
DatedFrom(docs, snapshot) ==
  \A d \in docs : d.createdAt # NullDate
    => \E e \in snapshot : e.id = d.id /\ e.createdAt = d.createdAt

(***************************************************************************)
(* What makes the numbering safe, for the documents docs, those right      *)
(* after the last registration, snapshot, and the date now of that one.    *)
(* The order of the snapshot is the point: an edit may bring back a date   *)
(* that an earlier edit erased, and it is still in order there.            *)
(***************************************************************************)
Numbering(docs, snapshot, now) ==
  /\ docs \in SUBSET Doc
  /\ snapshot \in SUBSET Doc
  /\ now \in Nat
  /\ \A d, e \in docs : d.id = e.id => d = e
  /\ InOrder(snapshot)
  /\ DatedFrom(docs, snapshot)
  /\ \A d \in snapshot : d.createdAt.at <= now

\* A document with a new form and another date.
Edited(d, f, date) == [d EXCEPT !.form = f, !.createdAt = date]

----------------------------------------------------------------------------
\* A document with a date has a time, one without has none.
LEMMA DocDates ==
  ASSUME NEW d \in Doc
  PROVE  /\ d.id \in Nat \ {0}
         /\ d.createdAt \in Timestamps
         /\ d.createdAt.at \in Nat
         /\ d.createdAt = NullDate <=> d.createdAt.at = 0
         /\ d.createdAt # NullDate => d.createdAt = Timestamp(d.createdAt.at)
  BY DEF Doc, Timestamps, Timestamp, NullDate

\* The dated documents are in order, as those of the snapshot.
LEMMA NumberingInOrder ==
  ASSUME NEW docs, NEW snapshot, NEW now, Numbering(docs, snapshot, now)
  PROVE  InOrder(docs) /\ \A d \in docs : d.createdAt.at <= now
  <1>1. InOrder(docs)
    BY DEF Numbering, InOrder, DatedFrom
  <1>2. ASSUME NEW d \in docs PROVE d.createdAt.at <= now
    <2>1. CASE d.createdAt = NullDate
      BY <2>1 DEF Numbering, NullDate
    <2>2. CASE d.createdAt # NullDate
      BY <2>2 DEF Numbering, DatedFrom
    <2> QED BY <2>1, <2>2
  <1> QED BY <1>1, <1>2

\* The page of generateId is empty, or holds one document that no other
\* document is later than.
LEMMA NewestPage ==
  ASSUME NEW docs \in SUBSET Doc, NEW page \in Pages(docs, 1)
  PROVE  \/ page = <<>> /\ docs = {}
         \/ page # <<>> /\ page[1] \in docs
            /\ \A d \in docs : page[1].createdAt.at >= d.createdAt.at
  <1>1. PICK n \in 0 .. 1 : page \in [1 .. n -> docs]
    BY DEF Pages
  <1>2. \A d \in docs \ {page[i] : i \in DOMAIN page} :
          Len(page) = 1 /\ \A i \in DOMAIN page : Newer(page[i], d)
    BY DEF Pages
  <1>3. CASE n = 0
    <2>1. page = <<>> /\ DOMAIN page = {} /\ Len(page) = 0
      BY <1>1, <1>3
    <2> QED BY <1>2, <2>1
  <1>4. CASE n = 1
    <2>1. DOMAIN page = {1} /\ page[1] \in docs /\ page # <<>>
      BY <1>1, <1>4
    <2>2. ASSUME NEW d \in docs PROVE page[1].createdAt.at >= d.createdAt.at
      <3>1. page[1].createdAt.at \in Nat /\ d.createdAt.at \in Nat
        BY <2>1, DocDates
      <3>2. CASE d = page[1]
        BY <3>1, <3>2
      <3>3. CASE d # page[1]
        BY <1>2, <2>1, <3>1, <3>3 DEF Newer
      <3> QED BY <3>2, <3>3
    <2> QED BY <2>1, <2>2
  <1> QED BY <1>3, <1>4

\* The next number is beyond every dated document.
LEMMA NextIdBeyondDated ==
  ASSUME NEW docs, NEW snapshot, NEW now, Numbering(docs, snapshot, now),
         NEW page \in Pages(docs, 1)
  PROVE  /\ NextId(page) \in Nat \ {0}
         /\ \A d \in docs : d.createdAt # NullDate => d.id < NextId(page)
  <1>1. docs \in SUBSET Doc /\ InOrder(docs)
    BY NumberingInOrder DEF Numbering
  <1>2. CASE page = <<>> /\ docs = {}
    BY <1>2 DEF NextId
  <1>3. CASE /\ page # <<>> /\ page[1] \in docs
             /\ \A d \in docs : page[1].createdAt.at >= d.createdAt.at
    <2>1. page[1].id \in Nat \ {0} /\ NextId(page) = page[1].id + 1
      BY <1>1, <1>3, DocDates DEF NextId
    <2>2. ASSUME NEW d \in docs, d.createdAt # NullDate PROVE d.id <= page[1].id
      <3>1. d.id \in Nat /\ d.createdAt.at \in Nat /\ d.createdAt.at # 0
        BY <1>1, <2>2, DocDates
      <3>2. /\ page[1].createdAt.at \in Nat
            /\ page[1].createdAt.at >= d.createdAt.at
            /\ page[1].createdAt # NullDate
        BY <1>1, <1>3, <3>1, DocDates
      <3> QED BY <1>1, <1>3, <2>1, <2>2, <3>1, <3>2 DEF InOrder
    <2> QED BY <1>1, <2>1, <2>2, DocDates
  <1> QED BY <1>1, <1>2, <1>3, NewestPage

\* What a registration writes.
LEMMA Registered ==
  ASSUME NEW c \in Clients, NEW id \in Nat \ {0}, NEW f \in Forms, NEW now \in Nat \ {0}
  PROVE  LET d == toJson(newPatient(c, id, f, now))
         IN  d \in Doc /\ d.id = id /\ d.createdAt = Timestamp(now) /\ d.createdAt.at = now
  BY DEF toJson, newPatient, DateTime, Timestamp, Doc, Timestamps

\* A registration keeps the numbering, and replaces no dated document.
LEMMA RegisterNumbering ==
  ASSUME NEW docs, NEW snapshot, NEW n, Numbering(docs, snapshot, n),
         NEW page \in Pages(docs, 1), NEW c \in Clients, NEW f \in Forms
  PROVE  LET new == Put(docs, toJson(newPatient(c, NextId(page), f, n + 1)))
         IN  /\ Numbering(new, new, n + 1)
             /\ \A d \in docs : d.createdAt # NullDate => d \in new
  <1> DEFINE now == n + 1
             id == NextId(page)
             d == toJson(newPatient(c, id, f, now))
             new == {e \in docs : e.id # id} \cup {d}
  <1>1. n \in Nat /\ now \in Nat \ {0} /\ n < now
    BY DEF Numbering
  <1>2. id \in Nat \ {0} /\ \A e \in docs : e.createdAt # NullDate => e.id < id
    BY NextIdBeyondDated
  <1> HIDE DEF id
  <1>3. d \in Doc /\ d.id = id /\ d.createdAt = Timestamp(now) /\ d.createdAt.at = now
    BY <1>1, <1>2, Registered
  <1> HIDE DEF d, now
  <1>4. docs \in SUBSET Doc /\ InOrder(docs) /\ \A e \in docs : e.createdAt.at <= n
    BY NumberingInOrder DEF Numbering
  <1>5. new \in SUBSET Doc
    BY <1>3, <1>4
  <1>6. \A a, b \in new : a.id = b.id => a = b
    BY <1>3 DEF Numbering
  <1>7. InOrder(new)
    <2> SUFFICES ASSUME NEW a \in new, NEW b \in new,
                        a.createdAt # NullDate, b.createdAt # NullDate
                 PROVE  /\ a.createdAt.at > b.createdAt.at => a.id > b.id
                        /\ a.createdAt.at = b.createdAt.at => a.id = b.id
      BY DEF InOrder
    <2>1. /\ a # d => a \in docs /\ a.id < id /\ a.createdAt.at < now
          /\ b # d => b \in docs /\ b.id < id /\ b.createdAt.at < now
      BY <1>1, <1>2, <1>4, DocDates
    <2>2. a.id \in Nat /\ b.id \in Nat /\ a.createdAt.at \in Nat /\ b.createdAt.at \in Nat
      BY <1>5, DocDates
    <2> HIDE DEF new
    <2>3. CASE a # d /\ b # d
      BY <1>4, <2>1, <2>3 DEF InOrder
    <2>4. CASE a = d \/ b = d
      BY <1>2, <1>3, <2>1, <2>2, <2>4
    <2> QED BY <2>3, <2>4
  <1>8. \A e \in new : e.createdAt.at <= now
    BY <1>1, <1>3, <1>4, DocDates
  <1>9. Numbering(new, new, now)
    BY <1>1, <1>5, <1>6, <1>7, <1>8 DEF Numbering, DatedFrom
  <1>10. \A e \in docs : e.createdAt # NullDate => e \in new
    BY <1>2, <1>4, DocDates
  <1>11. Put(docs, d) = new
    BY <1>3 DEF Put
  <1> QED BY <1>9, <1>10, <1>11 DEF d, now, id

\* An edit that writes no date, or one that the patient had, keeps the numbering.
LEMMA ChangeNumbering ==
  ASSUME NEW docs, NEW snapshot, NEW now, Numbering(docs, snapshot, now),
         NEW d \in docs, NEW f \in Forms, NEW date,
         \/ date = NullDate
         \/ \E e \in docs \cup snapshot : e.id = d.id /\ e.createdAt = date
  PROVE  LET changed == Edited(d, f, date)
         IN  /\ changed \in Doc
             /\ changed.id = d.id
             /\ changed.createdAt = date
             /\ Numbering(Put(docs, changed), snapshot, now)
  <1> DEFINE changed == Edited(d, f, date)
             new == {e \in docs : e.id # d.id} \cup {changed}
  <1>1. docs \in SUBSET Doc /\ snapshot \in SUBSET Doc
    BY DEF Numbering
  <1>2. date \in Timestamps
    BY <1>1, DocDates DEF Timestamps, NullDate
  <1>3. changed \in Doc /\ changed.id = d.id /\ changed.createdAt = date
    BY <1>1, <1>2 DEF Doc, Edited
  <1>4. date # NullDate => \E e \in snapshot : e.id = d.id /\ e.createdAt = date
    BY DEF Numbering, DatedFrom
  <1> HIDE DEF changed
  <1>5. new \in SUBSET Doc /\ \A a, b \in new : a.id = b.id => a = b
    BY <1>1, <1>3 DEF Numbering
  <1>6. DatedFrom(new, snapshot)
    BY <1>3, <1>4 DEF DatedFrom, Numbering
  <1>7. Put(docs, changed) = new
    BY <1>3 DEF Put
  <1>8. Numbering(new, snapshot, now)
    BY <1>5, <1>6 DEF Numbering
  <1> QED BY <1>3, <1>7, <1>8 DEF changed

----------------------------------------------------------------------------
(* The widths of numbers and the order of names *)

\* A set of numbers that has 0 and, with a number, the next, has them all.
LEMMA Induction ==
  ASSUME NEW S \in SUBSET Nat, 0 \in S, \A n \in S : n + 1 \in S
  PROVE  S = Nat
  <1> SUFFICES ASSUME Nat \ S # {} PROVE FALSE
    OBVIOUS
  <1>1. PICK n \in Nat \ S : \A m \in Nat \ S : ~(<<m, n>> \in OpToRel(<, Nat))
    <2> DEFINE T == Nat \ S
    <2>1. T \subseteq Nat /\ T # {}
      OBVIOUS
    <2> HIDE DEF T
    <2> QED BY <2>1, NatLessThanWellFounded, WFMin DEF T
  <1>2. \A m \in Nat \ S : ~(m < n)
    BY <1>1 DEF OpToRel
  <1>3. n # 0 /\ n - 1 \in Nat /\ n - 1 < n /\ (n - 1) + 1 = n
    OBVIOUS
  <1>4. n - 1 \in S
    BY <1>2, <1>3
  <1> QED BY <1>3, <1>4

\* The first powers of ten, as a function on 0 .. k.
Approximations(k) ==
  {f \in [0 .. k -> Nat] : f[0] = 1 /\ \A i \in 1 .. k : f[i] = 10 * f[i - 1]}

\* Up to any exponent the powers of ten can be listed.
LEMMA Approximated ==
  ASSUME NEW k \in Nat
  PROVE  Approximations(k) # {}
  <1> DEFINE S == {n \in Nat : Approximations(n) # {}}
  <1>1. 0 \in S
    <2>1. [i \in 0 .. 0 |-> 1] \in Approximations(0)
      BY DEF Approximations
    <2> QED BY <2>1
  <1>2. ASSUME NEW n \in S PROVE n + 1 \in S
    <2>1. PICK f \in Approximations(n) : TRUE
      OBVIOUS
    <2> DEFINE g == [i \in 0 .. n + 1 |-> IF i = n + 1 THEN 10 * f[n] ELSE f[i]]
    <2>2. f \in [0 .. n -> Nat] /\ f[0] = 1 /\ \A i \in 1 .. n : f[i] = 10 * f[i - 1]
      BY DEF Approximations
    <2>3. g \in [0 .. n + 1 -> Nat]
      BY <2>2
    <2>4. g[0] = 1
      BY <2>2
    <2>5. ASSUME NEW i \in 1 .. n + 1 PROVE g[i] = 10 * g[i - 1]
      <3>1. i - 1 \in 0 .. n /\ g[i - 1] = f[i - 1]
        OBVIOUS
      <3>2. CASE i = n + 1
        BY <3>1, <3>2
      <3>3. CASE i # n + 1
        BY <2>2, <3>1, <3>3
      <3> QED BY <3>2, <3>3
    <2> HIDE DEF g
    <2>6. g \in Approximations(n + 1)
      BY <2>3, <2>4, <2>5 DEF Approximations
    <2> QED BY <2>6
  <1>3. S = Nat
    <2>1. S \in SUBSET Nat
      OBVIOUS
    <2> HIDE DEF S
    <2> QED BY <1>1, <1>2, <2>1, Induction
  <1> QED BY <1>3

\* Two such lists agree where both are defined.
LEMMA Agreeing ==
  ASSUME NEW i \in Nat, NEW k \in Nat, NEW m \in Nat, i <= k, i <= m,
         NEW f \in Approximations(k), NEW g \in Approximations(m)
  PROVE  f[i] = g[i]
  <1> DEFINE S == {n \in Nat : n <= k /\ n <= m => f[n] = g[n]}
  <1>1. 0 \in S
    BY DEF Approximations
  <1>2. ASSUME NEW n \in S PROVE n + 1 \in S
    <2>1. SUFFICES ASSUME n + 1 <= k, n + 1 <= m PROVE f[n + 1] = g[n + 1]
      OBVIOUS
    <2>2. f[n] = g[n]
      BY <2>1
    <2>3. n + 1 \in 1 .. k /\ n + 1 \in 1 .. m /\ (n + 1) - 1 = n
      BY <2>1
    <2> QED BY <2>2, <2>3 DEF Approximations
  <1>3. S = Nat
    <2>1. S \in SUBSET Nat
      OBVIOUS
    <2> HIDE DEF S
    <2> QED BY <1>1, <1>2, <2>1, Induction
  <1> QED BY <1>3

\* So the recursion of PowerOfTen has a solution, and PowerOfTen satisfies it.
LEMMA PowerOfTenDef ==
  /\ PowerOfTen[0] = 1
  /\ \A n \in Nat : PowerOfTen[n + 1] = 10 * PowerOfTen[n]
  <1> DEFINE A(n) == CHOOSE f \in Approximations(n) : TRUE
             G == [n \in Nat |-> A(n)[n]]
  <1>1. \A n \in Nat : A(n) \in Approximations(n)
    BY Approximated
  <1> HIDE DEF A
  <1>2. G[0] = 1
    BY <1>1 DEF Approximations
  <1>3. ASSUME NEW n \in Nat, n # 0 PROVE G[n] = 10 * G[n - 1]
    <2>1. n - 1 \in Nat /\ n \in 1 .. n /\ n - 1 <= n
      BY <1>3
    <2>2. A(n)[n] = 10 * A(n)[n - 1]
      BY <1>1, <2>1 DEF Approximations
    <2>3. A(n)[n - 1] = A(n - 1)[n - 1]
      BY <1>1, <2>1, Agreeing
    <2> QED BY <2>1, <2>2, <2>3
  <1>4. G = [n \in Nat |-> IF n = 0 THEN 1 ELSE 10 * G[n - 1]]
    BY <1>2, <1>3
  <1> HIDE DEF G
  <1>5. PowerOfTen = [n \in Nat |-> IF n = 0 THEN 1 ELSE 10 * PowerOfTen[n - 1]]
    BY <1>4 DEF PowerOfTen
  <1>6. \A n \in Nat : PowerOfTen[n] = IF n = 0 THEN 1 ELSE 10 * PowerOfTen[n - 1]
    BY <1>5
  <1> QED BY <1>6

\* The powers of ten are positive, and beyond their exponents.
LEMMA PowersGrow ==
  /\ \A n \in Nat : PowerOfTen[n] \in Nat \ {0}
  /\ \A n \in Nat : n < PowerOfTen[n]
  <1> DEFINE S == {n \in Nat : PowerOfTen[n] \in Nat /\ n < PowerOfTen[n]}
  <1>1. 0 \in S
    BY PowerOfTenDef
  <1>2. ASSUME NEW n \in S PROVE n + 1 \in S
    BY PowerOfTenDef
  <1>3. S = Nat
    <2>1. S \in SUBSET Nat
      OBVIOUS
    <2> HIDE DEF S
    <2> QED BY <1>1, <1>2, <2>1, Induction
  <1> QED BY <1>3

\* Every positive number has a width, and the width is what it says.
LEMMA Digits ==
  ASSUME NEW n \in Nat \ {0}
  PROVE  Width(n) \in 1 .. n /\ PowerOfTen[Width(n) - 1] <= n /\ n < PowerOfTen[Width(n)]
  <1> DEFINE T == {w \in Nat : n < PowerOfTen[w]}
  <1>1. n \in T
    BY PowersGrow
  <1>2. PICK w \in T : \A v \in T : ~(<<v, w>> \in OpToRel(<, Nat))
    <2>1. T \subseteq Nat /\ T # {}
      BY <1>1
    <2> HIDE DEF T
    <2> QED BY <2>1, NatLessThanWellFounded, WFMin
  <1>3. \A v \in T : w <= v
    <2>1. T \subseteq Nat
      OBVIOUS
    <2> HIDE DEF T
    <2>2. \A v \in T : ~(v < w)
      BY <1>2, <2>1 DEF OpToRel
    <2> QED BY <2>1, <2>2
  <1>4. w # 0
    BY PowerOfTenDef
  <1>5. w - 1 \in Nat /\ w - 1 \notin T
    BY <1>3, <1>4
  <1>6. w \in 1 .. n /\ n < PowerOfTen[w]
    BY <1>1, <1>3, <1>4
  <1>7. PowerOfTen[w - 1] <= n
    BY <1>5, PowersGrow
  <1> HIDE DEF T
  <1> QED BY <1>6, <1>7 DEF Width

\* The name of the next number is before that of a number, as "P-10" is before
\* "P-9", only if it has one digit more.
LEMMA NextNameBefore ==
  ASSUME NEW n \in Nat \ {0}, NameBefore(n + 1, n)
  PROVE  Width(n) < Width(n + 1)
  <1> DEFINE w == Width(n + 1)
             v == Width(n)
  <1>1. w \in Nat /\ v \in Nat
    BY Digits
  <1>2. ASSUME w <= v PROVE FALSE
    <2>1. (n + 1) * PowerOfTen[v - w] <= n
      BY <1>1, <1>2 DEF NameBefore
    <2>2. PowerOfTen[v - w] \in Nat \ {0}
      BY <1>1, <1>2, PowersGrow
    <2> DEFINE p == PowerOfTen[v - w]
    <2>3. p \in Nat \ {0} /\ (n + 1) * p <= n
      BY <2>1, <2>2
    <2> HIDE DEF p
    <2>4. (n + 1) * p >= n + 1
      <3>1. \A a, b \in Nat : b >= 1 => a * b >= a
        OBVIOUS
      <3> QED BY <2>3, <3>1
    <2> QED BY <2>3, <2>4
  <1> QED BY <1>1, <1>2

\* Without dates the page of generateId holds the document with the last name.
LEMMA LastName ==
  ASSUME NEW docs \in SUBSET Doc, NEW page \in Pages(docs, 1),
         \A d \in docs : d.createdAt = NullDate
  PROVE  \/ page = <<>> /\ docs = {}
         \/ page # <<>> /\ page[1] \in docs
            /\ \A d \in docs : d = page[1] \/ NameBefore(d.id, page[1].id)
  <1>1. PICK n \in 0 .. 1 : page \in [1 .. n -> docs]
    BY DEF Pages
  <1>2. \A d \in docs \ {page[i] : i \in DOMAIN page} :
          Len(page) = 1 /\ \A i \in DOMAIN page : Newer(page[i], d)
    BY DEF Pages
  <1>3. CASE n = 0
    <2>1. page = <<>> /\ DOMAIN page = {} /\ Len(page) = 0
      BY <1>1, <1>3
    <2> QED BY <1>2, <2>1
  <1>4. CASE n = 1
    <2>1. DOMAIN page = {1} /\ page[1] \in docs /\ page # <<>>
      BY <1>1, <1>4
    <2>2. ASSUME NEW d \in docs, d # page[1] PROVE NameBefore(d.id, page[1].id)
      <3>1. Newer(page[1], d)
        BY <1>2, <2>1, <2>2
      <3>2. page[1].createdAt.at = 0 /\ d.createdAt.at = 0
        BY <2>1 DEF NullDate
      <3> QED BY <3>1, <3>2 DEF Newer
    <2> QED BY <2>1, <2>2
  <1> QED BY <1>3, <1>4

\* While no document is dated, a registration replaces a document only at the
\* number with which the numbers get a digit longer.
LEMMA ReplacedAtNewDigit ==
  ASSUME NEW docs \in SUBSET Doc, NEW page \in Pages(docs, 1),
         \A d \in docs : d.createdAt = NullDate,
         NEW d \in docs, d.id = NextId(page)
  PROVE  Width(d.id - 1) < Width(d.id)
  <1>1. /\ page # <<>> /\ page[1] \in docs
        /\ d = page[1] \/ NameBefore(d.id, page[1].id)
    BY LastName
  <1> DEFINE n == page[1].id
  <1>2. n \in Nat \ {0} /\ d.id = n + 1 /\ d.id - 1 = n
    BY <1>1, DocDates DEF NextId
  <1>3. NameBefore(n + 1, n)
    BY <1>1, <1>2
  <1>4. Width(n) < Width(n + 1)
    BY <1>2, <1>3, NextNameBefore
  <1> QED BY <1>2, <1>4
=============================================================================
