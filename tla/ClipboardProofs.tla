-------------------------- MODULE ClipboardProofs --------------------------
(***************************************************************************)
(* Proofs about Clipboard, for any panes, selections, contents, modes and  *)
(* timeout and for any number of queries: every query is answered exactly  *)
(* once, as ClipboardRequests has it, none waits beyond the timeout once   *)
(* expire() has run, and replies carry what ttx holds.                     *)
(*                                                                         *)
(* The argument.  The queues are in the order in which the requests were   *)
(* received (part of RequestsForwarded), so the requests expire() takes    *)
(* from the top are all that are overdue.  What it takes is told to the    *)
(* panes request by request, so that the requests that wait and the        *)
(* replies that are ready always add up (Expiring).                        *)
(***************************************************************************)
EXTENDS Clipboard, FiniteSetTheorems, SequenceTheorems, WellFoundedInduction, TLAPS

-----------------------------------------------------------------------------
(* Numbers and sequences *)

\* A set of natural numbers has a least one.
LEMMA Least ==
    ASSUME NEW T \in SUBSET Nat, T # {}
    PROVE  \E n \in T : \A m \in T : ~(m < n)
<1>1. T \subseteq Nat
  OBVIOUS
<1>2. PICK n \in T : \A m \in T : <<m, n>> \notin OpToRel(<, Nat)
  BY <1>1, WFMin, NatLessThanWellFounded, Zenon
<1> DEFINE R == OpToRel(<, Nat)
<1>3. \A m, k \in Nat : m < k => <<m, k>> \in R
  BY DEF OpToRel
<1>4. \A m \in T : <<m, n>> \notin R
  BY <1>2
<1> HIDE DEF R
<1>5. \A m \in T : ~(m < n)
  BY <1>3, <1>4
<1> QED
  BY <1>5

\* The numbers before the first that is missing are counted.
LEMMA LeadingFacts ==
    ASSUME NEW n \in Nat, NEW S \in SUBSET (1 .. n)
    PROVE  /\ Leading(n, S) \in 0 .. n
           /\ 1 .. Leading(n, S) \subseteq S
           /\ Leading(n, S) + 1 \notin S
<1> DEFINE T == {k \in Nat : k + 1 \notin S}
<1>1. n \in T
  OBVIOUS
<1>2. PICK k \in T : \A m \in T : ~(m < k)
  BY <1>1, Least
<1>3. k \in 0 .. n
  BY <1>1, <1>2
<1>4. 1 .. k \subseteq S
  <2> SUFFICES ASSUME NEW j \in 1 .. k, j \notin S PROVE FALSE
    OBVIOUS
  <2>1. j - 1 \in T
    OBVIOUS
  <2> QED
    BY <1>2, <2>1
<1> QED
  BY <1>2, <1>3, <1>4 DEF Leading

\* One sequence after another.
LEMMA ConcatFacts ==
    ASSUME NEW S, NEW q \in Seq(S), NEW r \in Seq(S)
    PROVE  /\ q \o r \in Seq(S) /\ Len(q \o r) = Len(q) + Len(r) /\ Len(q) \in Nat /\ Len(r) \in Nat
           /\ \A k \in 1 .. Len(q) : (q \o r)[k] = q[k]
           /\ \A k \in 1 .. Len(r) : (q \o r)[Len(q) + k] = r[k]
OBVIOUS

\* A part of a sequence.
LEMMA SubSeqFacts ==
    ASSUME NEW S, NEW q \in Seq(S), NEW i \in 1 .. Len(q) + 1, NEW j \in 0 .. Len(q), i <= j + 1
    PROVE  /\ SubSeq(q, i, j) \in Seq(S) /\ Len(SubSeq(q, i, j)) = j + 1 - i
           /\ \A k \in 1 .. j + 1 - i : SubSeq(q, i, j)[k] = q[i + k - 1]
OBVIOUS

\* One element more after the first n.
LEMMA InsertFacts ==
    ASSUME NEW S, NEW q \in Seq(S), NEW e \in S, NEW n \in 0 .. Len(q)
    PROVE  /\ InsertAt(q, n + 1, e) \in Seq(S) /\ Len(InsertAt(q, n + 1, e)) = Len(q) + 1
           /\ \A k \in 1 .. n : InsertAt(q, n + 1, e)[k] = q[k]
           /\ InsertAt(q, n + 1, e)[n + 1] = e
           /\ \A k \in n + 1 .. Len(q) : InsertAt(q, n + 1, e)[k + 1] = q[k]
<1> DEFINE a == SubSeq(q, 1, n)
           b == <<e>>
           c == SubSeq(q, n + 1, Len(q))
<1>1. Len(q) \in Nat /\ n \in Nat
  OBVIOUS
<1>2. a \in Seq(S) /\ Len(a) = n /\ \A k \in 1 .. n : a[k] = q[k]
  BY <1>1, SubSeqFacts
<1>3. b \in Seq(S) /\ Len(b) = 1 /\ b[1] = e
  OBVIOUS
<1>4. /\ c \in Seq(S) /\ Len(c) = Len(q) - n
      /\ \A k \in 1 .. Len(q) - n : c[k] = q[n + k]
  <2>1. /\ c \in Seq(S) /\ Len(c) = Len(q) + 1 - (n + 1)
        /\ \A k \in 1 .. Len(q) + 1 - (n + 1) : c[k] = q[(n + 1) + k - 1]
    <3>1. n + 1 \in 1 .. Len(q) + 1 /\ Len(q) \in 0 .. Len(q) /\ n + 1 <= Len(q) + 1
      BY <1>1
    <3> HIDE DEF c
    <3> QED
      BY <3>1, SubSeqFacts DEF c
  <2> QED
    BY <1>1, <2>1
<1>5. InsertAt(q, n + 1, e) = (a \o b) \o c
  <2>1. (n + 1) - 1 = n
    BY <1>1
  <2>2. InsertAt(q, n + 1, e) = (SubSeq(q, 1, (n + 1) - 1) \o b) \o c
    BY DEF InsertAt
  <2> QED
    BY <2>1, <2>2
<1> HIDE DEF a, b, c
<1>6. /\ a \o b \in Seq(S) /\ Len(a \o b) = Len(a) + Len(b)
      /\ \A k \in 1 .. Len(a) : (a \o b)[k] = a[k]
      /\ \A k \in 1 .. Len(b) : (a \o b)[Len(a) + k] = b[k]
  <2>1. a \in Seq(S) /\ b \in Seq(S)
    BY <1>2, <1>3
  <2> QED
    BY ONLY <2>1, ConcatFacts
<1> DEFINE d == a \o b
<1>7. /\ d \in Seq(S) /\ Len(d) = n + 1 /\ d[n + 1] = e
      /\ \A k \in 1 .. n : d[k] = q[k]
  BY <1>1, <1>2, <1>3, <1>6
<1> HIDE DEF d
<1>8. /\ d \o c \in Seq(S) /\ Len(d \o c) = Len(d) + Len(c)
      /\ \A k \in 1 .. Len(d) : (d \o c)[k] = d[k]
      /\ \A k \in 1 .. Len(c) : (d \o c)[Len(d) + k] = c[k]
  <2>1. d \in Seq(S) /\ c \in Seq(S)
    BY <1>4, <1>7
  <2> QED
    BY ONLY <2>1, ConcatFacts
<1>9. \A k \in n + 1 .. Len(q) : (d \o c)[k + 1] = q[k]
  <2> SUFFICES ASSUME NEW k \in n + 1 .. Len(q) PROVE (d \o c)[k + 1] = q[k]
    OBVIOUS
  <2>1. k - n \in 1 .. Len(c) /\ Len(d) + (k - n) = k + 1 /\ n + (k - n) = k
    BY <1>1, <1>4, <1>7
  <2>2. (d \o c)[Len(d) + (k - n)] = c[k - n]
    BY <1>8, <2>1
  <2>3. c[k - n] = q[n + (k - n)]
    BY <1>4, <2>1
  <2> QED
    BY <2>1, <2>2, <2>3
<1>10. /\ d \o c \in Seq(S) /\ Len(d \o c) = Len(q) + 1
       /\ \A k \in 1 .. n + 1 : (d \o c)[k] = d[k]
  BY <1>1, <1>4, <1>7, <1>8
<1>11. InsertAt(q, n + 1, e) = d \o c
  BY <1>5 DEF d
<1>12. \A k \in 1 .. n : (d \o c)[k] = q[k]
  BY <1>1, <1>7, <1>10
<1>13. (d \o c)[n + 1] = e
  BY <1>1, <1>7, <1>10
<1> QED
  BY <1>9, <1>10, <1>11, <1>12, <1>13

-----------------------------------------------------------------------------
(* What a pane is owed *)

Indices(queue, i) == {k \in 1 .. Len(queue) : queue[k].identifier = i}

\* A count is a number.
LEMMA CountType ==
    ASSUME NEW S, NEW q \in Seq(S), NEW i
    PROVE  Count(q, i) \in Nat /\ Count(q, i) = Cardinality(Indices(q, i)) /\ IsFiniteSet(Indices(q, i))
<1>1. Len(q) \in Nat /\ 1 \in Int /\ Len(q) \in Int
  OBVIOUS
<1>2. IsFiniteSet(1 .. Len(q))
  BY <1>1, FS_Interval
<1>3. Indices(q, i) \in SUBSET (1 .. Len(q))
  BY DEF Indices
<1>4. IsFiniteSet(Indices(q, i)) /\ Cardinality(Indices(q, i)) \in Nat
  BY <1>2, <1>3, FS_Subset, FS_CardinalityType
<1> QED
  BY <1>4 DEF Count, Indices

\* Only the identifiers count.
LEMMA CountSame ==
    ASSUME NEW q, NEW r, NEW i, Len(q) = Len(r),
           \A k \in 1 .. Len(q) : q[k].identifier = r[k].identifier
    PROVE  Count(q, i) = Count(r, i)
<1>1. {k \in 1 .. Len(q) : q[k].identifier = i} = {k \in 1 .. Len(r) : r[k].identifier = i}
  OBVIOUS
<1> QED
  BY <1>1 DEF Count

\* What is counted in two sequences adds up.
LEMMA CountConcat ==
    ASSUME NEW S, NEW q \in Seq(S), NEW r \in Seq(S), NEW i
    PROVE  Count(q \o r, i) = Count(q, i) + Count(r, i)
<1> DEFINE n == Len(q)
           B == Indices(r, i)
           C == {k \in n + 1 .. n + Len(r) : r[k - n].identifier = i}
           f == [k \in B |-> n + k]
<1>1. /\ q \o r \in Seq(S) /\ Len(q \o r) = n + Len(r) /\ n \in Nat /\ Len(r) \in Nat
      /\ \A k \in 1 .. n : (q \o r)[k] = q[k]
      /\ \A k \in 1 .. Len(r) : (q \o r)[n + k] = r[k]
  BY ConcatFacts
<1>2. /\ Indices(q, i) \in SUBSET (1 .. n) /\ B \in SUBSET (1 .. Len(r))
  BY DEF Indices
<1>3. f \in Bijection(B, C)
  <2>1. f \in [B -> C]
    BY <1>1, <1>2 DEF Indices
  <2>2. \A j, k \in B : f[j] = f[k] => j = k
    BY <1>1, <1>2
  <2>3. \A k \in C : \E j \in B : f[j] = k
    <3> SUFFICES ASSUME NEW k \in C PROVE \E j \in B : f[j] = k
      OBVIOUS
    <3>1. k - n \in B /\ n + (k - n) = k
      BY <1>1 DEF Indices
    <3> QED
      BY <3>1
  <2> QED
    BY <2>1, <2>2, <2>3 DEF Bijection, Injection, Surjection, IsInjective
<1>4. IsFiniteSet(B) /\ Cardinality(B) = Count(r, i) /\ IsFiniteSet(Indices(q, i))
      /\ Cardinality(Indices(q, i)) = Count(q, i) /\ Count(q, i) \in Nat /\ Count(r, i) \in Nat
  BY CountType
<1>5. IsFiniteSet(C) /\ Cardinality(C) = Count(r, i)
  <2>1. ExistsBijection(B, C)
    BY <1>3 DEF ExistsBijection
  <2> QED
    BY <1>4, <2>1, FS_Bijection
<1>6. Indices(q \o r, i) = Indices(q, i) \cup C
  <2>1. ASSUME NEW k \in 1 .. n + Len(r)
        PROVE  (q \o r)[k] = IF k <= n THEN q[k] ELSE r[k - n]
    <3>1. CASE k <= n
      BY <1>1, <3>1
    <3>2. CASE ~(k <= n)
      <4>1. k - n \in 1 .. Len(r) /\ n + (k - n) = k
        BY <1>1, <3>2
      <4> QED
        BY <1>1, <3>2, <4>1
    <3> QED
      BY <3>1, <3>2
  <2> QED
    BY <1>1, <2>1 DEF Indices
<1>7. Indices(q, i) \cap C = {}
  BY <1>1, <1>2
<1>8. Cardinality(Indices(q, i) \cap C) = 0
  BY <1>7, FS_EmptySet
<1>9. Cardinality(Indices(q, i) \cup C) = Count(q, i) + Count(r, i) - 0
  <2> DEFINE A == Indices(q, i)
  <2>1. IsFiniteSet(A) /\ IsFiniteSet(C)
    BY <1>4, <1>5
  <2> HIDE DEF A, C
  <2>2. Cardinality(A \cup C) = Cardinality(A) + Cardinality(C) - Cardinality(A \cap C)
    BY ONLY <2>1, FS_Union, Zenon
  <2> QED
    BY <1>4, <1>5, <1>8, <2>2 DEF A
<1>10. Count(q \o r, i) = Cardinality(Indices(q \o r, i))
  BY <1>1, CountType
<1> QED
  BY <1>4, <1>6, <1>9, <1>10

\* One request or reply.
LEMMA CountOne ==
    ASSUME NEW e, NEW i
    PROVE  Count(<<e>>, i) = IF e.identifier = i THEN 1 ELSE 0
<1>1. CASE e.identifier = i
  <2>1. {k \in 1 .. Len(<<e>>) : <<e>>[k].identifier = i} = {1}
    BY <1>1
  <2> QED
    BY <1>1, <2>1, FS_Singleton DEF Count
<1>2. CASE e.identifier # i
  <2>1. {k \in 1 .. Len(<<e>>) : <<e>>[k].identifier = i} = {}
    BY <1>2
  <2> QED
    BY <1>2, <2>1, FS_EmptySet DEF Count
<1> QED
  BY <1>1, <1>2

\* Nothing is owed for an empty queue.
LEMMA CountNone ==
    ASSUME NEW i
    PROVE  Count(<<>>, i) = 0
<1>1. {k \in 1 .. Len(<<>>) : <<>>[k].identifier = i} = {}
  OBVIOUS
<1> QED
  BY <1>1, FS_EmptySet DEF Count

\* What is counted in the two parts of a sequence adds up.
LEMMA CountSplit ==
    ASSUME NEW S, NEW q \in Seq(S), NEW n \in 0 .. Len(q), NEW i
    PROVE  Count(q, i) = Count(SubSeq(q, 1, n), i) + Count(SubSeq(q, n + 1, Len(q)), i)
<1>1. Len(q) \in Nat /\ n \in Nat
  OBVIOUS
<1>2. SubSeq(q, 1, n) \o SubSeq(q, n + 1, Len(q)) = q
  <2>1. q \in Seq(S) /\ 1 \in 1 .. Len(q) + 1 /\ n \in 1 - 1 .. Len(q) /\ Len(q) \in n .. Len(q)
    BY <1>1
  <2>2. SubSeq(q, 1, n) \o SubSeq(q, n + 1, Len(q)) = SubSeq(q, 1, Len(q))
    BY ONLY <2>1, ConcatAdjacentSubSeq, Zenon
  <2> QED
    BY <2>2, SubSeqFull
<1>3. SubSeq(q, 1, n) \in Seq(S) /\ SubSeq(q, n + 1, Len(q)) \in Seq(S)
  BY <1>1
<1>4. Count(SubSeq(q, 1, n) \o SubSeq(q, n + 1, Len(q)), i)
        = Count(SubSeq(q, 1, n), i) + Count(SubSeq(q, n + 1, Len(q)), i)
  BY ONLY <1>3, CountConcat
<1> QED
  BY <1>2, <1>4

-----------------------------------------------------------------------------
(* The queue of requests *)

Ordered(queue) == \A j, k \in 1 .. Len(queue) : j < k => NotAfter(queue[j], queue[k])

NoneDue(queue) == \A k \in 1 .. Len(queue) : ~Overdue(queue[k])

\* A request carries numbers.
LEMMA RequestFacts ==
    ASSUME NEW r \in Request
    PROVE  r.reception \in Nat /\ r.identifier \in Identifiers /\ r.identifier \in Nat
BY ClipboardAssumption DEF Request

\* expire() takes overdue requests from the top, and stops at the first that is not.
LEMMA DueFacts ==
    ASSUME NEW q \in Seq(Request)
    PROVE  /\ Due(q) \in 0 .. Len(q)
           /\ \A k \in 1 .. Due(q) : Overdue(q[k])
           /\ Due(q) < Len(q) => ~Overdue(q[Due(q) + 1])
<1> DEFINE S == {k \in 1 .. Len(q) : Overdue(q[k])}
<1>1. Len(q) \in Nat /\ S \in SUBSET (1 .. Len(q))
  OBVIOUS
<1>2. Due(q) \in 0 .. Len(q) /\ 1 .. Due(q) \subseteq S /\ Due(q) + 1 \notin S
  BY <1>1, LeadingFacts DEF Due
<1>3. \A k \in 1 .. Due(q) : Overdue(q[k])
  BY <1>2
<1>4. Due(q) < Len(q) => ~Overdue(q[Due(q) + 1])
  BY <1>1, <1>2
<1> QED
  BY <1>2, <1>3, <1>4

\* What stays in an ordered queue is in order, and nothing of it is overdue.
LEMMA RemainingFacts ==
    ASSUME NEW q \in Seq(Request), now \in Nat
    PROVE  /\ Remaining(q) \in Seq(Request) /\ Len(Remaining(q)) = Len(q) - Due(q)
           /\ Ordered(q) => Ordered(Remaining(q)) /\ NoneDue(Remaining(q))
<1> DEFINE n == Due(q)
           w == Remaining(q)
<1>1. Len(q) \in Nat /\ n \in 0 .. Len(q) /\ (n < Len(q) => ~Overdue(q[n + 1]))
  BY DueFacts
<1> HIDE DEF n
<1>2. w \in Seq(Request) /\ Len(w) = Len(q) - n /\ \A k \in 1 .. Len(q) - n : w[k] = q[n + k]
  <2>1. n + 1 \in 1 .. Len(q) + 1 /\ Len(q) \in 0 .. Len(q) /\ n + 1 <= Len(q) + 1
    BY <1>1
  <2> DEFINE c == SubSeq(q, n + 1, Len(q))
  <2>2. /\ c \in Seq(Request) /\ Len(c) = Len(q) + 1 - (n + 1)
        /\ \A k \in 1 .. Len(q) + 1 - (n + 1) : c[k] = q[(n + 1) + k - 1]
    <3> HIDE DEF c
    <3> QED
      BY <2>1, SubSeqFacts DEF c
  <2>3. w = c
    BY DEF Remaining, n
  <2> QED
    BY <1>1, <2>2, <2>3
<1> HIDE DEF w
<1>3. ASSUME Ordered(q) PROVE Ordered(w) /\ NoneDue(w)
  <2>1. ASSUME NEW j \in 1 .. Len(w), NEW k \in 1 .. Len(w), j < k
        PROVE  NotAfter(w[j], w[k])
    <3>1. n + j \in 1 .. Len(q) /\ n + k \in 1 .. Len(q) /\ n + j < n + k
      BY <1>1, <1>2, <2>1
    <3>2. w[j] = q[n + j] /\ w[k] = q[n + k]
      BY <1>2
    <3> QED
      BY <1>3, <3>1, <3>2 DEF Ordered
  <2>2. ASSUME NEW k \in 1 .. Len(w) PROVE ~Overdue(w[k])
    <3>1. n + 1 \in 1 .. Len(q) /\ n + k \in 1 .. Len(q) /\ w[k] = q[n + k] /\ ~Overdue(q[n + 1])
      BY <1>1, <1>2
    <3>2. q[n + 1] \in Request /\ q[n + k] \in Request
      BY <3>1
    <3>3. q[n + 1].reception <= q[n + k].reception
      <4>1. CASE k = 1
        BY <3>1, <3>2, <4>1, RequestFacts
      <4>2. CASE k # 1
        <5>1. NotAfter(q[n + 1], q[n + k])
          BY <1>1, <1>3, <3>1, <4>2 DEF Ordered
        <5> QED
          BY <3>2, <5>1, RequestFacts DEF NotAfter
      <4> QED
        BY <4>1, <4>2
    <3>4. q[n + 1].reception \in Nat /\ q[n + k].reception \in Nat
      BY <3>2, RequestFacts
    <3> QED
      BY <3>1, <3>3, <3>4, ClipboardAssumption DEF Overdue
  <2> QED
    BY <2>1, <2>2 DEF Ordered, NoneDue
<1> QED
  BY <1>2, <1>3 DEF n, w

\* A new request goes where the order of the queue wants it.
LEMMA PushFacts ==
    ASSUME NEW q \in Seq(Request), NEW r \in Request
    PROVE  /\ Push(q, r) \in Seq(Request) /\ Len(Push(q, r)) = Len(q) + 1
           /\ \A k \in 1 .. Len(Push(q, r)) : Push(q, r)[k] = r \/ \E j \in 1 .. Len(q) : Push(q, r)[k] = q[j]
           /\ Ordered(q) => Ordered(Push(q, r))
           /\ \A i : Count(Push(q, r), i) = Count(q, i) + IF r.identifier = i THEN 1 ELSE 0
<1> DEFINE S == {k \in 1 .. Len(q) : NotAfter(q[k], r)}
           n == Leading(Len(q), S)
           p == InsertAt(q, n + 1, r)
<1>1. Len(q) \in Nat /\ S \in SUBSET (1 .. Len(q))
  OBVIOUS
<1>2. n \in 0 .. Len(q) /\ 1 .. n \subseteq S /\ n + 1 \notin S
  BY <1>1, LeadingFacts
<1>3. /\ \A k \in 1 .. n : NotAfter(q[k], r)
      /\ n < Len(q) => ~NotAfter(q[n + 1], r)
  BY <1>1, <1>2
<1>4. Push(q, r) = p
  <2>1. Push(q, r) = InsertAt(q, 1 + n, r) /\ 1 + n = n + 1
    BY <1>2 DEF Push
  <2> QED
    BY <2>1
<1> HIDE DEF S, n
<1>5. /\ p \in Seq(Request) /\ Len(p) = Len(q) + 1
      /\ \A k \in 1 .. n : p[k] = q[k]
      /\ p[n + 1] = r
      /\ \A k \in n + 1 .. Len(q) : p[k + 1] = q[k]
  BY <1>2, InsertFacts
<1>6. \A i : Count(p, i) = Count(q, i) + IF r.identifier = i THEN 1 ELSE 0
  <2> SUFFICES ASSUME NEW i
               PROVE  Count(p, i) = Count(q, i) + IF r.identifier = i THEN 1 ELSE 0
    OBVIOUS
  <2> DEFINE a == SubSeq(q, 1, n)
             b == <<r>>
             c == SubSeq(q, n + 1, Len(q))
  <2>1. a \in Seq(Request) /\ b \in Seq(Request) /\ c \in Seq(Request) /\ a \o b \in Seq(Request)
    BY <1>1, <1>2
  <2>2. p = (a \o b) \o c
    <3>1. (n + 1) - 1 = n
      BY <1>2
    <3>2. p = (SubSeq(q, 1, (n + 1) - 1) \o b) \o c
      BY DEF InsertAt
    <3> QED
      BY <3>1, <3>2
  <2>3. Count(q, i) = Count(a, i) + Count(c, i)
    BY <1>2, CountSplit
  <2>4. Count(b, i) = IF r.identifier = i THEN 1 ELSE 0
    BY CountOne
  <2> HIDE DEF a, b, c, p
  <2>5. Count(a \o b, i) = Count(a, i) + Count(b, i)
    BY ONLY <2>1, CountConcat
  <2>6. Count((a \o b) \o c, i) = Count(a \o b, i) + Count(c, i)
    BY ONLY <2>1, CountConcat
  <2>7. Count(a, i) \in Nat /\ Count(b, i) \in Nat /\ Count(c, i) \in Nat
    BY <2>1, CountType
  <2> QED
    BY <2>2, <2>3, <2>4, <2>5, <2>6, <2>7
<1> HIDE DEF p
<1>7. \A k \in 1 .. Len(p) : \/ k \in 1 .. n /\ p[k] = q[k]
                             \/ k = n + 1 /\ p[k] = r
                             \/ k - 1 \in n + 1 .. Len(q) /\ p[k] = q[k - 1]
  <2> SUFFICES ASSUME NEW k \in 1 .. Len(p), k \notin 1 .. n, k # n + 1
               PROVE  k - 1 \in n + 1 .. Len(q) /\ p[k] = q[k - 1]
    BY <1>5
  <2>1. k - 1 \in n + 1 .. Len(q) /\ (k - 1) + 1 = k
    BY <1>1, <1>2, <1>5
  <2> QED
    BY <1>5, <2>1
<1>8. \A k \in 1 .. Len(p) : p[k] = r \/ \E j \in 1 .. Len(q) : p[k] = q[j]
  <2> SUFFICES ASSUME NEW k \in 1 .. Len(p), p[k] # r PROVE \E j \in 1 .. Len(q) : p[k] = q[j]
    OBVIOUS
  <2>1. CASE k \in 1 .. n /\ p[k] = q[k]
    BY <1>1, <1>2, <2>1
  <2>2. CASE k - 1 \in n + 1 .. Len(q) /\ p[k] = q[k - 1]
    <3>1. k - 1 \in 1 .. Len(q)
      BY <1>1, <1>2, <2>2
    <3> QED
      BY <2>2, <3>1
  <2> QED
    BY <1>7, <2>1, <2>2
<1>9. ASSUME Ordered(q) PROVE Ordered(p)
  <2>1. ASSUME NEW k \in n + 1 .. Len(q) PROVE NotAfter(r, q[k])
    <3>1. n + 1 \in 1 .. Len(q) /\ k \in 1 .. Len(q) /\ ~NotAfter(q[n + 1], r)
      BY <1>1, <1>2, <1>3
    <3>2. q[n + 1] \in Request /\ q[k] \in Request
      BY <3>1
    <3>3. n + 1 = k \/ NotAfter(q[n + 1], q[k])
      BY <1>9, <3>1 DEF Ordered
    <3>4. /\ q[n + 1].reception \in Nat /\ q[k].reception \in Nat /\ r.reception \in Nat
          /\ q[n + 1].identifier \in Nat /\ q[k].identifier \in Nat /\ r.identifier \in Nat
      BY <3>2, RequestFacts
    <3> QED
      BY <3>1, <3>3, <3>4 DEF NotAfter
  <2>2. ASSUME NEW j \in 1 .. Len(p), NEW k \in 1 .. Len(p), j < k
        PROVE  NotAfter(p[j], p[k])
    <3>1. CASE k \in 1 .. n /\ p[k] = q[k]
      <4>1. j \in 1 .. n /\ p[j] = q[j] /\ j \in 1 .. Len(q) /\ k \in 1 .. Len(q)
        BY <1>1, <1>2, <1>5, <2>2, <3>1
      <4> QED
        BY <1>9, <2>2, <3>1, <4>1 DEF Ordered
    <3>2. CASE k = n + 1 /\ p[k] = r
      <4>1. j \in 1 .. n /\ p[j] = q[j]
        BY <1>2, <1>5, <2>2, <3>2
      <4> QED
        BY <1>3, <3>2, <4>1
    <3>3. CASE k - 1 \in n + 1 .. Len(q) /\ p[k] = q[k - 1]
      <4>1. CASE j \in 1 .. n /\ p[j] = q[j]
        <5>1. j \in 1 .. Len(q) /\ k - 1 \in 1 .. Len(q) /\ j < k - 1
          BY <1>1, <1>2, <3>3, <4>1
        <5> QED
          BY <1>9, <3>3, <4>1, <5>1 DEF Ordered
      <4>2. CASE j = n + 1 /\ p[j] = r
        BY <2>1, <3>3, <4>2
      <4>3. CASE j - 1 \in n + 1 .. Len(q) /\ p[j] = q[j - 1]
        <5>1. j - 1 \in 1 .. Len(q) /\ k - 1 \in 1 .. Len(q) /\ j - 1 < k - 1
          BY <1>1, <1>2, <2>2, <3>3, <4>3
        <5> QED
          BY <1>9, <3>3, <4>3, <5>1 DEF Ordered
      <4> QED
        BY <1>7, <4>1, <4>2, <4>3
    <3> QED
      BY <1>7, <3>1, <3>2, <3>3
  <2> QED
    BY <2>2 DEF Ordered
<1> QED
  BY <1>4, <1>5, <1>6, <1>8, <1>9

\* A pane is told of each of the first n requests, once.
LEMMA ToldFacts ==
    ASSUME NEW q \in Seq(Request), NEW n \in 0 .. Len(q), NEW d \in Data
    PROVE  /\ Told(q, n, d) \in Seq(Reply) /\ Len(Told(q, n, d)) = n
           /\ \A k \in 1 .. n : Told(q, n, d)[k].data = d
           /\ \A i : Count(Told(q, n, d), i) + Count(SubSeq(q, n + 1, Len(q)), i) = Count(q, i)
<1> DEFINE t == Told(q, n, d)
           a == SubSeq(q, 1, n)
<1>1. \A k \in 1 .. n : q[k] \in Request /\ [identifier |-> q[k].identifier, data |-> d] \in Reply
  <2> SUFFICES ASSUME NEW k \in 1 .. n
               PROVE  q[k] \in Request /\ [identifier |-> q[k].identifier, data |-> d] \in Reply
    OBVIOUS
  <2>1. q[k] \in Request
    OBVIOUS
  <2> QED
    BY <2>1, RequestFacts DEF Reply
<1>2. t \in Seq(Reply) /\ Len(t) = n
  BY <1>1 DEF Told
<1>3. \A k \in 1 .. n : t[k].data = d /\ t[k].identifier = q[k].identifier
  BY DEF Told
<1>4. a \in Seq(Request) /\ Len(a) = n /\ \A k \in 1 .. n : a[k] = q[k]
  BY SubSeqFacts
<1> HIDE DEF t, a
<1>5. ASSUME NEW i PROVE Count(t, i) = Count(a, i)
  BY <1>2, <1>3, <1>4, CountSame
<1>6. ASSUME NEW i PROVE Count(q, i) = Count(a, i) + Count(SubSeq(q, n + 1, Len(q)), i)
  BY CountSplit DEF a
<1> QED
  BY <1>2, <1>3, <1>5, <1>6 DEF t

\* The requests q become w, the replies s become r: nothing overdue stays, what is told carries d,
\* and no answer is lost or given twice.
ExpiresTo(q, w, s, r, d) ==
    /\ w \in Seq(Request) /\ Len(w) <= Len(q) /\ Len(w) \in Nat /\ Len(q) \in Nat
    /\ Ordered(q) => Ordered(w) /\ NoneDue(w)
    /\ r \in Seq(Reply) /\ Len(s) <= Len(r) /\ Len(s) \in Nat /\ Len(r) \in Nat
    /\ \A k \in 1 .. Len(s) : r[k] = s[k]
    /\ \A k \in Len(s) + 1 .. Len(r) : r[k].data = d
    /\ \A i : Count(w, i) + Count(r, i) = Count(q, i) + Count(s, i)

\* This is what expire() does for each selection.
LEMMA Expiring ==
    ASSUME now \in Nat, NEW queues \in [Selections -> Seq(Request)],
           NEW some \in [Selections -> Seq(Reply)], NEW held \in [Selections -> Data],
           NEW sel \in Selections
    PROVE  ExpiresTo(queues[sel], Waiting(queues)[sel],
                     some[sel], Join(some, Expired(queues, held))[sel], held[sel])
<1> DEFINE q == queues[sel]
           s == some[sel]
           n == Due(q)
           w == Remaining(q)
           t == Told(q, n, held[sel])
           r == s \o t
<1>1. Waiting(queues)[sel] = w /\ Join(some, Expired(queues, held))[sel] = r
  BY DEF Waiting, Join, Expired
<1>2. q \in Seq(Request) /\ s \in Seq(Reply) /\ held[sel] \in Data /\ Len(q) \in Nat
  OBVIOUS
<1>3. n \in 0 .. Len(q)
  BY <1>2, DueFacts
<1>4. /\ w \in Seq(Request) /\ Len(w) = Len(q) - n
      /\ Ordered(q) => Ordered(w) /\ NoneDue(w)
  BY <1>2, RemainingFacts
<1>5. /\ t \in Seq(Reply) /\ Len(t) = n /\ \A k \in 1 .. n : t[k].data = held[sel]
      /\ \A i : Count(t, i) + Count(w, i) = Count(q, i)
  BY <1>2, <1>3, ToldFacts DEF Remaining
<1> HIDE DEF q, s, n, w, t
<1>6. /\ r \in Seq(Reply) /\ Len(r) = Len(s) + Len(t) /\ Len(s) \in Nat
      /\ \A k \in 1 .. Len(s) : r[k] = s[k]
      /\ \A k \in 1 .. Len(t) : r[Len(s) + k] = t[k]
  <2>1. s \in Seq(Reply) /\ t \in Seq(Reply)
    BY <1>2, <1>5
  <2> QED
    BY ONLY <2>1, ConcatFacts
<1>7. \A i : Count(w, i) + Count(r, i) = Count(q, i) + Count(s, i)
  <2> SUFFICES ASSUME NEW i PROVE Count(w, i) + Count(r, i) = Count(q, i) + Count(s, i)
    OBVIOUS
  <2>1. s \in Seq(Reply) /\ t \in Seq(Reply)
    BY <1>2, <1>5
  <2>2. Count(r, i) = Count(s, i) + Count(t, i)
    BY ONLY <2>1, CountConcat
  <2>3. Count(s, i) \in Nat /\ Count(t, i) \in Nat /\ Count(w, i) \in Nat
    BY <1>4, <2>1, CountType
  <2>4. Count(t, i) + Count(w, i) = Count(q, i)
    BY <1>5
  <2> HIDE DEF r
  <2> QED
    BY <2>2, <2>3, <2>4
<1> HIDE DEF r
<1>8. ASSUME NEW k \in Len(s) + 1 .. Len(r) PROVE r[k].data = held[sel]
  <2>1. k - Len(s) \in 1 .. Len(t) /\ Len(s) + (k - Len(s)) = k
    BY <1>5, <1>6, <1>3
  <2>2. r[k] = t[k - Len(s)]
    BY <1>6, <2>1
  <2> QED
    BY <1>5, <2>1, <2>2
<1>9. Len(w) <= Len(q) /\ Len(w) \in Nat /\ Len(s) <= Len(r) /\ Len(r) \in Nat
  BY <1>2, <1>3, <1>4, <1>5, <1>6
<1> QED
  BY <1>1, <1>2, <1>4, <1>6, <1>7, <1>8, <1>9 DEF q, s, ExpiresTo

-----------------------------------------------------------------------------
(* The inductive invariant *)

IInv == TypeOK /\ RequestsForwarded

\* The queues are in order.
LEMMA QueuesOrdered == RequestsForwarded => \A sel \in Selections : Ordered(requests[sel])
BY DEF RequestsForwarded, Ordered

\* At first nobody has asked.
LEMMA InitIInv == Init => IInv
<1> SUFFICES ASSUME Init PROVE IInv
  OBVIOUS
<1>1. now = 0 /\ mode \in Modes /\ data = [sel \in Selections |-> Empty]
      /\ requests = [sel \in Selections |-> <<>>] /\ systemWorking = [sel \in Selections |-> TRUE]
      /\ replies = [sel \in Selections |-> <<>>] /\ sent = [sel \in Selections |-> <<>>]
      /\ queries = [sel \in Selections |-> 0]
      /\ asked = [sel \in Selections |-> [i \in Identifiers |-> 0]] /\ answered = asked
  BY DEF Init, NoReplies
<1>2. TypeOK
  <2>1. systemWorking \in [Selections -> BOOLEAN]
    BY <1>1
  <2>2. data \in [Selections -> Data] /\ mode \in AllModes /\ now \in 0 .. MaxTime
    BY <1>1, ClipboardAssumption
  <2>3. requests \in [Selections -> Seq(Request)] /\ replies \in [Selections -> Seq(Reply)]
        /\ sent \in [Selections -> Seq(Reply)]
    BY <1>1
  <2>4. queries \in [Selections -> Nat] /\ asked \in [Selections -> [Identifiers -> Nat]]
        /\ answered \in [Selections -> [Identifiers -> Nat]]
    BY <1>1
  <2> QED
    BY <2>1, <2>2, <2>3, <2>4 DEF TypeOK
<1>3. RequestsForwarded
  BY <1>1 DEF RequestsForwarded
<1> QED
  BY <1>2, <1>3 DEF IInv

-----------------------------------------------------------------------------
(* The calls *)

\* What a call leaves in the queues.
QueuesKept ==
    \A sel \in Selections :
        /\ requests'[sel] \in Seq(Request)
        /\ Len(requests'[sel]) <= queries'[sel]
        /\ sel \notin SystemSelections => Len(requests'[sel]) = 0
        /\ Ordered(requests'[sel])
        /\ NoneDue(requests'[sel])

\* What it makes ready.
RepliesKept ==
    \A sel \in Selections :
        /\ Ready(sel) \in Seq(Reply) /\ Len(replies[sel]) <= Len(Ready(sel))
        /\ \A k \in Len(replies[sel]) + 1 .. Len(Ready(sel)) :
              \/ Ready(sel)[k].data = data'[sel]
              \/ Ready(sel)[k].data = Empty /\ ReadAction(sel, systemWorking) = "Ignore"

\* What the panes are owed after it, and what they have been given.
OwedKept ==
    \A sel \in Selections, i \in Identifiers :
        Owed(sel, i)' + answered'[sel][i] = Owed(sel, i) + answered[sel][i]

\* The parts of the state are of their types.
LEMMA TypeFacts ==
    ASSUME TypeOK
    PROVE  /\ now \in Nat /\ data \in [Selections -> Data]
           /\ requests \in [Selections -> Seq(Request)] /\ replies \in [Selections -> Seq(Reply)]
           /\ queries \in [Selections -> Nat]
           /\ asked \in [Selections -> [Identifiers -> Nat]]
           /\ answered \in [Selections -> [Identifiers -> Nat]]
BY ClipboardAssumption DEF TypeOK

\* systemWorking stays a function to Booleans.
LEMMA WorkingType ==
    ASSUME NEW queues, NEW working
    PROVE  StillWorking(queues, working) \in [Selections -> BOOLEAN]
<1>1. \A sel \in Selections : (working[sel] /\ Due(queues[sel]) = 0) \in BOOLEAN
  OBVIOUS
<1> QED
  BY <1>1, Zenon DEF StillWorking

\* RequestsForwarded follows from what a call leaves.
LEMMA Forwarded ==
    ASSUME QueuesKept
    PROVE  RequestsForwarded'
<1> SUFFICES ASSUME NEW sel \in Selections
             PROVE  /\ Len(requests'[sel]) <= queries'[sel]
                    /\ sel \notin SystemSelections => requests'[sel] = <<>>
                    /\ \A j, k \in 1 .. Len(requests'[sel]) :
                          j < k => NotAfter(requests'[sel][j], requests'[sel][k])
  BY DEF RequestsForwarded, NotAfter
<1>1. requests'[sel] \in Seq(Request) /\ Len(requests'[sel]) <= queries'[sel]
  BY DEF QueuesKept
<1>2. sel \notin SystemSelections => requests'[sel] = <<>>
  <2>1. sel \notin SystemSelections => Len(requests'[sel]) = 0
    BY DEF QueuesKept
  <2> QED
    BY <1>1, <2>1
<1>3. Ordered(requests'[sel])
  BY DEF QueuesKept
<1> QED
  BY <1>1, <1>2, <1>3 DEF Ordered

\* The top request is answered: it leaves the queue, and its pane is told.
LEMMA TopFacts ==
    ASSUME NEW q \in Seq(Request), NEW d \in Data
    PROVE  LET t == Told(Top(q), Len(Top(q)), d)
               rest == Popped(q)
           IN  /\ t \in Seq(Reply) /\ Len(t) \in Nat /\ \A k \in 1 .. Len(t) : t[k].data = d
               /\ rest \in Seq(Request) /\ Len(rest) = IF Len(q) = 0 THEN 0 ELSE Len(q) - 1
               /\ Ordered(q) => Ordered(rest)
               /\ \A i : Count(t, i) + Count(rest, i) = Count(q, i)
<1> DEFINE t == Told(Top(q), Len(Top(q)), d)
           rest == Popped(q)
<1>1. CASE q = <<>>
  <2>1. Top(q) = <<>> /\ rest = <<>> /\ Len(q) = 0
    BY <1>1 DEF Top, Popped
  <2>2. t = <<>>
    BY <2>1 DEF Told
  <2>3. \A i : Count(<<>>, i) = 0
    BY CountNone
  <2>4. t \in Seq(Reply) /\ Len(t) \in Nat /\ \A k \in 1 .. Len(t) : t[k].data = d
    BY <2>2
  <2>5. rest \in Seq(Request) /\ Len(rest) = 0 /\ Ordered(rest)
    BY <2>1 DEF Ordered
  <2>6. \A i : Count(t, i) + Count(rest, i) = Count(q, i)
    BY <1>1, <2>1, <2>2, <2>3
  <2> QED
    BY <2>1, <2>4, <2>5, <2>6
<1>2. CASE q # <<>>
  <2>1. Top(q) = <<q[1]>> /\ rest = Tail(q) /\ Len(q) \in Nat \ {0} /\ q[1] \in Request
    BY <1>2 DEF Top, Popped
  <2>2. /\ rest \in Seq(Request) /\ Len(rest) = Len(q) - 1
        /\ \A k \in 1 .. Len(q) - 1 : rest[k] = q[k + 1]
    BY <1>2, <2>1
  <2>3. t = [k \in 1 .. 1 |-> [identifier |-> q[1].identifier, data |-> d]]
    BY <2>1 DEF Told
  <2>4. [identifier |-> q[1].identifier, data |-> d] \in Reply
    BY <2>1, RequestFacts DEF Reply
  <2>5. t \in Seq(Reply) /\ Len(t) = 1 /\ t[1].data = d /\ t[1].identifier = q[1].identifier
    BY <2>3, <2>4
  <2>6. Ordered(q) => Ordered(rest)
    BY <2>1, <2>2 DEF Ordered
  <2>7. ASSUME NEW i PROVE Count(t, i) + Count(rest, i) = Count(q, i)
    <3>1. Count(q, i) = Count(SubSeq(q, 1, 1), i) + Count(SubSeq(q, 1 + 1, Len(q)), i)
      <4>1. 1 \in 0 .. Len(q)
        BY <2>1
      <4> QED
        BY <4>1, CountSplit
    <3>2. SubSeq(q, 1 + 1, Len(q)) = rest
      BY <2>1
    <3>3. Len(SubSeq(q, 1, 1)) = 1 /\ SubSeq(q, 1, 1)[1] = q[1]
      BY <2>1
    <3>4. Count(t, i) = Count(SubSeq(q, 1, 1), i)
      <4> HIDE DEF t
      <4> DEFINE a == SubSeq(q, 1, 1)
      <4> HIDE DEF a
      <4>1. Len(t) = Len(a) /\ \A k \in 1 .. Len(t) : t[k].identifier = a[k].identifier
        BY <2>5, <3>3 DEF a
      <4> QED
        BY <4>1, CountSame DEF a
    <3> HIDE DEF t, rest
    <3> QED
      BY <3>1, <3>2, <3>4
  <2> HIDE DEF t, rest
  <2> QED
    BY <2>1, <2>2, <2>5, <2>6, <2>7 DEF t, rest
<1> QED
  BY <1>1, <1>2

\* A program sets the selection.
LEMMA SetClipboardStep ==
    ASSUME IInv, NEW sel \in Selections, NEW d \in Data, SetClipboard(sel, d)
    PROVE  TypeOK' /\ QueuesKept /\ RepliesKept /\ OwedKept /\ UNCHANGED asked
<1>1. /\ TypeOK /\ now \in Nat /\ requests \in [Selections -> Seq(Request)]
      /\ replies \in [Selections -> Seq(Reply)] /\ queries \in [Selections -> Nat]
      /\ data \in [Selections -> Data] /\ answered \in [Selections -> [Identifiers -> Nat]]
  BY TypeFacts DEF IInv
<1>2. /\ requests' = Waiting(requests) /\ replies' = Join(replies, Expired(requests, data'))
      /\ systemWorking' = StillWorking(requests, systemWorking)
      /\ sent' = NoReplies
      /\ UNCHANGED <<now, mode, queries, asked, answered>>
  BY DEF SetClipboard
<1>3. data' \in [Selections -> Data]
  <2>1. data' = data \/ data' = [data EXCEPT ![sel] = d]
    BY DEF SetClipboard
  <2> QED
    BY <1>1, <2>1
<1>4. ASSUME NEW s \in Selections
      PROVE  ExpiresTo(requests[s], requests'[s], replies[s], replies'[s], data'[s])
  BY <1>1, <1>2, <1>3, Expiring
<1>5. TypeOK'
  <2>1. systemWorking' \in [Selections -> BOOLEAN]
    BY <1>2, WorkingType
  <2>2. sent' \in [Selections -> Seq(Reply)]
    BY <1>2 DEF NoReplies
  <2>3. requests' \in [Selections -> Seq(Request)]
    BY <1>2, <1>4 DEF Waiting, ExpiresTo
  <2>4. replies' \in [Selections -> Seq(Reply)]
    BY <1>2, <1>4 DEF Join, ExpiresTo
  <2> QED
    BY <1>1, <1>2, <1>3, <2>1, <2>2, <2>3, <2>4 DEF TypeOK
<1>6. QueuesKept
  <2> SUFFICES ASSUME NEW s \in Selections
               PROVE  /\ requests'[s] \in Seq(Request) /\ Len(requests'[s]) <= queries'[s]
                      /\ s \notin SystemSelections => Len(requests'[s]) = 0
                      /\ Ordered(requests'[s]) /\ NoneDue(requests'[s])
    BY DEF QueuesKept
  <2>1. Len(requests[s]) <= queries[s] /\ (s \notin SystemSelections => Len(requests[s]) = 0)
    BY DEF IInv, RequestsForwarded
  <2>2. Ordered(requests[s])
    BY QueuesOrdered DEF IInv
  <2>3. queries[s] \in Nat
    BY <1>1
  <2> QED
    BY <1>2, <1>4, <2>1, <2>2, <2>3 DEF ExpiresTo
<1>7. RepliesKept
  BY <1>2, <1>4 DEF RepliesKept, Ready, NoReplies, ExpiresTo
<1>8. OwedKept
  <2> SUFFICES ASSUME NEW s \in Selections, NEW i \in Identifiers
               PROVE  Owed(s, i)' + answered'[s][i] = Owed(s, i) + answered[s][i]
    BY DEF OwedKept
  <2>1. Owed(s, i)' = Count(requests'[s], i) + Count(replies'[s], i)
    BY DEF Owed, Count
  <2>2. Owed(s, i) = Count(requests[s], i) + Count(replies[s], i)
    BY DEF Owed
  <2> QED
    BY <1>2, <1>4, <2>1, <2>2 DEF ExpiresTo
<1> QED
  BY <1>2, <1>5, <1>6, <1>7, <1>8

\* The outer terminal answers.
LEMMA GotClipboardResponseStep ==
    ASSUME IInv, NEW sel \in Selections, NEW d \in Data, GotClipboardResponse(sel, d)
    PROVE  TypeOK' /\ QueuesKept /\ RepliesKept /\ OwedKept /\ UNCHANGED asked
<1> DEFINE top == Top(requests[sel])
           told == Told(top, Len(top), data'[sel])
           rest == [requests EXCEPT ![sel] = Popped(@)]
           got == [replies EXCEPT ![sel] = @ \o told]
<1>1. /\ TypeOK /\ now \in Nat /\ requests \in [Selections -> Seq(Request)]
      /\ replies \in [Selections -> Seq(Reply)] /\ queries \in [Selections -> Nat]
      /\ data \in [Selections -> Data] /\ answered \in [Selections -> [Identifiers -> Nat]]
  BY TypeFacts DEF IInv
<1>2. /\ requests' = Waiting(rest) /\ replies' = Join(got, Expired(rest, data'))
      /\ systemWorking' = StillWorking(rest, [systemWorking EXCEPT ![sel] = TRUE])
      /\ sent' = NoReplies
      /\ queries' = [queries EXCEPT ![sel] = IF @ > 0 THEN @ - 1 ELSE 0]
      /\ UNCHANGED <<now, mode, asked, answered>>
  BY DEF GotClipboardResponse
<1>3. data' \in [Selections -> Data]
  <2>1. data' = data \/ data' = [data EXCEPT ![sel] = d]
    BY DEF GotClipboardResponse
  <2> QED
    BY <1>1, <2>1
<1>4. requests[sel] \in Seq(Request) /\ replies[sel] \in Seq(Reply) /\ data'[sel] \in Data
  BY <1>1, <1>3
<1>5. /\ told \in Seq(Reply) /\ Len(told) \in Nat /\ \A k \in 1 .. Len(told) : told[k].data = data'[sel]
      /\ Popped(requests[sel]) \in Seq(Request)
      /\ Len(Popped(requests[sel])) = IF Len(requests[sel]) = 0 THEN 0 ELSE Len(requests[sel]) - 1
      /\ Ordered(requests[sel]) => Ordered(Popped(requests[sel]))
      /\ \A i : Count(told, i) + Count(Popped(requests[sel]), i) = Count(requests[sel], i)
  BY <1>4, TopFacts
<1> HIDE DEF top, told
<1>6. /\ replies[sel] \o told \in Seq(Reply) /\ Len(replies[sel] \o told) = Len(replies[sel]) + Len(told)
      /\ \A k \in 1 .. Len(replies[sel]) : (replies[sel] \o told)[k] = replies[sel][k]
      /\ \A k \in 1 .. Len(told) : (replies[sel] \o told)[Len(replies[sel]) + k] = told[k]
  <2>1. told \in Seq(Reply) /\ replies[sel] \in Seq(Reply)
    BY <1>4, <1>5
  <2> QED
    BY ONLY <2>1, ConcatFacts
<1>7. /\ rest \in [Selections -> Seq(Request)] /\ got \in [Selections -> Seq(Reply)]
      /\ rest[sel] = Popped(requests[sel]) /\ got[sel] = replies[sel] \o told
      /\ \A s \in Selections \ {sel} : rest[s] = requests[s] /\ got[s] = replies[s]
  BY <1>1, <1>5, <1>6
<1> HIDE DEF rest, got
<1>8. ASSUME NEW s \in Selections
      PROVE  ExpiresTo(rest[s], requests'[s], got[s], replies'[s], data'[s])
  BY <1>1, <1>2, <1>3, <1>7, Expiring
<1>9. \A s \in Selections : Ordered(requests[s])
  BY QueuesOrdered DEF IInv
<1>10. TypeOK'
  <2>1. systemWorking' \in [Selections -> BOOLEAN]
    BY <1>2, WorkingType
  <2>2. sent' \in [Selections -> Seq(Reply)]
    BY <1>2 DEF NoReplies
  <2>3. requests' \in [Selections -> Seq(Request)]
    BY <1>2, <1>8 DEF Waiting, ExpiresTo
  <2>4. replies' \in [Selections -> Seq(Reply)]
    BY <1>2, <1>8 DEF Join, ExpiresTo
  <2>5. queries' \in [Selections -> Nat]
    BY <1>1, <1>2
  <2> QED
    BY <1>1, <1>2, <1>3, <2>1, <2>2, <2>3, <2>4, <2>5 DEF TypeOK
<1>11. QueuesKept
  <2> SUFFICES ASSUME NEW s \in Selections
               PROVE  /\ requests'[s] \in Seq(Request) /\ Len(requests'[s]) <= queries'[s]
                      /\ s \notin SystemSelections => Len(requests'[s]) = 0
                      /\ Ordered(requests'[s]) /\ NoneDue(requests'[s])
    BY DEF QueuesKept
  <2>1. Len(requests[s]) <= queries[s] /\ (s \notin SystemSelections => Len(requests[s]) = 0)
    BY DEF IInv, RequestsForwarded
  <2>2. queries[s] \in Nat /\ Len(requests[s]) \in Nat
    BY <1>1
  <2>3. /\ Ordered(rest[s]) /\ Len(rest[s]) <= queries'[s]
        /\ s \notin SystemSelections => Len(rest[s]) = 0
    <3>1. CASE s = sel
      BY <1>1, <1>2, <1>5, <1>7, <1>9, <2>1, <2>2, <3>1
    <3>2. CASE s # sel
      BY <1>1, <1>2, <1>7, <1>9, <2>1, <3>2
    <3> QED
      BY <3>1, <3>2
  <2>4. queries'[s] \in Nat
    BY <1>1, <1>2
  <2> QED
    BY <1>8, <2>3, <2>4 DEF ExpiresTo
<1>12. RepliesKept
  <2> SUFFICES ASSUME NEW s \in Selections
               PROVE  /\ replies'[s] \in Seq(Reply) /\ Len(replies[s]) <= Len(replies'[s])
                      /\ \A k \in Len(replies[s]) + 1 .. Len(replies'[s]) : replies'[s][k].data = data'[s]
    BY <1>2 DEF RepliesKept, Ready, NoReplies
  <2>1. CASE s # sel
    BY <1>7, <1>8, <2>1 DEF ExpiresTo
  <2>2. CASE s = sel
    <3>1. /\ replies'[s] \in Seq(Reply) /\ Len(got[s]) <= Len(replies'[s]) /\ Len(got[s]) \in Nat
          /\ \A k \in 1 .. Len(got[s]) : replies'[s][k] = got[s][k]
          /\ \A k \in Len(got[s]) + 1 .. Len(replies'[s]) : replies'[s][k].data = data'[s]
          /\ Len(replies'[s]) \in Nat
      BY <1>8 DEF ExpiresTo
    <3>2. Len(got[s]) = Len(replies[s]) + Len(told) /\ Len(replies[s]) \in Nat /\ Len(told) \in Nat
      BY <1>4, <1>5, <1>6, <1>7, <2>2
    <3>3. ASSUME NEW k \in Len(replies[s]) + 1 .. Len(replies'[s])
          PROVE  replies'[s][k].data = data'[s]
      <4>1. CASE k \in Len(got[s]) + 1 .. Len(replies'[s])
        BY <3>1, <4>1
      <4>2. CASE k \notin Len(got[s]) + 1 .. Len(replies'[s])
        <5>1. k \in 1 .. Len(got[s]) /\ k - Len(replies[s]) \in 1 .. Len(told)
              /\ Len(replies[s]) + (k - Len(replies[s])) = k
          BY <3>1, <3>2, <4>2
        <5>2. replies'[s][k] = (replies[sel] \o told)[k]
          BY <1>7, <2>2, <3>1, <5>1
        <5>3. (replies[sel] \o told)[k] = told[k - Len(replies[s])]
          BY <1>6, <2>2, <5>1
        <5> QED
          BY <1>5, <2>2, <5>1, <5>2, <5>3
      <4> QED
        BY <4>1, <4>2
    <3> QED
      BY <3>1, <3>2, <3>3
  <2> QED
    BY <2>1, <2>2
<1>13. OwedKept
  <2> SUFFICES ASSUME NEW s \in Selections, NEW i \in Identifiers
               PROVE  Owed(s, i)' + answered'[s][i] = Owed(s, i) + answered[s][i]
    BY DEF OwedKept
  <2>1. Owed(s, i)' = Count(requests'[s], i) + Count(replies'[s], i)
    BY DEF Owed, Count
  <2>2. Owed(s, i) = Count(requests[s], i) + Count(replies[s], i)
    BY DEF Owed
  <2>3. Count(rest[s], i) + Count(got[s], i) = Count(requests[s], i) + Count(replies[s], i)
    <3>1. CASE s # sel
      BY <1>7, <3>1
    <3>2. CASE s = sel
      <4>1. told \in Seq(Reply) /\ replies[sel] \in Seq(Reply) /\ Popped(requests[sel]) \in Seq(Request)
        BY <1>4, <1>5
      <4>2. Count(replies[sel] \o told, i) = Count(replies[sel], i) + Count(told, i)
        BY ONLY <4>1, CountConcat
      <4>3. Count(replies[sel], i) \in Nat /\ Count(told, i) \in Nat /\ Count(Popped(requests[sel]), i) \in Nat
        BY <4>1, CountType
      <4>4. Count(told, i) + Count(Popped(requests[sel]), i) = Count(requests[sel], i)
        BY <1>5
      <4>5. Count(rest[s], i) = Count(Popped(requests[sel]), i)
        BY <1>7, <3>2
      <4>6. Count(got[s], i) = Count(replies[sel] \o told, i)
        BY <1>7, <3>2
      <4> QED
        BY <3>2, <4>2, <4>3, <4>4, <4>5, <4>6
    <3> QED
      BY <3>1, <3>2
  <2>4. Count(requests'[s], i) + Count(replies'[s], i) = Count(rest[s], i) + Count(got[s], i)
    BY <1>8 DEF ExpiresTo
  <2> QED
    BY <1>2, <2>1, <2>2, <2>3, <2>4
<1> QED
  BY <1>2, <1>10, <1>11, <1>12, <1>13

\* The replies that are ready are sent.
LEMMA GetRepliesStep ==
    ASSUME IInv, GetReplies
    PROVE  TypeOK' /\ QueuesKept /\ RepliesKept /\ OwedKept /\ UNCHANGED asked
           /\ \A sel \in Selections, i \in Identifiers : answered'[sel][i] >= answered[sel][i]
<1>1. /\ TypeOK /\ now \in Nat /\ requests \in [Selections -> Seq(Request)]
      /\ replies \in [Selections -> Seq(Reply)] /\ queries \in [Selections -> Nat]
      /\ data \in [Selections -> Data] /\ answered \in [Selections -> [Identifiers -> Nat]]
  BY TypeFacts DEF IInv
<1>2. /\ requests' = Waiting(requests) /\ sent' = Join(replies, Expired(requests, data))
      /\ systemWorking' = StillWorking(requests, systemWorking)
      /\ replies' = NoReplies
      /\ answered' = [sel \in Selections |-> [i \in Identifiers |->
                         answered[sel][i] + Count(sent'[sel], i)]]
      /\ UNCHANGED <<now, mode, data, queries, asked>>
  BY DEF GetReplies
<1>3. ASSUME NEW s \in Selections
      PROVE  ExpiresTo(requests[s], requests'[s], replies[s], sent'[s], data[s])
  BY <1>1, <1>2, Expiring
<1>4. ASSUME NEW s \in Selections, NEW i PROVE Count(sent'[s], i) \in Nat
  <2>1. sent'[s] \in Seq(Reply)
    BY <1>3 DEF ExpiresTo
  <2> QED
    BY <2>1, CountType
<1>5. TypeOK'
  <2>1. systemWorking' \in [Selections -> BOOLEAN]
    BY <1>2, WorkingType
  <2>2. replies' \in [Selections -> Seq(Reply)]
    BY <1>2 DEF NoReplies
  <2>3. requests' \in [Selections -> Seq(Request)]
    BY <1>2, <1>3 DEF Waiting, ExpiresTo
  <2>4. sent' \in [Selections -> Seq(Reply)]
    BY <1>2, <1>3 DEF Join, ExpiresTo
  <2>5. answered' \in [Selections -> [Identifiers -> Nat]]
    <3>1. \A s \in Selections, i \in Identifiers : answered[s][i] + Count(sent'[s], i) \in Nat
      <4> SUFFICES ASSUME NEW s \in Selections, NEW i \in Identifiers
                   PROVE  answered[s][i] + Count(sent'[s], i) \in Nat
        OBVIOUS
      <4>1. Count(sent'[s], i) \in Nat
        BY <1>4
      <4>2. answered[s][i] \in Nat
        BY <1>1
      <4> QED
        BY <4>1, <4>2
    <3> QED
      BY <1>2, <3>1, Zenon
  <2> QED
    BY <1>1, <1>2, <2>1, <2>2, <2>3, <2>4, <2>5 DEF TypeOK
<1>6. QueuesKept
  <2> SUFFICES ASSUME NEW s \in Selections
               PROVE  /\ requests'[s] \in Seq(Request) /\ Len(requests'[s]) <= queries'[s]
                      /\ s \notin SystemSelections => Len(requests'[s]) = 0
                      /\ Ordered(requests'[s]) /\ NoneDue(requests'[s])
    BY DEF QueuesKept
  <2>1. Len(requests[s]) <= queries[s] /\ (s \notin SystemSelections => Len(requests[s]) = 0)
    BY DEF IInv, RequestsForwarded
  <2>2. Ordered(requests[s])
    BY QueuesOrdered DEF IInv
  <2>3. queries[s] \in Nat
    BY <1>1
  <2> QED
    BY <1>2, <1>3, <2>1, <2>2, <2>3 DEF ExpiresTo
<1>7. RepliesKept
  <2> SUFFICES ASSUME NEW s \in Selections
               PROVE  /\ Ready(s) \in Seq(Reply) /\ Len(replies[s]) <= Len(Ready(s))
                      /\ \A k \in Len(replies[s]) + 1 .. Len(Ready(s)) : Ready(s)[k].data = data'[s]
    BY DEF RepliesKept
  <2>1. Ready(s) = sent'[s]
    <3>1. replies'[s] = <<>>
      BY <1>2 DEF NoReplies
    <3> QED
      BY <3>1 DEF Ready
  <2> QED
    BY <1>2, <1>3, <2>1 DEF ExpiresTo
<1>8. OwedKept
  <2> SUFFICES ASSUME NEW s \in Selections, NEW i \in Identifiers
               PROVE  Owed(s, i)' + answered'[s][i] = Owed(s, i) + answered[s][i]
    BY DEF OwedKept
  <2>1. Owed(s, i)' = Count(requests'[s], i) + Count(replies'[s], i)
    BY DEF Owed, Count
  <2>2. Owed(s, i) = Count(requests[s], i) + Count(replies[s], i)
    BY DEF Owed
  <2>3. replies'[s] = <<>>
    BY <1>2 DEF NoReplies
  <2>4. Count(replies'[s], i) = 0
    BY <2>3, CountNone
  <2>5. answered'[s][i] = answered[s][i] + Count(sent'[s], i) /\ answered[s][i] \in Nat
    BY <1>1, <1>2
  <2>6. Count(requests'[s], i) + Count(sent'[s], i) = Count(requests[s], i) + Count(replies[s], i)
    BY <1>3 DEF ExpiresTo
  <2>7. Count(requests'[s], i) \in Nat
    <3>1. requests'[s] \in Seq(Request)
      BY <1>3 DEF ExpiresTo
    <3> QED
      BY <3>1, CountType
  <2> QED
    BY <1>4, <2>1, <2>2, <2>4, <2>5, <2>6, <2>7
<1>9. \A sel \in Selections, i \in Identifiers : answered'[sel][i] >= answered[sel][i]
  <2> SUFFICES ASSUME NEW s \in Selections, NEW i \in Identifiers PROVE answered'[s][i] >= answered[s][i]
    OBVIOUS
  <2>1. answered'[s][i] = answered[s][i] + Count(sent'[s], i) /\ answered[s][i] \in Nat
    BY <1>1, <1>2
  <2> QED
    BY <1>4, <2>1
<1> QED
  BY <1>2, <1>5, <1>6, <1>7, <1>8, <1>9

\* One request or reply more, at the end.
LEMMA AppendFacts ==
    ASSUME NEW S, NEW q \in Seq(S), NEW e \in S
    PROVE  /\ Append(q, e) \in Seq(S) /\ Len(Append(q, e)) = Len(q) + 1 /\ Len(q) \in Nat
           /\ \A k \in 1 .. Len(q) : Append(q, e)[k] = q[k]
           /\ Append(q, e)[Len(q) + 1] = e
           /\ \A i : Count(Append(q, e), i) = Count(q, i) + IF e.identifier = i THEN 1 ELSE 0
<1>1. /\ Append(q, e) \in Seq(S) /\ Len(Append(q, e)) = Len(q) + 1 /\ Len(q) \in Nat
      /\ \A k \in 1 .. Len(q) : Append(q, e)[k] = q[k]
      /\ Append(q, e)[Len(q) + 1] = e
  OBVIOUS
<1>2. ASSUME NEW i PROVE Count(Append(q, e), i) = Count(q, i) + IF e.identifier = i THEN 1 ELSE 0
  <2> DEFINE b == <<e>>
  <2>1. Append(q, e) = q \o b
    OBVIOUS
  <2>2. q \in Seq(S) /\ b \in Seq(S)
    OBVIOUS
  <2>3. Count(b, i) = IF e.identifier = i THEN 1 ELSE 0
    BY CountOne
  <2> HIDE DEF b
  <2>4. Count(q \o b, i) = Count(q, i) + Count(b, i)
    BY ONLY <2>2, CountConcat
  <2> QED
    BY <2>1, <2>3, <2>4
<1> QED
  BY <1>1, <1>2

\* Whether reading is forbidden does not depend on the outer terminal, and only its selections
\* wait for it.
LEMMA ReadFacts ==
    ASSUME NEW sel, NEW working, NEW other
    PROVE  /\ ReadAction(sel, working) = "ReadSystem" => sel \in SystemSelections
           /\ ReadAction(sel, working) = "Ignore" => ReadAction(sel, other) = "Ignore"
<1>1. CASE mode \in {"SystemWriteNoRead", "LocalWriteNoRead", "Disabled"}
  BY <1>1 DEF ReadAction
<1>2. CASE mode \notin {"SystemWriteNoRead", "LocalWriteNoRead", "Disabled"}
  BY <1>2 DEF ReadAction
<1> QED
  BY <1>1, <1>2

\* What a query adds to what its pane is owed.
OneMore(sel, i) ==
    \A s \in Selections, j \in Identifiers :
        Owed(s, j)' = Owed(s, j) + IF s = sel /\ j = i THEN 1 ELSE 0

\* A program queries the selection.
LEMMA RequestClipboardStep ==
    ASSUME IInv, NEW sel \in Selections, NEW i \in Identifiers, RequestClipboard(sel, i)
    PROVE  TypeOK' /\ QueuesKept /\ RepliesKept /\ OneMore(sel, i) /\ UNCHANGED answered
           /\ asked' = [asked EXCEPT ![sel][i] = @ + 1]
<1> DEFINE read == ReadAction(sel, StillWorking(requests, systemWorking))
           wait == Waiting(requests)
           ready == Join(replies, Expired(requests, data))
           request == [reception |-> now, identifier |-> i]
           reply == [identifier |-> i, data |-> IF read = "Ignore" THEN Empty ELSE data[sel]]
<1>1. /\ TypeOK /\ now \in Nat /\ requests \in [Selections -> Seq(Request)]
      /\ replies \in [Selections -> Seq(Reply)] /\ queries \in [Selections -> Nat]
      /\ data \in [Selections -> Data] /\ answered \in [Selections -> [Identifiers -> Nat]]
      /\ asked \in [Selections -> [Identifiers -> Nat]]
  BY TypeFacts DEF IInv
<1>2. /\ requests' = IF read # "ReadSystem" THEN wait ELSE [wait EXCEPT ![sel] = Push(@, request)]
      /\ replies' = IF read = "ReadSystem" THEN ready ELSE [ready EXCEPT ![sel] = Append(@, reply)]
      /\ queries' = [queries EXCEPT ![sel] =
                        IF read \in {"ReadSystem", "RequestSystemReadLocal"} THEN @ + 1 ELSE @]
      /\ systemWorking' = StillWorking(requests, systemWorking)
      /\ sent' = NoReplies
      /\ asked' = [asked EXCEPT ![sel][i] = @ + 1]
      /\ UNCHANGED <<now, mode, data, answered>>
  BY DEF RequestClipboard
<1>3. request \in Request /\ request.reception = now /\ request.identifier = i
  BY <1>1 DEF Request
<1>4. reply \in Reply /\ reply.identifier = i
      /\ reply.data = IF read = "Ignore" THEN Empty ELSE data[sel]
  BY <1>1, ClipboardAssumption DEF Reply
<1>5. /\ read = "ReadSystem" => sel \in SystemSelections
      /\ read = "Ignore" => ReadAction(sel, systemWorking) = "Ignore"
  BY ReadFacts
<1>6. \A s \in Selections : ExpiresTo(requests[s], wait[s], replies[s], ready[s], data[s])
  BY <1>1, Expiring
<1>7. \A s \in Selections : wait[s] \in Seq(Request) /\ ready[s] \in Seq(Reply)
  BY <1>6 DEF ExpiresTo
<1>8. wait \in [Selections -> Seq(Request)] /\ ready \in [Selections -> Seq(Reply)]
  BY <1>7 DEF Waiting, Join
<1> HIDE DEF wait, ready, read, request, reply
<1>9. /\ wait[sel] \in Seq(Request) /\ Len(wait[sel]) \in Nat
      /\ Push(wait[sel], request) \in Seq(Request)
      /\ Len(Push(wait[sel], request)) = Len(wait[sel]) + 1
      /\ \A k \in 1 .. Len(Push(wait[sel], request)) :
            \/ Push(wait[sel], request)[k] = request
            \/ \E j \in 1 .. Len(wait[sel]) : Push(wait[sel], request)[k] = wait[sel][j]
      /\ Ordered(wait[sel]) => Ordered(Push(wait[sel], request))
      /\ \A j : Count(Push(wait[sel], request), j)
                  = Count(wait[sel], j) + IF request.identifier = j THEN 1 ELSE 0
  <2>1. wait[sel] \in Seq(Request) /\ Len(wait[sel]) \in Nat
    BY <1>7
  <2> QED
    BY <1>3, <2>1, PushFacts
<1>10. /\ Append(ready[sel], reply) \in Seq(Reply)
       /\ Len(Append(ready[sel], reply)) = Len(ready[sel]) + 1 /\ Len(ready[sel]) \in Nat
       /\ \A k \in 1 .. Len(ready[sel]) : Append(ready[sel], reply)[k] = ready[sel][k]
       /\ Append(ready[sel], reply)[Len(ready[sel]) + 1] = reply
       /\ \A j : Count(Append(ready[sel], reply), j)
                   = Count(ready[sel], j) + IF reply.identifier = j THEN 1 ELSE 0
  <2>1. ready[sel] \in Seq(Reply)
    BY <1>7
  <2> QED
    BY <1>4, <2>1, AppendFacts
<1>11. \A s \in Selections :
          /\ s # sel \/ read # "ReadSystem" => requests'[s] = wait[s]
          /\ s = sel /\ read = "ReadSystem" => requests'[s] = Push(wait[sel], request)
          /\ s # sel \/ read = "ReadSystem" => replies'[s] = ready[s]
          /\ s = sel /\ read # "ReadSystem" => replies'[s] = Append(ready[sel], reply)
  BY <1>2, <1>8
<1>12. TypeOK'
  <2>1. systemWorking' \in [Selections -> BOOLEAN]
    BY <1>2, WorkingType
  <2>2. sent' \in [Selections -> Seq(Reply)]
    BY <1>2 DEF NoReplies
  <2>3. requests' \in [Selections -> Seq(Request)]
    BY <1>2, <1>8, <1>9
  <2>4. replies' \in [Selections -> Seq(Reply)]
    BY <1>2, <1>8, <1>10
  <2>5. queries' \in [Selections -> Nat]
    BY <1>1, <1>2
  <2>6. asked' \in [Selections -> [Identifiers -> Nat]]
    BY <1>1, <1>2
  <2> QED
    BY <1>1, <1>2, <2>1, <2>2, <2>3, <2>4, <2>5, <2>6 DEF TypeOK
<1>13. QueuesKept
  <2> SUFFICES ASSUME NEW s \in Selections
               PROVE  /\ requests'[s] \in Seq(Request) /\ Len(requests'[s]) <= queries'[s]
                      /\ s \notin SystemSelections => Len(requests'[s]) = 0
                      /\ Ordered(requests'[s]) /\ NoneDue(requests'[s])
    BY DEF QueuesKept
  <2>1. Len(requests[s]) <= queries[s] /\ (s \notin SystemSelections => Len(requests[s]) = 0)
    BY DEF IInv, RequestsForwarded
  <2>2. Ordered(requests[s])
    BY QueuesOrdered DEF IInv
  <2>3. /\ wait[s] \in Seq(Request) /\ Len(wait[s]) <= Len(requests[s]) /\ Len(wait[s]) \in Nat
        /\ Len(requests[s]) \in Nat /\ Ordered(wait[s]) /\ NoneDue(wait[s])
    BY <1>6, <2>2 DEF ExpiresTo
  <2>4. queries[s] \in Nat /\ queries'[s] \in Nat /\ queries[s] <= queries'[s]
        /\ (s = sel /\ read = "ReadSystem" => queries'[s] = queries[s] + 1)
    BY <1>1, <1>2
  <2>5. CASE s # sel \/ read # "ReadSystem"
    <3>1. requests'[s] = wait[s]
      BY <1>11, <2>5
    <3> QED
      BY <2>1, <2>3, <2>4, <3>1
  <2>6. CASE s = sel /\ read = "ReadSystem"
    <3> DEFINE p == Push(wait[sel], request)
    <3>1. requests'[s] = p
      BY <1>11, <2>6
    <3>2. p \in Seq(Request) /\ Len(p) = Len(wait[s]) + 1 /\ Ordered(p)
      BY <1>9, <2>3, <2>6
    <3>3. NoneDue(p)
      <4> SUFFICES ASSUME NEW k \in 1 .. Len(p) PROVE ~Overdue(p[k])
        BY DEF NoneDue
      <4>1. CASE p[k] = request
        <5>1. now \in Nat /\ p[k].reception = now
          BY <1>1, <1>3, <4>1
        <5> QED
          BY <5>1, ClipboardAssumption DEF Overdue
      <4>2. CASE \E j \in 1 .. Len(wait[sel]) : p[k] = wait[sel][j]
        BY <2>3, <2>6, <4>2 DEF NoneDue
      <4> QED
        BY <1>9, <4>1, <4>2
    <3> HIDE DEF p
    <3> QED
      BY <1>5, <2>1, <2>3, <2>4, <2>6, <3>1, <3>2, <3>3
  <2> QED
    BY <2>5, <2>6
<1>14. RepliesKept
  <2> SUFFICES ASSUME NEW s \in Selections
               PROVE  /\ replies'[s] \in Seq(Reply) /\ Len(replies[s]) <= Len(replies'[s])
                      /\ \A k \in Len(replies[s]) + 1 .. Len(replies'[s]) :
                            \/ replies'[s][k].data = data'[s]
                            \/ replies'[s][k].data = Empty /\ ReadAction(s, systemWorking) = "Ignore"
    BY <1>2 DEF RepliesKept, Ready, NoReplies
  <2>1. /\ ready[s] \in Seq(Reply) /\ Len(replies[s]) <= Len(ready[s])
        /\ Len(replies[s]) \in Nat /\ Len(ready[s]) \in Nat
        /\ \A k \in Len(replies[s]) + 1 .. Len(ready[s]) : ready[s][k].data = data'[s]
    BY <1>2, <1>6 DEF ExpiresTo
  <2>2. CASE s # sel \/ read = "ReadSystem"
    <3>1. replies'[s] = ready[s]
      BY <1>11, <2>2
    <3> QED
      BY <2>1, <3>1
  <2>3. CASE s = sel /\ read # "ReadSystem"
    <3> DEFINE a == Append(ready[sel], reply)
    <3>1. replies'[s] = a
      BY <1>11, <2>3
    <3>2. /\ a \in Seq(Reply) /\ Len(a) = Len(ready[s]) + 1
          /\ \A k \in 1 .. Len(ready[s]) : a[k] = ready[s][k]
          /\ a[Len(ready[s]) + 1] = reply
      BY <1>10, <2>3
    <3> HIDE DEF a
    <3>3. ASSUME NEW k \in Len(replies[s]) + 1 .. Len(a)
          PROVE  \/ a[k].data = data'[s]
                 \/ a[k].data = Empty /\ ReadAction(s, systemWorking) = "Ignore"
      <4>1. CASE k = Len(ready[s]) + 1
        BY <1>2, <1>4, <1>5, <2>3, <3>2, <4>1
      <4>2. CASE k # Len(ready[s]) + 1
        <5>1. k \in 1 .. Len(ready[s]) /\ k \in Len(replies[s]) + 1 .. Len(ready[s])
          BY <2>1, <3>2, <4>2
        <5> QED
          BY <2>1, <3>2, <5>1
      <4> QED
        BY <4>1, <4>2
    <3>4. Len(replies[s]) <= Len(a)
      BY <2>1, <3>2
    <3> QED
      BY <3>1, <3>2, <3>3, <3>4
  <2> QED
    BY <2>2, <2>3
<1>15. OneMore(sel, i)
  <2> SUFFICES ASSUME NEW s \in Selections, NEW j \in Identifiers
               PROVE  Owed(s, j)' = Owed(s, j) + IF s = sel /\ j = i THEN 1 ELSE 0
    BY DEF OneMore
  <2>1. Owed(s, j)' = Count(requests'[s], j) + Count(replies'[s], j)
    BY DEF Owed, Count
  <2>2. Owed(s, j) = Count(requests[s], j) + Count(replies[s], j)
    BY DEF Owed
  <2>3. Count(wait[s], j) + Count(ready[s], j) = Count(requests[s], j) + Count(replies[s], j)
    BY <1>6 DEF ExpiresTo
  <2>4. Count(wait[s], j) \in Nat /\ Count(ready[s], j) \in Nat
    BY <1>7, CountType
  <2>5. CASE s # sel
    <3>1. requests'[s] = wait[s] /\ replies'[s] = ready[s]
      BY <1>11, <2>5
    <3> QED
      BY <2>1, <2>2, <2>3, <2>4, <2>5, <3>1
  <2>6. CASE s = sel /\ read = "ReadSystem"
    <3>1. requests'[s] = Push(wait[sel], request) /\ replies'[s] = ready[s]
      BY <1>11, <2>6
    <3>2. Count(Push(wait[sel], request), j) = Count(wait[s], j) + IF i = j THEN 1 ELSE 0
      BY <1>3, <1>9, <2>6
    <3>3. Count(requests'[s], j) = Count(wait[s], j) + IF i = j THEN 1 ELSE 0
      BY <3>1, <3>2
    <3>4. Count(replies'[s], j) = Count(ready[s], j)
      BY <3>1
    <3> QED
      BY <2>1, <2>2, <2>3, <2>4, <2>6, <3>3, <3>4
  <2>7. CASE s = sel /\ read # "ReadSystem"
    <3>1. requests'[s] = wait[s] /\ replies'[s] = Append(ready[sel], reply)
      BY <1>11, <2>7
    <3>2. Count(Append(ready[sel], reply), j) = Count(ready[s], j) + IF i = j THEN 1 ELSE 0
      BY <1>4, <1>10, <2>7
    <3>3. Count(requests'[s], j) = Count(wait[s], j)
      BY <3>1
    <3>4. Count(replies'[s], j) = Count(ready[s], j) + IF i = j THEN 1 ELSE 0
      BY <3>1, <3>2
    <3> QED
      BY <2>1, <2>2, <2>3, <2>4, <2>7, <3>3, <3>4
  <2> QED
    BY <2>5, <2>6, <2>7
<1> QED
  BY <1>2, <1>12, <1>13, <1>14, <1>15

\* What every call does.
LEMMA CallStep ==
    ASSUME IInv, Calls
    PROVE  TypeOK' /\ QueuesKept /\ RepliesKept
<1>1. CASE \E sel \in Selections, d \in Data : SetClipboard(sel, d)
  BY <1>1, SetClipboardStep
<1>2. CASE \E sel \in Selections, d \in Data : GotClipboardResponse(sel, d)
  BY <1>2, GotClipboardResponseStep
<1>3. CASE \E sel \in Selections, i \in Identifiers : RequestClipboard(sel, i)
  BY <1>3, RequestClipboardStep
<1>4. CASE GetReplies
  BY <1>4, GetRepliesStep
<1> QED
  BY <1>1, <1>2, <1>3, <1>4 DEF Calls

\* Nothing the queues are made of changes while the mode is set or time passes.
LEMMA OtherStep ==
    ASSUME IInv, SetMode \/ Tick \/ UNCHANGED vars
    PROVE  IInv' /\ UNCHANGED <<requests, replies, asked, answered>>
<1>1. UNCHANGED <<data, requests, systemWorking, replies, queries, asked, answered>>
  BY DEF SetMode, Tick, vars
<1>2. mode' \in AllModes
  BY ClipboardAssumption DEF IInv, TypeOK, SetMode, Tick, vars
<1>3. now' \in 0 .. MaxTime
  BY ClipboardAssumption DEF IInv, TypeOK, SetMode, Tick, vars
<1>4. sent' \in [Selections -> Seq(Reply)]
  <2>1. CASE sent' = NoReplies
    BY <2>1 DEF NoReplies
  <2>2. CASE sent' = sent
    BY <2>2 DEF IInv, TypeOK
  <2> QED
    BY <2>1, <2>2 DEF SetMode, Tick, vars
<1>5. TypeOK'
  BY <1>1, <1>2, <1>3, <1>4 DEF IInv, TypeOK
<1>6. RequestsForwarded'
  BY <1>1 DEF IInv, RequestsForwarded, NotAfter
<1> QED
  BY <1>1, <1>5, <1>6 DEF IInv

LEMMA NextIInv ==
    ASSUME IInv, [Next]_vars
    PROVE  IInv'
<1>1. CASE Calls
  BY <1>1, CallStep, Forwarded DEF IInv
<1>2. CASE SetMode \/ Tick \/ UNCHANGED vars
  BY <1>2, OtherStep
<1> QED
  BY <1>1, <1>2 DEF Next

-----------------------------------------------------------------------------
(* Theorems *)

\* The state is well typed, and a request waits only while the outer terminal has been asked
\* for it, in the order in which answers are given out.
THEOREM Invariant == Spec => [](TypeOK /\ RequestsForwarded)
<1>1. Init => IInv
  BY InitIInv
<1>2. IInv /\ [Next]_vars => IInv'
  BY NextIInv
<1> QED
  BY <1>1, <1>2, PTL DEF Spec, IInv

\* Once expire() has run, whatever call ran it, no request that waits is overdue.
THEOREM NoneWaitsTooLong == Spec => NoneOverdue
<1> DEFINE Step == Calls => /\ RequestsForwarded'
                            /\ \A sel \in Selections : \A k \in 1 .. Len(requests'[sel]) :
                                  requests'[sel][k].reception + Timeout > now
<1>1. IInv /\ [Next]_vars => Step
  <2> SUFFICES ASSUME IInv, Calls
               PROVE  /\ RequestsForwarded'
                      /\ \A sel \in Selections : \A k \in 1 .. Len(requests'[sel]) :
                            requests'[sel][k].reception + Timeout > now
    OBVIOUS
  <2>1. QueuesKept /\ now \in Nat
    BY CallStep, TypeFacts DEF IInv
  <2>2. RequestsForwarded'
    BY <2>1, Forwarded
  <2>3. ASSUME NEW sel \in Selections, NEW k \in 1 .. Len(requests'[sel])
        PROVE  requests'[sel][k].reception + Timeout > now
    <3>1. requests'[sel] \in Seq(Request) /\ ~Overdue(requests'[sel][k])
      BY <2>1 DEF QueuesKept, NoneDue
    <3>2. requests'[sel][k] \in Request
      BY <3>1
    <3>3. requests'[sel][k].reception \in Nat
      BY <3>2, RequestFacts
    <3>4. ~(requests'[sel][k].reception + Timeout <= now)
      BY <3>1 DEF Overdue
    <3> QED
      BY <2>1, <3>3, <3>4, ClipboardAssumption
  <2> QED
    BY <2>2, <2>3
<1>2. IInv /\ [Next]_vars => [Step]_vars
  BY <1>1
<1>3. Spec => []IInv
  BY Invariant DEF IInv
<1> QED
  BY <1>2, <1>3, PTL DEF Spec, NoneOverdue

\* Every reply that is made ready carries what ttx then holds for the selection, or is empty
\* where the mode forbids to read.
THEOREM CurrentReplies == Spec => RepliesCurrent
<1> DEFINE Step == Calls => \A sel \in Selections :
                               \A k \in Len(replies[sel]) + 1 .. Len(Ready(sel)) :
                                  \/ Ready(sel)[k].data = data'[sel]
                                  \/ Ready(sel)[k].data = Empty /\ ReadAction(sel, systemWorking) = "Ignore"
<1>1. IInv /\ [Next]_vars => Step
  BY CallStep DEF RepliesKept
<1>2. IInv /\ [Next]_vars => [Step]_vars
  BY <1>1
<1>3. Spec => []IInv
  BY Invariant DEF IInv
<1> QED
  BY <1>2, <1>3, PTL DEF Spec, RepliesCurrent

-----------------------------------------------------------------------------
(* ClipboardRequests is implemented *)

Owing == [sel \in Selections |-> [i \in Identifiers |-> Owed(sel, i)]]

\* What is owed is a number.
LEMMA OwedType ==
    ASSUME TypeOK
    PROVE  \A sel \in Selections, i \in Identifiers : Owed(sel, i) \in Nat
<1> SUFFICES ASSUME NEW sel \in Selections, NEW i \in Identifiers PROVE Owed(sel, i) \in Nat
  OBVIOUS
<1>1. requests[sel] \in Seq(Request) /\ replies[sel] \in Seq(Reply)
  BY TypeFacts
<1>2. Count(requests[sel], i) \in Nat /\ Count(replies[sel], i) \in Nat
  BY <1>1, CountType
<1> QED
  BY <1>2 DEF Owed

LEMMA OwedInit == Init => Requests!Init
<1> SUFFICES ASSUME Init PROVE Requests!Init
  OBVIOUS
<1>1. asked = [sel \in Selections |-> [i \in Identifiers |-> 0]] /\ answered = asked
      /\ requests = [sel \in Selections |-> <<>>] /\ replies = [sel \in Selections |-> <<>>]
  BY DEF Init, NoReplies
<1>2. \A sel \in Selections, i \in Identifiers : Owed(sel, i) = 0
  <2> SUFFICES ASSUME NEW sel \in Selections, NEW i \in Identifiers PROVE Owed(sel, i) = 0
    OBVIOUS
  <2>1. requests[sel] = <<>> /\ replies[sel] = <<>>
    BY <1>1
  <2>2. Count(<<>>, i) = 0
    BY CountNone
  <2> QED
    BY <2>1, <2>2 DEF Owed
<1>3. Owing = [sel \in Selections |-> [i \in Identifiers |-> 0]]
  BY <1>2 DEF Owing
<1> QED
  BY <1>1, <1>3 DEF Requests!Init, Owing

\* A call that keeps what is owed and given in balance gives answers.
LEMMA AnswerStep ==
    ASSUME TypeOK, TypeOK', OwedKept, UNCHANGED asked,
           \A sel \in Selections, i \in Identifiers : answered'[sel][i] >= answered[sel][i]
    PROVE  Requests!Answer
<1>1. \A sel \in Selections, i \in Identifiers : Owed(sel, i)' \in Nat
  <2>1. TypeOK => \A sel \in Selections, i \in Identifiers : Owed(sel, i) \in Nat
    BY OwedType
  <2>2. (TypeOK => \A sel \in Selections, i \in Identifiers : Owed(sel, i) \in Nat)'
    BY OwedType, PTL
  <2> QED
    BY <2>2
<1>2. Owing' = [sel \in Selections |-> [i \in Identifiers |-> Owed(sel, i)']]
  BY DEF Owing
<1>3. Owing' \in [Selections -> [Identifiers -> Nat]]
  BY <1>1, <1>2
<1>4. answered' \in [Selections -> [Identifiers -> Nat]]
  BY DEF TypeOK
<1>5. \A sel \in Selections, i \in Identifiers :
         Owing'[sel][i] + answered'[sel][i] = Owing[sel][i] + answered[sel][i]
  BY <1>2 DEF OwedKept, Owing
<1> QED
  BY <1>3, <1>4, <1>5 DEF Requests!Answer, Owing

\* A query is asked.
LEMMA AskStep ==
    ASSUME TypeOK, NEW sel \in Selections, NEW i \in Identifiers,
           OneMore(sel, i), UNCHANGED answered, asked' = [asked EXCEPT ![sel][i] = @ + 1]
    PROVE  Requests!Ask(sel, i)
<1>1. Owing' = [s \in Selections |-> [j \in Identifiers |-> Owed(s, j)']]
  BY DEF Owing
<1>2. \A s \in Selections, j \in Identifiers :
         Owed(s, j)' = IF s = sel /\ j = i THEN Owed(s, j) + 1 ELSE Owed(s, j)
  BY OwedType DEF OneMore
<1>3. Owing' = [Owing EXCEPT ![sel][i] = @ + 1]
  <2>1. [Owing EXCEPT ![sel][i] = @ + 1] =
           [s \in Selections |-> [j \in Identifiers |->
               IF s = sel /\ j = i THEN Owed(s, j) + 1 ELSE Owed(s, j)]]
    BY DEF Owing
  <2> QED
    BY <1>1, <1>2, <2>1
<1> QED
  BY <1>3 DEF Requests!Ask, Owing

\* Every step is one of the abstract clipboard or leaves it as it is.
LEMMA OwedStep ==
    ASSUME IInv, IInv', [Next]_vars
    PROVE  [Requests!Next]_Requests!vars
<1>1. ASSUME OwedKept, UNCHANGED <<asked, answered>>
      PROVE  Requests!Answer
  <2>1. TypeOK /\ TypeOK'
    BY DEF IInv
  <2>2. \A sel \in Selections, i \in Identifiers : answered'[sel][i] >= answered[sel][i]
    BY <1>1, <2>1, TypeFacts
  <2> QED
    BY <1>1, <2>1, <2>2, AnswerStep
<1>2. CASE \E sel \in Selections, d \in Data : SetClipboard(sel, d)
  <2>1. OwedKept /\ UNCHANGED asked
    BY <1>2, SetClipboardStep
  <2>2. UNCHANGED answered
    BY <1>2 DEF SetClipboard
  <2> QED
    BY <1>1, <2>1, <2>2 DEF Requests!Next
<1>3. CASE \E sel \in Selections, d \in Data : GotClipboardResponse(sel, d)
  <2>1. OwedKept /\ UNCHANGED asked
    BY <1>3, GotClipboardResponseStep
  <2>2. UNCHANGED answered
    BY <1>3 DEF GotClipboardResponse
  <2> QED
    BY <1>1, <2>1, <2>2 DEF Requests!Next
<1>4. CASE \E sel \in Selections, i \in Identifiers : RequestClipboard(sel, i)
  <2>1. PICK sel \in Selections, i \in Identifiers : RequestClipboard(sel, i)
    BY <1>4
  <2>2. OneMore(sel, i) /\ UNCHANGED answered /\ asked' = [asked EXCEPT ![sel][i] = @ + 1]
    BY <2>1, RequestClipboardStep
  <2>3. Requests!Ask(sel, i)
    BY <2>2, AskStep DEF IInv
  <2> QED
    BY <2>3 DEF Requests!Next
<1>5. CASE GetReplies
  <2>1. OwedKept /\ UNCHANGED asked
        /\ \A sel \in Selections, i \in Identifiers : answered'[sel][i] >= answered[sel][i]
    BY <1>5, GetRepliesStep
  <2> QED
    BY <2>1, AnswerStep DEF IInv, Requests!Next
<1>6. CASE SetMode \/ Tick \/ UNCHANGED vars
  <2>1. UNCHANGED <<requests, replies, asked, answered>>
    BY <1>6, OtherStep
  <2>2. Owing' = Owing
    BY <2>1 DEF Owing, Owed, Count
  <2> QED
    BY <2>1, <2>2 DEF Requests!vars, Owing
<1> QED
  BY <1>2, <1>3, <1>4, <1>5, <1>6 DEF Next, Calls

\* No query is forgotten or answered twice: the clipboard implements ClipboardRequests.
THEOREM AnsweredExactlyOnce == Spec => AnsweredOnce
<1>1. Spec => []IInv
  BY Invariant DEF IInv
<1>2. IInv /\ IInv' /\ [Next]_vars => [Requests!Next]_Requests!vars
  BY OwedStep
<1> QED
  BY OwedInit, <1>1, <1>2, PTL DEF Spec, AnsweredOnce, Requests!Spec
=============================================================================
