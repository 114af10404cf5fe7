------------------------- MODULE SaveLayoutProofs -------------------------
(***************************************************************************)
(* Theorems about saving layouts (SaveLayout), for any configurations,     *)
(* names, directories and earlier layouts, and any number of changes and   *)
(* starts.                                                                 *)
(*                                                                         *)
(* Every layout is well formed (Sound), and so is the one in each file,    *)
(* whatever was changed, quit, killed or torn in between.  Two theorems    *)
(* rest on that: what a start makes of a file is what was saved            *)
(* (Restored), and the save thread misses no change (Saved).               *)
(***************************************************************************)
EXTENDS SaveLayout, FiniteSetTheorems, SequenceTheorems, WellFoundedInduction, TLAPS

-----------------------------------------------------------------------------
(* Sequences of sessions, tabs and panes: items with ids, all different *)

Keyed(seq, S) == seq \in Seq(S) /\ IsInjective(Ids(seq))

IdsOf(seq) == {item.id : item \in Range(seq)}

\* The items of a sequence and their ids, by position.
LEMMA Items ==
    ASSUME NEW S, NEW seq \in Seq(S)
    PROVE  /\ DOMAIN seq = 1 .. Len(seq) /\ DOMAIN Ids(seq) = 1 .. Len(seq)
           /\ Ids(seq) = [i \in 1 .. Len(seq) |-> seq[i].id]
           /\ Range(seq) \subseteq S
           /\ Range(Ids(seq)) = IdsOf(seq)
           /\ IsInjective(Ids(seq)) <=>
                  \A i, j \in 1 .. Len(seq) : seq[i].id = seq[j].id => i = j
<1>1. DOMAIN seq = 1 .. Len(seq) /\ \A i \in 1 .. Len(seq) : seq[i] \in S
  OBVIOUS
<1>2. Ids(seq) = [i \in 1 .. Len(seq) |-> seq[i].id]
  BY <1>1 DEF Ids
<1>3. Range(seq) \subseteq S
  BY <1>1 DEF Range
<1>4. Range(Ids(seq)) = IdsOf(seq)
  BY <1>1, <1>2 DEF Range, IdsOf
<1>5. IsInjective(Ids(seq)) <=> \A i, j \in 1 .. Len(seq) : seq[i].id = seq[j].id => i = j
  BY <1>2 DEF IsInjective
<1>6. QED
  BY <1>1, <1>2, <1>3, <1>4, <1>5

\* Ids are those of the items: two items with one id are the same.
LEMMA SameItem ==
    ASSUME NEW S, NEW seq, Keyed(seq, S), NEW x \in Range(seq), NEW y \in Range(seq), x.id = y.id
    PROVE  x = y
<1>1. PICK i \in DOMAIN seq, j \in DOMAIN seq : x = seq[i] /\ y = seq[j]
  BY DEF Range
<1>2. DOMAIN seq = 1 .. Len(seq)
  BY Items DEF Keyed
<1>3. i = j
  BY <1>1, <1>2, Items DEF Keyed
<1>4. QED
  BY <1>1, <1>3

\* Finding an item by its id (find_if over the vector).
LEMMA FindLemma ==
    ASSUME NEW S, NEW seq, Keyed(seq, S), NEW id \in IdsOf(seq)
    PROVE  /\ Position(seq, id) \in 1 .. Len(seq) /\ seq[Position(seq, id)] = Find(seq, id)
           /\ Find(seq, id) \in Range(seq) /\ Find(seq, id).id = id
<1>1. DOMAIN seq = 1 .. Len(seq)
  BY Items DEF Keyed
<1>2. \E i \in DOMAIN seq : seq[i].id = id
  BY DEF IdsOf, Range
<1>3. Position(seq, id) \in DOMAIN seq /\ seq[Position(seq, id)].id = id
  BY <1>2 DEF Position
<1>4. QED
  BY <1>1, <1>3 DEF Find, Range

\* Writing to an item replaces it, and no other.
LEMMA PutLemma ==
    ASSUME NEW S, NEW seq, Keyed(seq, S), NEW item \in S, item.id \in IdsOf(seq)
    PROVE  /\ Keyed(Put(seq, item), S)
           /\ Len(Put(seq, item)) = Len(seq)
           /\ \A i \in 1 .. Len(seq) :
                  Put(seq, item)[i] = IF seq[i].id = item.id THEN item ELSE seq[i]
           /\ Range(Put(seq, item)) = {x \in Range(seq) : x.id # item.id} \cup {item}
           /\ IdsOf(Put(seq, item)) = IdsOf(seq)
<1> DEFINE r == Put(seq, item)
<1>1. /\ DOMAIN seq = 1 .. Len(seq) /\ seq \in Seq(S) /\ Len(seq) \in Nat
      /\ \A i \in 1 .. Len(seq) : seq[i] \in S
  BY Items DEF Keyed
<1>2. r = [i \in 1 .. Len(seq) |-> IF seq[i].id = item.id THEN item ELSE seq[i]]
  BY <1>1 DEF Put
<1>3. r \in Seq(S) /\ Len(r) = Len(seq) /\ DOMAIN r = 1 .. Len(seq)
  BY <1>1, <1>2
<1>4. \A i \in 1 .. Len(seq) : r[i] = IF seq[i].id = item.id THEN item ELSE seq[i]
  BY <1>2
<1> HIDE DEF r
<1>5. \A i \in 1 .. Len(seq) : r[i].id = seq[i].id
  BY <1>4
<1>6. IsInjective(Ids(r))
  BY <1>1, <1>3, <1>5, Items DEF Keyed
<1>7. \E i \in 1 .. Len(seq) : seq[i].id = item.id
  BY <1>1 DEF IdsOf, Range
<1>8. Range(r) = {x \in Range(seq) : x.id # item.id} \cup {item}
  <2>1. Range(r) = {r[i] : i \in 1 .. Len(seq)} /\ Range(seq) = {seq[i] : i \in 1 .. Len(seq)}
    BY <1>1, <1>3 DEF Range
  <2>2. QED
    BY <1>4, <1>7, <2>1
<1>9. IdsOf(r) = IdsOf(seq)
  <2>1. IdsOf(r) = {r[i].id : i \in 1 .. Len(seq)} /\ IdsOf(seq) = {seq[i].id : i \in 1 .. Len(seq)}
    BY <1>1, <1>3 DEF Range, IdsOf
  <2>2. QED
    BY <1>5, <2>1
<1>10. QED
  BY <1>3, <1>4, <1>6, <1>8, <1>9 DEF Keyed, r

\* An item with a new id at the end.
LEMMA AppendLemma ==
    ASSUME NEW S, NEW seq, Keyed(seq, S), NEW item \in S, item.id \notin IdsOf(seq)
    PROVE  /\ Keyed(Append(seq, item), S)
           /\ Range(Append(seq, item)) = Range(seq) \cup {item}
           /\ IdsOf(Append(seq, item)) = IdsOf(seq) \cup {item.id}
<1> DEFINE r == Append(seq, item)
<1>1. /\ DOMAIN seq = 1 .. Len(seq) /\ seq \in Seq(S) /\ Len(seq) \in Nat
      /\ \A i \in 1 .. Len(seq) : seq[i] \in S
  BY Items DEF Keyed
<1>2. /\ r \in Seq(S) /\ Len(r) = Len(seq) + 1 /\ DOMAIN r = 1 .. Len(seq) + 1
      /\ \A i \in 1 .. Len(seq) : r[i] = seq[i]
      /\ r[Len(seq) + 1] = item
  BY <1>1
<1> HIDE DEF r
<1>3. Range(r) = Range(seq) \cup {item}
  <2>1. Range(r) = {r[i] : i \in 1 .. Len(seq) + 1} /\ Range(seq) = {seq[i] : i \in 1 .. Len(seq)}
    BY <1>1, <1>2 DEF Range
  <2>2. QED
    BY <1>1, <1>2, <2>1
<1>4. IdsOf(r) = IdsOf(seq) \cup {item.id}
  BY <1>3 DEF IdsOf
<1>5. \A i \in 1 .. Len(seq) : seq[i].id # item.id
  BY <1>1 DEF IdsOf, Range
<1>6. \A i, j \in 1 .. Len(seq) : seq[i].id = seq[j].id => i = j
  BY <1>1, Items DEF Keyed
<1>7. \A i, j \in 1 .. Len(r) : r[i].id = r[j].id => i = j
  BY <1>1, <1>2, <1>5, <1>6
<1>8. IsInjective(Ids(r))
  BY <1>2, <1>7, Items
<1>9. QED
  BY <1>2, <1>3, <1>4, <1>8 DEF Keyed, r

\* The end of a sequence, by position.
LEMMA TailLemma ==
    ASSUME NEW S, NEW seq \in Seq(S), NEW i \in 1 .. Len(seq)
    PROVE  /\ SubSeq(seq, i + 1, Len(seq)) \in Seq(S)
           /\ Len(SubSeq(seq, i + 1, Len(seq))) = Len(seq) - i
           /\ \A k \in 1 .. Len(seq) - i : SubSeq(seq, i + 1, Len(seq))[k] = seq[i + k]
<1> DEFINE n == Len(seq)
           tail == SubSeq(seq, i + 1, n)
<1>1. n \in Nat /\ i + 1 \in 1 .. n + 1
  OBVIOUS
<1>2. /\ tail \in Seq(S) /\ Len(tail) = IF i + 1 <= n THEN n - (i + 1) + 1 ELSE 0
      /\ \A k \in 1 .. n - (i + 1) + 1 : tail[k] = seq[(i + 1) + k - 1]
  BY <1>1, SubSeqProperties
<1>3. n - (i + 1) + 1 = n - i
  BY <1>1
<1> HIDE DEF tail
<1>4. Len(tail) = n - i
  BY <1>1, <1>2
<1>5. ASSUME NEW k \in 1 .. n - i PROVE tail[k] = seq[i + k]
  <2>1. (i + 1) + k - 1 = i + k
    BY <1>1
  <2>2. QED
    BY <1>2, <1>3, <2>1
<1>6. QED
  BY <1>2, <1>4, <1>5 DEF tail

\* An item with a new id after the one at i (the panes of the tree, in its order).
LEMMA InsertLemma ==
    ASSUME NEW S, NEW seq, Keyed(seq, S), NEW item \in S, item.id \notin IdsOf(seq),
           NEW i \in 1 .. Len(seq)
    PROVE  /\ Keyed(InsertAt(seq, i + 1, item), S)
           /\ Range(InsertAt(seq, i + 1, item)) = Range(seq) \cup {item}
           /\ IdsOf(InsertAt(seq, i + 1, item)) = IdsOf(seq) \cup {item.id}
<1> DEFINE r == InsertAt(seq, i + 1, item)
           n == Len(seq)
<1>1. /\ DOMAIN seq = 1 .. n /\ seq \in Seq(S) /\ n \in Nat
      /\ \A k \in 1 .. n : seq[k] \in S
  BY Items DEF Keyed
<1>2. r = (SubSeq(seq, 1, i) \o <<item>>) \o SubSeq(seq, i + 1, n)
  <2>1. (i + 1) - 1 = i
    BY <1>1
  <2>2. r = (SubSeq(seq, 1, (i + 1) - 1) \o <<item>>) \o SubSeq(seq, i + 1, n)
    BY DEF InsertAt
  <2>3. QED
    BY <2>1, <2>2
<1>3. /\ SubSeq(seq, 1, i) \in Seq(S) /\ Len(SubSeq(seq, 1, i)) = i
      /\ \A k \in 1 .. i : SubSeq(seq, 1, i)[k] = seq[k]
  BY <1>1
<1>4. /\ SubSeq(seq, i + 1, n) \in Seq(S) /\ Len(SubSeq(seq, i + 1, n)) = n - i
      /\ \A k \in 1 .. n - i : SubSeq(seq, i + 1, n)[k] = seq[i + k]
  BY <1>1, TailLemma
<1> DEFINE head == SubSeq(seq, 1, i)
           tail == SubSeq(seq, i + 1, n)
           front == head \o <<item>>
<1>5. /\ front \in Seq(S) /\ Len(front) = i + 1
      /\ \A k \in 1 .. i : front[k] = seq[k]
      /\ front[i + 1] = item
  BY <1>1, <1>3
<1>6. r = front \o tail
  BY <1>2
<1> HIDE DEF r, head, tail, front
<1>7. /\ r \in Seq(S) /\ Len(r) = n + 1 /\ DOMAIN r = 1 .. n + 1
      /\ \A k \in 1 .. n + 1 :
             /\ k <= i => r[k] = seq[k]
             /\ k = i + 1 => r[k] = item
             /\ k > i + 1 => r[k] = seq[k - 1]
  <2>0. tail \in Seq(S) /\ Len(tail) = n - i
    BY <1>4 DEF tail
  <2>1. /\ r \in Seq(S) /\ Len(r) = (i + 1) + (n - i)
        /\ \A k \in 1 .. (i + 1) + (n - i) :
               r[k] = IF k <= i + 1 THEN front[k] ELSE tail[k - (i + 1)]
    <3>1. /\ front \o tail \in Seq(S)
          /\ Len(front \o tail) = Len(front) + Len(tail)
          /\ \A k \in 1 .. Len(front) + Len(tail) :
                 (front \o tail)[k] = IF k <= Len(front) THEN front[k] ELSE tail[k - Len(front)]
      BY <1>5, <2>0, ConcatProperties
    <3>2. QED
      BY <1>5, <1>6, <2>0, <3>1, Zenon
  <2>2. (i + 1) + (n - i) = n + 1
    BY <1>1
  <2>3. ASSUME NEW k \in 1 .. n + 1, k > i + 1
        PROVE  r[k] = seq[k - 1]
    <3>1. r[k] = tail[k - (i + 1)]
      BY <1>1, <2>1, <2>2, <2>3
    <3>2. k - (i + 1) \in 1 .. n - i /\ i + (k - (i + 1)) = k - 1
      BY <1>1, <2>3
    <3>3. QED
      BY <1>4, <3>1, <3>2 DEF tail
  <2>4. QED
    BY <1>1, <1>5, <2>1, <2>2, <2>3
<1>8. Range(r) = Range(seq) \cup {item}
  <2>1. Range(r) = {r[k] : k \in 1 .. n + 1} /\ Range(seq) = {seq[k] : k \in 1 .. n}
    BY <1>1, <1>7 DEF Range
  <2>2. ASSUME NEW x \in Range(r) PROVE x \in Range(seq) \cup {item}
    <3>1. PICK k \in 1 .. n + 1 : x = r[k]
      BY <2>1
    <3>2. CASE k <= i
      BY <1>1, <1>7, <2>1, <3>1, <3>2
    <3>3. CASE k = i + 1
      BY <1>7, <3>1, <3>3
    <3>4. CASE k > i + 1
      <4>1. k - 1 \in 1 .. n
        BY <1>1, <3>4
      <4>2. QED
        BY <1>7, <2>1, <3>1, <3>4, <4>1
    <3>5. QED
      BY <1>1, <3>2, <3>3, <3>4
  <2>3. ASSUME NEW x \in Range(seq) PROVE x \in Range(r)
    <3>1. PICK k \in 1 .. n : x = seq[k]
      BY <2>1
    <3>2. CASE k <= i
      <4>1. k \in 1 .. n + 1 /\ r[k] = x
        BY <1>1, <1>7, <3>1, <3>2
      <4>2. QED
        BY <2>1, <4>1
    <3>3. CASE k > i
      <4>1. k + 1 \in 1 .. n + 1 /\ k + 1 > i + 1 /\ (k + 1) - 1 = k
        BY <1>1, <3>3
      <4>2. r[k + 1] = x
        BY <1>7, <3>1, <4>1
      <4>3. QED
        BY <2>1, <4>1, <4>2
    <3>4. QED
      BY <1>1, <3>2, <3>3
  <2>4. item \in Range(r)
    <3>1. i + 1 \in 1 .. n + 1 /\ r[i + 1] = item
      BY <1>1, <1>7
    <3>2. QED
      BY <2>1, <3>1
  <2>5. QED
    BY <2>2, <2>3, <2>4
<1>9. IdsOf(r) = IdsOf(seq) \cup {item.id}
  BY <1>8 DEF IdsOf
<1>10. \A k \in 1 .. n : seq[k].id # item.id
  BY <1>1 DEF IdsOf, Range
<1>11. \A k, l \in 1 .. n : seq[k].id = seq[l].id => k = l
  BY <1>1, Items DEF Keyed
<1>12. ASSUME NEW k \in 1 .. n + 1
       PROVE  \/ k = i + 1 /\ r[k] = item
              \/ k <= i /\ k \in 1 .. n /\ r[k] = seq[k]
              \/ k > i + 1 /\ k - 1 \in 1 .. n /\ r[k] = seq[k - 1]
  BY <1>1, <1>7
<1>13. ASSUME NEW k \in 1 .. n + 1, NEW l \in 1 .. n + 1, r[k].id = r[l].id
       PROVE  k = l
  <2>1. CASE k = i + 1 /\ l # i + 1
    <3>1. PICK m \in 1 .. n : r[l] = seq[m]
      BY <1>12, <2>1
    <3>2. r[k].id = item.id
      BY <1>7, <2>1
    <3>3. QED
      BY <1>10, <1>13, <3>1, <3>2
  <2>2. CASE l = i + 1 /\ k # i + 1
    <3>1. PICK m \in 1 .. n : r[k] = seq[m]
      BY <1>12, <2>2
    <3>2. r[l].id = item.id
      BY <1>7, <2>2
    <3>3. QED
      BY <1>10, <1>13, <3>1, <3>2
  <2>3. CASE k # i + 1 /\ l # i + 1
    BY <1>1, <1>11, <1>12, <1>13, <2>3
  <2>4. QED
    BY <2>1, <2>2, <2>3
<1>14. IsInjective(Ids(r))
  BY <1>7, <1>13, Items
<1>15. QED
  BY <1>7, <1>8, <1>9, <1>14 DEF Keyed, r

\* Removing what is at i closes the gap.
LEMMA RemoveAtLemma ==
    ASSUME NEW S, NEW seq \in Seq(S), NEW i \in 1 .. Len(seq)
    PROVE  /\ RemoveAt(seq, i) \in Seq(S) /\ Len(RemoveAt(seq, i)) = Len(seq) - 1
           /\ DOMAIN RemoveAt(seq, i) = 1 .. Len(seq) - 1
           /\ \A k \in 1 .. Len(seq) - 1 : \E l \in 1 .. Len(seq) :
                  RemoveAt(seq, i)[k] = seq[l] /\ l = IF k < i THEN k ELSE k + 1
           /\ \A k \in 1 .. Len(seq) : k # i =>
                  \E l \in 1 .. Len(seq) - 1 : RemoveAt(seq, i)[l] = seq[k]
<1> DEFINE n == Len(seq)
           r == RemoveAt(seq, i)
<1>1. r = SubSeq(seq, 1, i - 1) \o SubSeq(seq, i + 1, n)
  BY DEF RemoveAt
<1>2. /\ SubSeq(seq, 1, i - 1) \in Seq(S) /\ Len(SubSeq(seq, 1, i - 1)) = i - 1
      /\ \A k \in 1 .. i - 1 : SubSeq(seq, 1, i - 1)[k] = seq[k]
  OBVIOUS
<1>3. /\ SubSeq(seq, i + 1, n) \in Seq(S) /\ Len(SubSeq(seq, i + 1, n)) = n - i
      /\ \A k \in 1 .. n - i : SubSeq(seq, i + 1, n)[k] = seq[i + k]
  BY TailLemma
<1> DEFINE head == SubSeq(seq, 1, i - 1)
           tail == SubSeq(seq, i + 1, n)
<1>4. r = head \o tail
  BY <1>1
<1> HIDE DEF r, head, tail
<1>5. /\ r \in Seq(S) /\ Len(r) = (i - 1) + (n - i)
      /\ \A k \in 1 .. (i - 1) + (n - i) :
             r[k] = IF k <= i - 1 THEN head[k] ELSE tail[k - (i - 1)]
  <2>1. head \in Seq(S) /\ Len(head) = i - 1
    BY <1>2 DEF head
  <2>2. tail \in Seq(S) /\ Len(tail) = n - i
    BY <1>3 DEF tail
  <2>3. /\ head \o tail \in Seq(S)
        /\ Len(head \o tail) = Len(head) + Len(tail)
        /\ \A k \in 1 .. Len(head) + Len(tail) :
               (head \o tail)[k] = IF k <= Len(head) THEN head[k] ELSE tail[k - Len(head)]
    BY <2>1, <2>2, ConcatProperties
  <2>4. QED
    BY <1>4, <2>1, <2>2, <2>3, Zenon
<1>6. /\ r \in Seq(S) /\ Len(r) = n - 1 /\ DOMAIN r = 1 .. n - 1
      /\ \A k \in 1 .. n - 1 :
             /\ k < i => r[k] = seq[k]
             /\ k >= i => r[k] = seq[k + 1]
  <2>1. n \in Nat /\ (i - 1) + (n - i) = n - 1
    OBVIOUS
  <2>2. ASSUME NEW k \in 1 .. n - 1, k < i PROVE r[k] = seq[k]
    <3>1. k <= i - 1 /\ k \in 1 .. i - 1
      BY <2>2
    <3>2. QED
      BY <1>2, <1>5, <2>1, <3>1 DEF head
  <2>3. ASSUME NEW k \in 1 .. n - 1, k >= i PROVE r[k] = seq[k + 1]
    <3>1. ~(k <= i - 1) /\ k - (i - 1) \in 1 .. n - i /\ i + (k - (i - 1)) = k + 1
      BY <2>1, <2>3
    <3>2. r[k] = tail[k - (i - 1)]
      BY <1>5, <2>1, <3>1
    <3>3. QED
      BY <1>3, <3>1, <3>2 DEF tail
  <2>4. Len(r) = n - 1 /\ DOMAIN r = 1 .. n - 1
    BY <1>5, <2>1
  <2>5. QED
    BY <1>5, <2>2, <2>3, <2>4
<1>7. ASSUME NEW k \in 1 .. n, k # i
      PROVE  \E l \in 1 .. n - 1 : r[l] = seq[k]
  <2>1. CASE k < i
    BY <1>6, <1>7, <2>1
  <2>2. CASE k > i
    <3>1. k - 1 \in 1 .. n - 1 /\ k - 1 >= i /\ (k - 1) + 1 = k
      BY <2>2
    <3>2. QED
      BY <1>6, <3>1
  <2>3. QED
    BY <1>7, <2>1, <2>2
<1>8. ASSUME NEW k \in 1 .. n - 1
      PROVE  \E l \in 1 .. n : r[k] = seq[l] /\ l = IF k < i THEN k ELSE k + 1
  BY <1>6
<1>9. QED
  BY <1>6, <1>7, <1>8 DEF r

\* Removing the item with an id leaves the others.
LEMMA DropLemma ==
    ASSUME NEW S, NEW seq, Keyed(seq, S), NEW id \in IdsOf(seq)
    PROVE  /\ Keyed(Drop(seq, id), S)
           /\ Range(Drop(seq, id)) = {x \in Range(seq) : x.id # id}
           /\ IdsOf(Drop(seq, id)) = IdsOf(seq) \ {id}
           /\ Len(Drop(seq, id)) = Len(seq) - 1
<1> DEFINE i == Position(seq, id)
           r == Drop(seq, id)
           n == Len(seq)
<1>1. /\ DOMAIN seq = 1 .. n /\ seq \in Seq(S) /\ n \in Nat
      /\ \A k \in 1 .. n : seq[k] \in S
  BY Items DEF Keyed
<1>2. i \in 1 .. n /\ seq[i].id = id
  BY FindLemma
<1>3. r = RemoveAt(seq, i)
  BY DEF Drop
<1> HIDE DEF i, r
<1>4. /\ r \in Seq(S) /\ Len(r) = n - 1 /\ DOMAIN r = 1 .. n - 1
      /\ \A k \in 1 .. n - 1 :
             \E l \in 1 .. n : r[k] = seq[l] /\ l = IF k < i THEN k ELSE k + 1
      /\ \A k \in 1 .. n : k # i => \E l \in 1 .. n - 1 : r[l] = seq[k]
  BY <1>1, <1>2, <1>3, RemoveAtLemma
<1>5. \A k, l \in 1 .. n : seq[k].id = seq[l].id => k = l
  BY <1>1, Items DEF Keyed
<1>6. ASSUME NEW k \in 1 .. n - 1
      PROVE  r[k] \in Range(seq) /\ r[k].id # id
  <2>1. PICK l \in 1 .. n : r[k] = seq[l] /\ l = IF k < i THEN k ELSE k + 1
    BY <1>4
  <2>2. l # i
    BY <1>1, <1>2, <2>1
  <2>3. QED
    BY <1>1, <1>2, <1>5, <2>1, <2>2 DEF Range
<1>7. Range(r) = {x \in Range(seq) : x.id # id}
  <2>1. Range(r) = {r[k] : k \in 1 .. n - 1} /\ Range(seq) = {seq[k] : k \in 1 .. n}
    BY <1>1, <1>4 DEF Range
  <2>2. QED
    BY <1>2, <1>4, <1>6, <2>1
<1>8. IdsOf(r) = IdsOf(seq) \ {id}
  BY <1>7 DEF IdsOf
<1>9. ASSUME NEW k \in 1 .. n - 1, NEW l \in 1 .. n - 1, r[k].id = r[l].id
      PROVE  k = l
  <2>1. PICK k2 \in 1 .. n : r[k] = seq[k2] /\ k2 = IF k < i THEN k ELSE k + 1
    BY <1>4
  <2>2. PICK l2 \in 1 .. n : r[l] = seq[l2] /\ l2 = IF l < i THEN l ELSE l + 1
    BY <1>4
  <2>3. k2 = l2
    BY <1>5, <1>9, <2>1, <2>2
  <2>4. QED
    BY <1>1, <1>2, <2>1, <2>2, <2>3
<1>10. IsInjective(Ids(r))
  BY <1>4, <1>9, Items
<1>11. QED
  BY <1>4, <1>7, <1>8, <1>10 DEF Keyed, r

\* The recency without a pane.
LEMMA EraseLemma ==
    ASSUME NEW ids \in Seq(Nat), IsInjective(ids), NEW id \in Nat
    PROVE  /\ Erase(ids, id) \in Seq(Nat) /\ IsInjective(Erase(ids, id))
           /\ Range(Erase(ids, id)) = Range(ids) \ {id}
<1> DEFINE i == CHOOSE k \in DOMAIN ids : ids[k] = id
           r == Erase(ids, id)
           n == Len(ids)
<1>1. DOMAIN ids = 1 .. n /\ n \in Nat /\ Range(ids) = {ids[k] : k \in 1 .. n}
  BY DEF Range
<1>2. CASE id \notin Range(ids)
  BY <1>2 DEF Erase
<1>3. CASE id \in Range(ids)
  <2>1. i \in 1 .. n /\ ids[i] = id
    BY <1>1, <1>3
  <2>2. r = RemoveAt(ids, i)
    BY <1>3 DEF Erase
  <2> HIDE DEF i, r
  <2>3. /\ r \in Seq(Nat) /\ Len(r) = n - 1 /\ DOMAIN r = 1 .. n - 1
        /\ \A k \in 1 .. n - 1 :
               \E l \in 1 .. n : r[k] = ids[l] /\ l = IF k < i THEN k ELSE k + 1
        /\ \A k \in 1 .. n : k # i => \E l \in 1 .. n - 1 : r[l] = ids[k]
    BY <2>1, <2>2, RemoveAtLemma
  <2>4. \A k, l \in 1 .. n : ids[k] = ids[l] => k = l
    BY <1>1 DEF IsInjective
  <2>5. ASSUME NEW k \in 1 .. n - 1
        PROVE  r[k] \in Range(ids) /\ r[k] # id
    <3>1. PICK l \in 1 .. n : r[k] = ids[l] /\ l = IF k < i THEN k ELSE k + 1
      BY <2>3
    <3>2. l # i
      BY <1>1, <2>1, <3>1
    <3>3. QED
      BY <1>1, <2>1, <2>4, <3>1, <3>2
  <2>6. Range(r) = Range(ids) \ {id}
    <3>1. Range(r) = {r[k] : k \in 1 .. n - 1}
      BY <2>3 DEF Range
    <3>2. QED
      BY <1>1, <2>1, <2>3, <2>5, <3>1
  <2>7. ASSUME NEW k \in 1 .. n - 1, NEW l \in 1 .. n - 1, r[k] = r[l]
        PROVE  k = l
    <3>1. PICK k2 \in 1 .. n : r[k] = ids[k2] /\ k2 = IF k < i THEN k ELSE k + 1
      BY <2>3
    <3>2. PICK l2 \in 1 .. n : r[l] = ids[l2] /\ l2 = IF l < i THEN l ELSE l + 1
      BY <2>3
    <3>3. k2 = l2
      BY <2>4, <2>7, <3>1, <3>2
    <3>4. QED
      BY <1>1, <2>1, <3>1, <3>2, <3>3
  <2>8. IsInjective(r)
    BY <2>3, <2>7 DEF IsInjective
  <2>9. QED
    BY <2>3, <2>6, <2>8 DEF r
<1>4. QED
  BY <1>2, <1>3

\* A pane that becomes the active one is the first of the recency.
LEMMA ConsLemma ==
    ASSUME NEW ids \in Seq(Nat), IsInjective(ids), NEW id \in Nat
    PROVE  /\ <<id>> \o Erase(ids, id) \in Seq(Nat) /\ IsInjective(<<id>> \o Erase(ids, id))
           /\ Range(<<id>> \o Erase(ids, id)) = Range(ids) \cup {id}
<1> DEFINE e == Erase(ids, id)
           r == <<id>> \o e
           n == Len(e)
<1>1. e \in Seq(Nat) /\ IsInjective(e) /\ Range(e) = Range(ids) \ {id}
  BY EraseLemma
<1> HIDE DEF e
<1>2. /\ r \in Seq(Nat) /\ Len(r) = n + 1 /\ DOMAIN r = 1 .. n + 1 /\ n \in Nat
      /\ r[1] = id
      /\ \A k \in 1 .. n + 1 : k > 1 => r[k] = e[k - 1]
  BY <1>1
<1> HIDE DEF r
<1>3. /\ DOMAIN e = 1 .. n /\ Range(e) = {e[k] : k \in 1 .. n}
      /\ \A k, l \in 1 .. n : e[k] = e[l] => k = l
  BY <1>1 DEF Range, IsInjective
<1>4. Range(r) = Range(e) \cup {id}
  <2>1. Range(r) = {r[k] : k \in 1 .. n + 1}
    BY <1>2 DEF Range
  <2>2. ASSUME NEW x \in Range(e) PROVE x \in Range(r)
    <3>1. PICK k \in 1 .. n : x = e[k]
      BY <1>3
    <3>2. k + 1 \in 1 .. n + 1 /\ k + 1 > 1 /\ (k + 1) - 1 = k
      BY <1>2
    <3>3. QED
      BY <1>2, <2>1, <3>1, <3>2
  <2>3. ASSUME NEW k \in 1 .. n + 1 PROVE r[k] \in Range(e) \cup {id}
    <3>1. CASE k = 1
      BY <1>2, <3>1
    <3>2. CASE k > 1
      <4>1. k - 1 \in 1 .. n
        BY <1>2, <3>2
      <4>2. r[k] = e[k - 1]
        BY <1>2, <3>2
      <4>3. e[k - 1] \in Range(e)
        BY <1>3, <4>1
      <4>4. QED
        BY <4>2, <4>3
    <3>3. QED
      BY <3>1, <3>2
  <2>4. id \in Range(r)
    <3>1. 1 \in 1 .. n + 1
      BY <1>2
    <3>2. QED
      BY <1>2, <2>1, <3>1
  <2>5. QED
    BY <2>1, <2>2, <2>3, <2>4
<1>5. \A k, l \in 1 .. n + 1 : r[k] = r[l] => k = l
  <2>1. \A k \in 1 .. n : e[k] # id
    BY <1>1, <1>3
  <2>2. TAKE k, l \in 1 .. n + 1
  <2>3. k > 1 => k - 1 \in 1 .. n /\ r[k] = e[k - 1]
    BY <1>2
  <2>4. l > 1 => l - 1 \in 1 .. n /\ r[l] = e[l - 1]
    BY <1>2
  <2>5. HAVE r[k] = r[l]
  <2>6. CASE k = 1 /\ l = 1
    BY <2>6
  <2>7. CASE k > 1 /\ l = 1
    BY <1>2, <2>1, <2>3, <2>5, <2>7
  <2>8. CASE k = 1 /\ l > 1
    BY <1>2, <2>1, <2>4, <2>5, <2>8
  <2>9. CASE k > 1 /\ l > 1
    <3>1. k - 1 = l - 1
      BY <1>3, <2>3, <2>4, <2>5, <2>9
    <3>2. QED
      BY <3>1
  <2>10. QED
    BY <2>6, <2>7, <2>8, <2>9
<1>6. IsInjective(r)
  BY <1>2, <1>5 DEF IsInjective
<1>7. QED
  BY <1>1, <1>2, <1>4, <1>6 DEF r, e

-----------------------------------------------------------------------------
(* Tabs *)

\* What is known of the panes of a tab.
LEMMA TabFacts ==
    ASSUME NEW tab \in Tab
    PROVE  /\ tab.id \in Nat /\ tab.panes \in Seq(Pane) /\ tab.recency \in Seq(Nat)
           /\ tab.active \in Nat /\ tab.full \in Nat
           /\ PaneIds(tab) = IdsOf(tab.panes) /\ PaneIds(tab) \subseteq Nat
           /\ IsInjective(Ids(tab.panes)) <=> Keyed(tab.panes, Pane)
<1>1. /\ tab.id \in Nat /\ tab.panes \in Seq(Pane) /\ tab.recency \in Seq(Nat)
      /\ tab.active \in Nat /\ tab.full \in Nat
  BY DEF Tab
<1>2. PaneIds(tab) = IdsOf(tab.panes) /\ Range(tab.panes) \subseteq Pane
  BY <1>1, Items DEF PaneIds
<1>3. PaneIds(tab) \subseteq Nat
  BY <1>2 DEF IdsOf, Pane
<1>4. QED
  BY <1>1, <1>2, <1>3 DEF Keyed

\* A sequence of one item, in the form the proofs use.
LEMMA One ==
    ASSUME NEW S, NEW item \in S
    PROVE  Keyed(<<item>>, S) /\ Range(<<item>>) = {item} /\ IdsOf(<<item>>) = {item.id}
<1> DEFINE r == <<item>>
<1>1. r \in Seq(S) /\ Len(r) = 1 /\ r[1] = item /\ DOMAIN r = {1}
  OBVIOUS
<1> HIDE DEF r
<1>2. Range(r) = {item}
  BY <1>1 DEF Range
<1>3. IdsOf(r) = {item.id}
  BY <1>2 DEF IdsOf
<1>4. \A i, j \in 1 .. Len(r) : r[i].id = r[j].id => i = j
  BY <1>1
<1>5. IsInjective(Ids(r))
  BY <1>1, <1>4, Items
<1>6. QED
  BY <1>1, <1>2, <1>3, <1>5 DEF Keyed, r

\* A new tab has one pane.
LEMMA NewTabLemma ==
    ASSUME NEW id \in Nat, NEW pane \in Nat, NEW cwd \in Directories
    PROVE  /\ SoundTab(NewTab(id, pane, cwd))
           /\ NewTab(id, pane, cwd).id = id
           /\ PaneIds(NewTab(id, pane, cwd)) = {pane}
<1> DEFINE item == [id |-> pane, cwd |-> cwd]
           tab == NewTab(id, pane, cwd)
<1>1. item \in Pane /\ item.id = pane
  BY DEF Pane
<1> HIDE DEF item
<1>2. tab = [id |-> id, panes |-> <<item>>, recency |-> <<pane>>, active |-> pane, full |-> 0]
  BY DEF NewTab, item
<1>3. Keyed(<<item>>, Pane) /\ IdsOf(<<item>>) = {pane}
  BY <1>1, One
<1>4. <<pane>> \in Seq(Nat) /\ IsInjective(<<pane>>) /\ Range(<<pane>>) = {pane}
  BY DEF IsInjective, Range
<1>5. tab \in Tab
  BY <1>2, <1>3, <1>4 DEF Tab, Keyed
<1>6. PaneIds(tab) = {pane}
  BY <1>2, <1>3, <1>5, TabFacts
<1>7. QED
  BY <1>2, <1>3, <1>4, <1>5, <1>6 DEF SoundTab, Keyed

\* Tab::set_active makes the recency whole again when only the pane that becomes active is
\* missing in it.
LEMMA SetActiveLemma ==
    ASSUME NEW tab \in Tab, IsInjective(Ids(tab.panes)), IsInjective(tab.recency),
           NEW pane \in PaneIds(tab), Range(tab.recency) \cup {pane} = PaneIds(tab)
    PROVE  /\ SoundTab(SetActive(tab, pane))
           /\ SetActive(tab, pane).id = tab.id
           /\ SetActive(tab, pane).panes = tab.panes
           /\ PaneIds(SetActive(tab, pane)) = PaneIds(tab)
<1> DEFINE new == SetActive(tab, pane)
           recency2 == <<pane>> \o Erase(tab.recency, pane)
           full2 == IF tab.full = pane THEN tab.full ELSE 0
<1>1. pane \in Nat
  BY TabFacts
<1>2. /\ recency2 \in Seq(Nat) /\ IsInjective(recency2)
      /\ Range(recency2) = Range(tab.recency) \cup {pane}
  BY <1>1, TabFacts, ConsLemma
<1>3. full2 \in Nat /\ full2 \in {0, pane}
  BY <1>1
<1>4. new = [tab EXCEPT !.active = pane, !.recency = recency2, !.full = full2]
  BY DEF SetActive
<1> HIDE DEF new, recency2, full2
<1>5. /\ new \in Tab /\ new.id = tab.id /\ new.panes = tab.panes /\ new.active = pane
      /\ new.recency = recency2 /\ new.full = full2
  BY <1>1, <1>2, <1>3, <1>4 DEF Tab
<1>6. PaneIds(new) = PaneIds(tab)
  BY <1>5 DEF PaneIds
<1>7. SoundTab(new)
  BY <1>2, <1>3, <1>5, <1>6 DEF SoundTab
<1>8. QED
  BY <1>5, <1>6, <1>7 DEF new

\* Tab::add_pane with a new id.
LEMMA AddedPane ==
    ASSUME NEW tab, SoundTab(tab), NEW pane \in Pane, pane.id \notin PaneIds(tab)
    PROVE  LET at == Position(tab.panes, tab.active) + 1
               new == SetActive([tab EXCEPT !.panes = InsertAt(@, at, pane)], pane.id)
           IN  /\ SoundTab(new) /\ new.id = tab.id
               /\ PaneIds(new) = PaneIds(tab) \cup {pane.id}
<1> DEFINE i == Position(tab.panes, tab.active)
           panes2 == InsertAt(tab.panes, i + 1, pane)
           wider == [tab EXCEPT !.panes = panes2]
           new == SetActive(wider, pane.id)
<1>1. /\ tab \in Tab /\ Keyed(tab.panes, Pane) /\ PaneIds(tab) = IdsOf(tab.panes)
      /\ IsInjective(tab.recency) /\ Range(tab.recency) = PaneIds(tab)
      /\ tab.active \in PaneIds(tab)
  BY TabFacts DEF SoundTab
<1>2. i \in 1 .. Len(tab.panes)
  BY <1>1, FindLemma
<1> HIDE DEF i
<1>3. Keyed(panes2, Pane) /\ IdsOf(panes2) = IdsOf(tab.panes) \cup {pane.id}
  BY <1>1, <1>2, InsertLemma
<1> HIDE DEF panes2
<1>4. /\ wider \in Tab /\ wider.id = tab.id /\ wider.recency = tab.recency
      /\ wider.panes = panes2
  BY <1>1, <1>3 DEF Tab, Keyed
<1> HIDE DEF wider
<1>5. PaneIds(wider) = PaneIds(tab) \cup {pane.id}
  BY <1>1, <1>3, <1>4, TabFacts
<1>6. IsInjective(Ids(wider.panes))
  BY <1>3, <1>4 DEF Keyed
<1>7. /\ SoundTab(new) /\ new.id = wider.id /\ PaneIds(new) = PaneIds(wider)
  BY <1>1, <1>4, <1>5, <1>6, SetActiveLemma
<1> HIDE DEF new
<1>8. SoundTab(new) /\ new.id = tab.id /\ PaneIds(new) = PaneIds(tab) \cup {pane.id}
  BY <1>4, <1>5, <1>7
<1>9. QED
  BY <1>8 DEF new, wider, panes2, i

\* Tab::remove_pane leaves the other panes, the one used last of them active, or none.
LEMMA RemovedFromTab ==
    ASSUME NEW tab, SoundTab(tab), NEW pane \in PaneIds(tab)
    PROVE  /\ RemoveFromTab(tab, pane).id = tab.id
           /\ RemoveFromTab(tab, pane).panes = <<>> <=> PaneIds(tab) = {pane}
           /\ PaneIds(tab) # {pane} =>
                  /\ SoundTab(RemoveFromTab(tab, pane))
                  /\ PaneIds(RemoveFromTab(tab, pane)) = PaneIds(tab) \ {pane}
<1> DEFINE rest == Erase(tab.recency, pane)
           panes2 == Drop(tab.panes, pane)
           full2 == IF tab.full = pane THEN 0 ELSE tab.full
           smaller == [tab EXCEPT !.panes = panes2, !.recency = rest, !.full = full2]
           new == RemoveFromTab(tab, pane)
<1>1. /\ tab \in Tab /\ Keyed(tab.panes, Pane) /\ PaneIds(tab) = IdsOf(tab.panes)
      /\ tab.recency \in Seq(Nat) /\ IsInjective(tab.recency) /\ Range(tab.recency) = PaneIds(tab)
      /\ tab.active \in PaneIds(tab) /\ tab.full \in {0, tab.active} /\ tab.full \in Nat
      /\ pane \in Nat
  BY TabFacts DEF SoundTab
<1>2. /\ rest \in Seq(Nat) /\ IsInjective(rest) /\ Range(rest) = PaneIds(tab) \ {pane}
  BY <1>1, EraseLemma
<1>3. Keyed(panes2, Pane) /\ IdsOf(panes2) = PaneIds(tab) \ {pane}
  BY <1>1, DropLemma
<1>4. full2 \in Nat /\ full2 \in {0, tab.active} /\ (full2 # pane \/ full2 = 0)
  BY <1>1
<1>5. new = IF tab.active # pane THEN smaller
            ELSE IF rest = <<>> THEN [smaller EXCEPT !.active = 0] ELSE SetActive(smaller, rest[1])
  BY DEF RemoveFromTab
<1> HIDE DEF rest, panes2, full2, new
<1>6. /\ smaller \in Tab /\ smaller.id = tab.id /\ smaller.panes = panes2
      /\ smaller.recency = rest /\ smaller.active = tab.active /\ smaller.full = full2
  <2>1. full2 \in Nat /\ panes2 \in Seq(Pane)
    BY <1>3, <1>4 DEF Keyed
  <2>2. QED
    BY <1>1, <1>2, <2>1 DEF Tab
<1> HIDE DEF smaller
<1>7. PaneIds(smaller) = PaneIds(tab) \ {pane} /\ IsInjective(Ids(smaller.panes))
  BY <1>3, <1>6, TabFacts DEF Keyed
<1>8. rest = <<>> <=> PaneIds(tab) = {pane}
  <2>1. rest = <<>> <=> Range(rest) = {}
    BY <1>2 DEF Range
  <2>2. QED
    BY <1>2, <2>1
<1>9. panes2 = <<>> <=> PaneIds(tab) = {pane}
  <2>1. panes2 = <<>> <=> Range(panes2) = {}
    BY <1>3 DEF Range, Keyed
  <2>2. Range(panes2) = {} <=> IdsOf(panes2) = {}
    BY DEF IdsOf
  <2>3. QED
    BY <1>3, <2>1, <2>2
<1>10. CASE tab.active # pane
  <2>1. new = smaller
    BY <1>5, <1>10
  <2>2. SoundTab(smaller)
    BY <1>1, <1>2, <1>4, <1>6, <1>7, <1>10 DEF SoundTab
  <2>3. QED
    BY <1>6, <1>7, <1>9, <2>1, <2>2 DEF new
<1>11. CASE tab.active = pane /\ rest = <<>>
  <2>1. new = [smaller EXCEPT !.active = 0]
    BY <1>5, <1>11
  <2>2. new.id = tab.id /\ new.panes = panes2
    BY <1>6, <2>1 DEF Tab
  <2>3. QED
    BY <1>8, <1>9, <1>11, <2>2 DEF new
<1>12. CASE tab.active = pane /\ rest # <<>>
  <2>1. rest[1] \in Range(rest)
    BY <1>2, <1>12 DEF Range
  <2>2. new = SetActive(smaller, rest[1])
    BY <1>5, <1>12
  <2>3. rest[1] \in PaneIds(smaller) /\ Range(smaller.recency) \cup {rest[1]} = PaneIds(smaller)
    BY <1>2, <1>6, <1>7, <2>1
  <2>4. /\ SoundTab(new) /\ new.id = smaller.id /\ new.panes = smaller.panes
        /\ PaneIds(new) = PaneIds(smaller)
    BY <1>2, <1>6, <1>7, <2>2, <2>3, SetActiveLemma
  <2>5. QED
    BY <1>6, <1>7, <1>9, <2>4 DEF new
<1>13. QED
  BY <1>10, <1>11, <1>12

\* The pane on full screen, and the directory of a pane, are nothing to the others.
LEMMA Toggled ==
    ASSUME NEW tab, SoundTab(tab)
    PROVE  LET new == [tab EXCEPT !.full = IF @ = tab.active THEN 0 ELSE tab.active]
           IN  SoundTab(new) /\ new.id = tab.id /\ PaneIds(new) = PaneIds(tab)
<1> DEFINE full2 == IF tab.full = tab.active THEN 0 ELSE tab.active
           new == [tab EXCEPT !.full = full2]
<1>1. tab \in Tab
  BY DEF SoundTab
<1>2. full2 \in Nat /\ full2 \in {0, tab.active}
  BY <1>1, TabFacts
<1> HIDE DEF full2
<1>3. /\ new \in Tab /\ new.id = tab.id /\ new.panes = tab.panes /\ new.recency = tab.recency
      /\ new.active = tab.active /\ new.full = full2
  BY <1>1, <1>2 DEF Tab
<1> HIDE DEF new
<1>4. PaneIds(new) = PaneIds(tab)
  BY <1>3 DEF PaneIds
<1>5. SoundTab(new)
  BY <1>2, <1>3, <1>4 DEF SoundTab
<1>6. QED
  BY <1>3, <1>4, <1>5 DEF new, full2

LEMMA Moved ==
    ASSUME NEW tab, SoundTab(tab), NEW pane \in Range(tab.panes), NEW cwd \in Directories
    PROVE  LET new == [tab EXCEPT !.panes = Put(@, [pane EXCEPT !.cwd = cwd])]
           IN  SoundTab(new) /\ new.id = tab.id /\ PaneIds(new) = PaneIds(tab)
<1> DEFINE item == [pane EXCEPT !.cwd = cwd]
           panes2 == Put(tab.panes, item)
           new == [tab EXCEPT !.panes = panes2]
<1>1. tab \in Tab /\ Keyed(tab.panes, Pane) /\ PaneIds(tab) = IdsOf(tab.panes)
  BY TabFacts DEF SoundTab
<1>2. pane \in Pane
  BY <1>1, Items DEF Keyed
<1>3. item \in Pane /\ item.id = pane.id
  BY <1>2 DEF Pane
<1>4. item.id \in IdsOf(tab.panes)
  BY <1>3 DEF IdsOf
<1> HIDE DEF item
<1>5. Keyed(panes2, Pane) /\ IdsOf(panes2) = IdsOf(tab.panes)
  BY <1>1, <1>3, <1>4, PutLemma
<1> HIDE DEF panes2
<1>6. /\ new \in Tab /\ new.id = tab.id /\ new.panes = panes2 /\ new.recency = tab.recency
      /\ new.active = tab.active /\ new.full = tab.full
  BY <1>1, <1>5 DEF Tab, Keyed
<1> HIDE DEF new
<1>7. PaneIds(new) = PaneIds(tab) /\ IsInjective(Ids(new.panes))
  BY <1>1, <1>5, <1>6, TabFacts DEF Keyed
<1>8. SoundTab(new)
  BY <1>6, <1>7 DEF SoundTab
<1>9. QED
  BY <1>6, <1>7, <1>8 DEF new, panes2, item

-----------------------------------------------------------------------------
(* Sessions *)

\* Ids to come are larger than those that are there.
TabBelow(tab, ids) == tab.id < ids.tab /\ \A pane \in PaneIds(tab) : pane < ids.pane
SessionBelow(session, ids) ==
    session.id < ids.session /\ \A tab \in Range(session.tabs) : TabBelow(tab, ids)
Below(state, ids) == \A session \in Range(state.sessions) : SessionBelow(session, ids)

LEMMA SessionFacts ==
    ASSUME NEW session, SoundSession(session)
    PROVE  /\ session \in Session /\ session.id \in Nat /\ session.tabs \in Seq(Tab)
           /\ Keyed(session.tabs, Tab)
           /\ session.active \in Nat /\ session.active \in IdsOf(session.tabs)
           /\ \A tab \in Range(session.tabs) :
                  SoundTab(tab) /\ tab \in Tab /\ PaneIds(tab) \subseteq SessionPaneIds(session)
           /\ \A tab, other \in Range(session.tabs) :
                  tab.id # other.id => PaneIds(tab) \cap PaneIds(other) = {}
<1>1. session \in Session
  BY DEF SoundSession
<1>2. session.id \in Nat /\ session.tabs \in Seq(Tab) /\ session.active \in Nat
  BY <1>1 DEF Session
<1>3. Keyed(session.tabs, Tab) /\ session.active \in IdsOf(session.tabs)
  BY <1>2, Items DEF SoundSession, Keyed
<1>4. ASSUME NEW tab \in Range(session.tabs)
      PROVE  SoundTab(tab) /\ tab \in Tab /\ PaneIds(tab) \subseteq SessionPaneIds(session)
  BY DEF SoundSession, SoundTab, SessionPaneIds
<1>5. \A tab, other \in Range(session.tabs) :
         tab.id # other.id => PaneIds(tab) \cap PaneIds(other) = {}
  BY DEF SoundSession
<1>6. QED
  BY <1>1, <1>2, <1>3, <1>4, <1>5

\* What makes a session well formed, with its tabs as a set.
LEMMA SoundSessionIf ==
    ASSUME NEW session \in Session, Keyed(session.tabs, Tab),
           session.active \in IdsOf(session.tabs),
           \A tab \in Range(session.tabs) : SoundTab(tab),
           \A tab, other \in Range(session.tabs) :
               tab.id # other.id => PaneIds(tab) \cap PaneIds(other) = {}
    PROVE  SoundSession(session)
<1>1. session.tabs \in Seq(Tab)
  BY DEF Session
<1>2. session.active \in Range(Ids(session.tabs)) /\ IsInjective(Ids(session.tabs))
  BY <1>1, Items DEF Keyed
<1>3. QED
  BY <1>2 DEF SoundSession

\* A tab is changed: the panes it gets are of no other tab.
LEMMA PutTabLemma ==
    ASSUME NEW session, SoundSession(session), NEW tab, SoundTab(tab),
           NEW old \in Range(session.tabs), old.id = tab.id, NEW extra,
           PaneIds(tab) \subseteq PaneIds(old) \cup extra,
           extra \cap SessionPaneIds(session) = {},
           NEW new \in Session, new.id = session.id, new.tabs = Put(session.tabs, tab),
           new.active \in IdsOf(session.tabs)
    PROVE  /\ SoundSession(new)
           /\ SessionPaneIds(new) \subseteq SessionPaneIds(session) \cup extra
           /\ \A ids : SessionBelow(session, ids) /\ TabBelow(tab, ids) => SessionBelow(new, ids)
<1>1. /\ Keyed(session.tabs, Tab)
      /\ \A t \in Range(session.tabs) :
             SoundTab(t) /\ t \in Tab /\ PaneIds(t) \subseteq SessionPaneIds(session)
      /\ \A t, other \in Range(session.tabs) :
             t.id # other.id => PaneIds(t) \cap PaneIds(other) = {}
  BY SessionFacts
<1>2. tab \in Tab /\ tab.id \in IdsOf(session.tabs)
  BY DEF SoundTab, IdsOf
<1>3. /\ Keyed(new.tabs, Tab)
      /\ Range(new.tabs) = {t \in Range(session.tabs) : t.id # tab.id} \cup {tab}
      /\ IdsOf(new.tabs) = IdsOf(session.tabs)
  BY <1>1, <1>2, PutLemma
<1>4. \A t \in Range(new.tabs) : SoundTab(t)
  BY <1>1, <1>3
<1>5. ASSUME NEW t \in Range(session.tabs), t.id # tab.id
      PROVE  PaneIds(t) \cap PaneIds(tab) = {}
  BY <1>1, <1>5
<1>6. \A t, other \in Range(new.tabs) :
         t.id # other.id => PaneIds(t) \cap PaneIds(other) = {}
  BY <1>1, <1>3, <1>5
<1>7. SoundSession(new)
  BY <1>3, <1>4, <1>6, SoundSessionIf
<1>8. \A t \in Range(new.tabs) : PaneIds(t) \subseteq SessionPaneIds(session) \cup extra
  BY <1>1, <1>3
<1>9. SessionPaneIds(new) \subseteq SessionPaneIds(session) \cup extra
  BY <1>8 DEF SessionPaneIds
<1>10. ASSUME NEW ids, SessionBelow(session, ids), TabBelow(tab, ids)
       PROVE  SessionBelow(new, ids)
  BY <1>3, <1>10 DEF SessionBelow
<1>11. QED
  BY <1>7, <1>9, <1>10

\* A tab is added (Session::add_tab).
LEMMA AddTabLemma ==
    ASSUME NEW session, SoundSession(session), NEW tab, SoundTab(tab),
           tab.id \notin IdsOf(session.tabs), PaneIds(tab) \cap SessionPaneIds(session) = {},
           NEW new \in Session, new.id = session.id, new.tabs = Append(session.tabs, tab),
           new.active = tab.id
    PROVE  /\ SoundSession(new)
           /\ SessionPaneIds(new) \subseteq SessionPaneIds(session) \cup PaneIds(tab)
           /\ \A ids : SessionBelow(session, ids) /\ TabBelow(tab, ids) => SessionBelow(new, ids)
<1>1. /\ Keyed(session.tabs, Tab)
      /\ \A t \in Range(session.tabs) :
             SoundTab(t) /\ t \in Tab /\ PaneIds(t) \subseteq SessionPaneIds(session)
      /\ \A t, other \in Range(session.tabs) :
             t.id # other.id => PaneIds(t) \cap PaneIds(other) = {}
  BY SessionFacts
<1>2. tab \in Tab
  BY DEF SoundTab
<1>3. /\ Keyed(new.tabs, Tab)
      /\ Range(new.tabs) = Range(session.tabs) \cup {tab}
      /\ IdsOf(new.tabs) = IdsOf(session.tabs) \cup {tab.id}
  BY <1>1, <1>2, AppendLemma
<1>4. \A t \in Range(new.tabs) : SoundTab(t)
  BY <1>1, <1>3
<1>5. \A t, other \in Range(new.tabs) :
         t.id # other.id => PaneIds(t) \cap PaneIds(other) = {}
  BY <1>1, <1>3
<1>6. SoundSession(new)
  BY <1>3, <1>4, <1>5, SoundSessionIf
<1>7. \A t \in Range(new.tabs) : PaneIds(t) \subseteq SessionPaneIds(session) \cup PaneIds(tab)
  BY <1>1, <1>3
<1>8. SessionPaneIds(new) \subseteq SessionPaneIds(session) \cup PaneIds(tab)
  BY <1>7 DEF SessionPaneIds
<1>9. ASSUME NEW ids, SessionBelow(session, ids), TabBelow(tab, ids)
      PROVE  SessionBelow(new, ids)
  BY <1>3, <1>9 DEF SessionBelow
<1>10. QED
  BY <1>6, <1>8, <1>9

\* A session starts with one tab.
LEMMA NewSessionLemma ==
    ASSUME NEW tab, SoundTab(tab), NEW id \in Nat
    PROVE  LET new == [id |-> id, tabs |-> <<tab>>, active |-> tab.id]
           IN  /\ SoundSession(new) /\ new \in Session /\ SessionPaneIds(new) = PaneIds(tab)
               /\ \A ids : id < ids.session /\ TabBelow(tab, ids) => SessionBelow(new, ids)
<1> DEFINE new == [id |-> id, tabs |-> <<tab>>, active |-> tab.id]
<1>1. tab \in Tab /\ tab.id \in Nat
  BY TabFacts DEF SoundTab
<1>2. Keyed(<<tab>>, Tab) /\ Range(<<tab>>) = {tab} /\ IdsOf(<<tab>>) = {tab.id}
  BY <1>1, One
<1>3. /\ new \in Session /\ new.id = id /\ new.tabs = <<tab>> /\ new.active = tab.id
  BY <1>1, <1>2 DEF Session, Keyed
<1> HIDE DEF new
<1>4. SoundSession(new)
  BY <1>2, <1>3, SoundSessionIf
<1>5. SessionPaneIds(new) = PaneIds(tab)
  BY <1>2, <1>3 DEF SessionPaneIds
<1>6. \A ids : id < ids.session /\ TabBelow(tab, ids) => SessionBelow(new, ids)
  BY <1>2, <1>3 DEF SessionBelow
<1>7. QED
  BY <1>3, <1>4, <1>5, <1>6 DEF new

\* Another tab becomes the active one.
LEMMA SelectTabLemma ==
    ASSUME NEW session, SoundSession(session), NEW id \in IdsOf(session.tabs)
    PROVE  LET new == [session EXCEPT !.active = id]
           IN  /\ SoundSession(new) /\ new.id = session.id
               /\ SessionPaneIds(new) = SessionPaneIds(session)
               /\ \A ids : SessionBelow(session, ids) => SessionBelow(new, ids)
<1> DEFINE new == [session EXCEPT !.active = id]
<1>1. /\ session \in Session /\ Keyed(session.tabs, Tab)
      /\ \A tab \in Range(session.tabs) : SoundTab(tab) /\ tab \in Tab
  BY SessionFacts
<1>2. id \in Nat
  BY <1>1, TabFacts DEF IdsOf
<1>3. new \in Session /\ new.id = session.id /\ new.tabs = session.tabs /\ new.active = id
  BY <1>1, <1>2 DEF Session
<1> HIDE DEF new
<1>4. SoundSession(new)
  BY <1>1, <1>3, SessionFacts, SoundSessionIf
<1>5. SessionPaneIds(new) = SessionPaneIds(session)
  BY <1>3 DEF SessionPaneIds
<1>6. \A ids : SessionBelow(session, ids) => SessionBelow(new, ids)
  BY <1>3 DEF SessionBelow
<1>7. QED
  BY <1>3, <1>4, <1>5, <1>6 DEF new

\* What becomes active when an item goes is another one, if there is another one.
LEMMA SuccessorLemma ==
    ASSUME NEW S, NEW seq, Keyed(seq, S), NEW id \in IdsOf(seq)
    PROVE  /\ Len(seq) = 1 => Successor(seq, id) = 0
           /\ Len(seq) # 1 => Successor(seq, id) \in IdsOf(seq) \ {id}
<1> DEFINE i == Position(seq, id)
           n == Len(seq)
<1>1. i \in 1 .. n /\ seq[i].id = id
  BY FindLemma
<1>2. Successor(seq, id) = IF n = 1 THEN 0 ELSE IF i = n THEN seq[i - 1].id ELSE seq[i + 1].id
  BY DEF Successor
<1> HIDE DEF i
<1>3. n \in Nat /\ DOMAIN seq = 1 .. n
  BY Items DEF Keyed
<1> HIDE DEF n
<1>4. \A k, l \in 1 .. n : seq[k].id = seq[l].id => k = l
  BY Items DEF Keyed, n
<1>5. \A k \in 1 .. n : seq[k].id \in IdsOf(seq) /\ (k # i => seq[k].id # id)
  BY <1>1, <1>3, <1>4 DEF IdsOf, Range
<1>6. n = 1 => Successor(seq, id) = 0
  BY <1>2
<1>7. ASSUME n # 1, i = n
      PROVE  Successor(seq, id) \in IdsOf(seq) \ {id}
  <2>1. i - 1 \in 1 .. n /\ i - 1 # i
    BY <1>1, <1>3, <1>7
  <2>2. Successor(seq, id) = seq[i - 1].id
    BY <1>2, <1>7
  <2>3. QED
    BY <1>5, <2>1, <2>2
<1>8. ASSUME n # 1, i # n
      PROVE  Successor(seq, id) \in IdsOf(seq) \ {id}
  <2>1. i + 1 \in 1 .. n /\ i + 1 # i
    BY <1>1, <1>3, <1>8
  <2>2. Successor(seq, id) = seq[i + 1].id
    BY <1>2, <1>8
  <2>3. QED
    BY <1>5, <2>1, <2>2
<1>9. n # 1 => Successor(seq, id) \in IdsOf(seq) \ {id}
  BY <1>7, <1>8
<1>10. QED
  BY <1>6, <1>9 DEF n

\* Nothing is left of one item.
LEMMA LastDropped ==
    ASSUME NEW S, NEW seq, Keyed(seq, S), NEW id \in IdsOf(seq)
    PROVE  Len(seq) = 1 <=> Drop(seq, id) = <<>>
<1>1. Drop(seq, id) \in Seq(S) /\ Len(Drop(seq, id)) = Len(seq) - 1
  BY DropLemma DEF Keyed
<1>2. Drop(seq, id) = <<>> <=> Len(Drop(seq, id)) = 0
  BY <1>1
<1>3. Len(seq) \in Nat
  BY DEF Keyed
<1>4. QED
  BY <1>1, <1>2, <1>3

\* A tab is removed, and another is active.
LEMMA DropTabLemma ==
    ASSUME NEW session, SoundSession(session), NEW id \in IdsOf(session.tabs),
           Drop(session.tabs, id) # <<>>,
           NEW tabs, tabs = Drop(session.tabs, id),
           NEW active, active = Without(session, session.tabs, id)
    PROVE  LET new == [session EXCEPT !.tabs = tabs, !.active = active]
           IN  /\ SoundSession(new) /\ new.id = session.id
               /\ SessionPaneIds(new) \subseteq SessionPaneIds(session)
               /\ \A ids : SessionBelow(session, ids) => SessionBelow(new, ids)
<1> DEFINE tabs2 == Drop(session.tabs, id)
           active2 == Without(session, session.tabs, id)
           new == [session EXCEPT !.tabs = tabs, !.active = active]
<1>1. /\ session \in Session /\ Keyed(session.tabs, Tab)
      /\ session.active \in IdsOf(session.tabs)
      /\ \A tab \in Range(session.tabs) :
             SoundTab(tab) /\ tab \in Tab /\ PaneIds(tab) \subseteq SessionPaneIds(session)
      /\ \A tab, other \in Range(session.tabs) :
             tab.id # other.id => PaneIds(tab) \cap PaneIds(other) = {}
  BY SessionFacts
<1>2. /\ Keyed(tabs2, Tab) /\ Range(tabs2) = {tab \in Range(session.tabs) : tab.id # id}
      /\ IdsOf(tabs2) = IdsOf(session.tabs) \ {id}
  BY <1>1, DropLemma
<1>3. Len(session.tabs) # 1
  BY <1>1, LastDropped
<1>4. active2 \in IdsOf(session.tabs) \ {id}
  <2>1. CASE session.active = id
    <3>1. active2 = Successor(session.tabs, id)
      BY <2>1 DEF Without
    <3>2. QED
      BY <1>1, <1>3, <3>1, SuccessorLemma
  <2>2. CASE session.active # id
    BY <1>1, <2>2 DEF Without
  <2>3. QED
    BY <2>1, <2>2
<1>0. new = [session EXCEPT !.tabs = tabs2, !.active = active2]
  OBVIOUS
<1> HIDE DEF tabs2, active2, new
<1>5. active2 \in Nat
  BY <1>1, <1>4, TabFacts DEF IdsOf
<1>6. new \in Session /\ new.id = session.id /\ new.tabs = tabs2 /\ new.active = active2
  BY <1>0, <1>1, <1>2, <1>5 DEF Session, Keyed
<1>7. \A tab \in Range(new.tabs) : SoundTab(tab)
  BY <1>1, <1>2, <1>6
<1>8. \A tab, other \in Range(new.tabs) :
         tab.id # other.id => PaneIds(tab) \cap PaneIds(other) = {}
  BY <1>1, <1>2, <1>6
<1>9. SoundSession(new)
  BY <1>2, <1>4, <1>6, <1>7, <1>8, SoundSessionIf
<1>10. SessionPaneIds(new) \subseteq SessionPaneIds(session)
  BY <1>2, <1>6 DEF SessionPaneIds
<1>11. \A ids : SessionBelow(session, ids) => SessionBelow(new, ids)
  BY <1>2, <1>6 DEF SessionBelow
<1>12. QED
  BY <1>6, <1>9, <1>10, <1>11 DEF new

-----------------------------------------------------------------------------
(* Layouts *)

Layouts == [sessions : Seq(Session), active : Nat]

LEMMA LayoutFacts ==
    ASSUME NEW state, Sound(state)
    PROVE  /\ state \in Layouts /\ state.sessions \in Seq(Session) /\ state.active \in Nat
           /\ Keyed(state.sessions, Session)
           /\ state.active \in IdsOf(state.sessions) \cup {0}
           /\ \A session \in Range(state.sessions) :
                  SoundSession(session) /\ session \in Session
           /\ \A session, other \in Range(state.sessions) :
                  session.id # other.id => SessionPaneIds(session) \cap SessionPaneIds(other) = {}
<1>1. state \in Layouts /\ state.sessions \in Seq(Session) /\ state.active \in Nat
  BY DEF Sound, Layouts
<1>2. Keyed(state.sessions, Session) /\ state.active \in IdsOf(state.sessions) \cup {0}
  BY <1>1, Items DEF Sound, Keyed
<1>3. ASSUME NEW session \in Range(state.sessions)
      PROVE  SoundSession(session) /\ session \in Session
  BY DEF Sound, SoundSession
<1>4. \A session, other \in Range(state.sessions) :
         session.id # other.id => SessionPaneIds(session) \cap SessionPaneIds(other) = {}
  BY DEF Sound
<1>5. QED
  BY <1>1, <1>2, <1>3, <1>4

LEMMA SoundIf ==
    ASSUME NEW state \in Layouts, Keyed(state.sessions, Session),
           state.active \in IdsOf(state.sessions) \cup {0},
           \A session \in Range(state.sessions) : SoundSession(session),
           \A session, other \in Range(state.sessions) :
               session.id # other.id => SessionPaneIds(session) \cap SessionPaneIds(other) = {}
    PROVE  Sound(state)
<1>1. state.sessions \in Seq(Session)
  BY DEF Layouts
<1>2. /\ state.active \in Range(Ids(state.sessions)) \cup {0}
      /\ IsInjective(Ids(state.sessions))
  BY <1>1, Items DEF Keyed
<1>3. QED
  BY <1>2 DEF Sound, Layouts

\* A session is changed: the panes it gets are of no other session.
LEMMA PutSessionLemma ==
    ASSUME NEW state, Sound(state), NEW session, SoundSession(session),
           NEW old \in Range(state.sessions), old.id = session.id, NEW extra,
           SessionPaneIds(session) \subseteq SessionPaneIds(old) \cup extra,
           \A other \in Range(state.sessions) : extra \cap SessionPaneIds(other) = {},
           NEW new \in Layouts, new.sessions = Put(state.sessions, session),
           new.active \in IdsOf(state.sessions) \cup {0}
    PROVE  /\ Sound(new) /\ IdsOf(new.sessions) = IdsOf(state.sessions)
           /\ \A ids : Below(state, ids) /\ SessionBelow(session, ids) => Below(new, ids)
<1>1. /\ Keyed(state.sessions, Session)
      /\ \A s \in Range(state.sessions) : SoundSession(s) /\ s \in Session
      /\ \A s, other \in Range(state.sessions) :
             s.id # other.id => SessionPaneIds(s) \cap SessionPaneIds(other) = {}
  BY LayoutFacts
<1>2. session \in Session /\ session.id \in IdsOf(state.sessions)
  BY SessionFacts DEF IdsOf
<1>3. /\ Keyed(new.sessions, Session)
      /\ Range(new.sessions) = {s \in Range(state.sessions) : s.id # session.id} \cup {session}
      /\ IdsOf(new.sessions) = IdsOf(state.sessions)
  BY <1>1, <1>2, PutLemma
<1>4. \A s \in Range(new.sessions) : SoundSession(s)
  BY <1>1, <1>3
<1>5. ASSUME NEW s \in Range(state.sessions), s.id # session.id
      PROVE  SessionPaneIds(s) \cap SessionPaneIds(session) = {}
  BY <1>1, <1>5
<1>6. \A s, other \in Range(new.sessions) :
         s.id # other.id => SessionPaneIds(s) \cap SessionPaneIds(other) = {}
  BY <1>1, <1>3, <1>5
<1>7. Sound(new)
  BY <1>3, <1>4, <1>6, SoundIf
<1>8. ASSUME NEW ids, Below(state, ids), SessionBelow(session, ids)
      PROVE  Below(new, ids)
  BY <1>3, <1>8 DEF Below
<1>9. QED
  BY <1>3, <1>7, <1>8

\* A session is added.
LEMMA AppendSessionLemma ==
    ASSUME NEW state, Sound(state), NEW session, SoundSession(session),
           session.id \notin IdsOf(state.sessions),
           \A other \in Range(state.sessions) :
               SessionPaneIds(session) \cap SessionPaneIds(other) = {},
           NEW new \in Layouts, new.sessions = Append(state.sessions, session),
           new.active = session.id
    PROVE  /\ Sound(new) /\ new.active \in IdsOf(new.sessions)
           /\ \A ids : Below(state, ids) /\ SessionBelow(session, ids) => Below(new, ids)
<1>1. /\ Keyed(state.sessions, Session)
      /\ \A s \in Range(state.sessions) : SoundSession(s) /\ s \in Session
      /\ \A s, other \in Range(state.sessions) :
             s.id # other.id => SessionPaneIds(s) \cap SessionPaneIds(other) = {}
  BY LayoutFacts
<1>2. session \in Session
  BY SessionFacts
<1>3. /\ Keyed(new.sessions, Session)
      /\ Range(new.sessions) = Range(state.sessions) \cup {session}
      /\ IdsOf(new.sessions) = IdsOf(state.sessions) \cup {session.id}
  BY <1>1, <1>2, AppendLemma
<1>4. \A s \in Range(new.sessions) : SoundSession(s)
  BY <1>1, <1>3
<1>5. \A s, other \in Range(new.sessions) :
         s.id # other.id => SessionPaneIds(s) \cap SessionPaneIds(other) = {}
  BY <1>1, <1>3
<1>6. Sound(new)
  BY <1>3, <1>4, <1>5, SoundIf
<1>7. ASSUME NEW ids, Below(state, ids), SessionBelow(session, ids)
      PROVE  Below(new, ids)
  BY <1>3, <1>7 DEF Below
<1>8. QED
  BY <1>3, <1>6, <1>7

\* A session is removed, and another is active.
LEMMA DropSessionLemma ==
    ASSUME NEW state, Sound(state), state.active \in IdsOf(state.sessions),
           NEW id \in IdsOf(state.sessions),
           NEW sessions, sessions = Drop(state.sessions, id),
           NEW active, active = Without(state, state.sessions, id)
    PROVE  LET new == [sessions |-> sessions, active |-> active]
           IN  /\ Sound(new)
               /\ new.sessions # <<>> => new.active \in IdsOf(new.sessions)
               /\ \A ids : Below(state, ids) => Below(new, ids)
<1> DEFINE sessions2 == Drop(state.sessions, id)
           active2 == Without(state, state.sessions, id)
           new == [sessions |-> sessions, active |-> active]
<1>1. /\ Keyed(state.sessions, Session) /\ state.active \in Nat
      /\ \A s \in Range(state.sessions) : SoundSession(s) /\ s \in Session
      /\ \A s, other \in Range(state.sessions) :
             s.id # other.id => SessionPaneIds(s) \cap SessionPaneIds(other) = {}
  BY LayoutFacts
<1>2. /\ Keyed(sessions2, Session)
      /\ Range(sessions2) = {s \in Range(state.sessions) : s.id # id}
      /\ IdsOf(sessions2) = IdsOf(state.sessions) \ {id}
  BY <1>1, DropLemma
<1>3. sessions2 # <<>> => active2 \in IdsOf(sessions2)
  <2>1. CASE state.active = id
    <3>1. active2 = Successor(state.sessions, id)
      BY <2>1 DEF Without
    <3>2. QED
      BY <1>1, <1>2, <3>1, SuccessorLemma, LastDropped
  <2>2. CASE state.active # id
    BY <1>2, <2>2 DEF Without
  <2>3. QED
    BY <2>1, <2>2
<1>4. sessions2 = <<>> => active2 = 0
  <2>1. HAVE sessions2 = <<>>
  <2>2. IdsOf(sessions2) = {}
    BY <2>1 DEF IdsOf, Range
  <2>3. state.active = id
    BY <1>2, <2>2
  <2>4. active2 = Successor(state.sessions, id)
    BY <2>3 DEF Without
  <2>5. QED
    BY <1>1, <2>1, <2>4, SuccessorLemma, LastDropped
<1>0. new = [sessions |-> sessions2, active |-> active2]
  OBVIOUS
<1> HIDE DEF sessions2, active2, new
<1>5. \A s \in Range(sessions2) : s.id \in Nat
  BY <1>1, <1>2, SessionFacts
<1>6. active2 \in Nat
  BY <1>3, <1>4, <1>5 DEF IdsOf
<1>8. new \in Layouts /\ new.sessions = sessions2 /\ new.active = active2
  BY <1>0, <1>2, <1>6 DEF Layouts, Keyed
<1>9. \A s \in Range(new.sessions) : SoundSession(s)
  BY <1>1, <1>2, <1>8
<1>10. \A s, other \in Range(new.sessions) :
         s.id # other.id => SessionPaneIds(s) \cap SessionPaneIds(other) = {}
  BY <1>1, <1>2, <1>8
<1>11. new.active \in IdsOf(new.sessions) \cup {0}
  BY <1>3, <1>4, <1>8
<1>12. Sound(new)
  BY <1>2, <1>8, <1>9, <1>10, <1>11, SoundIf
<1>13. \A ids : Below(state, ids) => Below(new, ids)
  BY <1>2, <1>8 DEF Below
<1>14. QED
  BY <1>3, <1>8, <1>12, <1>13 DEF new

\* LayoutState::remove_pane with all that goes with the last pane.
LEMMA RemovedPane ==
    ASSUME NEW state, Sound(state), state.active \in IdsOf(state.sessions),
           NEW session \in Range(state.sessions), NEW tab \in Range(session.tabs),
           NEW pane \in PaneIds(tab)
    PROVE  LET new == RemovePaneFrom(state, session, tab, pane)
           IN  /\ Sound(new)
               /\ new.sessions # <<>> => new.active \in IdsOf(new.sessions)
               /\ \A ids : Below(state, ids) => Below(new, ids)
<1> DEFINE smaller == RemoveFromTab(tab, pane)
           tabs2 == IF smaller.panes = <<>> THEN Drop(session.tabs, tab.id)
                    ELSE Put(session.tabs, smaller)
           active2 == IF smaller.panes = <<>> THEN Without(session, session.tabs, tab.id)
                      ELSE session.active
           session2 == [session EXCEPT !.tabs = tabs2, !.active = active2]
           new == RemovePaneFrom(state, session, tab, pane)
<1>1. /\ state \in Layouts /\ Keyed(state.sessions, Session)
      /\ SoundSession(session) /\ session \in Session
  BY LayoutFacts
<1>2. /\ Keyed(session.tabs, Tab) /\ SoundTab(tab) /\ tab \in Tab
      /\ session.active \in IdsOf(session.tabs) /\ session.active \in Nat
      /\ tab.id \in IdsOf(session.tabs)
  BY <1>1, SessionFacts DEF IdsOf
<1>3. /\ smaller.id = tab.id
      /\ smaller.panes = <<>> <=> PaneIds(tab) = {pane}
      /\ smaller.panes # <<>> => SoundTab(smaller) /\ PaneIds(smaller) = PaneIds(tab) \ {pane}
  BY <1>2, RemovedFromTab
<1>4. new = IF tabs2 # <<>> THEN [state EXCEPT !.sessions = Put(@, session2)]
            ELSE [sessions |-> Drop(state.sessions, session.id),
                  active |-> Without(state, state.sessions, session.id)]
  BY DEF RemovePaneFrom
<1> HIDE DEF smaller, new
<1>5. CASE tabs2 = <<>>
  <2>1. session.id \in IdsOf(state.sessions)
    BY DEF IdsOf
  <2>2. new = [sessions |-> Drop(state.sessions, session.id),
               active |-> Without(state, state.sessions, session.id)]
    BY <1>4, <1>5
  <2>3. /\ Sound(new)
        /\ new.sessions # <<>> => new.active \in IdsOf(new.sessions)
        /\ \A ids : Below(state, ids) => Below(new, ids)
    BY <2>1, <2>2, DropSessionLemma
  <2>4. QED
    BY <2>3 DEF new
<1>6. ASSUME tabs2 # <<>>
      PROVE  /\ SoundSession(session2) /\ session2.id = session.id
             /\ SessionPaneIds(session2) \subseteq SessionPaneIds(session)
             /\ \A ids : SessionBelow(session, ids) => SessionBelow(session2, ids)
  <2>1. CASE smaller.panes = <<>>
    <3>1. Drop(session.tabs, tab.id) # <<>>
      BY <1>6, <2>1
    <3>2. session2 = [session EXCEPT !.tabs = Drop(session.tabs, tab.id),
                                     !.active = Without(session, session.tabs, tab.id)]
      BY <2>1
    <3> HIDE DEF session2
    <3>3. LET r == [session EXCEPT !.tabs = Drop(session.tabs, tab.id),
                                   !.active = Without(session, session.tabs, tab.id)]
          IN  /\ SoundSession(r) /\ r.id = session.id
              /\ SessionPaneIds(r) \subseteq SessionPaneIds(session)
              /\ \A ids : SessionBelow(session, ids) => SessionBelow(r, ids)
      BY <1>1, <1>2, <3>1, DropTabLemma
    <3>4. QED
      BY <3>2, <3>3
  <2>2. CASE smaller.panes # <<>>
    <3>1. SoundTab(smaller) /\ PaneIds(smaller) \subseteq PaneIds(tab) /\ smaller \in Tab
      BY <1>3, <2>2 DEF SoundTab
    <3>2. tabs2 = Put(session.tabs, smaller) /\ active2 = session.active
      BY <2>2
    <3>3. tabs2 \in Seq(Tab)
      BY <1>2, <1>3, <3>1, <3>2, PutLemma DEF Keyed
    <3>4. session2 = [session EXCEPT !.tabs = tabs2, !.active = active2]
      OBVIOUS
    <3> HIDE DEF session2, tabs2, active2
    <3>5. /\ session2 \in Session /\ session2.id = session.id
          /\ session2.tabs = tabs2 /\ session2.active = session.active
      BY <1>1, <1>2, <3>2, <3>3, <3>4 DEF Session
    <3>6. /\ SoundSession(session2)
          /\ SessionPaneIds(session2) \subseteq SessionPaneIds(session) \cup {}
          /\ \A ids : SessionBelow(session, ids) /\ TabBelow(smaller, ids)
                          => SessionBelow(session2, ids)
      <4>1. /\ smaller.id = tab.id /\ session2.tabs = Put(session.tabs, smaller)
            /\ session2.active \in IdsOf(session.tabs)
            /\ PaneIds(smaller) \subseteq PaneIds(tab) \cup {}
            /\ {} \cap SessionPaneIds(session) = {}
        BY <1>2, <1>3, <3>1, <3>2, <3>5
      <4>2. QED
        BY <1>1, <3>1, <3>5, <4>1, PutTabLemma
    <3>7. ASSUME NEW ids, SessionBelow(session, ids) PROVE TabBelow(smaller, ids)
      BY <1>3, <3>1, <3>7 DEF SessionBelow, TabBelow
    <3>8. QED
      BY <3>5, <3>6, <3>7
  <2>3. QED
    BY <2>1, <2>2
<1>7. CASE tabs2 # <<>>
  <2>1. /\ SoundSession(session2) /\ session2.id = session.id
        /\ SessionPaneIds(session2) \subseteq SessionPaneIds(session)
        /\ \A ids : SessionBelow(session, ids) => SessionBelow(session2, ids)
    BY <1>6, <1>7
  <2>2. new = [state EXCEPT !.sessions = Put(@, session2)]
    BY <1>4, <1>7
  <2> HIDE DEF session2
  <2>3. session2 \in Session /\ session2.id \in IdsOf(state.sessions)
    BY <2>1, SessionFacts DEF IdsOf
  <2>4. Put(state.sessions, session2) \in Seq(Session)
    BY <1>1, <2>3, PutLemma DEF Keyed
  <2>5. /\ new \in Layouts /\ new.sessions = Put(state.sessions, session2)
        /\ new.active = state.active
    BY <1>1, <2>2, <2>4 DEF Layouts
  <2>6. /\ Sound(new) /\ IdsOf(new.sessions) = IdsOf(state.sessions)
        /\ \A ids : Below(state, ids) /\ SessionBelow(session2, ids) => Below(new, ids)
    <3>1. SessionPaneIds(session2) \subseteq SessionPaneIds(session) \cup {}
      BY <2>1
    <3>2. \A other \in Range(state.sessions) : {} \cap SessionPaneIds(other) = {}
      OBVIOUS
    <3>3. new.active \in IdsOf(state.sessions) \cup {0}
      BY <2>5
    <3>4. QED
      BY <2>1, <2>5, <3>1, <3>2, <3>3, PutSessionLemma
  <2>7. \A ids : Below(state, ids) => SessionBelow(session2, ids)
    BY <2>1 DEF Below
  <2>8. QED
    BY <2>5, <2>6, <2>7 DEF new
<1>8. QED
  BY <1>5, <1>7

-----------------------------------------------------------------------------
(* Files *)

\* Panes come back as they were.
LEMMA PanesBack ==
    ASSUME NEW panes \in Seq(Pane)
    PROVE  /\ Ids(PanesToJson(panes)) = Ids(panes)
           /\ PanesFromJson(PanesToJson(panes)) = panes
<1> DEFINE json == PanesToJson(panes)
           n == Len(panes)
<1>1. n \in Nat /\ DOMAIN panes = 1 .. n /\ \A i \in 1 .. n : panes[i] \in Pane
  OBVIOUS
<1>2. json = [i \in 1 .. n |-> [id |-> panes[i].id, current_working_directory |-> panes[i].cwd]]
  BY <1>1 DEF PanesToJson
<1> HIDE DEF json
<1>3. /\ DOMAIN json = 1 .. n
      /\ \A i \in 1 .. n : /\ json[i].id = panes[i].id
                           /\ json[i].current_working_directory = panes[i].cwd
  BY <1>2
<1>4. Ids(json) = Ids(panes)
  BY <1>1, <1>3 DEF Ids
<1>5. PanesFromJson(json) = [i \in 1 .. n |-> [id |-> panes[i].id, cwd |-> panes[i].cwd]]
  BY <1>3 DEF PanesFromJson
<1>6. \A i \in 1 .. n : [id |-> panes[i].id, cwd |-> panes[i].cwd] = panes[i]
  BY <1>1 DEF Pane
<1>7. PanesFromJson(json) = [i \in 1 .. n |-> panes[i]]
  BY <1>5, <1>6
<1>8. [i \in 1 .. n |-> panes[i]] = panes
  BY <1>1
<1>9. QED
  BY <1>4, <1>7, <1>8 DEF json

\* A tab comes back with its panes, its active pane and the one on full screen, and is well formed.
LEMMA TabBack ==
    ASSUME NEW tab, SoundTab(tab)
    PROVE  LET back == TabFromJson(TabToJson(tab))
           IN  /\ SoundTab(back) /\ back.id = tab.id /\ PaneIds(back) = PaneIds(tab)
               /\ back.panes = tab.panes /\ back.active = tab.active /\ back.full = tab.full
<1> DEFINE json == TabToJson(tab)
           ids == Ids(tab.panes)
           back == TabFromJson(json)
<1>1. /\ tab \in Tab /\ tab.panes \in Seq(Pane) /\ tab.id \in Nat /\ tab.active \in Nat
      /\ tab.full \in Nat /\ tab.full \in {0, tab.active}
      /\ IsInjective(ids) /\ PaneIds(tab) = Range(ids) /\ tab.active \in Range(ids)
  BY TabFacts DEF SoundTab, PaneIds
<1>2. /\ json.id = tab.id /\ json.full_screen_pane_id = tab.full
      /\ json.active_pane_id = tab.active /\ json.pane_layout = PanesToJson(tab.panes)
  BY DEF TabToJson
<1>3. Ids(json.pane_layout) = ids /\ PanesFromJson(json.pane_layout) = tab.panes
  BY <1>1, <1>2, PanesBack
<1>4. Found(ids, tab.active) = tab.active
  BY <1>1 DEF Found, Range
<1>5. (IF tab.full # 0 THEN tab.full ELSE tab.active) = tab.active
  BY <1>1
<1>6. (IF tab.active = tab.full THEN tab.full ELSE 0) = tab.full
  BY <1>1
<1> DEFINE recency2 == <<tab.active>> \o Erase(ids, tab.active)
<1>7. back = [id |-> tab.id, panes |-> tab.panes, active |-> tab.active,
              recency |-> recency2, full |-> tab.full]
  BY <1>2, <1>3, <1>4, <1>5, <1>6 DEF TabFromJson
<1>8. ids \in Seq(Nat)
  <2>1. ids = [i \in 1 .. Len(tab.panes) |-> tab.panes[i].id]
    BY <1>1, Items
  <2>2. ASSUME NEW i \in 1 .. Len(tab.panes) PROVE tab.panes[i].id \in Nat
    <3>1. tab.panes[i] \in Pane
      BY <1>1
    <3>2. QED
      BY <3>1 DEF Pane
  <2>3. QED
    BY <1>1, <2>1, <2>2
<1> HIDE DEF ids
<1>9. recency2 \in Seq(Nat) /\ IsInjective(recency2) /\ Range(recency2) = Range(ids) \cup {tab.active}
  BY <1>1, <1>8, ConsLemma
<1> HIDE DEF recency2, back
<1>10. /\ back \in Tab /\ back.id = tab.id /\ back.panes = tab.panes
       /\ back.active = tab.active /\ back.full = tab.full /\ back.recency = recency2
  BY <1>1, <1>7, <1>9 DEF Tab
<1>11. PaneIds(back) = PaneIds(tab)
  BY <1>10 DEF PaneIds
<1>12. IsInjective(Ids(back.panes)) /\ Range(back.recency) = PaneIds(back)
  BY <1>1, <1>9, <1>10, <1>11 DEF ids
<1>13. SoundTab(back)
  BY <1>1, <1>9, <1>10, <1>11, <1>12 DEF SoundTab
<1>14. QED
  BY <1>10, <1>11, <1>13 DEF back

\* What is compared of a tab and of a session
Kept(json) == [json EXCEPT !.pane_ids_by_recency = <<>>]
KeptSession(json) == [json EXCEPT !.tabs = [j \in DOMAIN @ |-> Kept(@[j])]]

LEMMA TabKept ==
    ASSUME NEW tab, SoundTab(tab)
    PROVE  Kept(TabToJson(TabFromJson(TabToJson(tab)))) = Kept(TabToJson(tab))
<1> DEFINE back == TabFromJson(TabToJson(tab))
<1>1. /\ back.id = tab.id /\ back.panes = tab.panes /\ back.active = tab.active
      /\ back.full = tab.full
  BY TabBack
<1> HIDE DEF back
<1>2. Kept(TabToJson(back)) = Kept(TabToJson(tab))
  BY <1>1 DEF Kept, TabToJson
<1>3. QED
  BY <1>2 DEF back

\* A session comes back, tab by tab.
LEMMA SessionBack ==
    ASSUME NEW session, SoundSession(session)
    PROVE  LET back == SessionFromJson(SessionToJson(session))
           IN  /\ SoundSession(back) /\ back.id = session.id
               /\ SessionPaneIds(back) = SessionPaneIds(session)
               /\ KeptSession(SessionToJson(back)) = KeptSession(SessionToJson(session))
<1> DEFINE json == SessionToJson(session)
           back == SessionFromJson(json)
           tabs == session.tabs
           n == Len(tabs)
           Back(tab) == TabFromJson(TabToJson(tab))
<1>1. /\ session \in Session /\ session.id \in Nat /\ session.active \in Nat
      /\ tabs \in Seq(Tab) /\ Keyed(tabs, Tab) /\ session.active \in IdsOf(tabs)
      /\ \A tab \in Range(tabs) : SoundTab(tab)
      /\ \A tab, other \in Range(tabs) :
             tab.id # other.id => PaneIds(tab) \cap PaneIds(other) = {}
  BY SessionFacts
<1>2. /\ n \in Nat /\ DOMAIN tabs = 1 .. n /\ \A i \in 1 .. n : tabs[i] \in Range(tabs)
      /\ Range(tabs) = {tabs[i] : i \in 1 .. n}
      /\ \A i, j \in 1 .. n : tabs[i].id = tabs[j].id => i = j
  BY <1>1, Items DEF Range, Keyed
<1>3. ASSUME NEW i \in 1 .. n
      PROVE  /\ SoundTab(Back(tabs[i])) /\ Back(tabs[i]).id = tabs[i].id
             /\ PaneIds(Back(tabs[i])) = PaneIds(tabs[i])
             /\ Kept(TabToJson(Back(tabs[i]))) = Kept(TabToJson(tabs[i]))
  BY <1>1, <1>2, TabBack, TabKept
<1>4. json = [id |-> session.id, active_tab_id |-> session.active,
              tabs |-> [i \in 1 .. n |-> TabToJson(tabs[i])]]
  BY <1>2 DEF SessionToJson
<1>5. /\ json.id = session.id /\ json.active_tab_id = session.active /\ DOMAIN json.tabs = 1 .. n
      /\ \A i \in 1 .. n : json.tabs[i] = TabToJson(tabs[i])
  BY <1>4
<1>6. /\ DOMAIN Ids(json.tabs) = 1 .. n
      /\ \A i \in 1 .. n : Ids(json.tabs)[i] = tabs[i].id
  <2>1. \A i \in 1 .. n : TabToJson(tabs[i]).id = tabs[i].id
    BY DEF TabToJson
  <2> HIDE DEF json
  <2>2. Ids(json.tabs) = [i \in 1 .. n |-> json.tabs[i].id]
    BY <1>5 DEF Ids
  <2>3. QED
    BY <1>5, <2>1, <2>2
<1>7. Found(Ids(json.tabs), session.active) = session.active
  <2>1. \E i \in 1 .. n : tabs[i].id = session.active
    BY <1>1, <1>2 DEF IdsOf
  <2>2. QED
    BY <1>6, <2>1 DEF Found
<1>8. back = [id |-> session.id, tabs |-> [i \in DOMAIN json.tabs |-> TabFromJson(json.tabs[i])],
              active |-> session.active]
  BY <1>5, <1>7 DEF SessionFromJson
<1> HIDE DEF json, back
<1>9. /\ back.id = session.id /\ back.active = session.active
      /\ back.tabs = [i \in DOMAIN json.tabs |-> TabFromJson(json.tabs[i])]
  BY <1>8
<1>10. back.tabs = [i \in 1 .. n |-> Back(tabs[i])]
  BY <1>5, <1>9
<1> HIDE DEF Back
<1>11. \A i \in 1 .. n : Back(tabs[i]) \in Tab
  BY <1>3 DEF SoundTab
<1>12. /\ back.tabs \in Seq(Tab) /\ Len(back.tabs) = n /\ DOMAIN back.tabs = 1 .. n
       /\ \A i \in 1 .. n : back.tabs[i] = Back(tabs[i])
  BY <1>2, <1>10, <1>11
<1>13. back \in Session
  BY <1>1, <1>8, <1>9, <1>12 DEF Session
<1>14. Keyed(back.tabs, Tab)
  <2>1. \A i, j \in 1 .. Len(back.tabs) : back.tabs[i].id = back.tabs[j].id => i = j
    BY <1>2, <1>3, <1>12
  <2>2. QED
    BY <1>12, <2>1, Items DEF Keyed
<1>15. Range(back.tabs) = {Back(tabs[i]) : i \in 1 .. n}
  BY <1>12 DEF Range
<1>16. IdsOf(back.tabs) = IdsOf(tabs)
  <2>1. IdsOf(back.tabs) = {Back(tabs[i]).id : i \in 1 .. n}
    BY <1>15 DEF IdsOf
  <2>2. IdsOf(tabs) = {tabs[i].id : i \in 1 .. n}
    BY <1>2 DEF IdsOf
  <2>3. QED
    BY <1>3, <2>1, <2>2
<1>17. \A tab \in Range(back.tabs) : SoundTab(tab)
  BY <1>3, <1>15
<1>18. ASSUME NEW tab \in Range(back.tabs), NEW other \in Range(back.tabs), tab.id # other.id
       PROVE  PaneIds(tab) \cap PaneIds(other) = {}
  <2>1. PICK i \in 1 .. n, j \in 1 .. n : tab = Back(tabs[i]) /\ other = Back(tabs[j])
    BY <1>15
  <2>2. /\ tab.id = tabs[i].id /\ PaneIds(tab) = PaneIds(tabs[i])
        /\ other.id = tabs[j].id /\ PaneIds(other) = PaneIds(tabs[j])
    BY <1>3, <2>1
  <2>3. QED
    BY <1>1, <1>2, <1>18, <2>2
<1>19. SoundSession(back)
  BY <1>1, <1>9, <1>13, <1>14, <1>16, <1>17, <1>18, SoundSessionIf
<1>20. SessionPaneIds(back) = SessionPaneIds(session)
  BY <1>2, <1>3, <1>15 DEF SessionPaneIds
<1>21. KeptSession(SessionToJson(back)) = KeptSession(SessionToJson(session))
  <2>1. \A i \in 1 .. n : Kept(TabToJson(back.tabs[i])) = Kept(TabToJson(tabs[i]))
    BY <1>3, <1>12
  <2>2. ASSUME NEW s, s.id = session.id, s.active = session.active, DOMAIN s.tabs = 1 .. n
        PROVE  KeptSession(SessionToJson(s)) =
                   [id |-> session.id, active_tab_id |-> session.active,
                    tabs |-> [i \in 1 .. n |-> Kept(TabToJson(s.tabs[i]))]]
    <3> DEFINE made == [i \in DOMAIN s.tabs |-> TabToJson(s.tabs[i])]
               record == SessionToJson(s)
    <3>1. record = [id |-> session.id, active_tab_id |-> session.active, tabs |-> made]
      BY <2>2 DEF SessionToJson
    <3>2. DOMAIN made = 1 .. n /\ \A i \in 1 .. n : made[i] = TabToJson(s.tabs[i])
      BY <2>2
    <3> HIDE DEF made, record
    <3>3. KeptSession(record) = [record EXCEPT !.tabs = [j \in 1 .. n |-> Kept(made[j])]]
      BY <3>1, <3>2 DEF KeptSession
    <3>4. [j \in 1 .. n |-> Kept(made[j])] = [j \in 1 .. n |-> Kept(TabToJson(s.tabs[j]))]
      BY <3>2
    <3>5. QED
      BY <3>1, <3>3, <3>4 DEF record
  <2>3. KeptSession(SessionToJson(back)) =
            [id |-> session.id, active_tab_id |-> session.active,
             tabs |-> [i \in 1 .. n |-> Kept(TabToJson(back.tabs[i]))]]
    BY <1>9, <1>12, <2>2
  <2>4. KeptSession(SessionToJson(session)) =
            [id |-> session.id, active_tab_id |-> session.active,
             tabs |-> [i \in 1 .. n |-> Kept(TabToJson(tabs[i]))]]
    BY <1>2, <2>2
  <2>5. QED
    BY <2>1, <2>3, <2>4
<1>22. QED
  BY <1>9, <1>19, <1>20, <1>21 DEF back, json

\* A layout comes back, session by session, with the session that was active if there was one.
LEMMA LayoutBack ==
    ASSUME NEW state, Sound(state), state.sessions # <<>>
    PROVE  LET back == FromJson(AsJson(state))
           IN  /\ Sound(back) /\ back.active \in IdsOf(back.sessions)
               /\ Remembered(AsJson(back)) = Remembered(AsJson(state))
               /\ AsJson(state).active_session_id \in {0, back.active}
               /\ Len(back.sessions) = Len(AsJson(state).sessions)
<1> DEFINE json == AsJson(state)
           back == FromJson(json)
           sessions == state.sessions
           n == Len(sessions)
           Back(session) == SessionFromJson(SessionToJson(session))
<1>1. /\ state \in Layouts /\ sessions \in Seq(Session) /\ state.active \in Nat
      /\ Keyed(sessions, Session) /\ state.active \in IdsOf(sessions) \cup {0}
      /\ \A session \in Range(sessions) : SoundSession(session)
      /\ \A session, other \in Range(sessions) :
             session.id # other.id => SessionPaneIds(session) \cap SessionPaneIds(other) = {}
  BY LayoutFacts
<1>2. /\ n \in Nat /\ DOMAIN sessions = 1 .. n /\ \A i \in 1 .. n : sessions[i] \in Range(sessions)
      /\ Range(sessions) = {sessions[i] : i \in 1 .. n}
      /\ \A i, j \in 1 .. n : sessions[i].id = sessions[j].id => i = j
  BY <1>1, Items DEF Range, Keyed
<1>3. ASSUME NEW i \in 1 .. n
      PROVE  /\ SoundSession(Back(sessions[i])) /\ Back(sessions[i]).id = sessions[i].id
             /\ SessionPaneIds(Back(sessions[i])) = SessionPaneIds(sessions[i])
             /\ KeptSession(SessionToJson(Back(sessions[i]))) =
                    KeptSession(SessionToJson(sessions[i]))
  BY <1>1, <1>2, SessionBack
<1>4. json = [kind |-> "layout", active_session_id |-> state.active,
              sessions |-> [i \in 1 .. n |-> SessionToJson(sessions[i])]]
  BY <1>2 DEF AsJson
<1>5. /\ json.active_session_id = state.active /\ DOMAIN json.sessions = 1 .. n
      /\ \A i \in 1 .. n : json.sessions[i] = SessionToJson(sessions[i])
  BY <1>4
<1>6. n > 0 /\ 1 \in 1 .. n /\ json.sessions # <<>>
  <2>1. n > 0
    BY <1>1, <1>2
  <2>2. DOMAIN json.sessions # DOMAIN <<>>
    BY <1>2, <1>5, <2>1
  <2>3. QED
    BY <1>2, <2>1, <2>2
<1>7. /\ DOMAIN Ids(json.sessions) = 1 .. n
      /\ \A i \in 1 .. n : Ids(json.sessions)[i] = sessions[i].id
  <2>1. \A i \in 1 .. n : SessionToJson(sessions[i]).id = sessions[i].id
    BY DEF SessionToJson
  <2> HIDE DEF json
  <2>2. Ids(json.sessions) = [i \in 1 .. n |-> json.sessions[i].id]
    BY <1>5 DEF Ids
  <2>3. QED
    BY <1>5, <2>1, <2>2
<1> DEFINE active2 == Found(Ids(json.sessions), state.active)
<1>8. active2 \in IdsOf(sessions) /\ state.active \in {0, active2}
  <2>1. \A i \in 1 .. n : sessions[i].id \in IdsOf(sessions)
    BY <1>2 DEF IdsOf
  <2>2. CASE \E i \in 1 .. n : sessions[i].id = state.active
    <3>1. active2 = state.active
      BY <1>7, <2>2 DEF Found
    <3>2. QED
      BY <2>1, <2>2, <3>1
  <2>3. CASE ~\E i \in 1 .. n : sessions[i].id = state.active
    <3>1. active2 = sessions[1].id
      BY <1>6, <1>7, <2>3 DEF Found
    <3>2. state.active \notin IdsOf(sessions)
      BY <1>2, <2>3 DEF IdsOf
    <3>3. QED
      BY <1>1, <1>6, <2>1, <3>1, <3>2
  <2>4. QED
    BY <2>2, <2>3
<1>9. back = [sessions |-> [i \in DOMAIN json.sessions |-> SessionFromJson(json.sessions[i])],
              active |-> active2]
  BY <1>5, <1>6 DEF FromJson
<1> HIDE DEF json, back, active2
<1>10. /\ back.active = active2
       /\ back.sessions = [i \in DOMAIN json.sessions |-> SessionFromJson(json.sessions[i])]
  BY <1>9
<1>11. back.sessions = [i \in 1 .. n |-> Back(sessions[i])]
  BY <1>5, <1>10
<1> HIDE DEF Back
<1>12. \A i \in 1 .. n : Back(sessions[i]) \in Session
  BY <1>3 DEF SoundSession
<1>13. /\ back.sessions \in Seq(Session) /\ Len(back.sessions) = n
       /\ DOMAIN back.sessions = 1 .. n
       /\ \A i \in 1 .. n : back.sessions[i] = Back(sessions[i])
  BY <1>2, <1>11, <1>12
<1>14. \A session \in Range(sessions) : session.id \in Nat
  BY <1>1, SessionFacts
<1>15. active2 \in Nat
  BY <1>8, <1>14 DEF IdsOf
<1>16. back \in Layouts
  BY <1>9, <1>10, <1>13, <1>15 DEF Layouts
<1>17. Keyed(back.sessions, Session)
  <2>1. \A i, j \in 1 .. Len(back.sessions) : back.sessions[i].id = back.sessions[j].id => i = j
    BY <1>2, <1>3, <1>13
  <2>2. QED
    BY <1>13, <2>1, Items DEF Keyed
<1>18. Range(back.sessions) = {Back(sessions[i]) : i \in 1 .. n}
  BY <1>13 DEF Range
<1>19. IdsOf(back.sessions) = IdsOf(sessions)
  BY <1>2, <1>3, <1>18 DEF IdsOf
<1>20. \A session \in Range(back.sessions) : SoundSession(session)
  BY <1>3, <1>18
<1>21. \A session, other \in Range(back.sessions) :
          session.id # other.id => SessionPaneIds(session) \cap SessionPaneIds(other) = {}
  BY <1>1, <1>2, <1>3, <1>18
<1>22. back.active \in IdsOf(back.sessions)
  BY <1>8, <1>10, <1>19
<1>23. Sound(back)
  BY <1>16, <1>17, <1>20, <1>21, <1>22, SoundIf
<1>24. Remembered(AsJson(back)) = Remembered(AsJson(state))
  <2>1. ASSUME NEW s, DOMAIN s.sessions = 1 .. n
        PROVE  Remembered(AsJson(s)) = [i \in 1 .. n |-> KeptSession(SessionToJson(s.sessions[i]))]
    BY <2>1 DEF Remembered, AsJson, KeptSession, Kept
  <2>2. Remembered(AsJson(back)) =
            [i \in 1 .. n |-> KeptSession(SessionToJson(back.sessions[i]))]
    BY <1>13, <2>1
  <2>3. Remembered(AsJson(state)) =
            [i \in 1 .. n |-> KeptSession(SessionToJson(sessions[i]))]
    BY <1>2, <2>1
  <2>4. \A i \in 1 .. n : KeptSession(SessionToJson(back.sessions[i])) =
                              KeptSession(SessionToJson(sessions[i]))
    BY <1>3, <1>13
  <2>5. QED
    BY <2>2, <2>3, <2>4
<1>25. Len(back.sessions) = Len(json.sessions)
  <2>1. json.sessions = [i \in 1 .. n |-> SessionToJson(sessions[i])]
    BY <1>4
  <2>2. Len(json.sessions) = n
    BY <1>2, <2>1
  <2>3. QED
    BY <1>13, <2>2
<1>26. QED
  BY <1>5, <1>8, <1>10, <1>22, <1>23, <1>24, <1>25 DEF back, json

-----------------------------------------------------------------------------
(* Ids to come *)

HasLargest(T) == \E x \in T : \A y \in T : x >= y

\* A set of natural numbers has a least one.
LEMMA Least ==
    ASSUME NEW T \in SUBSET Nat, T # {}
    PROVE  \E n \in T : \A m \in T : ~(m < n)
<1> DEFINE R == OpToRel(<, Nat)
<1>1. PICK n \in T : \A m \in T : <<m, n>> \notin R
  BY WFMin, NatLessThanWellFounded, Zenon
<1>2. \A m, k \in Nat : m < k => <<m, k>> \in R
  BY DEF OpToRel
<1> HIDE DEF R
<1>3. \A m \in T : ~(m < n)
  BY <1>1, <1>2
<1>4. QED
  BY <1>3

\* A finite one has a largest one: the smallest subset without one would have one.
LEMMA Largest ==
    ASSUME NEW T \in SUBSET Nat, IsFiniteSet(T), T # {}
    PROVE  Max(T) \in T /\ \A y \in T : Max(T) >= y
<1> DEFINE Bad(U) == U # {} /\ ~HasLargest(U)
           B == {n \in Nat : \E U \in SUBSET T : Bad(U) /\ Cardinality(U) = n}
<1>1. B = {}
  <2> SUFFICES ASSUME B # {} PROVE FALSE
    OBVIOUS
  <2>1. PICK n \in B : \A m \in B : ~(m < n)
    BY Least
  <2>2. PICK U \in SUBSET T : Bad(U) /\ Cardinality(U) = n
    OBVIOUS
  <2>3. PICK x : x \in U
    BY <2>2
  <2>4. IsFiniteSet(U)
    BY FS_Subset
  <2> DEFINE V == U \ {x}
  <2>5. IsFiniteSet(V) /\ Cardinality(V) = n - 1 /\ V \in SUBSET T
    BY <2>2, <2>3, <2>4, FS_RemoveElement
  <2>6. Cardinality(V) \in Nat /\ Cardinality(V) < n
    BY <2>5, FS_CardinalityType
  <2>7. Cardinality(V) \notin B
    BY <2>1, <2>6
  <2>8. ~Bad(V)
    BY <2>5, <2>6, <2>7
  <2>9. CASE V = {}
    <3>1. U = {x} /\ x \in Nat
      BY <2>3, <2>9
    <3>2. HasLargest(U)
      BY <3>1 DEF HasLargest
    <3>3. QED
      BY <2>2, <3>2
  <2>10. CASE V # {}
    <3>1. PICK m \in V : \A y \in V : m >= y
      BY <2>8, <2>10 DEF HasLargest
    <3>2. m \in Nat /\ x \in Nat /\ m \in U /\ \A y \in U : y \in Nat /\ (y = x \/ m >= y)
      BY <2>3, <3>1
    <3>3. HasLargest(U)
      <4>1. CASE m >= x
        BY <3>2, <4>1 DEF HasLargest
      <4>2. CASE ~(m >= x)
        <5>1. \A y \in U : x >= y
          BY <3>2, <4>2
        <5>2. QED
          BY <2>3, <5>1 DEF HasLargest
      <4>3. QED
        BY <4>1, <4>2
    <3>4. QED
      BY <2>2, <3>3
  <2>11. QED
    BY <2>9, <2>10
<1>2. Cardinality(T) \in Nat
  BY FS_CardinalityType
<1>3. HasLargest(T)
  BY <1>1, <1>2
<1>4. QED
  BY <1>3 DEF HasLargest, Max

\* What a sequence holds is finite.
LEMMA FiniteRange ==
    ASSUME NEW S, NEW seq \in Seq(S)
    PROVE  IsFiniteSet(Range(seq))
<1>1. IsFiniteSet(1 .. Len(seq))
  BY FS_Interval
<1>2. Range(seq) = {seq[i] : i \in 1 .. Len(seq)}
  BY DEF Range
<1> DEFINE f == [i \in 1 .. Len(seq) |-> seq[i]]
<1>3. f \in Surjection(1 .. Len(seq), Range(seq))
  BY <1>2 DEF Surjection
<1>4. QED
  BY <1>1, <1>3, FS_Surjection

\* What is taken of each of finitely many things is finite.
LEMMA FiniteIds ==
    ASSUME NEW T, IsFiniteSet(T)
    PROVE  IsFiniteSet(IdSet(T))
<1> DEFINE f == [x \in T |-> x.id]
<1>1. f \in Surjection(T, IdSet(T))
  BY DEF Surjection, IdSet
<1>2. QED
  BY <1>1, FS_Surjection

LEMMA FiniteTabs ==
    ASSUME NEW T, IsFiniteSet(T)
    PROVE  IsFiniteSet({Range(session.tabs) : session \in T})
<1> DEFINE f == [x \in T |-> Range(x.tabs)]
<1>1. f \in Surjection(T, {Range(session.tabs) : session \in T})
  BY DEF Surjection
<1>2. QED
  BY <1>1, FS_Surjection

LEMMA FinitePanes ==
    ASSUME NEW T, IsFiniteSet(T)
    PROVE  IsFiniteSet({Range(tab.panes) : tab \in T})
<1> DEFINE f == [x \in T |-> Range(x.panes)]
<1>1. f \in Surjection(T, {Range(tab.panes) : tab \in T})
  BY DEF Surjection
<1>2. QED
  BY <1>1, FS_Surjection

\* The ids a restored layout goes on with are new: they are beyond the largest of each kind.
LEMMA NextIdsLemma ==
    ASSUME NEW state, Sound(state), state.active \in IdsOf(state.sessions)
    PROVE  /\ Below(state, NextIds(state))
           /\ NextIds(state) \in [session : Nat, tab : Nat, pane : Nat]
<1> DEFINE sessions == Range(state.sessions)
           tabs == TabsOf(state)
           panes == PanesOf(state)
<1>1. /\ state.sessions \in Seq(Session) /\ sessions # {}
      /\ \A session \in sessions : SoundSession(session)
  BY LayoutFacts DEF IdsOf
<1>2. ASSUME NEW session \in sessions
      PROVE  /\ session.id \in Nat /\ session.tabs \in Seq(Tab) /\ Range(session.tabs) # {}
             /\ \A tab \in Range(session.tabs) : SoundTab(tab)
  BY <1>1, SessionFacts DEF IdsOf
<1>3. ASSUME NEW tab, SoundTab(tab)
      PROVE  /\ tab.id \in Nat /\ tab.panes \in Seq(Pane) /\ Range(tab.panes) # {}
             /\ PaneIds(tab) = IdSet(Range(tab.panes))
             /\ \A pane \in Range(tab.panes) : pane.id \in Nat
  <2>1. tab \in Tab /\ tab.active \in PaneIds(tab)
    BY <1>3 DEF SoundTab
  <2>2. /\ tab.id \in Nat /\ tab.panes \in Seq(Pane) /\ PaneIds(tab) = IdsOf(tab.panes)
        /\ PaneIds(tab) \subseteq Nat
    BY <2>1, TabFacts
  <2>3. QED
    BY <2>1, <2>2 DEF IdsOf, IdSet
<1>4. tabs = UNION {Range(session.tabs) : session \in sessions}
  BY DEF TabsOf
<1>5. panes = UNION {Range(tab.panes) : tab \in tabs}
  BY DEF PanesOf
<1>6. \A tab \in tabs : SoundTab(tab)
  BY <1>2, <1>4
<1>7. IsFiniteSet(sessions)
  BY <1>1, FiniteRange
<1> HIDE DEF sessions, tabs, panes
<1>8. IsFiniteSet(tabs)
  <2>1. IsFiniteSet({Range(session.tabs) : session \in sessions})
    BY <1>7, FiniteTabs
  <2>2. \A T \in {Range(session.tabs) : session \in sessions} : IsFiniteSet(T)
    BY <1>2, FiniteRange
  <2>3. QED
    BY <1>4, <2>1, <2>2, FS_UNION
<1>9. IsFiniteSet(panes)
  <2>1. IsFiniteSet({Range(tab.panes) : tab \in tabs})
    BY <1>8, FinitePanes
  <2>2. \A T \in {Range(tab.panes) : tab \in tabs} : IsFiniteSet(T)
    BY <1>3, <1>6, FiniteRange
  <2>3. QED
    BY <1>5, <2>1, <2>2, FS_UNION
<1>10. tabs # {} /\ panes # {}
  <2>1. PICK session : session \in sessions
    BY <1>1
  <2>2. PICK tab : tab \in Range(session.tabs)
    BY <1>2, <2>1
  <2>3. tab \in tabs
    BY <1>4, <2>1, <2>2
  <2>4. PICK pane : pane \in Range(tab.panes)
    BY <1>3, <1>6, <2>3
  <2>5. pane \in panes
    BY <1>5, <2>3, <2>4
  <2>6. QED
    BY <2>3, <2>5
<1>11. /\ \A tab \in tabs : tab.id \in Nat
       /\ \A pane \in panes : pane.id \in Nat
  BY <1>3, <1>5, <1>6
<1>12. /\ Max(IdSet(sessions)) \in Nat /\ \A session \in sessions : Max(IdSet(sessions)) >= session.id
       /\ Max(IdSet(tabs)) \in Nat /\ \A tab \in tabs : Max(IdSet(tabs)) >= tab.id
       /\ Max(IdSet(panes)) \in Nat /\ \A pane \in panes : Max(IdSet(panes)) >= pane.id
  <2>1. ASSUME NEW T, IsFiniteSet(T), T # {}, \A x \in T : x.id \in Nat
        PROVE  Max(IdSet(T)) \in Nat /\ \A x \in T : Max(IdSet(T)) >= x.id
    <3>1. IdSet(T) \in SUBSET Nat /\ IdSet(T) # {} /\ \A x \in T : x.id \in IdSet(T)
      BY <2>1 DEF IdSet
    <3>2. IsFiniteSet(IdSet(T))
      BY <2>1, FiniteIds
    <3>3. Max(IdSet(T)) \in IdSet(T) /\ \A y \in IdSet(T) : Max(IdSet(T)) >= y
      BY <3>1, <3>2, Largest
    <3>4. QED
      BY <3>1, <3>3
  <2>2. QED
    BY <1>1, <1>2, <1>7, <1>8, <1>9, <1>10, <1>11, <2>1
<1> DEFINE ids == NextIds(state)
<1>13. ids = [session |-> Max(IdSet(sessions)) + 1, tab |-> Max(IdSet(tabs)) + 1,
              pane |-> Max(IdSet(panes)) + 1]
  BY DEF NextIds, sessions, tabs, panes
<1> HIDE DEF ids
<1>14. ids \in [session : Nat, tab : Nat, pane : Nat]
  BY <1>12, <1>13
<1>15. ASSUME NEW session \in sessions, NEW tab \in Range(session.tabs)
       PROVE  TabBelow(tab, ids)
  <2>1. tab \in tabs /\ SoundTab(tab)
    BY <1>4, <1>6
  <2>2. \A pane \in Range(tab.panes) : pane \in panes
    BY <1>5, <2>1
  <2>3. \A pane \in Range(tab.panes) : pane.id < ids.pane
    BY <1>11, <1>12, <1>13, <2>2
  <2>4. \A p \in PaneIds(tab) : p < ids.pane
    BY <1>3, <2>1, <2>3 DEF IdSet
  <2>5. tab.id < ids.tab
    BY <1>11, <1>12, <1>13, <2>1
  <2>6. QED
    BY <2>4, <2>5 DEF TabBelow
<1>16. \A session \in sessions : session.id < ids.session
  BY <1>2, <1>12, <1>13
<1>17. Below(state, ids)
  BY <1>15, <1>16 DEF Below, SessionBelow, sessions
<1>18. QED
  BY <1>14, <1>17 DEF ids

-----------------------------------------------------------------------------
(* The operations on the layout *)

NextIdsType == [session : Nat, tab : Nat, pane : Nat]

\* A layout that is in use: something is active, and the ids to come are new.
Good(state, ids) ==
    /\ Sound(state)
    /\ state.active \in IdsOf(state.sessions)
    /\ Below(state, ids)

\* Ids that are not below the next ones are of nothing.
LEMMA FreshIds ==
    ASSUME NEW state, Sound(state), NEW ids \in NextIdsType, Below(state, ids)
    PROVE  /\ ids.session \notin IdsOf(state.sessions)
           /\ \A session \in Range(state.sessions) :
                  /\ ids.tab \notin IdsOf(session.tabs)
                  /\ {ids.pane} \cap SessionPaneIds(session) = {}
<1>1. ids.session \in Nat /\ ids.tab \in Nat /\ ids.pane \in Nat
  BY DEF NextIdsType
<1>2. ids.session \notin IdsOf(state.sessions)
  BY <1>1 DEF IdsOf, Below, SessionBelow
<1>3. ASSUME NEW session \in Range(state.sessions)
      PROVE  ids.tab \notin IdsOf(session.tabs) /\ {ids.pane} \cap SessionPaneIds(session) = {}
  <2>1. \A tab \in Range(session.tabs) : tab.id < ids.tab /\ \A p \in PaneIds(tab) : p < ids.pane
    BY DEF Below, SessionBelow, TabBelow
  <2>2. ids.tab \notin IdsOf(session.tabs)
    BY <1>1, <2>1 DEF IdsOf
  <2>3. \A tab \in Range(session.tabs) : ids.pane \notin PaneIds(tab)
    BY <1>1, <2>1
  <2>4. ids.pane \notin SessionPaneIds(session)
    BY <2>3 DEF SessionPaneIds
  <2>5. QED
    BY <2>2, <2>4
<1>4. QED
  BY <1>2, <1>3

\* Ids only grow.
LEMMA BelowMore ==
    ASSUME NEW state, Sound(state), NEW ids \in NextIdsType, NEW more \in NextIdsType,
           Below(state, ids),
           ids.session <= more.session, ids.tab <= more.tab, ids.pane <= more.pane
    PROVE  Below(state, more)
<1>1. /\ ids.session \in Nat /\ ids.tab \in Nat /\ ids.pane \in Nat
      /\ more.session \in Nat /\ more.tab \in Nat /\ more.pane \in Nat
  BY DEF NextIdsType
<1>2. ASSUME NEW session \in Range(state.sessions), NEW tab \in Range(session.tabs)
      PROVE  TabBelow(tab, more)
  <2>1. SoundTab(tab) /\ tab.id \in Nat /\ PaneIds(tab) \subseteq Nat
    BY LayoutFacts, SessionFacts, TabFacts
  <2>2. tab.id < ids.tab /\ \A p \in PaneIds(tab) : p < ids.pane
    BY DEF Below, SessionBelow, TabBelow
  <2>3. tab.id < more.tab
    BY <1>1, <2>1, <2>2
  <2>4. \A p \in PaneIds(tab) : p < more.pane
    BY <1>1, <2>1, <2>2
  <2>5. QED
    BY <2>3, <2>4 DEF TabBelow
<1>3. ASSUME NEW session \in Range(state.sessions) PROVE session.id < more.session
  <2>1. session.id \in Nat
    BY LayoutFacts, SessionFacts
  <2>2. session.id < ids.session
    BY DEF Below, SessionBelow
  <2>3. QED
    BY <1>1, <2>1, <2>2
<1>4. QED
  BY <1>2, <1>3 DEF Below, SessionBelow

\* What is active is found at each level.
LEMMA ActiveFacts ==
    ASSUME Sound(layout), layout.active \in IdsOf(layout.sessions)
    PROVE  /\ ActiveSession \in Range(layout.sessions) /\ ActiveSession.id = layout.active
           /\ SoundSession(ActiveSession)
           /\ ActiveTab \in Range(ActiveSession.tabs) /\ ActiveTab.id = ActiveSession.active
           /\ SoundTab(ActiveTab)
           /\ ActivePane \in Range(ActiveTab.panes) /\ ActivePane.cwd \in Directories
<1>1. ActiveSession \in Range(layout.sessions) /\ ActiveSession.id = layout.active
  BY LayoutFacts, FindLemma DEF ActiveSession
<1>2. SoundSession(ActiveSession)
  BY <1>1, LayoutFacts
<1> DEFINE session == ActiveSession
<1> HIDE DEF session
<1>3. SoundSession(session)
  BY <1>2 DEF session
<1>4. Find(session.tabs, session.active) \in Range(session.tabs)
      /\ Find(session.tabs, session.active).id = session.active
  BY <1>3, SessionFacts, FindLemma
<1>5. ActiveTab \in Range(ActiveSession.tabs) /\ ActiveTab.id = ActiveSession.active
  BY <1>4 DEF session, ActiveTab
<1>6. SoundTab(ActiveTab)
  BY <1>2, <1>5, SessionFacts
<1> DEFINE tab == ActiveTab
<1> HIDE DEF tab
<1>7. SoundTab(tab) /\ tab \in Tab
  BY <1>6 DEF tab, SoundTab
<1>8. Keyed(tab.panes, Pane) /\ tab.active \in IdsOf(tab.panes) /\ Range(tab.panes) \subseteq Pane
  BY <1>7, TabFacts, Items DEF SoundTab
<1>9. Find(tab.panes, tab.active) \in Range(tab.panes)
  BY <1>8, FindLemma
<1>10. ActivePane \in Range(ActiveTab.panes)
  BY <1>9 DEF tab, ActivePane
<1>11. ActivePane \in Pane
  BY <1>8, <1>10 DEF tab
<1>12. QED
  BY <1>1, <1>2, <1>5, <1>6, <1>10, <1>11 DEF Pane

\* A session of the layout is changed.
LEMMA SessionSet ==
    ASSUME NEW state, NEW ids \in NextIdsType, Good(state, ids), NEW more \in NextIdsType,
           ids.session <= more.session, ids.tab <= more.tab, ids.pane <= more.pane,
           NEW session, SoundSession(session), NEW old \in Range(state.sessions),
           old.id = session.id, NEW extra \in {{}, {ids.pane}},
           SessionPaneIds(session) \subseteq SessionPaneIds(old) \cup extra,
           SessionBelow(session, more),
           NEW active \in IdsOf(state.sessions)
    PROVE  Good([sessions |-> Put(state.sessions, session), active |-> active], more)
<1> DEFINE new == [sessions |-> Put(state.sessions, session), active |-> active]
<1>1. /\ Sound(state) /\ Below(state, ids)
      /\ Keyed(state.sessions, Session) /\ \A s \in Range(state.sessions) : s.id \in Nat
  BY LayoutFacts, SessionFacts DEF Good
<1>2. session \in Session /\ session.id \in IdsOf(state.sessions) /\ active \in Nat
  BY <1>1, SessionFacts DEF IdsOf
<1>3. Put(state.sessions, session) \in Seq(Session)
  BY <1>1, <1>2, PutLemma DEF Keyed
<1>4. /\ new \in Layouts /\ new.sessions = Put(state.sessions, session) /\ new.active = active
  BY <1>2, <1>3 DEF Layouts
<1> HIDE DEF new
<1>5. \A other \in Range(state.sessions) : extra \cap SessionPaneIds(other) = {}
  BY <1>1, FreshIds
<1>6. new.active \in IdsOf(state.sessions) \cup {0}
  BY <1>4
<1>7. /\ Sound(new) /\ IdsOf(new.sessions) = IdsOf(state.sessions)
      /\ \A i : Below(state, i) /\ SessionBelow(session, i) => Below(new, i)
  <2>1. /\ Sound(state) /\ SoundSession(session) /\ old \in Range(state.sessions)
        /\ old.id = session.id
        /\ SessionPaneIds(session) \subseteq SessionPaneIds(old) \cup extra
    BY <1>1
  <2>2. QED
    BY <1>4, <1>5, <1>6, <2>1, PutSessionLemma, Zenon
<1>8. Below(state, more)
  BY <1>1, BelowMore
<1>9. Good(new, more)
  BY <1>4, <1>7, <1>8 DEF Good
<1>10. QED
  BY <1>9 DEF new

\* The active tab is changed (SetTab).
LEMMA TabSet ==
    ASSUME NEW ids \in NextIdsType, Good(layout, ids), NEW more \in NextIdsType,
           ids.session <= more.session, ids.tab <= more.tab, ids.pane <= more.pane,
           NEW tab, SoundTab(tab), tab.id = ActiveTab.id, NEW extra \in {{}, {ids.pane}},
           PaneIds(tab) \subseteq PaneIds(ActiveTab) \cup extra,
           \A p \in extra : p < more.pane
    PROVE  Good(SetTab(tab), more)
<1> DEFINE old == ActiveSession
           session == [old EXCEPT !.tabs = Put(@, tab)]
<1>1. /\ Sound(layout) /\ layout.active \in IdsOf(layout.sessions) /\ Below(layout, ids)
      /\ layout \in Layouts
  BY LayoutFacts DEF Good
<1>2. /\ old \in Range(layout.sessions) /\ SoundSession(old)
      /\ ActiveTab \in Range(old.tabs) /\ SoundTab(ActiveTab)
  BY <1>1, ActiveFacts
<1> DEFINE oldTab == ActiveTab
<1>3. /\ oldTab \in Range(old.tabs) /\ SoundTab(oldTab) /\ tab.id = oldTab.id
      /\ PaneIds(tab) \subseteq PaneIds(oldTab) \cup extra
  BY <1>2
<1>4. SetTab(tab) = [layout EXCEPT !.sessions = Put(@, session)]
  BY DEF SetTab, SetSession
<1> HIDE DEF old, oldTab
<1>5. /\ old \in Session /\ Keyed(old.tabs, Tab) /\ tab \in Tab /\ tab.id \in IdsOf(old.tabs)
      /\ old.active \in IdsOf(old.tabs)
  BY <1>2, <1>3, SessionFacts DEF SoundTab, IdsOf
<1>6. Put(old.tabs, tab) \in Seq(Tab)
  BY <1>5, PutLemma DEF Keyed
<1>7. /\ session \in Session /\ session.id = old.id /\ session.tabs = Put(old.tabs, tab)
      /\ session.active = old.active
  BY <1>5, <1>6 DEF Session
<1> HIDE DEF session
<1>8. Below(layout, more) /\ extra \cap SessionPaneIds(old) = {}
  BY <1>1, <1>2, BelowMore, FreshIds
<1>9. /\ SoundSession(session)
      /\ SessionPaneIds(session) \subseteq SessionPaneIds(old) \cup extra
      /\ \A i : SessionBelow(old, i) /\ TabBelow(tab, i) => SessionBelow(session, i)
  BY <1>2, <1>3, <1>5, <1>7, <1>8, PutTabLemma
<1>10. SessionBelow(old, more) /\ TabBelow(oldTab, more)
  BY <1>2, <1>3, <1>8 DEF Below, SessionBelow
<1>11. TabBelow(tab, more)
  BY <1>3, <1>10 DEF TabBelow
<1>12. SessionBelow(session, more)
  BY <1>9, <1>10, <1>11
<1>13. Good([sessions |-> Put(layout.sessions, session), active |-> layout.active], more)
  BY <1>1, <1>2, <1>7, <1>9, <1>12, SessionSet
<1>14. SetTab(tab) = [sessions |-> Put(layout.sessions, session), active |-> layout.active]
  BY <1>1, <1>4 DEF Layouts
<1>15. QED
  BY <1>13, <1>14

\* What the operations on a layout in use lead to.
InUse == Good(layout, next) /\ next \in NextIdsType

LEMMA IdsTyped ==
    ASSUME NEW ids \in NextIdsType
    PROVE  /\ ids.session \in Nat /\ ids.tab \in Nat /\ ids.pane \in Nat
           /\ ids.session <= ids.session /\ ids.tab <= ids.tab /\ ids.pane <= ids.pane
<1>1. ids.session \in Nat /\ ids.tab \in Nat /\ ids.pane \in Nat
  BY DEF NextIdsType
<1>2. QED
  BY <1>1

LEMMA AddPaneGood ==
    ASSUME InUse, AddPane
    PROVE  InUse'
<1> DEFINE at == Position(ActiveTab.panes, ActiveTab.active) + 1
           pane == [id |-> next.pane, cwd |-> ActivePane.cwd]
           tab == SetActive([ActiveTab EXCEPT !.panes = InsertAt(@, at, pane)], next.pane)
           old == ActiveTab
<1>1. /\ Sound(layout) /\ layout.active \in IdsOf(layout.sessions) /\ Below(layout, next)
      /\ next \in NextIdsType
  BY DEF InUse, Good
<1>2. /\ ActiveSession \in Range(layout.sessions) /\ SoundSession(ActiveSession)
      /\ old \in Range(ActiveSession.tabs) /\ SoundTab(old) /\ ActivePane.cwd \in Directories
  BY <1>1, ActiveFacts
<1>3. pane \in Pane /\ pane.id = next.pane
  BY <1>1, <1>2, IdsTyped DEF Pane
<1>4. next.pane \notin PaneIds(old)
  BY <1>1, <1>2, FreshIds, SessionFacts
<1>5. layout' = SetTab(tab)
  BY DEF AddPane
<1>6. next' = [next EXCEPT !.pane = @ + 1]
  BY DEF AddPane
<1>7. tab = SetActive([old EXCEPT !.panes = InsertAt(@, Position(old.panes, old.active) + 1, pane)],
                      pane.id)
  BY <1>3
<1> HIDE DEF tab, pane, old
<1>8. SoundTab(tab) /\ tab.id = old.id /\ PaneIds(tab) = PaneIds(old) \cup {next.pane}
  BY <1>2, <1>3, <1>4, <1>7, AddedPane
<1>9. /\ next' \in NextIdsType /\ next.session <= next'.session /\ next.tab <= next'.tab
      /\ next.pane <= next'.pane /\ next.pane < next'.pane
  BY <1>1, <1>6 DEF NextIdsType
<1>10. Good(SetTab(tab), next')
  <2>1. /\ tab.id = ActiveTab.id /\ {next.pane} \in {{}, {next.pane}}
        /\ PaneIds(tab) \subseteq PaneIds(ActiveTab) \cup {next.pane}
        /\ \A p \in {next.pane} : p < next'.pane
        /\ Good(layout, next)
    BY <1>1, <1>8, <1>9 DEF old, Good
  <2>2. QED
    BY <1>1, <1>8, <1>9, <2>1, TabSet
<1>11. QED
  BY <1>5, <1>9, <1>10 DEF InUse

LEMMA AddTabGood ==
    ASSUME InUse, AddTab
    PROVE  InUse'
<1> DEFINE old == ActiveSession
           tab == NewTab(next.tab, next.pane, ActivePane.cwd)
           session == [old EXCEPT !.tabs = Append(@, tab), !.active = next.tab]
<1>1. /\ Sound(layout) /\ layout.active \in IdsOf(layout.sessions) /\ Below(layout, next)
      /\ next \in NextIdsType /\ layout \in Layouts
  BY LayoutFacts DEF InUse, Good
<1>2. /\ old \in Range(layout.sessions) /\ SoundSession(old) /\ ActivePane.cwd \in Directories
  BY <1>1, ActiveFacts
<1>3. next.tab \in Nat /\ next.pane \in Nat
  BY <1>1, IdsTyped
<1>4. SoundTab(tab) /\ tab.id = next.tab /\ PaneIds(tab) = {next.pane}
  BY <1>2, <1>3, NewTabLemma
<1>5. layout' = [layout EXCEPT !.sessions = Put(@, session)]
  BY DEF AddTab, SetSession
<1>6. next' = [next EXCEPT !.tab = @ + 1, !.pane = @ + 1]
  BY DEF AddTab
<1> HIDE DEF old, tab
<1>7. /\ old \in Session /\ Keyed(old.tabs, Tab) /\ tab \in Tab
      /\ next.tab \notin IdsOf(old.tabs) /\ {next.pane} \cap SessionPaneIds(old) = {}
  BY <1>1, <1>2, <1>4, SessionFacts, FreshIds DEF SoundTab
<1>8. /\ session \in Session /\ session.id = old.id /\ session.tabs = Append(old.tabs, tab)
      /\ session.active = tab.id
  <2>1. Append(old.tabs, tab) \in Seq(Tab)
    BY <1>7 DEF Keyed
  <2>2. QED
    BY <1>3, <1>4, <1>7, <2>1 DEF Session
<1> HIDE DEF session
<1>9. /\ SoundSession(session)
      /\ SessionPaneIds(session) \subseteq SessionPaneIds(old) \cup {next.pane}
      /\ \A i : SessionBelow(old, i) /\ TabBelow(tab, i) => SessionBelow(session, i)
  BY <1>2, <1>4, <1>7, <1>8, AddTabLemma
<1>10. /\ next' \in NextIdsType /\ next.session <= next'.session /\ next.tab <= next'.tab
       /\ next.pane <= next'.pane /\ next.pane < next'.pane /\ next.tab < next'.tab
  <2>1. next' = [session |-> next.session, tab |-> next.tab + 1, pane |-> next.pane + 1]
    BY <1>1, <1>6 DEF NextIdsType
  <2>2. next.session \in Nat /\ next.tab \in Nat /\ next.pane \in Nat
    BY <1>1, IdsTyped
  <2>3. QED
    <3>1. next' \in NextIdsType
      BY <1>1, <2>1, <2>2 DEF NextIdsType
    <3>2. next'.session = next.session /\ next'.tab = next.tab + 1 /\ next'.pane = next.pane + 1
      BY <2>1
    <3>3. QED
      BY <2>2, <3>1, <3>2
<1>11. SessionBelow(old, next') /\ TabBelow(tab, next')
  <2>1. SessionBelow(old, next')
    BY <1>1, <1>2, <1>10, BelowMore DEF Below
  <2>2. TabBelow(tab, next')
    BY <1>4, <1>10 DEF TabBelow
  <2>3. QED
    BY <2>1, <2>2
<1>12. SessionBelow(session, next') /\ Good(layout, next) /\ {next.pane} \in {{}, {next.pane}}
  BY <1>1, <1>9, <1>11 DEF Good
<1>13. Good([sessions |-> Put(layout.sessions, session), active |-> layout.active], next')
  BY <1>1, <1>2, <1>8, <1>9, <1>10, <1>12, SessionSet
<1>14. layout' = [sessions |-> Put(layout.sessions, session), active |-> layout.active]
  BY <1>1, <1>5 DEF Layouts, session
<1>15. QED
  BY <1>10, <1>13, <1>14 DEF InUse

\* A new session has a tab and a pane, with the ids that come next.
LEMMA SessionAdded ==
    ASSUME NEW state, Sound(state), next \in NextIdsType, Below(state, next),
           NEW more \in NextIdsType, more.session = next.session + 1, more.tab = next.tab + 1,
           more.pane = next.pane + 1
    PROVE  Good(WithSession(state), more)
<1> DEFINE tab == NewTab(next.tab, next.pane, Home)
           session == [id |-> next.session, tabs |-> <<tab>>, active |-> next.tab]
           new == WithSession(state)
<1>1. next.session \in Nat /\ next.tab \in Nat /\ next.pane \in Nat /\ Home \in Directories
  BY SaveLayoutAssumption, IdsTyped
<1>2. SoundTab(tab) /\ tab.id = next.tab /\ PaneIds(tab) = {next.pane}
  BY <1>1, NewTabLemma
<1>3. new = [sessions |-> Append(state.sessions, session), active |-> next.session]
  BY DEF WithSession
<1> HIDE DEF tab, new
<1>4. session = [id |-> next.session, tabs |-> <<tab>>, active |-> tab.id]
  BY <1>2
<1>5. session.id = next.session
  OBVIOUS
<1> HIDE DEF session
<1>6. /\ SoundSession(session) /\ session \in Session /\ SessionPaneIds(session) = {next.pane}
      /\ \A ids : next.session < ids.session /\ TabBelow(tab, ids) => SessionBelow(session, ids)
  BY <1>1, <1>2, <1>4, NewSessionLemma
<1>7. /\ next.session \notin IdsOf(state.sessions)
      /\ \A other \in Range(state.sessions) : {next.pane} \cap SessionPaneIds(other) = {}
  BY FreshIds
<1>8. state.sessions \in Seq(Session)
  BY LayoutFacts
<1>9. /\ new \in Layouts /\ new.sessions = Append(state.sessions, session)
      /\ new.active = session.id
  <2>1. Append(state.sessions, session) \in Seq(Session)
    BY <1>6, <1>8
  <2>2. QED
    BY <1>1, <1>3, <1>5, <2>1 DEF Layouts
<1>10. /\ Sound(new) /\ new.active \in IdsOf(new.sessions)
       /\ \A ids : Below(state, ids) /\ SessionBelow(session, ids) => Below(new, ids)
  BY <1>5, <1>6, <1>7, <1>9, AppendSessionLemma
<1>11. /\ next.session <= more.session /\ next.tab <= more.tab /\ next.pane <= more.pane
       /\ next.session < more.session /\ next.tab < more.tab /\ next.pane < more.pane
  BY <1>1
<1>12. Below(state, more)
  BY <1>11, BelowMore
<1>13. TabBelow(tab, more)
  BY <1>2, <1>11 DEF TabBelow
<1>14. SessionBelow(session, more)
  BY <1>6, <1>11, <1>13
<1>15. Good(new, more)
  BY <1>10, <1>12, <1>14 DEF Good
<1>16. QED
  BY <1>15 DEF new

LEMMA AddSessionGood ==
    ASSUME InUse, AddSession
    PROVE  InUse'
<1>1. /\ layout' = WithSession(layout)
      /\ next' = [session |-> next.session + 1, tab |-> next.tab + 1, pane |-> next.pane + 1]
      /\ Sound(layout) /\ Below(layout, next) /\ next \in NextIdsType
  BY DEF AddSession, InUse, Good
<1>2. /\ next' \in NextIdsType /\ next'.session = next.session + 1
      /\ next'.tab = next.tab + 1 /\ next'.pane = next.pane + 1
  BY <1>1, IdsTyped DEF NextIdsType
<1>3. Good(WithSession(layout), next')
  BY <1>1, <1>2, SessionAdded
<1>4. QED
  BY <1>1, <1>2, <1>3 DEF InUse

LEMMA SelectPaneGood ==
    ASSUME InUse, SelectPane
    PROVE  InUse'
<1> DEFINE old == ActiveTab
<1>1. /\ Sound(layout) /\ layout.active \in IdsOf(layout.sessions) /\ next \in NextIdsType
      /\ Good(layout, next) /\ next' = next
  BY DEF InUse, Good, SelectPane
<1>2. PICK pane \in PaneIds(old) : layout' = SetTab(SetActive(old, pane))
  BY DEF SelectPane, PaneIds
<1>3. SoundTab(old)
  BY <1>1, ActiveFacts
<1> HIDE DEF old
<1>4. /\ old \in Tab /\ IsInjective(Ids(old.panes)) /\ IsInjective(old.recency)
      /\ Range(old.recency) \cup {pane} = PaneIds(old)
  BY <1>3 DEF SoundTab
<1>5. /\ SoundTab(SetActive(old, pane)) /\ SetActive(old, pane).id = old.id
      /\ PaneIds(SetActive(old, pane)) = PaneIds(old)
  BY <1>4, SetActiveLemma
<1>6. Good(SetTab(SetActive(old, pane)), next)
  <2>1. /\ SetActive(old, pane).id = ActiveTab.id
        /\ PaneIds(SetActive(old, pane)) \subseteq PaneIds(ActiveTab) \cup {}
        /\ {} \in {{}, {next.pane}} /\ \A p \in {} : p < next.pane
    BY <1>5 DEF old
  <2>2. QED
    BY <1>1, <1>5, <2>1, TabSet, IdsTyped
<1>7. QED
  BY <1>1, <1>2, <1>6 DEF InUse

LEMMA ToggleGood ==
    ASSUME InUse, ToggleFullScreen
    PROVE  InUse'
<1> DEFINE old == ActiveTab
           tab == [old EXCEPT !.full = IF @ = old.active THEN 0 ELSE old.active]
<1>1. /\ Sound(layout) /\ layout.active \in IdsOf(layout.sessions) /\ next \in NextIdsType
      /\ Good(layout, next) /\ next' = next /\ layout' = SetTab(tab)
  BY DEF InUse, Good, ToggleFullScreen
<1>2. SoundTab(old)
  BY <1>1, ActiveFacts
<1> HIDE DEF old
<1>3. SoundTab(tab) /\ tab.id = old.id /\ PaneIds(tab) = PaneIds(old)
  BY <1>2, Toggled
<1> HIDE DEF tab
<1>4. Good(SetTab(tab), next)
  <2>1. /\ tab.id = ActiveTab.id /\ PaneIds(tab) \subseteq PaneIds(ActiveTab) \cup {}
        /\ {} \in {{}, {next.pane}} /\ \A p \in {} : p < next.pane
    BY <1>3 DEF old
  <2>2. QED
    BY <1>1, <1>3, <2>1, TabSet, IdsTyped
<1>5. QED
  BY <1>1, <1>4 DEF InUse

LEMMA SelectTabGood ==
    ASSUME InUse, SelectTab
    PROVE  InUse'
<1>1. /\ Sound(layout) /\ next \in NextIdsType /\ Good(layout, next) /\ next' = next
      /\ Below(layout, next)
  BY DEF InUse, Good, SelectTab
<1>2. PICK session \in Range(layout.sessions) : \E tab \in Range(Ids(session.tabs)) :
          layout' = [sessions |-> Put(layout.sessions, [session EXCEPT !.active = tab]),
                     active |-> session.id]
  BY DEF SelectTab
<1>3. PICK tab \in Range(Ids(session.tabs)) :
          layout' = [sessions |-> Put(layout.sessions, [session EXCEPT !.active = tab]),
                     active |-> session.id]
  BY <1>2
<1>4. SoundSession(session) /\ session.tabs \in Seq(Tab)
  BY <1>1, LayoutFacts, SessionFacts
<1>5. tab \in IdsOf(session.tabs) /\ session.id \in IdsOf(layout.sessions)
  BY <1>4, Items DEF IdsOf
<1> DEFINE new == [session EXCEPT !.active = tab]
<1>6. /\ SoundSession(new) /\ new.id = session.id
      /\ SessionPaneIds(new) = SessionPaneIds(session)
      /\ \A ids : SessionBelow(session, ids) => SessionBelow(new, ids)
  BY <1>4, <1>5, SelectTabLemma
<1> HIDE DEF new
<1>7. /\ SessionBelow(new, next) /\ {} \in {{}, {next.pane}}
      /\ SessionPaneIds(new) \subseteq SessionPaneIds(session) \cup {}
  BY <1>1, <1>6 DEF Below
<1>8. Good([sessions |-> Put(layout.sessions, new), active |-> session.id], next)
  BY <1>1, <1>5, <1>6, <1>7, SessionSet, IdsTyped
<1>9. QED
  BY <1>1, <1>3, <1>8 DEF InUse, new

LEMMA UpdateCwdGood ==
    ASSUME InUse, UpdateCwd
    PROVE  InUse'
<1>1. /\ Sound(layout) /\ next \in NextIdsType /\ Good(layout, next) /\ next' = next
      /\ Below(layout, next) /\ layout \in Layouts /\ layout.active \in IdsOf(layout.sessions)
  BY LayoutFacts DEF InUse, Good, UpdateCwd
<1>2. PICK session \in Range(layout.sessions) : \E tab \in Range(session.tabs) :
          \E pane \in Range(tab.panes) : \E cwd \in Directories :
              layout' = [layout EXCEPT !.sessions = Put(@, [session EXCEPT !.tabs =
                            Put(@, [tab EXCEPT !.panes = Put(@, [pane EXCEPT !.cwd = cwd])])])]
  BY DEF UpdateCwd
<1>3. PICK tab \in Range(session.tabs) : \E pane \in Range(tab.panes) : \E cwd \in Directories :
          layout' = [layout EXCEPT !.sessions = Put(@, [session EXCEPT !.tabs =
                        Put(@, [tab EXCEPT !.panes = Put(@, [pane EXCEPT !.cwd = cwd])])])]
  BY <1>2
<1>4. PICK pane \in Range(tab.panes), cwd \in Directories :
          layout' = [layout EXCEPT !.sessions = Put(@, [session EXCEPT !.tabs =
                        Put(@, [tab EXCEPT !.panes = Put(@, [pane EXCEPT !.cwd = cwd])])])]
  BY <1>3
<1> DEFINE tab2 == [tab EXCEPT !.panes = Put(@, [pane EXCEPT !.cwd = cwd])]
           session2 == [session EXCEPT !.tabs = Put(@, tab2)]
<1>5. SoundSession(session) /\ session \in Session /\ Keyed(session.tabs, Tab) /\ SoundTab(tab)
      /\ session.active \in IdsOf(session.tabs) /\ tab.id \in IdsOf(session.tabs)
  BY <1>1, LayoutFacts, SessionFacts DEF IdsOf
<1>6. SoundTab(tab2) /\ tab2.id = tab.id /\ PaneIds(tab2) = PaneIds(tab)
  BY <1>5, Moved
<1>7. layout' = [layout EXCEPT !.sessions = Put(@, session2)]
  BY <1>4
<1> HIDE DEF tab2
<1>8. tab2 \in Tab /\ Put(session.tabs, tab2) \in Seq(Tab)
  BY <1>5, <1>6, PutLemma DEF SoundTab, Keyed
<1>9. /\ session2 \in Session /\ session2.id = session.id
      /\ session2.tabs = Put(session.tabs, tab2) /\ session2.active = session.active
  BY <1>5, <1>8 DEF Session
<1> HIDE DEF session2
<1>10. /\ SoundSession(session2)
       /\ SessionPaneIds(session2) \subseteq SessionPaneIds(session) \cup {}
       /\ \A ids : SessionBelow(session, ids) /\ TabBelow(tab2, ids) => SessionBelow(session2, ids)
  <2>1. /\ PaneIds(tab2) \subseteq PaneIds(tab) \cup {} /\ {} \cap SessionPaneIds(session) = {}
        /\ tab.id = tab2.id /\ session2.active \in IdsOf(session.tabs)
    BY <1>5, <1>6, <1>9
  <2>2. QED
    BY <1>5, <1>6, <1>9, <2>1, PutTabLemma
<1>11. SessionBelow(session2, next) /\ {} \in {{}, {next.pane}}
  <2>1. SessionBelow(session, next) /\ TabBelow(tab, next)
    BY <1>1 DEF Below, SessionBelow
  <2>2. TabBelow(tab2, next)
    BY <1>6, <2>1 DEF TabBelow
  <2>3. QED
    BY <1>10, <2>1, <2>2
<1>12. Good([sessions |-> Put(layout.sessions, session2), active |-> layout.active], next)
  BY <1>1, <1>9, <1>10, <1>11, SessionSet, IdsTyped
<1>13. layout' = [sessions |-> Put(layout.sessions, session2), active |-> layout.active]
  BY <1>1, <1>7 DEF Layouts
<1>14. QED
  BY <1>1, <1>12, <1>13 DEF InUse

LEMMA RemovePaneGood ==
    ASSUME InUse, RemovePane
    PROVE  /\ Sound(layout') /\ next' \in NextIdsType
           /\ layout'.sessions # <<>> => InUse'
           /\ layout'.active # 0 => layout'.sessions # <<>>
<1>1. /\ Sound(layout) /\ layout.active \in IdsOf(layout.sessions) /\ Below(layout, next)
      /\ next \in NextIdsType /\ next' = next
  BY DEF InUse, Good, RemovePane
<1>2. PICK session \in Range(layout.sessions) : \E tab \in Range(session.tabs) :
          \E pane \in PaneIds(tab) : layout' = RemovePaneFrom(layout, session, tab, pane)
  BY DEF RemovePane, PaneIds
<1>3. PICK tab \in Range(session.tabs) :
          \E pane \in PaneIds(tab) : layout' = RemovePaneFrom(layout, session, tab, pane)
  BY <1>2
<1>4. PICK pane \in PaneIds(tab) : layout' = RemovePaneFrom(layout, session, tab, pane)
  BY <1>3
<1>5. /\ Sound(layout')
      /\ layout'.sessions # <<>> => layout'.active \in IdsOf(layout'.sessions)
      /\ \A ids : Below(layout, ids) => Below(layout', ids)
  BY <1>1, <1>4, RemovedPane
<1>6. layout'.active # 0 => layout'.sessions # <<>>
  <2>1. layout'.active # 0 => layout'.active \in Range(Ids(layout'.sessions))
    BY <1>5 DEF Sound
  <2>2. layout'.sessions = <<>> => Range(Ids(layout'.sessions)) = {}
    BY DEF Ids, Range
  <2>3. QED
    BY <2>1, <2>2
<1>7. QED
  BY <1>1, <1>5, <1>6 DEF InUse, Good

-----------------------------------------------------------------------------
(* Every layout and every file is well formed *)

\* What the code saves in a file
Wrote(json) == \E state : Sound(state) /\ json = AsJson(state)

Event ==
    [type : {"save"}, name : SaveNames \cup {""}] \cup [type : {"config"}, config : Configs]
        \cup [type : {"exit"}]

ConfigsOK == config \in Configs /\ settings \in Configs
QueueOK == queue \in Seq(Event)
ThreadOK ==
    /\ thread = [at |-> thread.at, events |-> thread.events, last |-> thread.last,
                 name |-> thread.name, json |-> thread.json]
    /\ thread.events \in Seq(Event)
    /\ thread.at \in {"open", "write"} => thread.name \in SaveNames /\ Wrote(thread.json)
FilesOK ==
    /\ DOMAIN files = SaveNames
    /\ \A name \in SaveNames : files[name] \in {NoFile, Torn} \/ Wrote(files[name])
LayoutOK ==
    /\ Sound(layout) /\ next \in NextIdsType
    /\ ttx = "running" => Good(layout, next)
    /\ Live /\ layout.active # 0 => Good(layout, next)
    /\ ttx \in {"off", "killed", "empty", "joining"} =>
           /\ layout = Nobody
           /\ next = [session |-> 1, tab |-> 1, pane |-> 1]
HookOK == ttx = "running" => hooked

LEMMA KindOf ==
    ASSUME NEW json, Wrote(json)
    PROVE  json.kind = "layout"
BY DEF Wrote, AsJson

\* Without sessions, a layout is well formed.
LEMMA EmptySound ==
    /\ Sound(Nobody)
    /\ \A ids : Below(Nobody, ids)
<1>1. <<>> \in Seq(Session) /\ Len(<<>>) = 0 /\ Range(<<>>) = {}
  BY DEF Range
<1>2. IsInjective(Ids(<<>>))
  <2>1. DOMAIN Ids(<<>>) = {}
    BY DEF Ids
  <2>2. QED
    BY <2>1 DEF IsInjective
<1>3. Nobody \in Layouts /\ Nobody.sessions = <<>> /\ Nobody.active = 0
  BY <1>1 DEF Nobody, Layouts
<1>4. QED
  BY <1>1, <1>2, <1>3, SoundIf DEF Keyed, Below

\* A layout without sessions is saved as one without.
LEMMA NoneBack ==
    ASSUME NEW state, state.sessions = <<>>
    PROVE  AsJson(state).sessions = <<>>
BY DEF AsJson

\* So are the first sessions of one, when a start has failed at the next.
LEMMA PrefixSound ==
    ASSUME NEW state, Sound(state), NEW n \in 0 .. Len(state.sessions)
    PROVE  Sound([sessions |-> SubSeq(state.sessions, 1, n), active |-> 0])
<1> DEFINE seq == state.sessions
           r == SubSeq(seq, 1, n)
           new == [sessions |-> r, active |-> 0]
<1>1. /\ Keyed(seq, Session) /\ seq \in Seq(Session)
      /\ \A s \in Range(seq) : SoundSession(s)
      /\ \A s, other \in Range(seq) :
             s.id # other.id => SessionPaneIds(s) \cap SessionPaneIds(other) = {}
  BY LayoutFacts
<1>2. r \in Seq(Session) /\ Len(r) = n /\ \A i \in 1 .. n : i \in 1 .. Len(seq) /\ r[i] = seq[i]
  BY <1>1
<1>3. \A i, j \in 1 .. Len(seq) : seq[i].id = seq[j].id => i = j
  BY <1>1, Items DEF Keyed
<1> HIDE DEF r
<1>4. Keyed(r, Session)
  <2>1. \A i, j \in 1 .. Len(r) : r[i].id = r[j].id => i = j
    BY <1>2, <1>3
  <2>2. QED
    BY <1>2, <2>1, Items DEF Keyed
<1>5. Range(r) \subseteq Range(seq)
  BY <1>1, <1>2 DEF Range
<1>6. new \in Layouts /\ new.sessions = r /\ new.active = 0
  BY <1>2 DEF Layouts
<1> HIDE DEF new
<1>7. Sound(new)
  BY <1>1, <1>4, <1>5, <1>6, SoundIf
<1>8. QED
  BY <1>7 DEF new, r

\* The layout is well formed, and in use while ttx runs.
LEMMA LayoutStep ==
    ASSUME LayoutOK, FilesOK, ConfigsOK, [Next]_vars
    PROVE  LayoutOK'
<1> USE DEF LayoutOK
<1>1. Live /\ layout.active # 0 => InUse
  BY DEF InUse
<1>2. InUse' /\ ttx' \in {"running", "ending", "unhooked"} => LayoutOK'
  BY DEF InUse, Good
<1>3. CASE AddPane
  BY <1>1, <1>2, <1>3, AddPaneGood DEF AddPane, Operation, Live, process
<1>4. CASE AddTab
  BY <1>1, <1>2, <1>4, AddTabGood DEF AddTab, Operation, Live, process
<1>5. CASE AddSession
  BY <1>1, <1>2, <1>5, AddSessionGood DEF AddSession, Operation, Live, process
<1>6. CASE SelectPane
  BY <1>1, <1>2, <1>6, SelectPaneGood DEF SelectPane, Operation, Live, process
<1>7. CASE SelectTab
  BY <1>1, <1>2, <1>7, SelectTabGood DEF SelectTab, Operation, Live, process
<1>8. CASE ToggleFullScreen
  BY <1>1, <1>2, <1>8, ToggleGood DEF ToggleFullScreen, Operation, Live, process
<1>9. CASE UpdateCwd
  <2>1. Live /\ layout.active # 0 /\ ttx' = ttx
    BY <1>9 DEF UpdateCwd, process
  <2>2. QED
    BY <1>1, <1>2, <1>9, <2>1, UpdateCwdGood DEF Live
<1>10. CASE RemovePane
  <2>1. /\ Live /\ layout.active # 0 /\ ttx' \in {"running", "ending", "unhooked"}
        /\ ttx' = "running" => layout'.sessions # <<>>
    BY <1>10 DEF RemovePane, Live
  <2>2. /\ Sound(layout') /\ next' \in NextIdsType /\ (layout'.sessions # <<>> => InUse')
        /\ layout'.active # 0 => layout'.sessions # <<>>
    BY <1>1, <1>10, <2>1, RemovePaneGood
  <2>3. QED
    BY <2>1, <2>2 DEF InUse
<1>11. CASE StartEmpty
  <2>1. /\ ttx \in {"off", "killed"} /\ ttx' = "running" /\ layout' = WithSession(Nobody)
        /\ next' = [session |-> 2, tab |-> 2, pane |-> 2]
    BY <1>11 DEF StartEmpty, Starting
  <2>2. next' \in NextIdsType /\ next'.session = next.session + 1 /\ next'.tab = next.tab + 1
        /\ next'.pane = next.pane + 1
    BY <2>1 DEF NextIdsType
  <2>3. Good(WithSession(Nobody), next')
    BY <2>2, EmptySound, SessionAdded
  <2>4. QED
    BY <1>2, <2>1, <2>2, <2>3 DEF InUse
<1>12. ASSUME Starting, Restores
       PROVE  \E state : Sound(state) /\ files[settings.name] = AsJson(state)
  <2>1. settings.name \in SaveNames
    BY SaveLayoutAssumption DEF ConfigsOK
  <2>2. files[settings.name].kind = "layout"
    BY <1>12 DEF Restores
  <2>3. files[settings.name] \notin {NoFile, Torn}
    BY <2>2 DEF NoFile, Torn
  <2>4. Wrote(files[settings.name])
    BY <2>1, <2>3 DEF FilesOK
  <2>5. QED
    BY <2>4 DEF Wrote
<1>13. CASE StartRestored
  <2>1. /\ Starting /\ Restores /\ files[settings.name].sessions # <<>> /\ ttx' = "running"
        /\ layout' = FromJson(files[settings.name]) /\ next' = NextIds(layout')
    BY <1>13 DEF StartRestored
  <2>2. PICK state : Sound(state) /\ files[settings.name] = AsJson(state)
    BY <1>12, <2>1
  <2>3. state.sessions # <<>>
    BY <2>1, <2>2, NoneBack
  <2>4. Sound(layout') /\ layout'.active \in IdsOf(layout'.sessions)
    BY <2>1, <2>2, <2>3, LayoutBack
  <2>5. Below(layout', next') /\ next' \in NextIdsType
    BY <2>1, <2>4, NextIdsLemma DEF NextIdsType
  <2>6. QED
    BY <1>2, <2>1, <2>4, <2>5 DEF InUse, Good
<1>14. CASE StartFails
  <2>1. Starting /\ ttx' = "ending" /\ next' = next /\ layout = Nobody
    BY <1>14 DEF StartFails, Starting
  <2>2. CASE layout' = layout
    BY <2>1, <2>2 DEF Nobody
  <2>3. CASE layout' # layout
    <3>1. /\ Restores
          /\ \E n \in 0 .. Len(files[settings.name].sessions) - 1 :
                 layout' = [sessions |-> SubSeq(FromJson(files[settings.name]).sessions, 1, n),
                            active |-> 0]
      BY <1>14, <2>3 DEF StartFails
    <3>2. PICK state : Sound(state) /\ files[settings.name] = AsJson(state)
      BY <1>12, <2>1, <3>1
    <3>3. PICK n \in 0 .. Len(AsJson(state).sessions) - 1 :
              layout' = [sessions |-> SubSeq(FromJson(AsJson(state)).sessions, 1, n), active |-> 0]
      BY <3>1, <3>2
    <3>4. state.sessions # <<>>
      <4>1. ASSUME state.sessions = <<>> PROVE FALSE
        <5>1. Len(AsJson(state).sessions) = 0
          BY <4>1, NoneBack
        <5>2. QED
          BY <3>3, <5>1
      <4>2. QED
        BY <4>1
    <3> DEFINE back == FromJson(AsJson(state))
    <3>5. Sound(back) /\ Len(back.sessions) = Len(AsJson(state).sessions)
      BY <3>2, <3>4, LayoutBack
    <3> HIDE DEF back
    <3>6. back.sessions \in Seq(Session)
      BY <3>5, LayoutFacts
    <3>7. n \in 0 .. Len(back.sessions)
      BY <3>3, <3>5, <3>6
    <3>8. Sound(layout')
      BY <3>3, <3>5, <3>7, PrefixSound DEF back
    <3>9. layout'.active = 0
      BY <3>3
    <3>10. QED
      BY <2>1, <3>8, <3>9
  <2>4. QED
    BY <2>2, <2>3
<1>15. CASE DestroyPanes \/ Kill
  BY <1>15, EmptySound DEF DestroyPanes, Kill, NextIdsType, Live, Nobody
<1>16. CASE Quit \/ Unhook \/ LockLayout \/ ChildEnds \/ HookWaits
  BY <1>16 DEF Quit, Unhook, LockLayout, ChildEnds, HookWaits, Live
<1>17. CASE RequestExit \/ Join
  BY <1>17 DEF RequestExit, Join, Live
<1>18. CASE SaveAs \/ ReloadConfig
  BY <1>18 DEF SaveAs, ReloadConfig, Operation, process, Live
<1>19. CASE CallHook
  BY <1>19 DEF CallHook, process, Live
<1>20. CASE Fetch \/ HandleEvent
  BY <1>20 DEF Fetch, HandleEvent, Unchanged, process, Live
<1>21. CASE AutomaticSave \/ OpenFile \/ WriteFile
  BY <1>21 DEF AutomaticSave, OpenFile, WriteFile, Unchanged, process, Live
<1>22. CASE UNCHANGED vars
  BY <1>22 DEF vars, Live
<1>23. QED
  BY <1>3, <1>4, <1>5, <1>6, <1>7, <1>8, <1>9, <1>10, <1>11, <1>13, <1>14, <1>15, <1>16, <1>17,
     <1>18, <1>19, <1>20, <1>21, <1>22 DEF Next, User, Saver, Main, Others, End

-----------------------------------------------------------------------------
(* What the threads hand each other *)


LEMMA EventFacts ==
    ASSUME NEW event \in Event
    PROVE  /\ event.type = "save" => event.name \in SaveNames \cup {""}
           /\ event.type = "config" => event.config \in Configs
BY DEF Event

LEMMA Events ==
    /\ [type |-> "save", name |-> ""] \in Event
    /\ [type |-> "exit"] \in Event
    /\ \A name \in SaveNames : [type |-> "save", name |-> name] \in Event
    /\ \A new \in Configs : [type |-> "config", config |-> new] \in Event
BY DEF Event

\* A request is an event, and there is one while ttx runs.
LEMMA Requests ==
    ASSUME QueueOK, HookOK, Requested
    PROVE  /\ queue' \in Seq(Event)
           /\ ttx = "running" => queue' # <<>>
<1> DEFINE event == [type |-> "save", name |-> ""]
<1>1. event \in Event
  BY Events
<1> HIDE DEF event
<1>2. Append(queue, event) \in Seq(Event) /\ Append(queue, event) # <<>>
  BY <1>1 DEF QueueOK
<1>3. CASE hooked
  BY <1>2, <1>3 DEF Requested, Request, event
<1>4. CASE ~hooked
  BY <1>4 DEF Requested, Request, QueueOK, HookOK
<1>5. QED
  BY <1>3, <1>4

LEMMA ConfigsStep ==
    ASSUME ConfigsOK, ThreadOK, [Next]_vars
    PROVE  ConfigsOK'
<1>1. CASE HandleEvent
  <2>1. Head(thread.events) \in Event
    <3>1. thread.events \in Seq(Event) /\ thread.events # <<>>
      BY <1>1 DEF ThreadOK, HandleEvent
    <3> DEFINE events == thread.events
    <3> HIDE DEF events
    <3>2. events \in Seq(Event) /\ events # <<>> => Head(events) \in Event
      OBVIOUS
    <3>3. QED
      BY <3>1, <3>2 DEF events
  <2>2. settings' = settings
    BY <1>1 DEF HandleEvent, Unchanged
  <2>3. \/ config' = config
        \/ /\ Head(thread.events).type = "config"
           /\ config' = Head(thread.events).config
    BY <1>1 DEF HandleEvent
  <2>4. QED
    BY <2>1, <2>2, <2>3, EventFacts DEF ConfigsOK
<1>2. CASE ReloadConfig
  BY <1>2 DEF ReloadConfig, ConfigsOK
<1>3. CASE StartEmpty \/ StartRestored \/ StartFails
  BY <1>3 DEF StartEmpty, StartRestored, StartFails, Starting, ConfigsOK
<1>4. CASE AddPane \/ AddTab \/ AddSession \/ SelectPane \/ SelectTab \/ ToggleFullScreen \/ SaveAs
  BY <1>4 DEF AddPane, AddTab, AddSession, SelectPane, SelectTab, ToggleFullScreen, SaveAs,
              Operation, Requested, saver, ConfigsOK
<1>5. CASE RemovePane \/ UpdateCwd \/ CallHook
  BY <1>5 DEF RemovePane, UpdateCwd, CallHook, Requested, saver, ConfigsOK
<1>6. CASE Fetch \/ AutomaticSave \/ OpenFile \/ WriteFile
  BY <1>6 DEF Fetch, AutomaticSave, OpenFile, WriteFile, Unchanged, ConfigsOK
<1>7. CASE Quit \/ End \/ ChildEnds \/ HookWaits \/ Kill
  BY <1>7 DEF Quit, End, Unhook, LockLayout, DestroyPanes, RequestExit, Join, ChildEnds,
              HookWaits, Kill, saver, ConfigsOK
<1>8. CASE UNCHANGED vars
  BY <1>8 DEF vars, ConfigsOK
<1>9. QED
  BY <1>1, <1>2, <1>3, <1>4, <1>5, <1>6, <1>7, <1>8 DEF Next, User, Saver, Main, Others, End

LEMMA QueueStep ==
    ASSUME QueueOK, ConfigsOK, HookOK, [Next]_vars
    PROVE  QueueOK'
<1>1. CASE Requested
  BY <1>1, Requests DEF QueueOK
<1>2. CASE SaveAs
  <2>1. PICK name \in Asked : queue' = Append(queue, [type |-> "save", name |-> name])
    BY <1>2 DEF SaveAs
  <2>2. [type |-> "save", name |-> name] \in Event
    BY Events, SaveLayoutAssumption
  <2>3. QED
    BY <2>1, <2>2 DEF QueueOK
<1>3. CASE ReloadConfig
  <2>1. PICK new \in Configs : queue' = Append(queue, [type |-> "config", config |-> new])
    BY <1>3 DEF ReloadConfig
  <2>2. [type |-> "config", config |-> new] \in Event
    BY Events
  <2>3. QED
    BY <2>1, <2>2 DEF QueueOK
<1>4. CASE StartEmpty \/ StartRestored \/ StartFails
  <2>1. queue' = <<>> \/ queue' = <<[type |-> "save", name |-> ""]>>
    BY <1>4 DEF StartEmpty, StartRestored, StartFails
  <2> DEFINE event == [type |-> "save", name |-> ""]
  <2>2. event \in Event
    BY Events
  <2>3. queue' = <<>> \/ queue' = <<event>>
    BY <2>1
  <2> HIDE DEF event
  <2>4. Append(<<>>, event) = <<event>> /\ Append(<<>>, event) \in Seq(Event)
    BY <2>2
  <2>5. CASE queue' = <<>>
    BY <2>5 DEF QueueOK
  <2>6. CASE queue' = <<event>>
    <3>1. queue' \in Seq(Event)
      BY <2>4, <2>6
    <3>2. QED
      BY <3>1 DEF QueueOK
  <2>7. QED
    BY <2>3, <2>5, <2>6
<1>5. CASE RequestExit
  <2>1. queue' = Append(queue, [type |-> "exit"])
    BY <1>5 DEF RequestExit
  <2>2. [type |-> "exit"] \in Event
    BY Events
  <2>3. QED
    BY <2>1, <2>2 DEF QueueOK
<1>6. CASE Fetch \/ Join \/ Kill
  <2>1. queue' = <<>>
    BY <1>6 DEF Fetch, Join, Kill
  <2>2. QED
    BY <2>1 DEF QueueOK
<1>7. CASE ToggleFullScreen \/ UpdateCwd
  BY <1>7 DEF ToggleFullScreen, UpdateCwd, saver, QueueOK
<1>8. CASE HandleEvent \/ AutomaticSave \/ OpenFile \/ WriteFile
  BY <1>8 DEF HandleEvent, AutomaticSave, OpenFile, WriteFile, QueueOK
<1>9. CASE Quit \/ Unhook \/ LockLayout \/ DestroyPanes \/ ChildEnds \/ HookWaits
  BY <1>9 DEF Quit, Unhook, LockLayout, DestroyPanes, ChildEnds, HookWaits, saver, QueueOK
<1>10. CASE UNCHANGED vars
  BY <1>10 DEF vars, QueueOK
<1>11. CASE AddPane \/ AddTab \/ AddSession \/ SelectPane \/ SelectTab \/ RemovePane \/ CallHook
  BY <1>1, <1>11 DEF AddPane, AddTab, AddSession, SelectPane, SelectTab, RemovePane, CallHook
<1>12. QED
  BY <1>2, <1>3, <1>4, <1>5, <1>6, <1>7, <1>8, <1>9, <1>10, <1>11 DEF Next, User, Saver, Main, Others, End

\* Requests are made while ttx runs.
LEMMA HookStep ==
    ASSUME HookOK, [Next]_vars
    PROVE  HookOK'
<1>1. CASE User
  BY <1>1 DEF User, AddPane, AddTab, AddSession, SelectPane, SelectTab, ToggleFullScreen, SaveAs,
              ReloadConfig, Quit, Operation, process, HookOK
<1>2. CASE Others
  BY <1>2 DEF Others, RemovePane, UpdateCwd, CallHook, ChildEnds, HookWaits, Kill, process, HookOK
<1>3. CASE Saver
  BY <1>3 DEF Saver, Fetch, HandleEvent, AutomaticSave, OpenFile, WriteFile, Unchanged, process,
              HookOK
<1>4. CASE Main
  BY <1>4 DEF Main, End, StartEmpty, StartRestored, StartFails, Starting, Unhook, LockLayout,
              DestroyPanes, RequestExit, Join, HookOK
<1>5. CASE UNCHANGED vars
  BY <1>5 DEF vars, HookOK
<1>6. QED
  BY <1>1, <1>2, <1>3, <1>4, <1>5 DEF Next

-----------------------------------------------------------------------------
(* The save thread and its files *)

\* The thread as it was at any step of a save
Named == thread.at \in {"open", "write"} => thread.name \in SaveNames /\ Wrote(thread.json)
Taken == thread.events \in Seq(Event)
Shaped ==
    thread = [at |-> thread.at, events |-> thread.events, last |-> thread.last,
              name |-> thread.name, json |-> thread.json]

LEMMA ThreadParts == ThreadOK <=> Shaped /\ Taken /\ Named
BY DEF ThreadOK, Shaped, Taken, Named

LEMMA AsleepOK ==
    ASSUME thread' = Asleep
    PROVE  ThreadOK'
<1>1. Shaped'
  BY DEF Asleep, Shaped
<1>2. thread'.events = <<>> /\ thread'.at = "sleep"
  BY DEF Asleep
<1>3. Taken' /\ Named'
  BY <1>2 DEF Taken, Named
<1>4. QED
  BY <1>1, <1>3 DEF ThreadOK, Shaped, Taken, Named

LEMMA ShapedStep ==
    ASSUME Shaped, [Next]_vars
    PROVE  Shaped'
<1>1. CASE Fetch
  BY <1>1 DEF Fetch, Shaped
<1>2. CASE HandleEvent
  BY <1>2 DEF HandleEvent, Snapshot, Asleep, Shaped
<1>3. CASE AutomaticSave
  <2>1. Snapshot(config.name, <<>>, TRUE) \/ thread' = Asleep
    BY <1>3 DEF AutomaticSave
  <2>2. CASE Snapshot(config.name, <<>>, TRUE)
    BY <2>2, Zenon DEF Snapshot, Shaped
  <2>3. CASE thread' = Asleep
    BY <2>3 DEF Asleep, Shaped
  <2>4. QED
    BY <2>1, <2>2, <2>3
<1>4. CASE OpenFile \/ WriteFile
  <2>1. \/ thread' = [thread EXCEPT !.at = "write"] \/ thread' = Asleep
        \/ thread' = [thread EXCEPT !.at = "handle", !.name = "", !.json = Nobody]
    BY <1>4 DEF OpenFile, WriteFile, AfterSave
  <2>2. CASE thread' = Asleep
    BY <2>2 DEF Asleep, Shaped
  <2>3. CASE thread' # Asleep
    BY <2>1, <2>3 DEF Shaped
  <2>4. QED
    BY <2>2, <2>3
<1>5. CASE StartEmpty \/ StartRestored \/ StartFails \/ Kill
  BY <1>5 DEF StartEmpty, StartRestored, StartFails, Starting, Kill, Asleep, Shaped
<1>6. CASE User
  BY <1>6 DEF User, AddPane, AddTab, AddSession, SelectPane, SelectTab, ToggleFullScreen, SaveAs,
              ReloadConfig, Quit, Requested, saver, Shaped
<1>7. CASE RemovePane \/ UpdateCwd \/ CallHook \/ ChildEnds \/ HookWaits
  BY <1>7 DEF RemovePane, UpdateCwd, CallHook, ChildEnds, HookWaits, Requested, saver, Shaped
<1>8. CASE End
  BY <1>8 DEF End, Unhook, LockLayout, DestroyPanes, RequestExit, Join, saver, Shaped
<1>9. CASE UNCHANGED vars
  BY <1>9 DEF vars, Shaped
<1>10. QED
  BY <1>1, <1>2, <1>3, <1>4, <1>5, <1>6, <1>7, <1>8, <1>9 DEF Next, Saver, Main, Others

\* Nothing but the save thread, a start and the end of the process changes it.
LEMMA ThreadStays ==
    ASSUME [Next]_vars, ~Saver, ~StartEmpty, ~StartRestored, ~StartFails, ~Kill
    PROVE  thread' = thread /\ files' = files /\ broken' = broken
<1>1. CASE User
  BY <1>1 DEF User, AddPane, AddTab, AddSession, SelectPane, SelectTab, ToggleFullScreen, SaveAs,
              ReloadConfig, Quit, Requested, saver
<1>2. CASE RemovePane \/ UpdateCwd \/ CallHook \/ ChildEnds \/ HookWaits
  BY <1>2 DEF RemovePane, UpdateCwd, CallHook, ChildEnds, HookWaits, Requested, saver
<1>3. CASE End
  BY <1>3 DEF End, Unhook, LockLayout, DestroyPanes, RequestExit, Join, saver
<1>4. CASE UNCHANGED vars
  BY <1>4 DEF vars
<1>5. QED
  BY <1>1, <1>2, <1>3, <1>4 DEF Next, Main, Others

LEMMA HeadTail ==
    ASSUME NEW S, NEW seq \in Seq(S), seq # <<>>
    PROVE  Head(seq) \in S /\ Tail(seq) \in Seq(S)
OBVIOUS

LEMMA ThreadStep ==
    ASSUME ThreadOK, QueueOK, ConfigsOK, LayoutOK, [Next]_vars
    PROVE  ThreadOK'
<1>1. Shaped /\ Taken /\ Named
  BY ThreadParts
<1>2. Shaped'
  BY <1>1, ShapedStep
<1>3. Wrote(AsJson(layout))
  BY DEF LayoutOK, Wrote
<1>4. config.name \in SaveNames
  BY SaveLayoutAssumption DEF ConfigsOK
<1>5. Taken' /\ Named' => ThreadOK'
  BY <1>2 DEF ThreadOK, Shaped, Taken, Named
<1>6. CASE Fetch
  <2>1. thread'.at = "handle" /\ thread'.events = queue
    BY <1>1, <1>6 DEF Fetch, Shaped
  <2>2. Taken' /\ Named'
    BY <2>1 DEF QueueOK, Taken, Named
  <2>3. QED
    BY <1>5, <2>2
<1>7. CASE HandleEvent
  <2>1. thread.at = "handle" /\ Head(thread.events) \in Event /\ Tail(thread.events) \in Seq(Event)
    BY <1>1, <1>7, HeadTail DEF HandleEvent, Taken
  <2>2. \/ /\ Head(thread.events).type = "save" /\ Head(thread.events).name # ""
           /\ Snapshot(Head(thread.events).name, Tail(thread.events), FALSE)
        \/ thread' = [thread EXCEPT !.events = Tail(thread.events)]
        \/ thread' = [Asleep EXCEPT !.at = "done"]
    BY <1>7 DEF HandleEvent
  <2>3. CASE /\ Head(thread.events).type = "save" /\ Head(thread.events).name # ""
             /\ Snapshot(Head(thread.events).name, Tail(thread.events), FALSE)
    <3>1. Head(thread.events).name \in SaveNames
      BY <2>1, <2>3, EventFacts
    <3>2. /\ thread'.events = Tail(thread.events) /\ thread'.name = Head(thread.events).name
          /\ thread'.json = AsJson(layout)
      BY <2>3 DEF Snapshot
    <3>3. Taken' /\ Named'
      BY <1>3, <2>1, <3>1, <3>2 DEF Taken, Named, Wrote
    <3>4. QED
      BY <1>5, <3>3
  <2>4. CASE thread' = [thread EXCEPT !.events = Tail(thread.events)]
    <3>1. thread'.at = "handle" /\ thread'.events = Tail(thread.events)
      BY <1>1, <2>1, <2>4 DEF Shaped
    <3>2. Taken' /\ Named'
      BY <2>1, <3>1 DEF Taken, Named
    <3>3. QED
      BY <1>5, <3>2
  <2>5. CASE thread' = [Asleep EXCEPT !.at = "done"]
    <3>1. thread'.at = "done" /\ thread'.events = <<>>
      BY <2>5 DEF Asleep
    <3>2. Taken' /\ Named'
      BY <3>1 DEF Taken, Named
    <3>3. QED
      BY <1>5, <3>2
  <2>6. QED
    BY <2>2, <2>3, <2>4, <2>5
<1>8. CASE AutomaticSave
  <2>1. Snapshot(config.name, <<>>, TRUE) \/ thread' = Asleep
    BY <1>8 DEF AutomaticSave
  <2>2. CASE Snapshot(config.name, <<>>, TRUE)
    <3>1. /\ thread'.events = <<>> /\ thread'.name = config.name /\ thread'.json = AsJson(layout)
      BY <2>2 DEF Snapshot
    <3>2. Taken' /\ Named'
      BY <1>3, <1>4, <3>1 DEF Taken, Named, Wrote
    <3>3. QED
      BY <1>5, <3>2
  <2>3. QED
    BY <2>1, <2>2, AsleepOK
<1>9. ASSUME thread' = AfterSave
      PROVE  ThreadOK'
  <2>1. thread' = Asleep \/ thread' = [thread EXCEPT !.at = "handle", !.name = "", !.json = Nobody]
    BY <1>9 DEF AfterSave
  <2>2. CASE thread' = [thread EXCEPT !.at = "handle", !.name = "", !.json = Nobody]
    <3>1. thread'.at = "handle" /\ thread'.events = thread.events
      BY <1>1, <2>2 DEF Shaped
    <3>2. Taken' /\ Named'
      BY <1>1, <3>1 DEF Taken, Named
    <3>3. QED
      BY <1>5, <3>2
  <2>3. QED
    BY <2>1, <2>2, AsleepOK
<1>10. CASE OpenFile
  <2>1. thread' = AfterSave \/ (thread.at = "open" /\ thread' = [thread EXCEPT !.at = "write"])
    BY <1>10 DEF OpenFile
  <2>2. CASE thread.at = "open" /\ thread' = [thread EXCEPT !.at = "write"]
    <3>1. /\ thread'.events = thread.events /\ thread'.name = thread.name
          /\ thread'.json = thread.json
      BY <1>1, <2>2 DEF Shaped
    <3>2. Taken' /\ Named'
      BY <1>1, <2>2, <3>1 DEF Taken, Named
    <3>3. QED
      BY <1>5, <3>2
  <2>3. QED
    BY <1>9, <2>1, <2>2
<1>11. CASE WriteFile
  BY <1>9, <1>11 DEF WriteFile
<1>12. CASE StartEmpty \/ StartRestored \/ StartFails \/ Kill
  BY <1>12, AsleepOK DEF StartEmpty, StartRestored, StartFails, Starting, Kill
<1>13. CASE thread' = thread
  BY <1>13 DEF ThreadOK
<1>14. QED
  BY <1>6, <1>7, <1>8, <1>10, <1>11, <1>12, <1>13, ThreadStays DEF Saver

LEMMA FilesStep ==
    ASSUME FilesOK, ThreadOK, [Next]_vars
    PROVE  FilesOK'
<1>1. CASE OpenFile \/ WriteFile
  <2>1. thread.name \in SaveNames /\ Wrote(thread.json)
    BY <1>1 DEF OpenFile, WriteFile, ThreadOK
  <2>2. \/ files' = files
        \/ files' = [files EXCEPT ![thread.name] = Torn]
        \/ files' = [files EXCEPT ![thread.name] = thread.json]
    BY <1>1 DEF OpenFile, WriteFile
  <2>3. QED
    BY <2>1, <2>2 DEF FilesOK
<1>2. CASE Fetch \/ HandleEvent \/ AutomaticSave
  BY <1>2 DEF Fetch, HandleEvent, AutomaticSave, FilesOK
<1>3. CASE StartEmpty \/ StartRestored \/ StartFails \/ Kill
  BY <1>3 DEF StartEmpty, StartRestored, StartFails, Starting, Kill, FilesOK
<1>4. CASE files' = files
  BY <1>4 DEF FilesOK
<1>5. QED
  BY <1>1, <1>2, <1>3, <1>4, ThreadStays DEF Saver

-----------------------------------------------------------------------------
(* A start from a file *)

InitialOK == LayoutOK /\ FilesOK /\ ConfigsOK /\ QueueOK /\ ThreadOK /\ HookOK

LEMMA InitOK ==
    ASSUME Init
    PROVE  InitialOK
<1>1. LayoutOK
  BY EmptySound DEF Init, LayoutOK, NextIdsType, Live, Nobody
<1>2. FilesOK
  <2>1. files \in [SaveNames -> {NoFile} \cup {AsJson(state) : state \in Earlier}]
    BY DEF Init
  <2>2. ASSUME NEW name \in SaveNames PROVE files[name] = NoFile \/ Wrote(files[name])
    BY <2>1, EarlierAssumption DEF Wrote
  <2>3. QED
    BY <2>1, <2>2 DEF FilesOK
<1>3. ConfigsOK /\ HookOK
  BY DEF Init, ConfigsOK, HookOK
<1>4. QueueOK
  <2>1. queue = <<>>
    BY DEF Init
  <2>2. QED
    BY <2>1 DEF QueueOK
<1>5. ThreadOK
  <2>1. thread = Asleep
    BY DEF Init
  <2>2. Shaped
    BY <2>1 DEF Asleep, Shaped
  <2>3. thread.events = <<>> /\ thread.at = "sleep"
    BY <2>1 DEF Asleep
  <2>4. Taken /\ Named
    BY <2>3 DEF Taken, Named
  <2>5. QED
    BY <2>2, <2>4, ThreadParts
<1>6. QED
  BY <1>1, <1>2, <1>3, <1>4, <1>5 DEF InitialOK

LEMMA StepOK ==
    ASSUME InitialOK, [Next]_vars
    PROVE  InitialOK'
<1>1. LayoutOK /\ FilesOK /\ ConfigsOK /\ QueueOK /\ ThreadOK /\ HookOK
  BY DEF InitialOK
<1>2. LayoutOK' /\ FilesOK' /\ ConfigsOK' /\ QueueOK' /\ ThreadOK' /\ HookOK'
  BY <1>1, LayoutStep, FilesStep, ConfigsStep, QueueStep, ThreadStep, HookStep
<1>3. QED
  BY <1>2 DEF InitialOK, LayoutOK, FilesOK, ConfigsOK, QueueOK, ThreadOK, HookOK

\* While ttx runs, the layout is in use, as LayoutState and its files leave it.
LEMMA AlwaysOK == Spec => []InitialOK
<1>1. Init => InitialOK
  BY InitOK
<1>2. InitialOK /\ [Next]_vars => InitialOK'
  BY StepOK
<1>3. QED
  BY <1>1, <1>2, PTL DEF Spec

LEMMA FreshIfGood ==
    ASSUME Good(layout, next)
    PROVE  IdsFresh
<1>1. Sound(layout) /\ Below(layout, next)
  BY DEF Good
<1>2. \A session \in Range(layout.sessions) : session.id < next.session
  BY <1>1 DEF Below, SessionBelow
<1>3. \A tab \in TabsOf(layout) : TabBelow(tab, next)
  BY <1>1 DEF Below, SessionBelow, TabsOf
<1>4. ASSUME NEW pane \in PanesOf(layout) PROVE pane.id < next.pane
  <2>1. PICK tab \in TabsOf(layout) : pane \in Range(tab.panes)
    BY DEF PanesOf
  <2>2. pane.id \in PaneIds(tab)
    <3>1. PICK i \in DOMAIN tab.panes : pane = tab.panes[i]
      BY <2>1 DEF Range
    <3>2. Ids(tab.panes)[i] = pane.id /\ i \in DOMAIN Ids(tab.panes)
      BY <3>1 DEF Ids
    <3>3. QED
      BY <3>2 DEF PaneIds, Range
  <2>3. QED
    BY <1>3, <2>1, <2>2 DEF TabBelow
<1>5. QED
  BY <1>1, <1>2, <1>3, <1>4 DEF IdsFresh, TabBelow

\* While ttx runs, every session, tab and pane of the layout is well formed, with ids that are
\* distinct, and those that come next are new: pane_by_id finds the right pane (LayoutState).
THEOREM FreshAlways == Spec => []IdsFresh
<1>1. InitialOK => IdsFresh
  <2>1. CASE ttx = "running"
    BY <2>1, FreshIfGood DEF InitialOK, LayoutOK
  <2>2. CASE ttx # "running"
    BY <2>2 DEF IdsFresh
  <2>3. QED
    BY <2>1, <2>2
<1>2. QED
  BY <1>1, AlwaysOK, PTL

\* A start from a file brings back its sessions, tabs and panes, with what was active in each and
\* on full screen; and new panes get new ids (LayoutState::restore_json_v1).
THEOREM RestoredAlways == Spec => Restored
<1> DEFINE Start ==
      StartRestored =>
        LET file == files[settings.name]
        IN  /\ IdsFresh'
            /\ Remembered(AsJson(layout')) = Remembered(file)
            /\ file.active_session_id \in {0, layout'.active}
<1>1. ASSUME InitialOK, InitialOK', StartRestored
      PROVE  Start
  <2>1. /\ Restores /\ files[settings.name].sessions # <<>> /\ ttx' = "running"
        /\ layout' = FromJson(files[settings.name])
    BY <1>1 DEF StartRestored
  <2>2. PICK state : Sound(state) /\ files[settings.name] = AsJson(state)
    <3>1. settings.name \in SaveNames
      BY <1>1, SaveLayoutAssumption DEF InitialOK, ConfigsOK
    <3>2. files[settings.name] \notin {NoFile, Torn}
      BY <2>1 DEF Restores, NoFile, Torn
    <3>3. QED
      BY <1>1, <3>1, <3>2 DEF InitialOK, FilesOK, Wrote
  <2>3. state.sessions # <<>>
    BY <2>1, <2>2, NoneBack
  <2>4. /\ Remembered(AsJson(layout')) = Remembered(files[settings.name])
        /\ files[settings.name].active_session_id \in {0, layout'.active}
    BY <2>1, <2>2, <2>3, LayoutBack
  <2>5. Good(layout, next)'
    BY <1>1, <2>1 DEF InitialOK, LayoutOK
  <2>6. IdsFresh'
    BY <2>5, FreshIfGood, PTL
  <2>7. QED
    BY <2>4, <2>6
<1>2. InitialOK /\ InitialOK' /\ [Next]_vars => [Start]_vars
  BY <1>1
<1>3. QED
  BY <1>2, AlwaysOK, PTL DEF Spec, Restored

-----------------------------------------------------------------------------
(* No change of the layout is missed *)

\* What a save follows, from the layout itself
FollowedTab(tab) ==
    [id |-> tab.id, full_screen_pane_id |-> 0, active_pane_id |-> tab.active,
     pane_ids_by_recency |-> tab.recency, pane_layout |-> PanesToJson(tab.panes)]
FollowedSession(session) ==
    [id |-> session.id, active_tab_id |-> session.active,
     tabs |-> [j \in DOMAIN session.tabs |-> FollowedTab(session.tabs[j])]]
FollowedSessions(sessions) == [i \in DOMAIN sessions |-> FollowedSession(sessions[i])]

LEMMA FollowedIs ==
    ASSUME NEW state
    PROVE  Followed(AsJson(state)) =
               [kind |-> "layout", active |-> state.active,
                sessions |-> FollowedSessions(state.sessions)]
<1>1. \A tab : [TabToJson(tab) EXCEPT !.full_screen_pane_id = 0] = FollowedTab(tab)
  BY DEF TabToJson, FollowedTab
<1>2. ASSUME NEW session
      PROVE  [SessionToJson(session) EXCEPT !.tabs =
                 [j \in DOMAIN @ |-> [@[j] EXCEPT !.full_screen_pane_id = 0]]]
             = FollowedSession(session)
  <2> DEFINE tabs == [j \in DOMAIN session.tabs |-> TabToJson(session.tabs[j])]
             kept == [j \in DOMAIN tabs |-> [tabs[j] EXCEPT !.full_screen_pane_id = 0]]
  <2>1. SessionToJson(session) = [id |-> session.id, active_tab_id |-> session.active,
                                  tabs |-> tabs]
    BY DEF SessionToJson
  <2>2. kept = [j \in DOMAIN session.tabs |-> FollowedTab(session.tabs[j])]
    BY <1>1
  <2>3. [SessionToJson(session) EXCEPT !.tabs =
            [j \in DOMAIN @ |-> [@[j] EXCEPT !.full_screen_pane_id = 0]]]
        = [id |-> session.id, active_tab_id |-> session.active, tabs |-> kept]
    <3> HIDE DEF tabs
    <3>1. QED
      BY <2>1
  <2>4. QED
    BY <2>2, <2>3 DEF FollowedSession
<1> DEFINE sessions == [i \in DOMAIN state.sessions |-> SessionToJson(state.sessions[i])]
<1>3. AsJson(state) = [kind |-> "layout", active_session_id |-> state.active,
                       sessions |-> sessions]
  BY DEF AsJson
<1>4. [i \in DOMAIN sessions |->
          [sessions[i] EXCEPT !.tabs =
              [j \in DOMAIN @ |-> [@[j] EXCEPT !.full_screen_pane_id = 0]]]]
      = FollowedSessions(state.sessions)
  BY <1>2 DEF FollowedSessions
<1>5. QED
  <2> HIDE DEF sessions
  <2>1. QED
    BY <1>3, <1>4 DEF Followed

\* An item that replaces one of the same id is where that one was.
LEMMA PutAt ==
    ASSUME NEW S, NEW seq, Keyed(seq, S), NEW old \in Range(seq), NEW new \in S, new.id = old.id
    PROVE  /\ DOMAIN Put(seq, new) = DOMAIN seq
           /\ \A i \in DOMAIN seq :
                  Put(seq, new)[i] = seq[i] \/ (seq[i] = old /\ Put(seq, new)[i] = new)
<1>1. DOMAIN Put(seq, new) = DOMAIN seq
  BY DEF Put
<1>2. ASSUME NEW i \in DOMAIN seq
      PROVE  Put(seq, new)[i] = seq[i] \/ (seq[i] = old /\ Put(seq, new)[i] = new)
  <2>1. CASE seq[i].id = new.id
    <3>1. seq[i] = old
      <4>1. seq[i] \in Range(seq)
        BY DEF Range
      <4>2. QED
        BY <2>1, <4>1, SameItem
    <3>2. QED
      BY <2>1, <3>1 DEF Put
  <2>2. CASE seq[i].id # new.id
    BY <2>2 DEF Put
  <2>3. QED
    BY <2>1, <2>2
<1>3. QED
  BY <1>1, <1>2

\* A save does not follow what ToggleFullScreen changes.
LEMMA ToggleUnseen ==
    ASSUME InUse, ToggleFullScreen
    PROVE  Followed(AsJson(layout')) = Followed(AsJson(layout))
<1> DEFINE session == ActiveSession
           tab == ActiveTab
<1>1. /\ Sound(layout) /\ layout \in Layouts /\ Keyed(layout.sessions, Session)
      /\ session \in Range(layout.sessions) /\ SoundSession(session) /\ session \in Session
      /\ Keyed(session.tabs, Tab) /\ tab \in Range(session.tabs) /\ tab \in Tab
  BY ActiveFacts, LayoutFacts, SessionFacts DEF InUse, Good
<1>2. PICK full : layout' = SetTab([tab EXCEPT !.full = full]) /\ full \in Nat
  <2>1. layout' = SetTab([tab EXCEPT !.full = IF @ = tab.active THEN 0 ELSE tab.active])
    BY DEF ToggleFullScreen
  <2>2. (IF tab.full = tab.active THEN 0 ELSE tab.active) \in Nat
    BY <1>1 DEF Tab
  <2>3. layout' = SetTab([tab EXCEPT !.full = IF tab.full = tab.active THEN 0 ELSE tab.active])
    BY <2>1
  <2>4. QED
    BY <2>2, <2>3
<1> DEFINE tab2 == [tab EXCEPT !.full = full]
           session2 == [session EXCEPT !.tabs = Put(@, tab2)]
           sessions2 == Put(layout.sessions, session2)
<1>3. layout' = [layout EXCEPT !.sessions = sessions2]
  BY <1>2 DEF SetTab, SetSession
<1> HIDE DEF session, tab
<1>4. tab2 \in Tab /\ tab2.id = tab.id /\ FollowedTab(tab2) = FollowedTab(tab)
  BY <1>1, <1>2 DEF Tab, FollowedTab
<1> HIDE DEF tab2
<1>5. Keyed(Put(session.tabs, tab2), Tab)
  BY <1>1, <1>4, PutLemma DEF IdsOf
<1>6. /\ session2 \in Session /\ session2.id = session.id /\ session2.active = session.active
      /\ session2.tabs = Put(session.tabs, tab2)
  BY <1>1, <1>5 DEF Session, Keyed
<1> HIDE DEF session2
<1>7. FollowedSession(session2) = FollowedSession(session)
  <2>1. /\ DOMAIN session2.tabs = DOMAIN session.tabs
        /\ \A i \in DOMAIN session.tabs : FollowedTab(session2.tabs[i]) = FollowedTab(session.tabs[i])
    BY <1>1, <1>4, <1>6, PutAt
  <2>2. QED
    BY <1>6, <2>1 DEF FollowedSession
<1>8. FollowedSessions(sessions2) = FollowedSessions(layout.sessions)
  <2>1. /\ DOMAIN sessions2 = DOMAIN layout.sessions
        /\ \A i \in DOMAIN layout.sessions :
               FollowedSession(sessions2[i]) = FollowedSession(layout.sessions[i])
    BY <1>1, <1>6, <1>7, PutAt
  <2>2. QED
    BY <2>1 DEF FollowedSessions
<1> HIDE DEF sessions2
<1>9. layout'.sessions = sessions2 /\ layout'.active = layout.active
  BY <1>1, <1>3 DEF Layouts
<1>10. QED
  BY <1>8, <1>9, FollowedIs

\* While ttx runs, the layout is going to be saved, or is the one being saved by the last save of a
\* round, or is in the file.
Current(json) ==
    /\ json.kind = "layout" /\ Followed(json) = Followed(AsJson(layout))
    /\ ~toggled => json = AsJson(layout)
More == thread.at \in {"open", "write"} /\ ~thread.last
Due == queue # <<>> \/ hooks # {} \/ thread.at \in {"handle", "done"} \/ More
InHand ==
    /\ thread.at \in {"open", "write"} /\ thread.last
    /\ thread.name = config.name /\ Current(thread.json)
OnDisk ==
    /\ thread.at = "sleep"
    /\ config.save /\ config.name \notin broken => Current(files[config.name])
CatchesUp == ttx = "running" => Due \/ InHand \/ OnDisk

LEMMA AsleepCatchesUp ==
    ASSUME thread' = Asleep, Current(files[config.name])' \/ (config.name \in broken)' \/ ~config'.save
    PROVE  OnDisk'
<1>1. thread'.at = "sleep"
  BY DEF Asleep
<1>2. QED
  BY <1>1 DEF OnDisk

\* The save thread leaves nothing behind.
LEMMA SaverCatchesUp ==
    ASSUME InitialOK, Due \/ InHand \/ OnDisk, Saver
    PROVE  Due' \/ InHand' \/ OnDisk'
<1>1. Shaped /\ FilesOK /\ ThreadOK
  BY ThreadParts DEF InitialOK
<1>2. /\ hooks' = hooks /\ layout' = layout
      /\ toggled' = toggled \/ AutomaticSave
  BY DEF Saver, Fetch, HandleEvent, AutomaticSave, OpenFile, WriteFile, Unchanged
<1>3. CASE Fetch
  <2>1. thread'.at = "handle"
    BY <1>1, <1>3 DEF Fetch, Shaped
  <2>2. QED
    BY <2>1 DEF Due
<1>4. CASE HandleEvent
  <2>1. thread.at = "handle"
    BY <1>4 DEF HandleEvent
  <2>2. \/ Snapshot(Head(thread.events).name, Tail(thread.events), FALSE)
        \/ thread' = [thread EXCEPT !.events = Tail(thread.events)]
        \/ thread' = [Asleep EXCEPT !.at = "done"]
    BY <1>4 DEF HandleEvent
  <2>3. CASE Snapshot(Head(thread.events).name, Tail(thread.events), FALSE)
    <3>1. thread'.at = "open"
      BY <2>3 DEF Snapshot
    <3>2. ~thread'.last
      BY <2>3 DEF Snapshot
    <3>3. QED
      BY <3>1, <3>2 DEF Due, More
  <2>4. CASE thread' = [thread EXCEPT !.events = Tail(thread.events)]
    <3>1. thread'.at = "handle"
      BY <1>1, <2>1, <2>4 DEF Shaped
    <3>2. QED
      BY <3>1 DEF Due
  <2>5. CASE thread' = [Asleep EXCEPT !.at = "done"]
    <3>1. thread'.at = "done"
      BY <2>5 DEF Asleep
    <3>2. QED
      BY <3>1 DEF Due
  <2>6. QED
    BY <2>2, <2>3, <2>4, <2>5
<1>5. CASE AutomaticSave
  <2>1. /\ config' = config /\ files' = files /\ broken' = broken
        /\ config.save => Snapshot(config.name, <<>>, TRUE)
        /\ ~config.save => thread' = Asleep
    BY <1>5 DEF AutomaticSave
  <2>2. CASE config.save
    <3>1. Snapshot(config.name, <<>>, TRUE)
      BY <2>1, <2>2
    <3>2. thread'.at = "open" /\ thread'.name = config.name /\ thread'.json = AsJson(layout)
      BY <3>1 DEF Snapshot
    <3>3. thread'.last
      BY <3>1 DEF Snapshot
    <3>4. AsJson(layout).kind = "layout"
      BY DEF AsJson
    <3>5. Current(thread.json)'
      BY <1>2, <3>2, <3>4 DEF Current
    <3>6. QED
      BY <2>1, <3>2, <3>3, <3>5 DEF InHand
  <2>3. CASE ~config.save
    BY <2>1, <2>3, AsleepCatchesUp
  <2>4. QED
    BY <2>2, <2>3
\* The last save of a round has ended, and the file is current or broken.
<1>6. ASSUME thread' = AfterSave, thread.at \in {"open", "write"}, config' = config, queue' = queue,
             InHand => Current(files[config.name])' \/ (config.name \in broken)'
      PROVE  Due' \/ InHand' \/ OnDisk'
  <2>1. CASE thread.last
    <3>1. thread' = Asleep
      BY <1>6, <2>1 DEF AfterSave
    <3>2. CASE InHand
      BY <1>6, <3>1, <3>2, AsleepCatchesUp
    <3>3. CASE ~InHand
      <4>1. queue # <<>> \/ hooks # {}
        BY <1>6, <2>1, <3>3 DEF Due, More, OnDisk
      <4>2. QED
        BY <1>2, <1>6, <4>1 DEF Due
    <3>4. QED
      BY <3>2, <3>3
  <2>2. CASE ~thread.last
    <3>1. thread' = [thread EXCEPT !.at = "handle", !.name = "", !.json = Nobody]
      BY <1>6, <2>2 DEF AfterSave
    <3>2. thread'.at = "handle"
      BY <1>1, <3>1 DEF Shaped
    <3>3. QED
      BY <3>2 DEF Due
  <2>3. QED
    BY <2>1, <2>2
<1>7. CASE OpenFile
  <2>1. thread.at = "open" /\ config' = config /\ queue' = queue /\ toggled' = toggled
    BY <1>7 DEF OpenFile
  <2>2. CASE thread' = [thread EXCEPT !.at = "write"]
    <3>1. thread'.at = "write" /\ thread'.name = thread.name /\ thread'.json = thread.json
      BY <1>1, <2>2 DEF Shaped
    <3>2. thread'.last = thread.last
      BY <1>1, <2>2 DEF Shaped
    <3>3. Due => Due'
      <4>1. More => More'
        BY <3>1, <3>2 DEF More
      <4>2. QED
        BY <1>2, <2>1, <4>1 DEF Due
    <3>4. InHand => InHand'
      <4>1. Current(thread.json) => Current(thread.json)'
        BY <1>2, <2>1, <3>1 DEF Current
      <4>2. QED
        BY <2>1, <3>1, <3>2, <4>1 DEF InHand
    <3>5. ~OnDisk
      BY <2>1 DEF OnDisk
    <3>6. QED
      BY <3>3, <3>4, <3>5
  <2>3. CASE thread' # [thread EXCEPT !.at = "write"]
    <3>1. thread' = AfterSave /\ broken' = broken \cup {thread.name}
      BY <1>7, <2>3 DEF OpenFile
    <3>2. InHand => (config.name \in broken)'
      BY <2>1, <3>1 DEF InHand
    <3>3. QED
      BY <1>6, <2>1, <3>1, <3>2
  <2>4. QED
    BY <2>2, <2>3
<1>8. CASE WriteFile
  <2>1. /\ thread.at = "write" /\ config' = config /\ queue' = queue /\ thread' = AfterSave
        /\ toggled' = toggled
    BY <1>8 DEF WriteFile
  <2>2. CASE files' = [files EXCEPT ![thread.name] = thread.json]
    <3>1. thread.name \in DOMAIN files
      BY <1>1, <2>1 DEF ThreadOK, FilesOK
    <3>2. files'[thread.name] = thread.json
      BY <2>2, <3>1
    <3>3. InHand => Current(files[config.name])'
      BY <1>2, <2>1, <3>2 DEF InHand, Current
    <3>4. QED
      BY <1>6, <2>1, <3>3
  <2>3. CASE files' # [files EXCEPT ![thread.name] = thread.json]
    <3>1. broken' = broken \cup {thread.name}
      BY <1>8, <2>3 DEF WriteFile
    <3>2. InHand => (config.name \in broken)'
      BY <2>1, <3>1 DEF InHand
    <3>3. QED
      BY <1>6, <2>1, <3>2
  <2>4. QED
    BY <2>2, <2>3
<1>9. QED
  BY <1>3, <1>4, <1>5, <1>7, <1>8 DEF Saver

LEMMA CatchesUpStep ==
    ASSUME InitialOK, CatchesUp, [Next]_vars
    PROVE  CatchesUp'
<1>1. QueueOK /\ HookOK /\ LayoutOK
  BY DEF InitialOK
<1>2. queue' # <<>> => CatchesUp'
  BY DEF CatchesUp, Due
<1>3. CASE AddPane \/ AddTab \/ AddSession \/ SelectPane \/ SelectTab
  <2>1. ttx' = ttx /\ Requested
    BY <1>3 DEF AddPane, AddTab, AddSession, SelectPane, SelectTab, Operation, process
  <2>2. CASE ttx = "running"
    BY <1>1, <1>2, <2>1, <2>2, Requests
  <2>3. CASE ttx # "running"
    BY <2>1, <2>3 DEF CatchesUp
  <2>4. QED
    BY <2>2, <2>3
<1>4. CASE RemovePane
  <2>1. Requested /\ (ttx' = "running" => ttx = "running")
    BY <1>4 DEF RemovePane
  <2>2. CASE ttx = "running"
    BY <1>1, <1>2, <2>1, <2>2, Requests
  <2>3. CASE ttx # "running"
    BY <2>1, <2>3 DEF CatchesUp
  <2>4. QED
    BY <2>2, <2>3
<1>5. CASE CallHook
  <2>1. Requested /\ ttx' = ttx
    BY <1>5 DEF CallHook, process
  <2>2. CASE ttx = "running"
    BY <1>1, <1>2, <2>1, <2>2, Requests
  <2>3. CASE ttx # "running"
    BY <2>1, <2>3 DEF CatchesUp
  <2>4. QED
    BY <2>2, <2>3
<1>6. CASE SaveAs \/ ReloadConfig
  <2>1. PICK event \in Event : queue' = Append(queue, event)
    BY <1>6, Events, SaveLayoutAssumption DEF SaveAs, ReloadConfig
  <2>2. QED
    BY <1>1, <1>2, <2>1 DEF QueueOK
<1>7. CASE UpdateCwd
  <2>1. hooks' # {}
    BY <1>7 DEF UpdateCwd
  <2>2. QED
    BY <2>1 DEF CatchesUp, Due
<1>8. CASE ToggleFullScreen
  <2>1. /\ ttx' = ttx /\ hooks' = hooks /\ queue' = queue /\ thread' = thread
        /\ config' = config /\ files' = files /\ broken' = broken /\ toggled' = TRUE
    BY <1>8 DEF ToggleFullScreen, Operation, process, saver
  <2>2. Followed(AsJson(layout')) = Followed(AsJson(layout))
    <3>1. Live /\ layout.active # 0
      BY <1>8 DEF ToggleFullScreen, Operation
    <3>2. QED
      BY <1>1, <1>8, <3>1, ToggleUnseen DEF LayoutOK, InUse
  <2>3. ttx = "running" => Due \/ InHand \/ OnDisk
    BY DEF CatchesUp
  <2>4. Due => Due'
    BY <2>1 DEF Due, More
  <2>5. InHand => InHand'
    BY <2>1, <2>2 DEF InHand, Current
  <2>6. OnDisk => OnDisk'
    BY <2>1, <2>2 DEF OnDisk, Current
  <2>7. QED
    BY <2>1, <2>3, <2>4, <2>5, <2>6 DEF CatchesUp
<1>9. CASE Saver
  <2>1. ttx' = ttx
    BY <1>9 DEF Saver, Fetch, HandleEvent, AutomaticSave, OpenFile, WriteFile, Unchanged, process
  <2>2. QED
    BY <1>9, <2>1, SaverCatchesUp DEF CatchesUp
<1>10. CASE StartEmpty \/ StartRestored
  <2> DEFINE event == [type |-> "save", name |-> ""]
  <2>1. queue' = <<event>>
    BY <1>10 DEF StartEmpty, StartRestored
  <2> HIDE DEF event
  <2>2. Append(<<>>, event) = <<event>> /\ Append(<<>>, event) # <<>>
    OBVIOUS
  <2>3. QED
    BY <1>2, <2>1, <2>2
<1>11. CASE StartFails \/ End \/ ChildEnds \/ HookWaits \/ Quit \/ Kill
  <2>1. \/ ttx' # "running"
        \/ ChildEnds /\ UNCHANGED <<ttx, layout, hooks, saver, toggled>>
    BY <1>11 DEF StartFails, End, Unhook, LockLayout, DestroyPanes, RequestExit, Join, ChildEnds,
                 HookWaits, Quit, Kill
  <2>2. CASE UNCHANGED <<ttx, layout, hooks, saver, toggled>>
    BY <2>2 DEF saver, CatchesUp, Due, More, InHand, OnDisk, Current
  <2>3. QED
    BY <2>1, <2>2 DEF CatchesUp
<1>12. CASE UNCHANGED vars
  BY <1>12 DEF vars, CatchesUp, Due, More, InHand, OnDisk, Current
<1>13. QED
  BY <1>3, <1>4, <1>5, <1>6, <1>7, <1>8, <1>9, <1>10, <1>11, <1>12 DEF Next, User, Main, Others

\* No change is missed: an idle save thread has left the layout in the file, whatever changed while
\* it was writing, and exactly so unless full screen has been toggled since, when all but the pane
\* on full screen is the same (SaveLayoutThread::save_layout_thread).
THEOREM SavedAlways == Spec => []Saved
<1>1. Init => CatchesUp
  BY DEF Init, CatchesUp
<1>2. InitialOK /\ CatchesUp /\ [Next]_vars => CatchesUp'
  BY CatchesUpStep
<1>3. Spec => []CatchesUp
  BY <1>1, <1>2, AlwaysOK, PTL DEF Spec
<1>4. ASSUME CatchesUp PROVE Saved
  <2>1. ASSUME ttx = "running", thread.at = "sleep", queue = <<>>, hooks = {}
        PROVE  OnDisk
    BY <1>4, <2>1 DEF CatchesUp, Due, More, InHand
  <2>2. QED
    BY <2>1 DEF Saved, UpToDate, OnDisk, Current
<1>5. QED
  BY <1>3, <1>4, PTL
=============================================================================
