---------------------------- MODULE RankMgrProofs ----------------------------
(***************************************************************************)
(* Facts about the leaderboard that hold for every list, page and score:   *)
(* what the scans of update find, and what an update preserves.            *)
(***************************************************************************)
EXTENDS RankMgr, SequenceTheorems, FiniteSetTheorems, WellFoundedInduction, TLAPS

\* Every non-empty set of natural numbers has a least element, so the scans
\* that stop at "the first item that ..." are well defined.
LEMMA LeastNatural ==
  ASSUME NEW I \in SUBSET Nat, I # {}
  PROVE  \E i \in I : \A j \in I : i <= j
<1> DEFINE R == {pair \in Nat \X Nat : pair[1] < pair[2]}
<1>1. IsWellFoundedOn(R, Nat)
  BY NatLessThanWellFounded DEF OpToRel
<1>2. PICK i \in I : \A j \in I : <<j, i>> \notin R
  <2> HIDE DEF R
  <2> QED
    BY <1>1, WFMin
<1>3. \A j \in I : ~(j < i)
  BY <1>2
<1> QED
  BY <1>3

-----------------------------------------------------------------------------
(* Sequences: erase and insert of std::list.                               *)

\* Erasing shifts what follows by one place.
LEMMA RemoveAtProperties ==
  ASSUME NEW S, NEW s \in Seq(S), NEW i \in 1 .. Len(s)
  PROVE  /\ RemoveAt(s, i) \in Seq(S)
         /\ Len(RemoveAt(s, i)) = Len(s) - 1
         /\ \A j \in 1 .. Len(s) - 1 :
              RemoveAt(s, i)[j] = IF j < i THEN s[j] ELSE s[j + 1]
<1> DEFINE front == SubSeq(s, 1, i - 1)
           back  == SubSeq(s, i + 1, Len(s))
<1>1. Len(s) \in Nat
  BY LenProperties
<1>2. /\ front \in Seq(S)
      /\ Len(front) = i - 1
      /\ \A j \in 1 .. i - 1 : front[j] = s[j]
  BY SubSeqProperties, LenProperties, ElementOfSeq
<1>3. /\ back \in Seq(S)
      /\ Len(back) = Len(s) - i
      /\ \A j \in 1 .. Len(s) - i : back[j] = s[i + j]
  BY SubSeqProperties, LenProperties, ElementOfSeq
<1>4. RemoveAt(s, i) = front \o back
  BY DEF RemoveAt
<1> HIDE DEF front, back
<1>5. /\ front \o back \in Seq(S)
      /\ Len(front \o back) = Len(front) + Len(back)
      /\ \A j \in 1 .. Len(front) + Len(back) :
           (front \o back)[j] = IF j <= Len(front) THEN front[j] ELSE back[j - Len(front)]
  BY <1>2, <1>3, ConcatProperties
<1>6. Len(front \o back) = Len(s) - 1
  BY <1>1, <1>2, <1>3, <1>5
<1>7. ASSUME NEW j \in 1 .. Len(s) - 1
      PROVE  (front \o back)[j] = IF j < i THEN s[j] ELSE s[j + 1]
  <2>1. (front \o back)[j] = IF j <= i - 1 THEN front[j] ELSE back[j - (i - 1)]
    BY <1>1, <1>2, <1>3, <1>5
  <2>2. CASE j < i
    BY <1>1, <1>2, <2>1, <2>2
  <2>3. CASE j >= i
    <3>1. j - (i - 1) \in 1 .. Len(s) - i
      BY <1>1, <2>3
    <3>2. back[j - (i - 1)] = s[i + (j - (i - 1))]
      BY <1>3, <3>1
    <3> QED
      BY <1>1, <2>1, <2>3, <3>2
  <2>4. j < i \/ j >= i
    BY <1>1
  <2> QED
    BY <2>2, <2>3, <2>4
<1> QED
  BY <1>4, <1>5, <1>6, <1>7

\* Inserting puts the new element at its place and shifts what follows.
LEMMA InsertAtProperties ==
  ASSUME NEW S, NEW s \in Seq(S), NEW i \in 1 .. Len(s) + 1, NEW e \in S
  PROVE  /\ InsertAt(s, i, e) \in Seq(S)
         /\ Len(InsertAt(s, i, e)) = Len(s) + 1
         /\ \A j \in 1 .. Len(s) + 1 :
              InsertAt(s, i, e)[j] =
                IF j < i THEN s[j] ELSE IF j = i THEN e ELSE s[j - 1]
<1> DEFINE front == SubSeq(s, 1, i - 1)
           back  == SubSeq(s, i, Len(s))
           head  == front \o <<e>>
<1>1. Len(s) \in Nat
  BY LenProperties
<1>2. /\ front \in Seq(S)
      /\ Len(front) = i - 1
      /\ \A j \in 1 .. i - 1 : front[j] = s[j]
  BY SubSeqProperties, LenProperties, ElementOfSeq
<1>3. /\ back \in Seq(S)
      /\ Len(back) = Len(s) - i + 1
      /\ \A j \in 1 .. Len(s) - i + 1 : back[j] = s[i + j - 1]
  BY SubSeqProperties, LenProperties, ElementOfSeq
<1>4. <<e>> \in Seq(S) /\ Len(<<e>>) = 1 /\ <<e>>[1] = e
  OBVIOUS
<1>5. InsertAt(s, i, e) = head \o back
  BY DEF InsertAt
<1> HIDE DEF front, back
<1>6. /\ head \in Seq(S)
      /\ Len(head) = i
      /\ \A j \in 1 .. i - 1 : head[j] = s[j]
      /\ head[i] = e
  <2>1. /\ head \in Seq(S)
        /\ Len(head) = Len(front) + Len(<<e>>)
        /\ \A j \in 1 .. Len(front) + Len(<<e>>) :
             head[j] = IF j <= Len(front) THEN front[j] ELSE <<e>>[j - Len(front)]
    BY <1>2, <1>4, ConcatProperties
  <2>2. Len(head) = i
    BY <1>1, <1>2, <1>4, <2>1
  <2>3. ASSUME NEW j \in 1 .. i - 1 PROVE head[j] = s[j]
    BY <1>1, <1>2, <1>4, <2>1
  <2>4. head[i] = <<e>>[1]
    BY <1>1, <1>2, <1>4, <2>1
  <2> QED
    BY <1>4, <2>1, <2>2, <2>3, <2>4
<1> HIDE DEF head
<1>7. /\ head \o back \in Seq(S)
      /\ Len(head \o back) = Len(head) + Len(back)
      /\ \A j \in 1 .. Len(head) + Len(back) :
           (head \o back)[j] = IF j <= Len(head) THEN head[j] ELSE back[j - Len(head)]
  BY <1>3, <1>6, ConcatProperties
<1>8. Len(head \o back) = Len(s) + 1
  BY <1>1, <1>3, <1>6, <1>7
<1>9. ASSUME NEW j \in 1 .. Len(s) + 1
      PROVE  (head \o back)[j] = IF j < i THEN s[j] ELSE IF j = i THEN e ELSE s[j - 1]
  <2>1. (head \o back)[j] = IF j <= i THEN head[j] ELSE back[j - i]
    BY <1>1, <1>3, <1>6, <1>7
  <2>2. CASE j <= i
    BY <1>1, <1>6, <2>1, <2>2
  <2>3. CASE j > i
    <3>1. j - i \in 1 .. Len(s) - i + 1
      BY <1>1, <2>3
    <3>2. back[j - i] = s[i + (j - i) - 1]
      BY <1>3, <3>1
    <3> QED
      BY <1>1, <2>1, <2>3, <3>2
  <2>4. j <= i \/ j > i
    BY <1>1
  <2> QED
    BY <2>2, <2>3, <2>4
<1> QED
  BY <1>5, <1>7, <1>8, <1>9

-----------------------------------------------------------------------------
(* The list.                                                               *)

\* The types of the fields of an item of the list.
LEMMA ItemTypes ==
  ASSUME NEW list \in Seq(RankItem), NEW i \in 1 .. Len(list)
  PROVE  /\ list[i] \in RankItem
         /\ list[i].pid \in PlayerIDs
         /\ list[i].gold \in Int
         /\ list[i].score \in Int
<1>1. list[i] \in RankItem
  BY ElementOfSeq
<1> QED
  BY <1>1 DEF RankItem

\* The first scan of update stops at the first item of the player, or at the
\* end when he is not listed.
LEMMA PositionProperties ==
  ASSUME NEW list \in Seq(RankItem), NEW p
  PROVE  \/ /\ Position(list, p) = 0
            /\ \A i \in 1 .. Len(list) : list[i].pid # p
         \/ /\ Position(list, p) \in 1 .. Len(list)
            /\ list[Position(list, p)].pid = p
            /\ \A i \in 1 .. Len(list) : list[i].pid = p => Position(list, p) <= i
<1> DEFINE I == {i \in DOMAIN list : list[i].pid = p}
<1>1. DOMAIN list = 1 .. Len(list) /\ Len(list) \in Nat
  BY LenProperties
<1>2. CASE I = {}
  BY <1>1, <1>2 DEF Position
<1>3. CASE I # {}
  <2>1. I \in SUBSET Nat
    BY <1>1
  <2>2. \E i \in I : \A j \in I : i <= j
    <3> HIDE DEF I
    <3> QED
      BY <1>3, <2>1, LeastNatural
  <2>3. Position(list, p) = CHOOSE i \in I : \A j \in I : i <= j
    BY <1>3 DEF Position
  <2>4. Position(list, p) \in I /\ \A j \in I : Position(list, p) <= j
    <3> HIDE DEF I
    <3> QED
      BY <2>2, <2>3
  <2> QED
    BY <1>1, <2>4
<1> QED
  BY <1>2, <1>3

\* The second scan of update stops at the first item with a lower score, or at
\* the end when there is none.
LEMMA PlaceProperties ==
  ASSUME NEW list \in Seq(RankItem), NEW score \in Int
  PROVE  /\ Place(list, score) \in 1 .. Len(list) + 1
         /\ \A i \in 1 .. Len(list) : i < Place(list, score) => list[i].score >= score
         /\ Place(list, score) <= Len(list) => list[Place(list, score)].score < score
<1> DEFINE I == {i \in DOMAIN list : list[i].score < score}
<1>1. DOMAIN list = 1 .. Len(list) /\ Len(list) \in Nat
  BY LenProperties
<1>2. \A i \in 1 .. Len(list) : list[i].score \in Int
  BY ItemTypes
<1>3. CASE I = {}
  <2>1. Place(list, score) = Len(list) + 1
    BY <1>3 DEF Place
  <2>2. \A i \in 1 .. Len(list) : list[i].score >= score
    BY <1>1, <1>2, <1>3
  <2> QED
    BY <1>1, <2>1, <2>2
<1>4. CASE I # {}
  <2>1. I \in SUBSET Nat
    BY <1>1
  <2>2. \E i \in I : \A j \in I : i <= j
    <3> HIDE DEF I
    <3> QED
      BY <1>4, <2>1, LeastNatural
  <2>3. Place(list, score) = CHOOSE i \in I : \A j \in I : i <= j
    BY <1>4 DEF Place
  <2>4. Place(list, score) \in I /\ \A j \in I : Place(list, score) <= j
    <3> HIDE DEF I
    <3> QED
      BY <2>2, <2>3
  <2>5. Place(list, score) \in 1 .. Len(list) /\ list[Place(list, score)].score < score
    BY <1>1, <2>4
  <2>6. ASSUME NEW i \in 1 .. Len(list), i < Place(list, score)
        PROVE  list[i].score >= score
    <3>1. i \notin I
      BY <1>1, <2>4, <2>5, <2>6
    <3> QED
      BY <1>1, <1>2, <3>1
  <2> QED
    BY <1>1, <2>5, <2>6
<1> QED
  BY <1>3, <1>4

-----------------------------------------------------------------------------
(* update.                                                                 *)

\* The list after update when the reported score is better: every item is the
\* reported one or an item of somebody else, in the former order.
LEMMA UpdatedProperties ==
  ASSUME NEW list \in Seq(RankItem), NEW item \in RankItem,
         Descending(list),
         Position(list, item.pid) # 0,
         item.score > list[Position(list, item.pid)].score
  PROVE  \E from \in 1 .. Len(list), to \in 1 .. Len(list) :
           /\ from = Position(list, item.pid)
           /\ to <= from
           /\ Updated(list, item) \in Seq(RankItem)
           /\ Len(Updated(list, item)) = Len(list)
           /\ \A j \in 1 .. Len(list) :
                Updated(list, item)[j] =
                  IF j = to THEN item
                  ELSE IF to < j /\ j <= from THEN list[j - 1] ELSE list[j]
           /\ \A j \in 1 .. to - 1 : list[j].score >= item.score
           /\ list[to].score < item.score
<1> DEFINE i     == Position(list, item.pid)
           rest  == RemoveAt(list, i)
           place == Place(rest, item.score)
<1>1. /\ Len(list) \in Nat
      /\ i \in 1 .. Len(list)
      /\ item.score \in Int
      /\ \A j \in 1 .. Len(list) : list[j].score \in Int
  BY LenProperties, PositionProperties, ItemTypes DEF RankItem
<1>2. Updated(list, item) = InsertAt(rest, place, item)
  BY DEF Updated
<1> HIDE DEF i
<1>3. /\ rest \in Seq(RankItem)
      /\ Len(rest) = Len(list) - 1
      /\ \A j \in 1 .. Len(list) - 1 : rest[j] = IF j < i THEN list[j] ELSE list[j + 1]
  BY <1>1, RemoveAtProperties
<1> HIDE DEF rest
<1>4. /\ place \in 1 .. Len(rest) + 1
      /\ \A j \in 1 .. Len(rest) : j < place => rest[j].score >= item.score
      /\ place <= Len(rest) => rest[place].score < item.score
  BY <1>1, <1>3, PlaceProperties
<1> HIDE DEF place
<1>5. /\ InsertAt(rest, place, item) \in Seq(RankItem)
      /\ Len(InsertAt(rest, place, item)) = Len(rest) + 1
      /\ \A j \in 1 .. Len(rest) + 1 :
           InsertAt(rest, place, item)[j] =
             IF j < place THEN rest[j] ELSE IF j = place THEN item ELSE rest[j - 1]
  BY <1>3, <1>4, InsertAtProperties
<1>6. place <= i
  <2> SUFFICES ASSUME place > i PROVE FALSE
    BY <1>1, <1>3, <1>4
  <2>1. i \in 1 .. Len(rest) /\ i + 1 \in 1 .. Len(list)
    BY <1>1, <1>3, <1>4
  <2>2. rest[i] = list[i + 1] /\ rest[i].score >= item.score
    BY <1>1, <1>3, <1>4, <2>1
  <2>3. list[i].score >= list[i + 1].score
    <3>1. DOMAIN list = 1 .. Len(list)
      BY LenProperties
    <3>2. i \in DOMAIN list /\ i + 1 \in DOMAIN list /\ i < i + 1
      BY <1>1, <2>1, <3>1
    <3> QED
      BY <3>2 DEF Descending
  <2>4. item.score > list[i].score
    BY DEF i
  <2> QED
    BY <1>1, <2>1, <2>2, <2>3, <2>4
<1>7. place \in 1 .. Len(list) /\ Len(rest) + 1 = Len(list)
  BY <1>1, <1>3, <1>4, <1>6
<1>8. ASSUME NEW j \in 1 .. Len(list)
      PROVE  InsertAt(rest, place, item)[j] =
               IF j = place THEN item
               ELSE IF place < j /\ j <= i THEN list[j - 1] ELSE list[j]
  <2>1. InsertAt(rest, place, item)[j] =
          IF j < place THEN rest[j] ELSE IF j = place THEN item ELSE rest[j - 1]
    BY <1>5, <1>7
  <2>2. CASE j < place
    <3>1. rest[j] = list[j]
      BY <1>1, <1>3, <1>6, <1>7, <2>2
    <3> QED
      BY <1>1, <1>7, <2>1, <2>2, <3>1
  <2>3. CASE j = place
    BY <2>1, <2>3
  <2>4. CASE j > place
    <3>1. rest[j - 1] = IF j - 1 < i THEN list[j - 1] ELSE list[(j - 1) + 1]
      BY <1>1, <1>3, <1>7, <2>4
    <3> QED
      BY <1>1, <1>7, <2>1, <2>4, <3>1
  <2> QED
    BY <1>7, <2>2, <2>3, <2>4
<1>9. \A j \in 1 .. place - 1 : list[j].score >= item.score
  <2> SUFFICES ASSUME NEW j \in 1 .. place - 1
               PROVE  list[j].score >= item.score
    OBVIOUS
  <2>1. j \in 1 .. Len(rest) /\ j < place /\ j < i
    BY <1>1, <1>6, <1>7
  <2> QED
    BY <1>3, <1>4, <2>1
<1>10. list[place].score < item.score
  <2>1. CASE place = i
    BY <2>1 DEF i
  <2>2. CASE place < i
    <3>1. place <= Len(rest) /\ rest[place] = list[place]
      BY <1>1, <1>3, <1>7, <2>2
    <3> QED
      BY <1>4, <3>1
  <2> QED
    BY <1>1, <1>6, <1>7, <2>1, <2>2
<1> QED
  BY <1>1, <1>2, <1>5, <1>6, <1>7, <1>8, <1>9, <1>10 DEF i

\* An update changes nothing but the list of a player whose score it raises.
LEMMA NotUpdated ==
  ASSUME NEW list, NEW item,
         ~(Position(list, item.pid) # 0
             /\ item.score > list[Position(list, item.pid)].score)
  PROVE  Updated(list, item) = list
BY DEF Updated

\* An update keeps the list a list of rank items.
LEMMA UpdatedType ==
  ASSUME NEW list \in Seq(RankItem), NEW item \in RankItem, Descending(list)
  PROVE  Updated(list, item) \in Seq(RankItem) /\ Len(Updated(list, item)) = Len(list)
BY NotUpdated, UpdatedProperties

\* An update keeps the list sorted: the item is inserted where it belongs.
LEMMA UpdatedSorted ==
  ASSUME NEW list \in Seq(RankItem), NEW item \in RankItem, Descending(list)
  PROVE  Descending(Updated(list, item))
<1> DEFINE new == Updated(list, item)
<1>1. CASE ~(Position(list, item.pid) # 0
               /\ item.score > list[Position(list, item.pid)].score)
  BY <1>1, NotUpdated
<1>2. CASE /\ Position(list, item.pid) # 0
           /\ item.score > list[Position(list, item.pid)].score
  <2>1. PICK from \in 1 .. Len(list), to \in 1 .. Len(list) :
          /\ to <= from
          /\ new \in Seq(RankItem)
          /\ Len(new) = Len(list)
          /\ \A j \in 1 .. Len(list) :
               new[j] = IF j = to THEN item
                        ELSE IF to < j /\ j <= from THEN list[j - 1] ELSE list[j]
          /\ \A j \in 1 .. to - 1 : list[j].score >= item.score
          /\ list[to].score < item.score
    BY <1>2, UpdatedProperties
  <2> HIDE DEF new
  <2>2. Len(list) \in Nat /\ DOMAIN new = 1 .. Len(list) /\ DOMAIN list = 1 .. Len(list)
    BY <2>1, LenProperties
  <2>3. /\ item.score \in Int
        /\ \A j \in 1 .. Len(list) : list[j].score \in Int
    BY ItemTypes DEF RankItem
  <2>4. \A a, b \in 1 .. Len(list) : a <= b => list[a].score >= list[b].score
    BY <2>2, <2>3 DEF Descending
  <2>5. ASSUME NEW b \in 1 .. Len(list), to <= b
        PROVE  list[b].score < item.score
    <3>1. list[to].score >= list[b].score
      BY <2>4, <2>5
    <3> QED
      BY <2>1, <2>3, <3>1
  <2>6. ASSUME NEW a \in 1 .. Len(list), NEW b \in 1 .. Len(list), a < b
        PROVE  new[a].score >= new[b].score
    <3>1. CASE a < to
      <4>1. new[a] = list[a] /\ list[a].score >= item.score
        BY <2>1, <2>2, <3>1
      <4>2. CASE b = to
        BY <2>1, <4>1, <4>2
      <4>3. CASE b # to
        <5>1. PICK k \in 1 .. Len(list) : new[b] = list[k] /\ a <= k
          BY <2>1, <2>2, <2>6, <3>1, <4>3
        <5> QED
          BY <2>4, <4>1, <5>1
      <4> QED
        BY <4>2, <4>3
    <3>2. CASE a = to
      <4>1. new[a] = item
        BY <2>1, <3>2
      <4>2. new[b] = IF b <= from THEN list[b - 1] ELSE list[b]
        BY <2>1, <2>6, <3>2
      <4>3. to <= b - 1 /\ b - 1 \in 1 .. Len(list)
        BY <2>1, <2>2, <2>6, <3>2
      <4> QED
        BY <2>3, <2>5, <4>1, <4>2, <4>3
    <3>3. CASE a > to
      <4>1. PICK j \in 1 .. Len(list), k \in 1 .. Len(list) :
              new[a] = list[j] /\ new[b] = list[k] /\ j <= k
        <5>1. new[a] = IF a <= from THEN list[a - 1] ELSE list[a]
          BY <2>1, <3>3
        <5>2. new[b] = IF b <= from THEN list[b - 1] ELSE list[b]
          BY <2>1, <2>6, <3>3
        <5>3. a - 1 \in 1 .. Len(list) /\ b - 1 \in 1 .. Len(list)
          BY <2>2, <2>6, <3>3
        <5>4. CASE b <= from
          <6>1. new[a] = list[a - 1] /\ new[b] = list[b - 1] /\ a - 1 <= b - 1
            BY <2>2, <2>6, <5>1, <5>2, <5>4
          <6> QED
            BY <5>3, <6>1
        <5>5. CASE ~(b <= from) /\ a <= from
          <6>1. new[a] = list[a - 1] /\ new[b] = list[b] /\ a - 1 <= b
            BY <2>6, <5>1, <5>2, <5>5
          <6> QED
            BY <5>3, <6>1
        <5>6. CASE ~(b <= from) /\ ~(a <= from)
          <6>1. new[a] = list[a] /\ new[b] = list[b] /\ a <= b
            BY <2>6, <5>1, <5>2, <5>6
          <6> QED
            BY <6>1
        <5> QED
          BY <5>4, <5>5, <5>6
      <4> QED
        BY <2>4, <4>1
    <3> QED
      BY <2>1, <3>1, <3>2, <3>3
  <2> QED
    BY <2>2, <2>6 DEF Descending, new
<1> QED
  BY <1>1, <1>2

\* An update lists the same players as before, each as often as before: the
\* player of the item at place j was at place source(j).
LEMMA UpdatedPlayers ==
  ASSUME NEW list \in Seq(RankItem), NEW item \in RankItem, Descending(list)
  PROVE  \E source \in [1 .. Len(list) -> 1 .. Len(list)] :
           /\ \A j \in 1 .. Len(list) :
                /\ Updated(list, item)[j].pid = list[source[j]].pid
                /\ Updated(list, item)[j].score >= list[source[j]].score
           /\ \A j, k \in 1 .. Len(list) : source[j] = source[k] => j = k
<1> DEFINE new == Updated(list, item)
<1>1. Len(list) \in Nat /\ \A j \in 1 .. Len(list) : list[j].score \in Int
  BY LenProperties, ItemTypes
<1>2. CASE ~(Position(list, item.pid) # 0
               /\ item.score > list[Position(list, item.pid)].score)
  <2> DEFINE same == [j \in 1 .. Len(list) |-> j]
  <2>1. new = list
    BY <1>2, NotUpdated
  <2>2. /\ same \in [1 .. Len(list) -> 1 .. Len(list)]
        /\ \A j \in 1 .. Len(list) : same[j] = j
    OBVIOUS
  <2> HIDE DEF same
  <2>3. \A j \in 1 .. Len(list) :
          new[j].pid = list[same[j]].pid /\ new[j].score >= list[same[j]].score
    BY <1>1, <2>1, <2>2
  <2> QED
    BY <2>2, <2>3
<1>3. CASE /\ Position(list, item.pid) # 0
           /\ item.score > list[Position(list, item.pid)].score
  <2>1. PICK from \in 1 .. Len(list), to \in 1 .. Len(list) :
          /\ from = Position(list, item.pid)
          /\ to <= from
          /\ \A j \in 1 .. Len(list) :
               new[j] = IF j = to THEN item
                        ELSE IF to < j /\ j <= from THEN list[j - 1] ELSE list[j]
    BY <1>3, UpdatedProperties
  <2> DEFINE moved == [j \in 1 .. Len(list) |->
                         IF j = to THEN from
                         ELSE IF to < j /\ j <= from THEN j - 1 ELSE j]
  <2>2. moved \in [1 .. Len(list) -> 1 .. Len(list)]
    BY <1>1, <2>1
  <2>3. \A j \in 1 .. Len(list) :
          moved[j] = IF j = to THEN from
                     ELSE IF to < j /\ j <= from THEN j - 1 ELSE j
    OBVIOUS
  <2>4. list[from].pid = item.pid
    BY <1>1, <1>3, <2>1, PositionProperties
  <2> HIDE DEF moved, new
  <2>5. ASSUME NEW j \in 1 .. Len(list)
        PROVE  new[j].pid = list[moved[j]].pid /\ new[j].score >= list[moved[j]].score
    <3>1. CASE j = to
      BY <1>1, <1>3, <2>1, <2>3, <2>4, <3>1, ItemTypes DEF RankItem
    <3>2. CASE j # to
      <4>1. new[j] = list[moved[j]]
        BY <2>1, <2>3, <3>2
      <4>2. list[moved[j]].score \in Int
        BY <1>1, <2>2
      <4> QED
        BY <4>1, <4>2
    <3> QED
      BY <3>1, <3>2
  <2>6. ASSUME NEW j \in 1 .. Len(list), NEW k \in 1 .. Len(list), moved[j] = moved[k]
        PROVE  j = k
    BY <1>1, <2>1, <2>3, <2>6
  <2> QED
    BY <2>2, <2>5, <2>6 DEF new
<1> QED
  BY <1>2, <1>3

\* An update never duplicates a player.
LEMMA UpdatedUnique ==
  ASSUME NEW list \in Seq(RankItem), NEW item \in RankItem,
         Descending(list), UniquePlayers(list)
  PROVE  UniquePlayers(Updated(list, item))
<1> DEFINE new == Updated(list, item)
<1>1. PICK source \in [1 .. Len(list) -> 1 .. Len(list)] :
        /\ \A j \in 1 .. Len(list) : new[j].pid = list[source[j]].pid
        /\ \A j, k \in 1 .. Len(list) : source[j] = source[k] => j = k
  BY UpdatedPlayers
<1>2. DOMAIN list = 1 .. Len(list) /\ DOMAIN new = 1 .. Len(list)
  BY UpdatedType, LenProperties
<1> HIDE DEF new
<1>3. \A j, k \in 1 .. Len(list) : new[j].pid = new[k].pid => source[j] = source[k]
  BY <1>1, <1>2 DEF UniquePlayers
<1> QED
  BY <1>1, <1>2, <1>3 DEF UniquePlayers, new

\* What the constructor of RankMgr builds: an ordered list with one item per
\* player, whatever order std::sort leaves equal scores in.
LEMMA LoadedListsProperties ==
  ASSUME IsFiniteSet(PlayerIDs),
         NEW items \in SUBSET RankItem,
         \A x, y \in items : x.pid = y.pid => x = y,
         NEW list \in LoadedLists(items)
  PROVE  list \in Seq(RankItem) /\ Descending(list) /\ UniquePlayers(list)
<1> DEFINE pidOf == [x \in items |-> x.pid]
<1>1. \A x \in items : x.pid \in PlayerIDs
  BY DEF RankItem
<1>2. pidOf \in Injection(items, PlayerIDs)
  BY <1>1 DEF Injection, IsInjective
<1>3. IsFiniteSet(items)
  BY <1>2, FS_Injection
<1>4. Cardinality(items) \in Nat
  BY <1>3, FS_CardinalityType
<1>5. /\ list \in [1 .. Cardinality(items) -> items]
      /\ IsInjective(list)
      /\ Descending(list)
  BY DEF LoadedLists
<1>6. list \in Seq(RankItem)
  BY <1>4, <1>5
<1>7. ASSUME NEW i \in DOMAIN list, NEW j \in DOMAIN list, list[i].pid = list[j].pid
      PROVE  i = j
  <2>1. list[i] \in items /\ list[j] \in items
    BY <1>5
  <2>2. list[i] = list[j]
    BY <1>7, <2>1
  <2> QED
    BY <1>5, <2>2 DEF IsInjective
<1> QED
  BY <1>5, <1>6, <1>7 DEF UniquePlayers

-----------------------------------------------------------------------------
(* The invariant and the two operations.                                   *)

\* Wherever an overflow takes the begin of a page, it is an integer.
LEMMA PageBeginType ==
  ASSUME NEW page \in Pages
  PROVE  PageBegin(page) \in Int
<1>1. page * PlayerPerPage \in Int
  BY RankAssumption
<1> DEFINE n == page * PlayerPerPage
<1>2. n \in Int
  BY <1>1
<1> HIDE DEF n
<1>3. n % IntValues \in Int
  BY <1>2, RankAssumption, SMTT(30)
<1> QED
  BY <1>3, RankAssumption DEF PageBegin, n

\* A page holds rows of the list and ranks of at least 0.
LEMMA PageRowsType ==
  ASSUME NEW list \in Seq(RankItem), NEW page \in Pages
  PROVE  PageRows(list, page) \in Seq(RankRow)
<1> DEFINE from == PageBegin(page)
           left == Len(list) - from
           size == IF left < PlayerPerPage THEN left ELSE PlayerPerPage
<1>1. Len(list) \in Nat /\ PlayerPerPage \in Nat /\ from \in Int
  BY LenProperties, RankAssumption, PageBeginType
<1>2. CASE from < 0 \/ left < 0
  BY <1>2 DEF PageRows
<1>3. CASE ~(from < 0 \/ left < 0)
  <2>1. from \in Nat
    BY <1>1, <1>3
  <2>4. PageRows(list, page)
          = [k \in 1 .. size |->
               [pid |-> list[from + k].pid, gold |-> list[from + k].gold,
                score |-> list[from + k].score, rank |-> from + k - 1]]
    BY <1>3 DEF PageRows
  <2> HIDE DEF from
  <2>2. size \in Nat /\ size <= left
    BY <1>1, <1>3, <2>1
  <2>3. ASSUME NEW k \in 1 .. size
        PROVE  [pid  |-> list[from + k].pid, gold |-> list[from + k].gold,
                score |-> list[from + k].score, rank |-> from + k - 1] \in RankRow
    <3>1. from + k \in 1 .. Len(list) /\ from + k - 1 \in Nat
      BY <1>1, <2>1, <2>2
    <3> QED
      BY <3>1, ItemTypes DEF RankRow
  <2> QED
    BY <2>2, <2>3, <2>4
<1> QED
  BY <1>2, <1>3

\* The inductive invariant of the leaderboard. Each part needs the first; the
\* order and the uniqueness of the list need one another, because update
\* finds the place of an item by the order of the others.
RankInv == RankTypeOK /\ RankSorted /\ RankUnique /\ CacheFresh

\* A list the constructor may build, with an empty cache, satisfies it.
LEMMA LoadedRankInv ==
  ASSUME IsFiniteSet(PlayerIDs),
         NEW items \in SUBSET RankItem,
         \A x, y \in items : x.pid = y.pid => x = y,
         rankList \in LoadedLists(items),
         rankCache = EmptyCache
  PROVE  RankInv
<1>1. rankList \in Seq(RankItem) /\ Descending(rankList) /\ UniquePlayers(rankList)
  BY LoadedListsProperties
<1>2. rankCache \in [Pages -> CachedPage \cup {NoPage}] /\ CacheFresh
  BY DEF EmptyCache, CacheFresh
<1> QED
  BY <1>1, <1>2 DEF RankInv, RankTypeOK, RankSorted, RankUnique

\* update preserves the invariant.
LEMMA RankUpdateInv ==
  ASSUME RankInv, NEW item \in RankItem, RankUpdate(item)
  PROVE  RankInv'
<1>1. rankList \in Seq(RankItem) /\ Descending(rankList) /\ UniquePlayers(rankList)
  BY DEF RankInv, RankTypeOK, RankSorted, RankUnique
<1>2. rankList' \in Seq(RankItem)
  BY <1>1, UpdatedType DEF RankUpdate
<1>3. Descending(rankList')
  BY <1>1, UpdatedSorted DEF RankUpdate
<1>4. UniquePlayers(rankList')
  BY <1>1, UpdatedUnique DEF RankUpdate
<1>5. (rankCache \in [Pages -> CachedPage \cup {NoPage}])' /\ CacheFresh'
  BY DEF RankUpdate, EmptyCache, CacheFresh
<1> QED
  BY <1>2, <1>3, <1>4, <1>5 DEF RankInv, RankTypeOK, RankSorted, RankUnique

\* get_rank_pb_string preserves it.
LEMMA RankRequestInv ==
  ASSUME RankInv, NEW page \in Pages, NEW p \in PlayerIDs, RankRequest(page, p)
  PROVE  RankInv'
<1> DEFINE entry == [code  |-> RankReply(page, p).code,
                     items |-> RankReply(page, p).items]
<1>1. rankList' = rankList /\ rankCache' = [rankCache EXCEPT ![page] = entry]
  BY DEF RankRequest
<1>2. rankList \in Seq(RankItem) /\ rankCache \in [Pages -> CachedPage \cup {NoPage}]
  BY DEF RankInv, RankTypeOK
<1>3. PageFor(page) = PageRows(rankList, page)
  BY DEF PageFor, RankInv, CacheFresh
<1>4. entry.items = PageRows(rankList, page) /\ entry.code \in {"OK", "SERVER_ERROR"}
  BY <1>3 DEF RankReply
<1>5. entry = [code |-> entry.code, items |-> entry.items]
  OBVIOUS
<1> HIDE DEF entry
<1>6. entry \in CachedPage
  BY <1>2, <1>4, <1>5, PageRowsType DEF CachedPage
<1>7. RankTypeOK'
  BY <1>1, <1>2, <1>6 DEF RankTypeOK
<1>8. CacheFresh'
  BY <1>1, <1>2, <1>4 DEF CacheFresh, RankInv
<1> QED
  BY <1>1, <1>7, <1>8 DEF RankInv, RankSorted, RankUnique

-----------------------------------------------------------------------------
(* The two halves of a reply.                                              *)

\* The page a rank lies on.
LEMMA DivBounds ==
  ASSUME NEW r \in Nat, NEW n \in Nat \ {0}, NEW q \in Int
  PROVE  r \div n = q <=> q * n <= r /\ r < q * n + n
<1>1. r = (n * (r \div n)) + (r % n) /\ r % n \in 0 .. n - 1 /\ r \div n \in Int
  BY SMTT(30)
<1> DEFINE d == r \div n
           m == r % n
<1>3. r = n * d + m /\ m \in 0 .. n - 1 /\ d \in Int
  BY <1>1
<1> HIDE DEF d, m
<1>4. ASSUME q < d PROVE q * n + n <= d * n
  BY <1>3, <1>4, SMTT(30)
<1>5. ASSUME q > d PROVE d * n + n <= q * n
  BY <1>3, <1>5, SMTT(30)
<1>2. d = q <=> q * n <= r /\ r < q * n + n
  BY <1>3, <1>4, <1>5, SMTT(30)
<1> QED
  BY <1>2 DEF d

\* The rows of a page are the items of the list from its first one on.
LEMMA PageRowsItems ==
  ASSUME NEW list \in Seq(RankItem), NEW page \in Pages
  PROVE  /\ \A k : k \in DOMAIN PageRows(list, page)
                     <=> /\ PageBegin(page) >= 0 /\ k \in 1 .. PlayerPerPage
                         /\ PageBegin(page) + k <= Len(list)
         /\ \A k \in DOMAIN PageRows(list, page) :
              /\ PageRows(list, page)[k].pid = list[PageBegin(page) + k].pid
              /\ PageRows(list, page)[k].rank = PageBegin(page) + k - 1
<1> DEFINE from == PageBegin(page)
           left == Len(list) - from
           size == IF left < PlayerPerPage THEN left ELSE PlayerPerPage
<1>1. Len(list) \in Nat /\ PlayerPerPage \in Nat /\ from \in Int
  BY LenProperties, RankAssumption, PageBeginType
<1>2. CASE from < 0 \/ left < 0
  <2>1. PageRows(list, page) = << >>
    BY <1>2 DEF PageRows
  <2>2. DOMAIN PageRows(list, page) = {}
    BY <2>1
  <2> HIDE DEF from
  <2> QED
    BY <1>1, <1>2, <2>2 DEF from
<1>3. CASE ~(from < 0 \/ left < 0)
  <2>1. PageRows(list, page)
          = [k \in 1 .. size |->
               [pid |-> list[from + k].pid, gold |-> list[from + k].gold,
                score |-> list[from + k].score, rank |-> from + k - 1]]
    BY <1>3 DEF PageRows
  <2> HIDE DEF from
  <2>2. \A k : k \in 1 .. size
                 <=> from >= 0 /\ k \in 1 .. PlayerPerPage /\ from + k <= Len(list)
    BY <1>1, <1>3
  <2> HIDE DEF size
  <2> QED
    BY <2>1, <2>2 DEF from
<1> QED
  BY <1>2, <1>3

\* In a list without duplicates a player is where an item of his is.
LEMMA PositionUnique ==
  ASSUME NEW list \in Seq(RankItem), UniquePlayers(list), NEW i \in 1 .. Len(list)
  PROVE  Position(list, list[i].pid) = i
<1>1. DOMAIN list = 1 .. Len(list)
  BY LenProperties
<1>2. \/ \A k \in 1 .. Len(list) : list[k].pid # list[i].pid
      \/ /\ Position(list, list[i].pid) \in 1 .. Len(list)
         /\ list[Position(list, list[i].pid)].pid = list[i].pid
  BY PositionProperties
<1> QED
  BY <1>1, <1>2 DEF UniquePlayers

\* In every state of the invariant the page and the rank of a reply agree.
LEMMA PagesAgree == RankInv => PageAgrees
<1> SUFFICES ASSUME RankInv, NEW page \in Pages, NEW p \in PlayerIDs
             PROVE  LET reply == RankReply(page, p)
                        rows  == {k \in DOMAIN reply.items : reply.items[k].pid = p}
                        lies  == reply.code = "OK" /\ reply.rank \div PlayerPerPage = page
                    IN  /\ \A k \in rows : rows = {k} /\ reply.items[k].rank = reply.rank
                        /\ PageBegin(page) = page * PlayerPerPage => (rows # {} <=> lies)
  BY DEF PageAgrees
<1> DEFINE items == PageRows(rankList, page)
           from == PageBegin(page)
           rows == {k \in DOMAIN items : items[k].pid = p}
           pos == Position(rankList, p)
<1>1. /\ rankList \in Seq(RankItem) /\ UniquePlayers(rankList)
      /\ Len(rankList) \in Nat /\ DOMAIN rankList = 1 .. Len(rankList)
      /\ page \in Int /\ PlayerPerPage \in Nat \ {0} /\ from \in Int
  BY LenProperties, RankAssumption, PageBeginType DEF RankInv, RankTypeOK, RankUnique
<1>2. /\ RankReply(page, p).items = items
      /\ RankReply(page, p).code = IF pos = 0 THEN "SERVER_ERROR" ELSE "OK"
      /\ RankReply(page, p).rank = pos - 1
  BY DEF RankReply, PageFor, RankInv, CacheFresh
<1>3. /\ \A k : k \in DOMAIN items
                  <=> from >= 0 /\ k \in 1 .. PlayerPerPage /\ from + k <= Len(rankList)
      /\ \A k \in DOMAIN items :
           items[k].pid = rankList[from + k].pid /\ items[k].rank = from + k - 1
  BY <1>1, PageRowsItems
<1>4. pos # 0 => pos \in 1 .. Len(rankList) /\ rankList[pos].pid = p
  BY <1>1, PositionProperties
<1>5. pos = 0 => \A i \in 1 .. Len(rankList) : rankList[i].pid # p
  BY <1>1, PositionProperties
<1>6. ASSUME pos # 0, from = page * PlayerPerPage
      PROVE  (pos - 1) \div PlayerPerPage = page
               <=> from <= pos - 1 /\ pos - 1 < from + PlayerPerPage
  <2>1. pos - 1 \in Nat
    BY <1>1, <1>4, <1>6
  <2> QED
    BY <1>1, <1>6, <2>1, DivBounds
<1> HIDE DEF items, from, pos
<1>7. \A k \in DOMAIN items : from + k \in 1 .. Len(rankList)
  BY <1>1, <1>3
<1>8. \A k \in DOMAIN items : items[k].pid = p <=> pos # 0 /\ from + k = pos
  BY <1>1, <1>3, <1>4, <1>5, <1>7 DEF UniquePlayers
<1>9. ASSUME NEW k \in rows
      PROVE  rows = {k} /\ items[k].rank = pos - 1
  <2>1. k \in Int /\ from + k = pos /\ pos # 0 /\ items[k].rank = from + k - 1
    BY <1>1, <1>3, <1>8
  <2>2. \A l \in rows : l = k
    BY <1>1, <1>3, <1>8, <2>1
  <2>3. rows = {k}
    BY <2>2
  <2>4. items[k].rank = pos - 1
    BY <1>1, <2>1
  <2> QED
    BY <2>3, <2>4
<1>10. ASSUME from = page * PlayerPerPage
       PROVE  rows # {} <=> pos # 0 /\ (pos - 1) \div PlayerPerPage = page
  <2>1. ASSUME rows # {} PROVE pos # 0 /\ (pos - 1) \div PlayerPerPage = page
    <3>1. PICK k \in rows : TRUE
      BY <2>1
    <3>2. from + k = pos /\ pos # 0 /\ k \in 1 .. PlayerPerPage
      BY <1>3, <1>8, <3>1
    <3>3. from <= pos - 1 /\ pos - 1 < from + PlayerPerPage
      BY <1>1, <3>2
    <3> QED
      BY <1>6, <1>10, <3>2, <3>3
  <2>2. ASSUME pos # 0, (pos - 1) \div PlayerPerPage = page PROVE rows # {}
    <3>1. from <= pos - 1 /\ pos - 1 < from + PlayerPerPage
      BY <1>6, <1>10, <2>2
    <3>2. from >= 0
      <4>1. page >= 0 \/ page <= -1
        BY <1>1
      <4>2. page >= 0 => page * PlayerPerPage >= 0
        BY <1>1, SMTT(30)
      <4>3. page <= -1 => page * PlayerPerPage + PlayerPerPage <= 0
        BY <1>1, SMTT(30)
      <4>4. pos \in 1 .. Len(rankList)
        BY <1>4, <2>2
      <4> DEFINE n == page * PlayerPerPage
      <4>5. (page >= 0 => n >= 0) /\ (page <= -1 => n + PlayerPerPage <= 0) /\ from = n
        BY <1>10, <4>2, <4>3
      <4> HIDE DEF n
      <4> QED
        BY <1>1, <3>1, <4>1, <4>4, <4>5
    <3> DEFINE k == pos - from
    <3>3. pos \in 1 .. Len(rankList)
      BY <1>4, <2>2
    <3>4. k \in 1 .. PlayerPerPage /\ from + k = pos /\ from + k <= Len(rankList)
      BY <1>1, <3>1, <3>3
    <3> HIDE DEF k
    <3>5. k \in DOMAIN items
      BY <1>3, <3>2, <3>4
    <3> QED
      BY <1>8, <2>2, <3>4, <3>5
  <2> QED
    BY <2>1, <2>2
<1> QED
  BY <1>2, <1>9, <1>10 DEF from

-----------------------------------------------------------------------------
(* The scores the list ranks.                                             *)

\* In a list without duplicates a player is ranked with his only item.
LEMMA ScoresOfItems ==
  ASSUME NEW list \in Seq(RankItem), UniquePlayers(list), NEW i \in 1 .. Len(list)
  PROVE  /\ list[i].pid \in DOMAIN ScoresOf(list)
         /\ ScoresOf(list)[list[i].pid] = list[i].score
<1>1. DOMAIN list = 1 .. Len(list) /\ Len(list) \in Nat
  BY LenProperties
<1> DEFINE p == list[i].pid
<1>2. /\ Position(list, p) \in 1 .. Len(list)
      /\ list[Position(list, p)].pid = p
  BY PositionProperties
<1>3. Position(list, p) = i
  BY <1>1, <1>2 DEF UniquePlayers
<1>4. p \in {list[j].pid : j \in DOMAIN list}
  BY <1>1
<1> QED
  BY <1>3, <1>4 DEF ScoresOf

\* The players that have a score are those that have an item.
LEMMA ScoresOfDomain ==
  ASSUME NEW list \in Seq(RankItem), NEW p \in DOMAIN ScoresOf(list)
  PROVE  \E i \in 1 .. Len(list) : list[i].pid = p
<1>1. DOMAIN list = 1 .. Len(list)
  BY LenProperties
<1> QED
  BY <1>1 DEF ScoresOf

\* An update that moves an item improves the score of its player and of nobody
\* else; any other update leaves all scores alone.
LEMMA UpdateImproves ==
  ASSUME NEW list \in Seq(RankItem), NEW item \in RankItem,
         Descending(list), UniquePlayers(list)
  PROVE  \/ ScoresOf(Updated(list, item)) = ScoresOf(list)
         \/ /\ item.pid \in DOMAIN ScoresOf(list)
            /\ item.score > ScoresOf(list)[item.pid]
            /\ ScoresOf(Updated(list, item))
                 = [ScoresOf(list) EXCEPT ![item.pid] = item.score]
<1> DEFINE new == Updated(list, item)
           at  == Position(list, item.pid)
<1>1. CASE ~(at # 0 /\ item.score > list[at].score)
  BY <1>1, NotUpdated
<1>2. CASE at # 0 /\ item.score > list[at].score
  <2>1. Len(list) \in Nat
    BY LenProperties
  <2>2. new \in Seq(RankItem) /\ Len(new) = Len(list) /\ UniquePlayers(new)
    BY UpdatedType, UpdatedUnique
  <2>3. PICK from \in 1 .. Len(list), to \in 1 .. Len(list) :
          /\ from = at
          /\ to <= from
          /\ \A j \in 1 .. Len(list) :
               new[j] = IF j = to THEN item
                        ELSE IF to < j /\ j <= from THEN list[j - 1] ELSE list[j]
    BY <1>2, UpdatedProperties
  <2>4. list[from].pid = item.pid
    BY <1>2, <2>3, PositionProperties
  <2> HIDE DEF new, at
  <2>5. /\ item.pid \in DOMAIN ScoresOf(list)
        /\ item.score > ScoresOf(list)[item.pid]
    BY <1>2, <2>3, <2>4, ScoresOfItems
  <2>6. \A i \in 1 .. Len(list) :
          /\ list[i].pid \in DOMAIN ScoresOf(list)
          /\ ScoresOf(list)[list[i].pid] = list[i].score
    BY ScoresOfItems
  <2>7. \A i \in 1 .. Len(list) :
          /\ new[i].pid \in DOMAIN ScoresOf(new)
          /\ ScoresOf(new)[new[i].pid] = new[i].score
    BY <2>2, ScoresOfItems
  <2>8. new[to] = item
    BY <2>3
  <2>9. ASSUME NEW i \in 1 .. Len(list), i # from
        PROVE  \E j \in 1 .. Len(list) : new[j] = list[i]
    <3>1. CASE to <= i /\ i < from
      <4>1. i + 1 \in 1 .. Len(list) /\ i + 1 # to /\ to < i + 1 /\ i + 1 <= from
        BY <2>1, <2>3, <3>1
      <4>2. new[i + 1] = list[i + 1 - 1]
        BY <2>3, <4>1
      <4>3. i + 1 - 1 = i
        BY <2>1
      <4> QED
        BY <4>1, <4>2, <4>3
    <3>2. CASE ~(to <= i /\ i < from)
      <4>1. i # to /\ ~(to < i /\ i <= from)
        BY <2>1, <2>3, <2>9, <3>2
      <4> QED
        BY <2>3, <4>1
    <3> QED
      BY <3>1, <3>2
  <2>10. DOMAIN ScoresOf(list) \subseteq DOMAIN ScoresOf(new)
    <3> SUFFICES ASSUME NEW p \in DOMAIN ScoresOf(list) PROVE p \in DOMAIN ScoresOf(new)
      OBVIOUS
    <3>1. PICK i \in 1 .. Len(list) : list[i].pid = p
      BY ScoresOfDomain
    <3>2. \E j \in 1 .. Len(list) : new[j].pid = p
      BY <2>4, <2>8, <2>9, <3>1
    <3> QED
      BY <2>7, <3>2
  <2>11. DOMAIN ScoresOf(new) \subseteq DOMAIN ScoresOf(list)
    <3> SUFFICES ASSUME NEW p \in DOMAIN ScoresOf(new) PROVE p \in DOMAIN ScoresOf(list)
      OBVIOUS
    <3>1. PICK j \in 1 .. Len(list) : new[j].pid = p
      BY <2>2, ScoresOfDomain
    <3>2. new[j] = item \/ \E i \in 1 .. Len(list) : new[j] = list[i]
      BY <2>1, <2>3
    <3> QED
      BY <2>5, <2>6, <3>1, <3>2
  <2>12. ScoresOf(new)[item.pid] = item.score
    BY <2>7, <2>8
  <2>13. ASSUME NEW p \in DOMAIN ScoresOf(list), p # item.pid
         PROVE  ScoresOf(new)[p] = ScoresOf(list)[p]
    <3>1. PICK i \in 1 .. Len(list) : list[i].pid = p
      BY ScoresOfDomain
    <3>2. PICK j \in 1 .. Len(list) : new[j] = list[i]
      BY <2>4, <2>9, <2>13, <3>1
    <3> QED
      BY <2>6, <2>7, <3>1, <3>2
  <2>14. ScoresOf(new) = [p \in DOMAIN ScoresOf(new) |-> ScoresOf(new)[p]]
    BY DEF ScoresOf
  <2>15. ScoresOf(new) = [ScoresOf(list) EXCEPT ![item.pid] = item.score]
    BY <2>10, <2>11, <2>12, <2>13, <2>14
  <2> QED
    BY <2>5, <2>15 DEF new
<1> QED
  BY <1>1, <1>2

=============================================================================
