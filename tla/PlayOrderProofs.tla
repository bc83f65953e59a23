--------------------------- MODULE PlayOrderProofs ---------------------------
(***************************************************************************)
(* What the operators of PlayOrder return, for queues of every length, and *)
(* what an edit of the queue and its play order does to the traversal, the *)
(* list of tracks as Next will play them.                                  *)
(***************************************************************************)
EXTENDS PlayOrder, SequenceTheorems, FiniteSetTheorems, TLAPS

(* A play order is a sequence as long as the queue it orders *)
LEMMA OrderIsSeq ==
  ASSUME NEW len \in Nat, NEW o, IsPlayOrder(o, len)
  PROVE  /\ o \in Seq(0..(len - 1)) /\ o \in Seq(Nat)
         /\ Len(o) = len /\ DOMAIN o = 1..len
<1>1. o \in [1..len -> 0..(len - 1)]
  BY DEF IsPlayOrder
<1>2. o \in Seq(0..(len - 1))
  BY <1>1, SeqDef
<1>3. o \in Seq(Nat)
  BY <1>2, SeqMonotonic, 0..(len - 1) \subseteq Nat
<1>4. DOMAIN o = 1..len
  BY <1>1
<1>5. Len(o) = len
  BY <1>2, <1>4, LenProperties
<1>. QED  BY <1>2, <1>3, <1>4, <1>5

(* With shuffle off the queue is traversed as it stands *)
LEMMA IdentityIsOrder ==
  ASSUME NEW len \in Nat
  PROVE  IsPlayOrder(IdentityOrder(len), len)
<1>1. \A i \in 0..(len - 1) : i + 1 \in 1..len /\ IdentityOrder(len)[i + 1] = i
  BY DEF IdentityOrder
<1>. QED  BY <1>1 DEF IsPlayOrder, IdentityOrder

(* Every outcome of a shuffle, anchored or not, orders the whole queue *)
LEMMA ShuffledIsOrder ==
  ASSUME NEW len \in Nat, NEW on, NEW anchor,
         NEW o \in shuffled_play_order(len, on, anchor)
  PROVE  IsPlayOrder(o, len)
BY IdentityIsOrder DEF shuffled_play_order, PlayOrders

LEMMA NewQueueIsOrder ==
  ASSUME NEW len \in Nat, NEW on, NEW start,
         NEW o \in new_queue_play_order(len, on, start)
  PROVE  IsPlayOrder(o, len)
BY ShuffledIsOrder DEF new_queue_play_order

(* An index of the queue is found in its order, whatever the default *)
LEMMA PositionIsFound ==
  ASSUME NEW len \in Nat, NEW o, IsPlayOrder(o, len),
         NEW i \in 0..(len - 1), NEW default
  PROVE  /\ PositionOr(o, i, default) \in 0..(len - 1)
         /\ o[PositionOr(o, i, default) + 1] = i
<1>1. DOMAIN o = 1..len
  BY OrderIsSeq
<1>2. PICK k \in DOMAIN o : o[k] = i
  BY <1>1 DEF IsPlayOrder
<1>3. PositionOr(o, i, default) = (CHOOSE j \in DOMAIN o : o[j] = i) - 1
  BY <1>2 DEF PositionOr
<1>4. (CHOOSE j \in DOMAIN o : o[j] = i) \in 1..len
  BY <1>1, <1>2
<1>5. o[CHOOSE j \in DOMAIN o : o[j] = i] = i
  BY <1>2
<1>. QED  BY <1>3, <1>4, <1>5

-----------------------------------------------------------------------------
(* Removing the track at index r leaves an order of the shorter queue *)
LEMMA RemoveKeepsOrder ==
  ASSUME NEW len \in Nat, NEW o, IsPlayOrder(o, len), NEW r \in 0..(len - 1)
  PROVE  IsPlayOrder(play_order_after_remove(o, r), len - 1)
<1>. DEFINE p    == PositionOr(o, r, Len(o)) + 1
            S(k) == IF k < p THEN k ELSE k + 1
            D(i) == IF i > r THEN i - 1 ELSE i
            new  == play_order_after_remove(o, r)
<1>1. p \in 1..len /\ o[p] = r
  BY PositionIsFound
<1>2. Len(o) = len
  BY OrderIsSeq
<1>3. new = [k \in 1..(len - 1) |-> D(o[S(k)])]
  BY <1>2 DEF play_order_after_remove
<1>4. \A k \in 1..(len - 1) : S(k) \in 1..len /\ S(k) # p
  BY <1>1
<1>5. \A k \in 1..(len - 1) : o[S(k)] \in 0..(len - 1) /\ o[S(k)] # r
  BY <1>1, <1>4 DEF IsPlayOrder
<1>6. \A k \in 1..(len - 1) : new[k] \in 0..(len - 1 - 1)
  BY <1>3, <1>5
<1>7. ASSUME NEW j \in 1..(len - 1), NEW k \in 1..(len - 1), new[j] = new[k]
      PROVE  j = k
  <2>1. o[S(j)] = o[S(k)]
    <3>1. D(o[S(j)]) = D(o[S(k)])
      BY <1>3, <1>7
    <3>2. \A x, y \in 0..(len - 1) : x # r /\ y # r /\ D(x) = D(y) => x = y
      OBVIOUS
    <3>. HIDE DEF S, D
    <3>. QED  BY <1>5, <3>1, <3>2
  <2>2. S(j) = S(k)
    BY <1>4, <2>1 DEF IsPlayOrder
  <2>. QED  BY <1>1, <2>2
<1>8. ASSUME NEW i \in 0..(len - 1 - 1)
      PROVE  \E k \in 1..(len - 1) : new[k] = i
  <2>. DEFINE old == IF i < r THEN i ELSE i + 1
  <2>1. old \in 0..(len - 1) /\ old # r /\ D(old) = i
    OBVIOUS
  <2>2. PICK k \in 1..len : o[k] = old
    BY <2>1 DEF IsPlayOrder
  <2>3. k # p
    BY <1>1, <2>1, <2>2
  <2>. DEFINE j == IF k < p THEN k ELSE k - 1
  <2>4. j \in 1..(len - 1) /\ S(j) = k
    BY <1>1, <2>2, <2>3
  <2>5. new[j] = i
    BY <1>3, <2>1, <2>2, <2>4
  <2>. QED  BY <2>4, <2>5
<1>9. new \in [1..(len - 1) -> 0..(len - 1 - 1)]
  BY <1>3, <1>6
<1>. QED  BY <1>6, <1>7, <1>8, <1>9 DEF IsPlayOrder

(* Where an index lands after a move: a one-to-one map of the queue's indices *)
LEMMA RemapIsInjective ==
  ASSUME NEW len \in Nat, NEW from \in 0..(len - 1), NEW to \in 0..(len - 1)
  PROVE  /\ \A i \in 0..(len - 1) : remap_index_after_move(i, from, to) \in 0..(len - 1)
         /\ \A i, j \in 0..(len - 1) :
              remap_index_after_move(i, from, to) = remap_index_after_move(j, from, to) => i = j
<1>. DEFINE R(i) == remap_index_after_move(i, from, to)
<1>1. \A i \in 0..(len - 1) :
        /\ i = from => R(i) = to
        /\ from < i /\ i <= to => R(i) = i - 1
        /\ to <= i /\ i < from => R(i) = i + 1
        /\ i # from /\ ~(from < i /\ i <= to) /\ ~(to <= i /\ i < from) => R(i) = i
  BY DEF remap_index_after_move
<1>2. \A i \in 0..(len - 1) : R(i) \in 0..(len - 1)
  BY <1>1
<1>3. \A i, j \in 0..(len - 1) : R(i) = R(j) => i = j
  BY <1>1
<1>. QED  BY <1>2, <1>3

LEMMA RemapIsOnto ==
  ASSUME NEW len \in Nat, NEW from \in 0..(len - 1), NEW to \in 0..(len - 1),
         NEW i \in 0..(len - 1)
  PROVE  \E j \in 0..(len - 1) : remap_index_after_move(j, from, to) = i
<1>. DEFINE j == IF i = to THEN from
                 ELSE IF from <= i /\ i < to THEN i + 1
                 ELSE IF to < i /\ i <= from THEN i - 1
                 ELSE i
<1>1. j \in 0..(len - 1) /\ remap_index_after_move(j, from, to) = i
  BY DEF remap_index_after_move
<1>. QED  BY <1>1

LEMMA MoveKeepsOrder ==
  ASSUME NEW len \in Nat, NEW o, IsPlayOrder(o, len),
         NEW from \in 0..(len - 1), NEW to \in 0..(len - 1)
  PROVE  IsPlayOrder(play_order_after_move(o, from, to), len)
<1>. DEFINE new == play_order_after_move(o, from, to)
<1>1. new = [k \in 1..len |-> remap_index_after_move(o[k], from, to)]
  BY OrderIsSeq DEF play_order_after_move
<1>2. \A k \in 1..len : o[k] \in 0..(len - 1)
  BY DEF IsPlayOrder
<1>. HIDE DEF new
<1>3. new \in [1..len -> 0..(len - 1)]
  BY <1>1, <1>2, RemapIsInjective
<1>4. ASSUME NEW j \in 1..len, NEW k \in 1..len, new[j] = new[k]
      PROVE  j = k
  <2>1. remap_index_after_move(o[j], from, to) = remap_index_after_move(o[k], from, to)
    BY <1>1, <1>4
  <2>2. o[j] = o[k]
    BY <1>2, <2>1, RemapIsInjective
  <2>. QED  BY <2>2 DEF IsPlayOrder
<1>5. ASSUME NEW i \in 0..(len - 1)
      PROVE  \E k \in 1..len : new[k] = i
  <2>1. PICK h \in 0..(len - 1) : remap_index_after_move(h, from, to) = i
    BY RemapIsOnto
  <2>2. PICK k \in 1..len : o[k] = h
    BY DEF IsPlayOrder
  <2>. QED  BY <1>1, <2>1, <2>2
<1>. QED  BY <1>3, <1>4, <1>5 DEF IsPlayOrder, new

-----------------------------------------------------------------------------
(* The sequence operators that edit the queue, element by element *)

LEMMA SpliceProperties ==
  ASSUME NEW S, NEW s \in Seq(S), NEW t \in Seq(S), NEW at \in 0..Len(s)
  PROVE  /\ Splice(s, at, t) \in Seq(S)
         /\ Len(Splice(s, at, t)) = Len(s) + Len(t)
         /\ \A k \in 1..(Len(s) + Len(t)) :
              Splice(s, at, t)[k] = IF k <= at THEN s[k]
                                    ELSE IF k <= at + Len(t) THEN t[k - at]
                                    ELSE s[k - Len(t)]
<1>. DEFINE front == SubSeq(s, 1, at)
            back  == SubSeq(s, at + 1, Len(s))
            left  == front \o t
<1>0. Len(s) \in Nat /\ Len(t) \in Nat /\ \A k \in 1..Len(s) : s[k] \in S
  BY LenProperties, ElementOfSeq
<1>1. /\ front \in Seq(S) /\ Len(front) = at
      /\ \A k \in 1..at : front[k] = s[k]
  BY <1>0, SubSeqProperties
<1>2. /\ back \in Seq(S) /\ Len(back) = Len(s) - at
      /\ \A k \in 1..(Len(s) - at) : back[k] = s[at + k]
  BY <1>0, SubSeqProperties
<1>. HIDE DEF front, back
<1>3. /\ left \in Seq(S) /\ Len(left) = at + Len(t)
      /\ \A k \in 1..(at + Len(t)) : left[k] = IF k <= at THEN front[k] ELSE t[k - at]
  BY <1>1, ConcatProperties
<1>. HIDE DEF left
<1>4. Splice(s, at, t) = left \o back
  BY DEF Splice, left, front, back
<1>5. /\ left \o back \in Seq(S) /\ Len(left \o back) = Len(left) + Len(back)
      /\ \A k \in 1..(Len(left) + Len(back)) :
           (left \o back)[k] = IF k <= Len(left) THEN left[k] ELSE back[k - Len(left)]
  BY <1>2, <1>3, ConcatProperties
<1>6. Len(left) + Len(back) = Len(s) + Len(t)
  BY <1>0, <1>2, <1>3
<1>7. ASSUME NEW k \in 1..(Len(s) + Len(t))
      PROVE  (left \o back)[k] = IF k <= at THEN s[k]
                                 ELSE IF k <= at + Len(t) THEN t[k - at]
                                 ELSE s[k - Len(t)]
  <2>1. CASE k <= at + Len(t)
    BY <1>0, <1>1, <1>3, <1>5, <1>6, <2>1
  <2>2. CASE ~(k <= at + Len(t))
    <3>1. (left \o back)[k] = back[k - (at + Len(t))]
      BY <1>0, <1>3, <1>5, <1>6, <2>2
    <3>2. k - (at + Len(t)) \in 1..(Len(s) - at)
      BY <1>0, <2>2
    <3>3. back[k - (at + Len(t))] = s[at + (k - (at + Len(t)))]
      BY <1>2, <3>2
    <3>4. at + (k - (at + Len(t))) = k - Len(t)
      BY <1>0
    <3>5. ~(k <= at)
      BY <1>0, <2>2
    <3>. QED  BY <2>2, <3>1, <3>3, <3>4, <3>5
  <2>. QED  BY <2>1, <2>2
<1>. QED  BY <1>4, <1>5, <1>6, <1>7

LEMMA RemoveAtProperties ==
  ASSUME NEW S, NEW s \in Seq(S), NEW i \in 1..Len(s)
  PROVE  /\ RemoveAt(s, i) \in Seq(S)
         /\ Len(RemoveAt(s, i)) = Len(s) - 1
         /\ \A k \in 1..(Len(s) - 1) :
              RemoveAt(s, i)[k] = IF k < i THEN s[k] ELSE s[k + 1]
<1>. DEFINE front == SubSeq(s, 1, i - 1)
            back  == SubSeq(s, i + 1, Len(s))
<1>0. Len(s) \in Nat /\ \A k \in 1..Len(s) : s[k] \in S
  BY LenProperties, ElementOfSeq
<1>1. /\ front \in Seq(S) /\ Len(front) = i - 1
      /\ \A k \in 1..(i - 1) : front[k] = s[k]
  BY <1>0, SubSeqProperties
<1>2. /\ back \in Seq(S) /\ Len(back) = Len(s) - i
      /\ \A k \in 1..(Len(s) - i) : back[k] = s[i + k]
  BY <1>0, SubSeqProperties
<1>. HIDE DEF front, back
<1>3. RemoveAt(s, i) = front \o back
  BY DEF RemoveAt, front, back
<1>a. /\ front \o back \in Seq(S) /\ Len(front \o back) = Len(front) + Len(back)
      /\ \A k \in 1..(Len(front) + Len(back)) :
           (front \o back)[k] = IF k <= Len(front) THEN front[k] ELSE back[k - Len(front)]
  BY <1>1, <1>2, ConcatProperties
<1>b. Len(front) + Len(back) = Len(s) - 1
  BY <1>0, <1>1, <1>2
<1>4. /\ front \o back \in Seq(S) /\ Len(front \o back) = Len(s) - 1
      /\ \A k \in 1..(Len(s) - 1) :
           (front \o back)[k] = IF k <= i - 1 THEN front[k] ELSE back[k - (i - 1)]
  BY <1>1, <1>a, <1>b
<1>5. ASSUME NEW k \in 1..(Len(s) - 1)
      PROVE  (front \o back)[k] = IF k < i THEN s[k] ELSE s[k + 1]
  <2>1. CASE k < i
    BY <1>0, <1>1, <1>4, <2>1
  <2>2. CASE ~(k < i)
    <3>1. (front \o back)[k] = back[k - (i - 1)]
      <4>1. ~(k <= i - 1)
        BY <1>0, <2>2
      <4>. QED  BY <1>4, <4>1
    <3>2. k - (i - 1) \in 1..(Len(s) - i) /\ i + (k - (i - 1)) = k + 1
      BY <1>0, <2>2
    <3>. QED  BY <1>2, <2>2, <3>1, <3>2
  <2>. QED  BY <2>1, <2>2
<1>. QED  BY <1>3, <1>4, <1>5

LEMMA InsertAtProperties ==
  ASSUME NEW S, NEW s \in Seq(S), NEW i \in 1..(Len(s) + 1), NEW e \in S
  PROVE  /\ InsertAt(s, i, e) \in Seq(S)
         /\ Len(InsertAt(s, i, e)) = Len(s) + 1
         /\ \A k \in 1..(Len(s) + 1) :
              InsertAt(s, i, e)[k] = IF k < i THEN s[k] ELSE IF k = i THEN e ELSE s[k - 1]
<1>0. Len(s) \in Nat
  BY LenProperties
<1>1. <<e>> \in Seq(S) /\ Len(<<e>>) = 1 /\ <<e>>[1] = e
  OBVIOUS
<1>2. InsertAt(s, i, e) = Splice(s, i - 1, <<e>>)
  BY <1>0, i - 1 + 1 = i DEF InsertAt, Splice
<1>3. i - 1 \in 0..Len(s)
  BY <1>0
<1>4. /\ Splice(s, i - 1, <<e>>) \in Seq(S)
      /\ Len(Splice(s, i - 1, <<e>>)) = Len(s) + 1
      /\ \A k \in 1..(Len(s) + 1) :
           Splice(s, i - 1, <<e>>)[k] = IF k <= i - 1 THEN s[k]
                                 ELSE IF k <= i - 1 + 1 THEN <<e>>[k - (i - 1)]
                                 ELSE s[k - 1]
  <2>. DEFINE one == <<e>>
  <2>1. one \in Seq(S) /\ Len(one) = 1
    BY <1>1
  <2>. HIDE DEF one
  <2>2. /\ Splice(s, i - 1, one) \in Seq(S)
        /\ Len(Splice(s, i - 1, one)) = Len(s) + Len(one)
        /\ \A k \in 1..(Len(s) + Len(one)) :
             Splice(s, i - 1, one)[k] = IF k <= i - 1 THEN s[k]
                                 ELSE IF k <= i - 1 + Len(one) THEN one[k - (i - 1)]
                                 ELSE s[k - Len(one)]
    BY <1>3, <2>1, SpliceProperties
  <2>3. QED  BY <2>1, <2>2 DEF one
<1>. QED  BY <1>0, <1>1, <1>2, <1>4

(* A moved queue holds the track of index i at the index i is remapped to *)
LEMMA MoveTrackProperties ==
  ASSUME NEW S, NEW q \in Seq(S),
         NEW from \in 0..(Len(q) - 1), NEW to \in 0..(Len(q) - 1)
  PROVE  /\ MoveTrack(q, from, to) \in Seq(S)
         /\ Len(MoveTrack(q, from, to)) = Len(q)
         /\ \A i \in 0..(Len(q) - 1) :
              MoveTrack(q, from, to)[remap_index_after_move(i, from, to) + 1] = q[i + 1]
<1>. DEFINE e == q[from + 1]
            r == RemoveAt(q, from + 1)
            m == InsertAt(r, to + 1, e)
<1>0. Len(q) \in Nat /\ from + 1 \in 1..Len(q) /\ e \in S
  BY LenProperties, ElementOfSeq
<1>1. /\ r \in Seq(S) /\ Len(r) = Len(q) - 1
      /\ \A k \in 1..(Len(q) - 1) : r[k] = IF k < from + 1 THEN q[k] ELSE q[k + 1]
  BY <1>0, RemoveAtProperties
<1>. HIDE DEF r, e
<1>2. to + 1 \in 1..(Len(r) + 1)
  BY <1>0, <1>1
<1>a. /\ m \in Seq(S) /\ Len(m) = Len(r) + 1
      /\ \A k \in 1..(Len(r) + 1) :
           m[k] = IF k < to + 1 THEN r[k] ELSE IF k = to + 1 THEN e ELSE r[k - 1]
  <2>1. /\ InsertAt(r, to + 1, e) \in Seq(S)
        /\ Len(InsertAt(r, to + 1, e)) = Len(r) + 1
        /\ \A k \in 1..(Len(r) + 1) :
             InsertAt(r, to + 1, e)[k] =
               IF k < to + 1 THEN r[k] ELSE IF k = to + 1 THEN e ELSE r[k - 1]
    <3>. HIDE DEF m
    <3>1. r \in Seq(S) /\ e \in S
      BY <1>0, <1>1
    <3>. QED  BY <1>2, <3>1, InsertAtProperties
  <2>. QED  BY <2>1
<1>4. MoveTrack(q, from, to) = m
  BY DEF MoveTrack, m, r, e
<1>. HIDE DEF m
<1>3. /\ m \in Seq(S) /\ Len(m) = Len(q)
      /\ \A k \in 1..Len(q) :
           m[k] = IF k < to + 1 THEN r[k] ELSE IF k = to + 1 THEN e ELSE r[k - 1]
  <2>1. Len(r) + 1 = Len(q)
    BY <1>0, <1>1
  <2>. QED  BY <1>a, <2>1
<1>5. ASSUME NEW i \in 0..(Len(q) - 1)
      PROVE  m[remap_index_after_move(i, from, to) + 1] = q[i + 1]
  <2>1. CASE i = from
    <3>1. m[to + 1] = e
      BY <1>0, <1>3
    <3>. QED  BY <2>1, <3>1 DEF remap_index_after_move, e
  <2>2. CASE from < i /\ i <= to
    <3>1. remap_index_after_move(i, from, to) + 1 = i
      BY <2>2 DEF remap_index_after_move
    <3>2. i \in 1..Len(q) /\ i < to + 1 /\ i \in 1..(Len(q) - 1) /\ ~(i < from + 1)
      BY <1>0, <2>2
    <3>3. m[i] = r[i]
      BY <1>3, <3>2
    <3>4. r[i] = q[i + 1]
      BY <1>1, <3>2
    <3>. QED  BY <3>1, <3>3, <3>4
  <2>3. CASE to <= i /\ i < from
    <3>1. remap_index_after_move(i, from, to) + 1 = i + 2
      BY <2>3 DEF remap_index_after_move
    <3>2. /\ i + 2 \in 1..Len(q) /\ ~(i + 2 < to + 1) /\ i + 2 # to + 1
          /\ i + 2 - 1 = i + 1
          /\ i + 1 \in 1..(Len(q) - 1) /\ i + 1 < from + 1
      BY <1>0, <2>3
    <3>3. m[i + 2] = r[i + 1]
      BY <1>3, <3>2
    <3>4. r[i + 1] = q[i + 1]
      BY <1>1, <3>2
    <3>. QED  BY <3>1, <3>3, <3>4
  <2>4. CASE i < from /\ i < to
    <3>1. remap_index_after_move(i, from, to) = i
      BY <2>4 DEF remap_index_after_move
    <3>2. /\ i + 1 \in 1..Len(q) /\ i + 1 < to + 1
          /\ i + 1 \in 1..(Len(q) - 1) /\ i + 1 < from + 1
      BY <1>0, <2>4
    <3>3. m[i + 1] = r[i + 1]
      BY <1>3, <3>2
    <3>4. r[i + 1] = q[i + 1]
      BY <1>1, <3>2
    <3>. QED  BY <3>1, <3>3, <3>4
  <2>5. CASE i > from /\ i > to
    <3>1. remap_index_after_move(i, from, to) = i
      BY <2>5 DEF remap_index_after_move
    <3>2. /\ i + 1 \in 1..Len(q) /\ ~(i + 1 < to + 1) /\ i + 1 # to + 1
          /\ i + 1 - 1 = i
          /\ i \in 1..(Len(q) - 1) /\ ~(i < from + 1)
      BY <1>0, <2>5
    <3>3. m[i + 1] = r[i]
      BY <1>3, <3>2
    <3>4. r[i] = q[i + 1]
      BY <1>1, <3>2
    <3>. QED  BY <3>1, <3>3, <3>4
  <2>. QED  BY <2>1, <2>2, <2>3, <2>4, <2>5
<1>. QED  BY <1>3, <1>4, <1>5

-----------------------------------------------------------------------------
(* A batch of n new indices is a sequence of n numbers *)
LEMMA RangeIsSeq ==
  ASSUME NEW start \in Nat, NEW n \in Nat
  PROVE  /\ IndexRange(start, n) \in Seq(Nat) /\ Len(IndexRange(start, n)) = n
         /\ \A k \in 1..n : IndexRange(start, n)[k] = start + k - 1
<1>1. IndexRange(start, n) \in [1..n -> Nat]
  BY DEF IndexRange
<1>2. IndexRange(start, n) \in Seq(Nat)
  BY <1>1, SeqDef
<1>3. Len(IndexRange(start, n)) = n
  BY <1>1, <1>2, LenProperties
<1>4. \A k \in 1..n : IndexRange(start, n)[k] = start + k - 1
  BY DEF IndexRange
<1>. QED  BY <1>2, <1>3, <1>4

(* Appended tracks join the end of the order *)
LEMMA ExtendKeepsOrder ==
  ASSUME NEW len \in Nat, NEW o, IsPlayOrder(o, len), NEW n \in Nat
  PROVE  /\ IsPlayOrder(o \o IndexRange(len, n), len + n)
         /\ \A k \in 1..len : (o \o IndexRange(len, n))[k] = o[k]
<1>. DEFINE more  == IndexRange(len, n)
            new   == o \o more
            total == len + n
<1>1. o \in Seq(Nat) /\ Len(o) = len
  BY OrderIsSeq
<1>2. /\ more \in Seq(Nat) /\ Len(more) = n
      /\ \A k \in 1..n : more[k] = len + k - 1
  BY RangeIsSeq
<1>. HIDE DEF more
<1>a. /\ new \in Seq(Nat) /\ Len(new) = Len(o) + Len(more)
      /\ \A k \in 1..(Len(o) + Len(more)) :
           new[k] = IF k <= Len(o) THEN o[k] ELSE more[k - Len(o)]
  BY <1>1, <1>2, ConcatProperties
<1>. HIDE DEF new
<1>3. /\ new \in Seq(Nat) /\ Len(new) = total
      /\ \A k \in 1..total : new[k] = IF k <= len THEN o[k] ELSE more[k - len]
  BY <1>1, <1>2, <1>a
<1>4. \A k \in 1..total : new[k] = IF k <= len THEN o[k] ELSE k - 1
  BY <1>2, <1>3
<1>5. \A k \in 1..len : o[k] \in 0..(len - 1)
  BY DEF IsPlayOrder
<1>6. new \in [1..total -> 0..(total - 1)]
  <2>1. new \in [1..total -> Nat]
    BY <1>3, LenProperties
  <2>2. \A k \in 1..total : new[k] \in 0..(total - 1)
    BY <1>4, <1>5
  <2>. QED  BY <2>1, <2>2
<1>7. \A j, k \in 1..total : new[j] = new[k] => j = k
  BY <1>4, <1>5 DEF IsPlayOrder
<1>8. ASSUME NEW i \in 0..(total - 1)
      PROVE  \E k \in 1..total : new[k] = i
  <2>1. CASE i < len
    <3>1. PICK k \in 1..len : o[k] = i
      BY <2>1 DEF IsPlayOrder
    <3>2. k \in 1..total /\ k <= len
      OBVIOUS
    <3>. QED  BY <1>4, <3>1, <3>2
  <2>2. CASE i >= len
    BY <1>4, <2>2, i + 1 \in 1..total
  <2>. QED  BY <2>1, <2>2
<1>9. IsPlayOrder(new, total)
  BY <1>6, <1>7, <1>8 DEF IsPlayOrder
<1>10. \A k \in 1..len : new[k] = o[k]
  BY <1>4
<1>. QED  BY <1>9, <1>10 DEF new, more

(* The index that index i has once n tracks went in behind index cur *)
MadeRoom(i, cur, n) == IF i >= cur + 1 THEN i + n ELSE i

(* Where a play-next batch and the entries around it stand in the new order *)
LEMMA PlayNextPlaces ==
  ASSUME NEW len \in Nat, NEW o, IsPlayOrder(o, len),
         NEW at \in 0..(len - 1), NEW n \in Nat
  PROVE  /\ play_next_insertion(o, at, o[at + 1], n) \in Seq(Nat)
         /\ Len(play_next_insertion(o, at, o[at + 1], n)) = len + n
         /\ \A k \in 1..(len + n) :
              play_next_insertion(o, at, o[at + 1], n)[k] =
                IF k <= at + 1 THEN MadeRoom(o[k], o[at + 1], n)
                ELSE IF k <= at + 1 + n THEN o[at + 1] + (k - (at + 1))
                ELSE MadeRoom(o[k - n], o[at + 1], n)
<1>. DEFINE cur     == o[at + 1]
            shifted == play_order_after_insert(o, cur + 1, n)
            batch   == IndexRange(cur + 1, n)
            new     == play_next_insertion(o, at, cur, n)
<1>1. /\ o \in Seq(Nat) /\ Len(o) = len /\ DOMAIN o = 1..len
      /\ at + 1 \in 1..len /\ cur \in 0..(len - 1)
      /\ \A k \in 1..len : o[k] \in 0..(len - 1)
  BY OrderIsSeq DEF IsPlayOrder
<1>. HIDE DEF cur
<1>2. shifted = [k \in 1..len |-> MadeRoom(o[k], cur, n)]
  BY <1>1 DEF play_order_after_insert, MadeRoom
<1>3. shifted \in Seq(Nat) /\ Len(shifted) = len
  <2>1. shifted \in [1..len -> Nat]
    BY <1>1, <1>2 DEF MadeRoom
  <2>. HIDE DEF shifted
  <2>2. shifted \in Seq(Nat)
    BY <2>1, SeqDef
  <2>. QED  BY <2>1, <2>2, LenProperties
<1>4. /\ batch \in Seq(Nat) /\ Len(batch) = n
      /\ \A k \in 1..n : batch[k] = cur + 1 + k - 1
  BY <1>1, RangeIsSeq
<1>5. new = Splice(shifted, at + 1, batch)
  BY DEF play_next_insertion
<1>. HIDE DEF shifted, batch
<1>6. /\ new \in Seq(Nat) /\ Len(new) = Len(shifted) + Len(batch)
      /\ \A k \in 1..(Len(shifted) + Len(batch)) :
           new[k] = IF k <= at + 1 THEN shifted[k]
                    ELSE IF k <= at + 1 + Len(batch) THEN batch[k - (at + 1)]
                    ELSE shifted[k - Len(batch)]
  <2>1. at + 1 \in 0..Len(shifted)
    BY <1>1, <1>3
  <2>. HIDE DEF new
  <2>. QED  BY <1>3, <1>4, <1>5, <2>1, SpliceProperties
<1>. HIDE DEF new
<1>7. /\ new \in Seq(Nat) /\ Len(new) = len + n
      /\ \A k \in 1..(len + n) :
           new[k] = IF k <= at + 1 THEN shifted[k]
                    ELSE IF k <= at + 1 + n THEN batch[k - (at + 1)]
                    ELSE shifted[k - n]
  BY <1>3, <1>4, <1>6
<1>8. ASSUME NEW k \in 1..(len + n)
      PROVE  new[k] = IF k <= at + 1 THEN MadeRoom(o[k], cur, n)
                      ELSE IF k <= at + 1 + n THEN cur + (k - (at + 1))
                      ELSE MadeRoom(o[k - n], cur, n)
  <2>1. CASE k <= at + 1
    <3>1. k \in 1..len
      BY <1>1, <2>1
    <3>. QED  BY <1>2, <1>7, <2>1, <3>1
  <2>2. CASE k > at + 1 /\ k <= at + 1 + n
    <3>1. k - (at + 1) \in 1..n /\ ~(k <= at + 1)
      BY <1>1, <2>2
    <3>2. new[k] = cur + 1 + (k - (at + 1)) - 1
      BY <1>4, <1>7, <2>2, <3>1
    <3>. QED  BY <1>1, <2>2, <3>1, <3>2
  <2>3. CASE k > at + 1 + n
    <3>1. k - n \in 1..len /\ ~(k <= at + 1) /\ ~(k <= at + 1 + n)
      BY <1>1, <2>3
    <3>. QED  BY <1>2, <1>7, <3>1
  <2>. QED  BY <1>1, <2>1, <2>2, <2>3
<1>. QED  BY <1>7, <1>8 DEF new, cur

(* Tracks to play next come right after the present one in the order, which *)
(* keeps the present track where it is.                                     *)
LEMMA PlayNextKeepsOrder ==
  ASSUME NEW len \in Nat, NEW o, IsPlayOrder(o, len),
         NEW at \in 0..(len - 1), NEW n \in Nat
  PROVE  /\ IsPlayOrder(play_next_insertion(o, at, o[at + 1], n), len + n)
         /\ play_next_insertion(o, at, o[at + 1], n)[at + 1] = o[at + 1]
<1>. DEFINE cur     == o[at + 1]
            new     == play_next_insertion(o, at, cur, n)
            total   == len + n
            Low(i)  == MadeRoom(i, cur, n)
<1>1. /\ o \in Seq(Nat) /\ Len(o) = len /\ DOMAIN o = 1..len
      /\ at + 1 \in 1..len /\ cur \in 0..(len - 1)
      /\ \A k \in 1..len : o[k] \in 0..(len - 1)
  BY OrderIsSeq DEF IsPlayOrder
<1>. HIDE DEF cur
<1>7. /\ new \in Seq(Nat) /\ Len(new) = total
      /\ \A k \in 1..total :
           new[k] = IF k <= at + 1 THEN Low(o[k])
                    ELSE IF k <= at + 1 + n THEN cur + (k - (at + 1))
                    ELSE Low(o[k - n])
  BY PlayNextPlaces DEF cur
<1>. HIDE DEF new
<1>a. ASSUME NEW k \in 1..total, k <= at + 1
      PROVE  k \in 1..len /\ new[k] = Low(o[k])
  BY <1>1, <1>7, <1>a
<1>b. \A k \in 1..total : k > at + 1 /\ k <= at + 1 + n => new[k] = cur + (k - (at + 1))
  BY <1>1, <1>7
<1>c. ASSUME NEW k \in 1..total, k > at + 1 + n
      PROVE  k - n \in 1..len /\ new[k] = Low(o[k - n])
  <2>1. k - n \in 1..len /\ ~(k <= at + 1) /\ ~(k <= at + 1 + n)
    BY <1>1, <1>c
  <2>. QED  BY <1>7, <2>1
<1>d. /\ \A x \in 0..(len - 1) : Low(x) \in 0..(total - 1) /\ Low(x) \notin cur + 1 .. cur + n
      /\ \A x, y \in 0..(len - 1) : Low(x) = Low(y) => x = y
  BY <1>1 DEF MadeRoom
<1>8. new \in [1..total -> 0..(total - 1)]
  <2>1. new \in [1..total -> Nat]
    BY <1>7, LenProperties
  <2>2. ASSUME NEW k \in 1..total
        PROVE  new[k] \in 0..(total - 1)
    <3>1. CASE k <= at + 1
      <4>1. k \in 1..len /\ new[k] = Low(o[k])
        BY <1>a, <3>1
      <4>2. o[k] \in 0..(len - 1)
        BY <1>1, <4>1
      <4>. HIDE DEF Low
      <4>. QED  BY <1>d, <4>1, <4>2
    <3>2. CASE k > at + 1 /\ k <= at + 1 + n
      BY <1>1, <1>b, <3>2
    <3>3. CASE k > at + 1 + n
      <4>1. k - n \in 1..len /\ new[k] = Low(o[k - n])
        BY <1>c, <3>3
      <4>2. o[k - n] \in 0..(len - 1)
        BY <1>1, <4>1
      <4>. HIDE DEF Low
      <4>. QED  BY <1>d, <4>1, <4>2
    <3>. QED  BY <1>1, <3>1, <3>2, <3>3
  <2>. QED  BY <2>1, <2>2
<1>9. ASSUME NEW j \in 1..total, NEW k \in 1..total, new[j] = new[k]
      PROVE  j = k
  <2>. DEFINE Old(h) == IF h <= at + 1 THEN h ELSE h - n
              InBatch(h) == h > at + 1 /\ h <= at + 1 + n
  <2>1. \A h \in 1..total : ~InBatch(h) => Old(h) \in 1..len /\ new[h] = Low(o[Old(h)])
    BY <1>1, <1>a, <1>c
  <2>2. \A h \in 1..total : ~InBatch(h) => new[h] \notin cur + 1 .. cur + n
    <3>. SUFFICES ASSUME NEW h \in 1..total, ~InBatch(h)
                  PROVE  new[h] \notin cur + 1 .. cur + n
      OBVIOUS
    <3>1. Old(h) \in 1..len /\ new[h] = Low(o[Old(h)])
      BY <2>1
    <3>2. o[Old(h)] \in 0..(len - 1)
      BY <1>1, <3>1
    <3>. HIDE DEF Old, Low
    <3>. QED  BY <1>d, <3>1, <3>2
  <2>3. \A h \in 1..total : InBatch(h) => new[h] \in cur + 1 .. cur + n
    BY <1>1, <1>b
  <2>4. CASE InBatch(j)
    BY <1>1, <1>9, <1>b, <2>2, <2>3, <2>4
  <2>5. CASE ~InBatch(j)
    <3>1. ~InBatch(k)
      BY <1>9, <2>2, <2>3, <2>5
    <3>a. /\ Old(j) \in 1..len /\ new[j] = Low(o[Old(j)])
          /\ Old(k) \in 1..len /\ new[k] = Low(o[Old(k)])
      BY <2>1, <2>5, <3>1
    <3>b. o[Old(j)] \in 0..(len - 1) /\ o[Old(k)] \in 0..(len - 1)
      BY <1>1, <3>a
    <3>2. o[Old(j)] = o[Old(k)]
      <4>. HIDE DEF Old, Low
      <4>. QED  BY <1>9, <1>d, <3>a, <3>b
    <3>3. Old(j) = Old(k)
      BY <2>1, <2>5, <3>1, <3>2 DEF IsPlayOrder
    <3>. QED  BY <1>1, <2>5, <3>1, <3>3
  <2>. QED  BY <2>4, <2>5
<1>10. ASSUME NEW i \in 0..(total - 1)
       PROVE  \E k \in 1..total : new[k] = i
  <2>1. CASE i \in cur + 1 .. cur + n
    <3>1. at + 1 + (i - cur) \in 1..total /\ new[at + 1 + (i - cur)] = i
      BY <1>1, <1>b, <2>1
    <3>. QED  BY <3>1
  <2>2. CASE ~(i \in cur + 1 .. cur + n)
    <3>. DEFINE old == IF i <= cur THEN i ELSE i - n
    <3>1. old \in 0..(len - 1) /\ Low(old) = i
      BY <1>1, <2>2 DEF MadeRoom
    <3>2. PICK h \in 1..len : o[h] = old
      BY <3>1 DEF IsPlayOrder
    <3>3. CASE h <= at + 1
      <4>1. h \in 1..total
        BY <1>1
      <4>2. new[h] = Low(o[h])
        BY <1>a, <3>3, <4>1
      <4>. QED  BY <3>1, <3>2, <4>1, <4>2
    <3>4. CASE ~(h <= at + 1)
      <4>1. h + n \in 1..total /\ h + n > at + 1 + n /\ h + n - n = h
        BY <1>1, <3>4
      <4>. QED  BY <1>c, <3>1, <3>2, <4>1
    <3>. QED  BY <3>3, <3>4
  <2>. QED  BY <2>1, <2>2
<1>11. IsPlayOrder(new, total)
  BY <1>8, <1>9, <1>10 DEF IsPlayOrder
<1>12. new[at + 1] = cur
  BY <1>1, <1>a DEF MadeRoom, cur
<1>. QED  BY <1>11, <1>12 DEF new, cur

-----------------------------------------------------------------------------
(* The traversal *)

(* A traversal is a sequence of tracks as long as the queue *)
LEMMA TraversalIsSeq ==
  ASSUME NEW S, NEW q \in Seq(S), NEW o, IsPlayOrder(o, Len(q))
  PROVE  /\ Len(q) \in Nat
         /\ Traversal(q, o) \in Seq(S) /\ Len(Traversal(q, o)) = Len(q)
         /\ Traversal(q, o) = [k \in 1..Len(q) |-> q[o[k] + 1]]
<1>1. Len(q) \in Nat /\ DOMAIN o = 1..Len(q) /\ \A k \in 1..Len(q) : o[k] \in 0..(Len(q) - 1)
  BY OrderIsSeq, LenProperties DEF IsPlayOrder
<1>2. \A k \in 1..Len(q) : q[o[k] + 1] \in S
  BY <1>1, ElementOfSeq
<1>. DEFINE t == [k \in 1..Len(q) |-> q[o[k] + 1]]
<1>3. Traversal(q, o) = t
  BY <1>1 DEF Traversal
<1>4. t \in [1..Len(q) -> S]
  BY <1>2
<1>. HIDE DEF t
<1>5. t \in Seq(S)
  BY <1>1, <1>4, SeqDef
<1>6. Len(t) = Len(q)
  BY <1>1, <1>4, <1>5, LenProperties
<1>. QED  BY <1>1, <1>3, <1>5, <1>6 DEF t

(* A sequence of the right length with the right entries is the traversal *)
LEMMA TraversalEquals ==
  ASSUME NEW S, NEW q \in Seq(S), NEW o, IsPlayOrder(o, Len(q)),
         NEW s \in Seq(S), Len(s) = Len(q),
         \A k \in 1..Len(q) : s[k] = q[o[k] + 1]
  PROVE  Traversal(q, o) = s
<1>1. s \in [1..Len(q) -> S]
  BY LenProperties
<1>2. s = [k \in 1..Len(q) |-> q[o[k] + 1]]
  BY <1>1
<1>. QED  BY <1>2, TraversalIsSeq

(* A position at which an index stands is the one PositionOr finds *)
LEMMA PositionIsUnique ==
  ASSUME NEW len \in Nat, NEW o, IsPlayOrder(o, len), NEW default,
         NEW p \in 0..(len - 1)
  PROVE  PositionOr(o, o[p + 1], default) = p
<1>1. p + 1 \in 1..len /\ o[p + 1] \in 0..(len - 1)
  BY DEF IsPlayOrder
<1>. DEFINE found == PositionOr(o, o[p + 1], default)
<1>2. found \in 0..(len - 1) /\ o[found + 1] = o[p + 1]
  BY <1>1, PositionIsFound
<1>. HIDE DEF found
<1>3. found + 1 = p + 1
  <2>1. found + 1 \in 1..len
    BY <1>2
  <2>. QED  BY <1>1, <1>2, <2>1 DEF IsPlayOrder
<1>. QED  BY <1>2, <1>3 DEF found

-----------------------------------------------------------------------------
(* A move changes nothing of what is going to play, nor the place in it *)
LEMMA MoveKeepsTraversal ==
  ASSUME NEW S, NEW q \in Seq(S), NEW o, IsPlayOrder(o, Len(q)),
         NEW from \in 0..(Len(q) - 1), NEW to \in 0..(Len(q) - 1)
  PROVE  /\ Traversal(MoveTrack(q, from, to), play_order_after_move(o, from, to))
              = Traversal(q, o)
         /\ \A p \in 0..(Len(q) - 1) :
              PositionOr(play_order_after_move(o, from, to),
                         remap_index_after_move(o[p + 1], from, to), 0) = p
<1>. DEFINE new   == play_order_after_move(o, from, to)
            moved == MoveTrack(q, from, to)
            to_(i) == remap_index_after_move(i, from, to)
<1>1. /\ Len(q) \in Nat /\ DOMAIN o = 1..Len(q)
      /\ \A k \in 1..Len(q) : o[k] \in 0..(Len(q) - 1)
  BY OrderIsSeq, LenProperties DEF IsPlayOrder
<1>2. \A k \in 1..Len(q) : new[k] = to_(o[k])
  BY <1>1 DEF play_order_after_move
<1>3. moved \in Seq(S) /\ Len(moved) = Len(q)
      /\ \A i \in 0..(Len(q) - 1) : moved[to_(i) + 1] = q[i + 1]
  BY MoveTrackProperties
<1>4. IsPlayOrder(new, Len(q))
  BY <1>1, MoveKeepsOrder
<1>. HIDE DEF new, moved, to_
<1>5. \A k \in 1..Len(q) : moved[new[k] + 1] = q[o[k] + 1]
  BY <1>1, <1>2, <1>3
<1>6. Traversal(moved, new) = Traversal(q, o)
  <2>1. /\ Traversal(q, o) \in Seq(S) /\ Len(Traversal(q, o)) = Len(moved)
        /\ \A k \in 1..Len(moved) : Traversal(q, o)[k] = moved[new[k] + 1]
    BY <1>3, <1>5, TraversalIsSeq
  <2>. QED  BY <1>3, <1>4, <2>1, TraversalEquals
<1>7. ASSUME NEW p \in 0..(Len(q) - 1)
      PROVE  PositionOr(new, to_(o[p + 1]), 0) = p
  <2>1. new[p + 1] = to_(o[p + 1])
    BY <1>1, <1>2
  <2>. QED  BY <1>1, <1>4, <2>1, PositionIsUnique
<1>. QED  BY <1>6, <1>7 DEF new, moved, to_

(* Appended tracks play last *)
LEMMA ExtendTraversal ==
  ASSUME NEW S, NEW q \in Seq(S), NEW o, IsPlayOrder(o, Len(q)), NEW t \in Seq(S)
  PROVE  Traversal(q \o t, o \o IndexRange(Len(q), Len(t))) = Traversal(q, o) \o t
<1>. DEFINE len   == Len(q)
            n     == Len(t)
            more  == IndexRange(len, n)
            new   == o \o more
            wide  == q \o t
            old   == Traversal(q, o)
            after == old \o t
<1>1. /\ len \in Nat /\ n \in Nat /\ o \in Seq(Nat) /\ Len(o) = len
      /\ \A k \in 1..len : o[k] \in 0..(len - 1)
  BY OrderIsSeq, LenProperties DEF IsPlayOrder
<1>2. /\ more \in Seq(Nat) /\ Len(more) = n
      /\ \A k \in 1..n : more[k] = len + k - 1
  BY <1>1, RangeIsSeq
<1>3. IsPlayOrder(new, len + n)
  BY <1>1, ExtendKeepsOrder
<1>4. /\ old \in Seq(S) /\ Len(old) = len /\ \A k \in 1..len : old[k] = q[o[k] + 1]
  BY TraversalIsSeq
<1>. HIDE DEF more, old
<1>5. \A k \in 1..(len + n) : new[k] = IF k <= len THEN o[k] ELSE more[k - len]
  <2>1. \A k \in 1..(Len(o) + Len(more)) :
          new[k] = IF k <= Len(o) THEN o[k] ELSE more[k - Len(o)]
    BY <1>1, <1>2, ConcatProperties
  <2>. HIDE DEF new
  <2>. QED  BY <1>1, <1>2, <2>1
<1>6. /\ wide \in Seq(S) /\ Len(wide) = len + n
      /\ \A k \in 1..(len + n) : wide[k] = IF k <= len THEN q[k] ELSE t[k - len]
  BY ConcatProperties
<1>7. /\ after \in Seq(S) /\ Len(after) = len + n
      /\ \A k \in 1..(len + n) : after[k] = IF k <= len THEN old[k] ELSE t[k - len]
  <2>1. /\ after \in Seq(S) /\ Len(after) = Len(old) + n
        /\ \A k \in 1..(Len(old) + n) :
             after[k] = IF k <= Len(old) THEN old[k] ELSE t[k - Len(old)]
    BY <1>4, ConcatProperties
  <2>. HIDE DEF after
  <2>. QED  BY <1>4, <2>1
<1>. HIDE DEF new, wide, after
<1>8. ASSUME NEW k \in 1..(len + n)
      PROVE  after[k] = wide[new[k] + 1]
  <2>. HIDE DEF len, n
  <2>1. CASE k <= len
    <3>1. k \in 1..len /\ o[k] + 1 \in 1..(len + n) /\ o[k] + 1 <= len
      BY <1>1, <2>1
    <3>2. wide[o[k] + 1] = q[o[k] + 1]
      BY <1>6, <3>1
    <3>. QED  BY <1>4, <1>5, <1>7, <2>1, <3>1, <3>2
  <2>2. CASE ~(k <= len)
    <3>1. k - len \in 1..n
      BY <1>1, <2>2
    <3>2. new[k] = len + (k - len) - 1
      BY <1>2, <1>5, <2>2, <3>1
    <3>3. new[k] + 1 = k
      BY <1>1, <3>2
    <3>. QED  BY <1>6, <1>7, <2>2, <3>3
  <2>. QED  BY <2>1, <2>2
<1>9. Traversal(wide, new) = after
  BY <1>3, <1>6, <1>7, <1>8, TraversalEquals
<1>. QED  BY <1>9 DEF new, more, wide, after, old

(* A play-next batch plays right behind the present place, and what was to   *)
(* play there follows it.                                                    *)
LEMMA PlayNextTraversal ==
  ASSUME NEW S, NEW q \in Seq(S), NEW o, IsPlayOrder(o, Len(q)), NEW t \in Seq(S),
         NEW at \in 0..(Len(q) - 1)
  PROVE  Traversal(Splice(q, o[at + 1] + 1, t),
                   play_next_insertion(o, at, o[at + 1], Len(t)))
           = Splice(Traversal(q, o), at + 1, t)
<1>. DEFINE len   == Len(q)
            n     == Len(t)
            cur   == o[at + 1]
            new   == play_next_insertion(o, at, cur, n)
            wide  == Splice(q, cur + 1, t)
            old   == Traversal(q, o)
            after == Splice(old, at + 1, t)
<1>1. /\ len \in Nat /\ n \in Nat /\ at + 1 \in 1..len
      /\ \A k \in 1..len : o[k] \in 0..(len - 1)
  <2>1. len \in Nat /\ n \in Nat
    BY LenProperties
  <2>. HIDE DEF n
  <2>. QED  BY <2>1 DEF IsPlayOrder
<1>2. cur \in 0..(len - 1)
  BY <1>1
<1>3. IsPlayOrder(new, len + n)
  BY <1>1, PlayNextKeepsOrder
<1>4. \A k \in 1..(len + n) :
        new[k] = IF k <= at + 1 THEN MadeRoom(o[k], cur, n)
                 ELSE IF k <= at + 1 + n THEN cur + (k - (at + 1))
                 ELSE MadeRoom(o[k - n], cur, n)
  <2>1. len \in Nat /\ n \in Nat /\ IsPlayOrder(o, len) /\ at \in 0..(len - 1)
    BY <1>1
  <2>. HIDE DEF len, n
  <2>. QED  BY <2>1, PlayNextPlaces
<1>5. old \in Seq(S) /\ Len(old) = len /\ \A k \in 1..len : old[k] = q[o[k] + 1]
  BY TraversalIsSeq
<1>. HIDE DEF cur, old
<1>6. /\ wide \in Seq(S) /\ Len(wide) = len + n
      /\ \A k \in 1..(len + n) :
           wide[k] = IF k <= cur + 1 THEN q[k]
                     ELSE IF k <= cur + 1 + n THEN t[k - (cur + 1)]
                     ELSE q[k - n]
  <2>1. cur + 1 \in 0..Len(q)
    BY <1>1, <1>2
  <2>. QED  BY <2>1, SpliceProperties
<1>7. /\ after \in Seq(S) /\ Len(after) = len + n
      /\ \A k \in 1..(len + n) :
           after[k] = IF k <= at + 1 THEN old[k]
                      ELSE IF k <= at + 1 + n THEN t[k - (at + 1)]
                      ELSE old[k - n]
  <2>1. at + 1 \in 0..Len(old)
    BY <1>1, <1>5
  <2>2. /\ after \in Seq(S) /\ Len(after) = Len(old) + n
        /\ \A k \in 1..(Len(old) + n) :
             after[k] = IF k <= at + 1 THEN old[k]
                        ELSE IF k <= at + 1 + n THEN t[k - (at + 1)]
                        ELSE old[k - n]
    BY <1>5, <2>1, SpliceProperties
  <2>. HIDE DEF after
  <2>. QED  BY <1>5, <2>2
<1>. HIDE DEF new, wide, after, len, n
<1>8. \A i \in 0..(len - 1) : wide[MadeRoom(i, cur, n) + 1] = q[i + 1]
  <2>. SUFFICES ASSUME NEW i \in 0..(len - 1)
                PROVE  wide[MadeRoom(i, cur, n) + 1] = q[i + 1]
    OBVIOUS
  <2>1. CASE i >= cur + 1
    <3>1. ASSUME NEW h, h = MadeRoom(i, cur, n) + 1
          PROVE  wide[h] = q[i + 1]
      <4>1. h = i + n + 1
        BY <2>1, <3>1 DEF MadeRoom
      <4>2. /\ h \in 1..(len + n) /\ ~(h <= cur + 1) /\ ~(h <= cur + 1 + n)
            /\ h - n = i + 1
        BY <1>1, <1>2, <2>1, <4>1
      <4>. QED  BY <1>6, <4>2
    <3>. QED  BY <3>1
  <2>2. CASE ~(i >= cur + 1)
    <3>1. MadeRoom(i, cur, n) + 1 = i + 1
      BY <2>2 DEF MadeRoom
    <3>2. i + 1 \in 1..(len + n) /\ i + 1 <= cur + 1
      BY <1>1, <1>2, <2>2
    <3>3. wide[i + 1] = q[i + 1]
      BY <1>6, <3>2
    <3>. QED  BY <3>1, <3>3
  <2>. QED  BY <2>1, <2>2
<1>9. ASSUME NEW k \in 1..(len + n)
      PROVE  after[k] = wide[new[k] + 1]
  <2>1. CASE k <= at + 1
    <3>1. k \in 1..len /\ o[k] \in 0..(len - 1)
      BY <1>1, <2>1
    <3>2. new[k] = MadeRoom(o[k], cur, n) /\ after[k] = old[k]
      BY <1>4, <1>7, <2>1
    <3>. QED  BY <1>5, <1>8, <3>1, <3>2
  <2>2. CASE k > at + 1 /\ k <= at + 1 + n
    <3>1. ~(k <= at + 1) /\ k - (at + 1) \in 1..n
      BY <1>1, <2>2
    <3>2. new[k] = cur + (k - (at + 1)) /\ after[k] = t[k - (at + 1)]
      BY <1>4, <1>7, <2>2, <3>1
    <3>3. ASSUME NEW h, h = new[k] + 1
          PROVE  wide[h] = t[k - (at + 1)]
      <4>1. /\ h \in 1..(len + n) /\ ~(h <= cur + 1) /\ h <= cur + 1 + n
            /\ h - (cur + 1) = k - (at + 1)
        <5>1. at \in Int /\ k \in Int /\ cur \in Int /\ h = cur + (k - (at + 1)) + 1
          BY <1>1, <1>2, <3>2, <3>3
        <5>. HIDE DEF cur
        <5>. QED  BY <1>1, <1>2, <3>1, <5>1
      <4>. QED  BY <1>6, <4>1
    <3>. QED  BY <3>2, <3>3
  <2>3. CASE k > at + 1 + n
    <3>1. ~(k <= at + 1) /\ ~(k <= at + 1 + n) /\ k - n \in 1..len
      BY <1>1, <2>3
    <3>2. new[k] = MadeRoom(o[k - n], cur, n) /\ after[k] = old[k - n]
      BY <1>4, <1>7, <3>1
    <3>3. o[k - n] \in 0..(len - 1) /\ old[k - n] = q[o[k - n] + 1]
      BY <1>1, <1>5, <3>1
    <3>. QED  BY <1>8, <3>2, <3>3
  <2>. QED  BY <1>1, <2>1, <2>2, <2>3
<1>10. Traversal(wide, new) = after
  BY <1>3, <1>6, <1>7, <1>9, TraversalEquals
<1>. QED  BY <1>10 DEF new, wide, after, old, cur, n

(* A removal takes one entry out of the traversal and leaves the rest in     *)
(* place; the position of every other entry goes down if it was behind.      *)
LEMMA RemoveTraversal ==
  ASSUME NEW S, NEW q \in Seq(S), NEW o, IsPlayOrder(o, Len(q)),
         NEW r \in 0..(Len(q) - 1)
  PROVE  /\ PositionOr(o, r, 0) \in 0..(Len(q) - 1) /\ o[PositionOr(o, r, 0) + 1] = r
         /\ Traversal(RemoveAt(q, r + 1), play_order_after_remove(o, r))
              = RemoveAt(Traversal(q, o), PositionOr(o, r, 0) + 1)
         /\ \A at \in 0..(Len(q) - 1) : at # PositionOr(o, r, 0) =>
              PositionOr(play_order_after_remove(o, r),
                         IF r < o[at + 1] THEN o[at + 1] - 1 ELSE o[at + 1], 0)
                = IF PositionOr(o, r, 0) < at THEN at - 1 ELSE at
<1>. DEFINE len   == Len(q)
            p     == PositionOr(o, r, 0)
            K(k)  == IF k < p + 1 THEN k ELSE k + 1
            D(i)  == IF r < i THEN i - 1 ELSE i
            new   == play_order_after_remove(o, r)
            short == RemoveAt(q, r + 1)
            old   == Traversal(q, o)
            after == RemoveAt(old, p + 1)
<1>1. /\ len \in Nat /\ Len(o) = len /\ r + 1 \in 1..len
      /\ \A k \in 1..len : o[k] \in 0..(len - 1)
  <2>1. len \in Nat
    BY LenProperties
  <2>2. IsPlayOrder(o, len) /\ r \in 0..(len - 1)
    OBVIOUS
  <2>. HIDE DEF len
  <2>3. Len(o) = len
    BY <2>1, <2>2, OrderIsSeq
  <2>4. \A k \in 1..len : o[k] \in 0..(len - 1)
    BY <2>2 DEF IsPlayOrder
  <2>. QED  BY <2>1, <2>2, <2>3, <2>4
<1>2. p \in 0..(len - 1) /\ o[p + 1] = r
  BY <1>1, PositionIsFound
<1>. HIDE DEF p
<1>3. PositionOr(o, r, Len(o)) = p
  <2>1. PositionOr(o, o[p + 1], Len(o)) = p
    <3>1. IsPlayOrder(o, len)
      OBVIOUS
    <3>. HIDE DEF len
    <3>. QED  BY <1>1, <1>2, <3>1, PositionIsUnique
  <2>. QED  BY <1>2, <2>1
<1>4. new = [k \in 1..(len - 1) |-> D(o[K(k)])]
  BY <1>1, <1>3 DEF play_order_after_remove
<1>5. IsPlayOrder(new, len - 1)
  BY <1>1, RemoveKeepsOrder
<1>6. short \in Seq(S) /\ Len(short) = len - 1
      /\ \A k \in 1..(len - 1) : short[k] = IF k < r + 1 THEN q[k] ELSE q[k + 1]
  BY <1>1, RemoveAtProperties
<1>7. old \in Seq(S) /\ Len(old) = len /\ \A k \in 1..len : old[k] = q[o[k] + 1]
  BY TraversalIsSeq
<1>8. /\ after \in Seq(S) /\ Len(after) = len - 1
      /\ \A k \in 1..(len - 1) : after[k] = old[K(k)]
  <2>1. p + 1 \in 1..Len(old)
    BY <1>1, <1>2, <1>7
  <2>. HIDE DEF old
  <2>2. /\ after \in Seq(S) /\ Len(after) = Len(old) - 1
        /\ \A k \in 1..(Len(old) - 1) :
             after[k] = IF k < p + 1 THEN old[k] ELSE old[k + 1]
    BY <1>7, <2>1, RemoveAtProperties
  <2>. HIDE DEF after
  <2>. QED  BY <1>7, <2>2
<1>. HIDE DEF new, short, old, after, len
<1>9. \A k \in 1..(len - 1) : K(k) \in 1..len /\ K(k) # p + 1
  BY <1>1, <1>2
<1>10. \A k \in 1..(len - 1) : o[K(k)] \in 0..(len - 1) /\ o[K(k)] # r
  <2>. SUFFICES ASSUME NEW k \in 1..(len - 1)
                PROVE  o[K(k)] \in 0..(len - 1) /\ o[K(k)] # r
    OBVIOUS
  <2>1. K(k) \in 1..len /\ K(k) # p + 1 /\ p + 1 \in 1..len
    BY <1>1, <1>2, <1>9
  <2>. HIDE DEF K
  <2>. QED  BY <1>1, <1>2, <2>1 DEF IsPlayOrder, len
<1>11. ASSUME NEW i \in 0..(len - 1), i # r
       PROVE  D(i) + 1 \in 1..(len - 1) /\ short[D(i) + 1] = q[i + 1]
  <2>1. CASE r < i
    <3>1. D(i) + 1 = i /\ i \in 1..(len - 1) /\ ~(i < r + 1)
      BY <1>1, <2>1
    <3>. QED  BY <1>6, <3>1
  <2>2. CASE ~(r < i)
    <3>1. D(i) + 1 = i + 1 /\ i + 1 \in 1..(len - 1) /\ i + 1 < r + 1
      BY <1>1, <1>11, <2>2
    <3>. QED  BY <1>6, <3>1
  <2>. QED  BY <2>1, <2>2
<1>12. ASSUME NEW k \in 1..(len - 1)
       PROVE  after[k] = short[new[k] + 1]
  <2>1. after[k] = q[o[K(k)] + 1]
    BY <1>7, <1>8, <1>9
  <2>2. new[k] = D(o[K(k)])
    BY <1>4
  <2>3. short[D(o[K(k)]) + 1] = q[o[K(k)] + 1]
    <3>. HIDE DEF K, D
    <3>. QED  BY <1>10, <1>11
  <2>. QED  BY <2>1, <2>2, <2>3
<1>13. Traversal(short, new) = after
  <2>1. IsPlayOrder(new, Len(short)) /\ Len(after) = Len(short)
    BY <1>5, <1>6, <1>8
  <2>2. \A k \in 1..Len(short) : after[k] = short[new[k] + 1]
    BY <1>6, <1>12
  <2>. QED  BY <1>6, <1>8, <2>1, <2>2, TraversalEquals
<1>14. ASSUME NEW at \in 0..(len - 1), at # p
       PROVE  PositionOr(new, D(o[at + 1]), 0) = IF p < at THEN at - 1 ELSE at
  <2>. DEFINE m == IF p < at THEN at - 1 ELSE at
  <2>1. m \in 0..(len - 1 - 1) /\ m + 1 \in 1..(len - 1) /\ K(m + 1) = at + 1 /\ len - 1 \in Nat
    BY <1>1, <1>2, <1>14
  <2>. HIDE DEF m
  <2>2. new[m + 1] = D(o[at + 1])
    BY <1>4, <2>1
  <2>3. PositionOr(new, new[m + 1], 0) = m
    <3>. DEFINE less == len - 1
    <3>1. less \in Nat /\ m \in 0..(less - 1) /\ IsPlayOrder(new, less)
      BY <1>5, <2>1
    <3>. HIDE DEF less
    <3>. QED  BY <3>1, PositionIsUnique
  <2>. QED  BY <2>2, <2>3 DEF m
<1>. QED  BY <1>2, <1>13, <1>14 DEF new, short, after, old, len, p

-----------------------------------------------------------------------------
Occurrences(t, s) == Cardinality({k \in DOMAIN s : s[k] = t})

(* Two orders of one queue play the same tracks, each as often *)
LEMMA OrdersPlayTheSame ==
  ASSUME NEW S, NEW q \in Seq(S),
         NEW o, IsPlayOrder(o, Len(q)), NEW u, IsPlayOrder(u, Len(q)), NEW t
  PROVE  Occurrences(t, Traversal(q, o)) = Occurrences(t, Traversal(q, u))
<1>. DEFINE len  == Len(q)
            A    == {k \in 1..len : q[o[k] + 1] = t}
            B    == {k \in 1..len : q[u[k] + 1] = t}
            F    == [k \in A |-> PositionOr(u, o[k], 0) + 1]
<1>1. len \in Nat
  BY LenProperties
<1>2. /\ {k \in DOMAIN Traversal(q, o) : Traversal(q, o)[k] = t} = A
      /\ {k \in DOMAIN Traversal(q, u) : Traversal(q, u)[k] = t} = B
  <2>1. /\ Traversal(q, o) = [k \in 1..Len(q) |-> q[o[k] + 1]]
        /\ Traversal(q, u) = [k \in 1..Len(q) |-> q[u[k] + 1]]
    BY TraversalIsSeq
  <2>. QED  BY <2>1
<1>3. IsFiniteSet(A)
  <2>1. IsFiniteSet(1..len)
    <3>. HIDE DEF len
    <3>1. 1 \in Int /\ len \in Int
      BY <1>1
    <3>. QED  BY <3>1, FS_Interval
  <2>2. A \in SUBSET (1..len)
    OBVIOUS
  <2>. HIDE DEF A, len
  <2>. QED  BY <2>1, <2>2, FS_Subset
<1>4. \A k \in 1..len : /\ o[k] \in 0..(len - 1)
                        /\ PositionOr(u, o[k], 0) + 1 \in 1..len
                        /\ u[PositionOr(u, o[k], 0) + 1] = o[k]
  <2>. SUFFICES ASSUME NEW k \in 1..len
                PROVE  /\ o[k] \in 0..(len - 1)
                       /\ PositionOr(u, o[k], 0) + 1 \in 1..len
                       /\ u[PositionOr(u, o[k], 0) + 1] = o[k]
    OBVIOUS
  <2>1. o[k] \in 0..(len - 1)
    BY DEF IsPlayOrder
  <2>2. PositionOr(u, o[k], 0) \in 0..(len - 1) /\ u[PositionOr(u, o[k], 0) + 1] = o[k]
    BY <1>1, <2>1, PositionIsFound
  <2>. QED  BY <1>1, <2>1, <2>2
<1>5. F \in [A -> B]
  BY <1>4
<1>6. \A j, k \in A : F[j] = F[k] => j = k
  <2>. SUFFICES ASSUME NEW j \in A, NEW k \in A, F[j] = F[k] PROVE j = k
    OBVIOUS
  <2>1. o[j] = o[k]
    BY <1>4
  <2>. QED  BY <2>1 DEF IsPlayOrder
<1>7. \A b \in B : \E a \in A : F[a] = b
  <2>. SUFFICES ASSUME NEW b \in B PROVE \E a \in A : F[a] = b
    OBVIOUS
  <2>1. u[b] \in 0..(len - 1)
    BY DEF IsPlayOrder
  <2>2. PICK a \in 1..len : o[a] = u[b]
    BY <2>1 DEF IsPlayOrder
  <2>3. a \in A
    BY <2>2
  <2>4. u[F[a]] = u[b] /\ F[a] \in 1..len
    BY <1>4, <2>2, <2>3
  <2>5. F[a] = b
    BY <2>4 DEF IsPlayOrder
  <2>. QED  BY <2>3, <2>5
<1>. HIDE DEF A, B, F
<1>8. F \in Bijection(A, B)
  BY <1>5, <1>6, <1>7 DEF Bijection, Injection, Surjection, IsInjective
<1>9. Cardinality(B) = Cardinality(A)
  BY <1>3, <1>8, FS_Bijection DEF ExistsBijection
<1>. QED  BY <1>2, <1>9 DEF Occurrences

=============================================================================
