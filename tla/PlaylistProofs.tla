---------------------------- MODULE PlaylistProofs ----------------------------
(***************************************************************************)
(* The engine implements Playlist: every step of it maps to a step of the  *)
(* playlist a listener is promised, or to none.                            *)
(***************************************************************************)
EXTENDS PlaybackProofs

(* The substitution of Promise *)
List    == Traversal(queue, play_order)
Playing == IF Ready THEN current ELSE NoTrack

LEMMA InvGivesOrder ==
  ASSUME IInv
  PROVE  OrderInv
BY DEF IInv, OrderInv, TypeOK

(* The list is empty when the queue is; otherwise the cursor is in the list, *)
(* at the engine's index.                                                    *)
LEMMA ListFacts ==
  ASSUME NEW q \in Seq(Tracks), NEW o, IsPlayOrder(o, Len(q)), NEW i, NEW at \in Nat,
         q # <<>> => at < Len(q) /\ o[at + 1] = i
  PROVE  /\ Traversal(q, o) \in Seq(Tracks) /\ Len(Traversal(q, o)) = Len(q)
         /\ q = <<>> => Traversal(q, o) = <<>>
         /\ q # <<>> => /\ Traversal(q, o) # <<>> /\ at \in 0..(Len(Traversal(q, o)) - 1)
                        /\ Traversal(q, o)[at + 1] = q[i + 1]
<1>. DEFINE t == Traversal(q, o)
<1>1. /\ Len(q) \in Nat /\ t \in Seq(Tracks) /\ Len(t) = Len(q)
      /\ t = [k \in 1..Len(q) |-> q[o[k] + 1]]
  BY TraversalIsSeq
<1>. HIDE DEF t
<1>2. (q = <<>> <=> Len(q) = 0) /\ (t = <<>> <=> Len(t) = 0)
  BY <1>1, EmptySeq
<1>3. ASSUME q # <<>>
      PROVE  at \in 0..(Len(t) - 1) /\ t[at + 1] = q[i + 1]
  BY <1>1, <1>3
<1>. QED  BY <1>1, <1>2, <1>3 DEF t

(* The playlist before the step, and after it *)
LEMMA ListBefore ==
  ASSUME OrderInv
  PROVE  /\ List \in Seq(Tracks) /\ Len(List) = Len(queue)
         /\ queue = <<>> => List = <<>> /\ order_pos = 0
         /\ queue # <<>> => /\ List # <<>> /\ order_pos \in 0..(Len(List) - 1)
                            /\ List[order_pos + 1] = queue[index + 1]
BY ListFacts DEF List, OrderInv, PlayOrderInSync

LEMMA ListAfter ==
  ASSUME OrderInv'
  PROVE  /\ List' \in Seq(Tracks) /\ Len(List') = Len(queue')
         /\ queue' = <<>> => List' = <<>> /\ order_pos' = 0
         /\ queue' # <<>> => /\ List' # <<>> /\ order_pos' \in 0..(Len(List') - 1)
                             /\ List'[order_pos' + 1] = queue'[index' + 1]
BY ListFacts DEF List, OrderInv, PlayOrderInSync

-----------------------------------------------------------------------------
(* One lemma per action of Playlist the engine takes *)

(* Whatever silences the engine, be it a load, is a Replace *)
LEMMA SilenceReplaces ==
  ASSUME OrderInv', Playing' = NoTrack
  PROVE  Promise!Replace
BY ListAfter DEF Promise!Replace, Promise!InList, List, Playing

(* A batch of tracks spliced in is an insertion *)
LEMMA SpliceInserts ==
  ASSUME NEW S, NEW s \in Seq(S), NEW t \in Seq(S), t # <<>>, NEW at \in 0..Len(s)
  PROVE  Promise!IsInsertion(s, at, Splice(s, at, t))
<1>. DEFINE after == Splice(s, at, t)
            n     == Len(t)
            len   == Len(s)
<1>1. len \in Nat /\ n \in Nat /\ n > 0
  BY LenProperties, EmptySeq
<1>2. /\ after \in Seq(S) /\ Len(after) = len + n
      /\ \A k \in 1..(len + n) :
           after[k] = IF k <= at THEN s[k]
                      ELSE IF k <= at + n THEN t[k - at] ELSE s[k - n]
  BY SpliceProperties
<1>3. at \in 0..len /\ \A k \in 1..len : s[k] \in S
  BY <1>1, ElementOfSeq
<1>4. \A k \in 1..(len + n) : after[k] \in S
  BY <1>1, <1>2, ElementOfSeq
<1>. HIDE DEF after, n, len
<1>5. SubSeq(after, 1, at) = SubSeq(s, 1, at)
  <2>1. /\ SubSeq(after, 1, at) \in Seq(S) /\ Len(SubSeq(after, 1, at)) = at
        /\ \A k \in 1..at : SubSeq(after, 1, at)[k] = after[k]
    BY <1>1, <1>3, <1>4, SubSeqProperties
  <2>2. /\ SubSeq(s, 1, at) \in Seq(S) /\ Len(SubSeq(s, 1, at)) = at
        /\ \A k \in 1..at : SubSeq(s, 1, at)[k] = s[k]
    BY <1>1, <1>3, SubSeqProperties
  <2>3. \A k \in 1..at : after[k] = s[k]
    BY <1>1, <1>2, <1>3
  <2>. QED  BY <2>1, <2>2, <2>3, SeqEqual
<1>6. SubSeq(after, at + n + 1, len + n) = SubSeq(s, at + 1, len)
  <2>. DEFINE x == SubSeq(after, at + n + 1, len + n)
              y == SubSeq(s, at + 1, len)
  <2>1. /\ x \in Seq(S) /\ Len(x) = len - at
        /\ \A k \in 1..(len - at) : x[k] = after[at + n + k]
    <3>. DEFINE lo == at + n + 1
                hi == len + n
    <3>1. lo \in Int /\ hi \in Int /\ \A k \in lo..hi : after[k] \in S
      BY <1>1, <1>3, <1>4
    <3>2. /\ hi - lo + 1 = len - at /\ (IF lo <= hi THEN hi - lo + 1 ELSE 0) = len - at
          /\ \A k \in 1..(len - at) : lo + k - 1 = at + n + k
      BY <1>1, <1>3
    <3>3. x = SubSeq(after, lo, hi)
      OBVIOUS
    <3>. HIDE DEF lo, hi, x
    <3>4. /\ x \in Seq(S) /\ Len(x) = IF lo <= hi THEN hi - lo + 1 ELSE 0
          /\ \A k \in 1..(hi - lo + 1) : x[k] = after[lo + k - 1]
      BY <3>1, <3>3, SubSeqProperties
    <3>. QED  BY <3>2, <3>4
  <2>2. /\ y \in Seq(S) /\ Len(y) = len - at
        /\ \A k \in 1..(len - at) : y[k] = s[at + k]
    BY <1>1, <1>3, SubSeqProperties
  <2>. HIDE DEF x, y
  <2>3. ASSUME NEW k \in 1..(len - at)
        PROVE  after[at + n + k] = s[at + k]
    <3>1. ASSUME NEW h, h = at + n + k
          PROVE  after[h] = s[at + k]
      <4>1. h \in 1..(len + n) /\ ~(h <= at) /\ ~(h <= at + n) /\ h - n = at + k
        BY <1>1, <1>3, <3>1
      <4>. QED  BY <1>2, <4>1
    <3>. QED  BY <3>1
  <2>4. x = y
    BY <1>1, <1>3, <2>1, <2>2, <2>3, SeqEqual
  <2>. QED  BY <2>4 DEF x, y
<1>7. Len(after) - len = n
  BY <1>1, <1>2
<1>. QED  BY <1>1, <1>2, <1>5, <1>6, <1>7 DEF Promise!IsInsertion, after, len, n

LEMMA AppendInserts ==
  ASSUME NEW S, NEW s \in Seq(S), NEW t \in Seq(S), t # <<>>
  PROVE  Promise!IsInsertion(s, Len(s), s \o t)
<1>1. Len(s) \in Nat /\ \A k \in 1..Len(s) : s[k] \in S
  BY LenProperties, ElementOfSeq
<1>2. SubSeq(s, 1, Len(s)) = s
  <2>1. /\ SubSeq(s, 1, Len(s)) \in Seq(S) /\ Len(SubSeq(s, 1, Len(s))) = Len(s)
        /\ \A k \in 1..Len(s) : SubSeq(s, 1, Len(s))[k] = s[k]
    BY <1>1, SubSeqProperties
  <2>. QED  BY <1>1, <2>1, SeqEqual
<1>3. SubSeq(s, Len(s) + 1, Len(s)) = <<>>
  BY <1>1, SubSeqEmpty
<1>4. Splice(s, Len(s), t) = s \o t
  <2>1. s \o t \in Seq(S)
    BY ConcatProperties
  <2>2. (s \o t) \o <<>> = s \o t
    BY <2>1, ConcatEmptySeq
  <2>. QED  BY <1>2, <1>3, <2>2 DEF Splice
<1>5. ASSUME NEW at \in 0..Len(s)
      PROVE  Promise!IsInsertion(s, at, Splice(s, at, t))
  BY SpliceInserts
<1>6. Len(s) \in 0..Len(s)
  BY <1>1
<1>. QED  BY <1>4, <1>5, <1>6

LEMMA AppendAddsLast ==
  ASSUME OrderInv, queue # <<>>, NEW tracks \in Batches, tracks # <<>>, ExtendQueue(tracks),
         UNCHANGED <<order_pos, Playing>>
  PROVE  Promise!AddLast
<1>1. tracks \in Seq(Tracks) /\ queue \in Seq(Tracks) /\ IsPlayOrder(play_order, Len(queue))
  BY BatchIsSeq, OrderFacts DEF OrderInv
<1>2. List' = List \o tracks
  BY <1>1, ExtendTraversal DEF ExtendQueue, List
<1>3. List \in Seq(Tracks) /\ List # <<>>
  BY ListBefore
<1>4. Promise!IsInsertion(List, Len(List), List')
  BY <1>1, <1>2, <1>3, AppendInserts
<1>. QED  BY <1>3, <1>4 DEF Promise!AddLast, List, Playing

(* What PlayNextComesNext says of one step *)
LEMMA PlayNextSplices ==
  ASSUME OrderInv, queue # <<>>, sink # "none", NEW tracks \in Batches, PlayNext(tracks)
  PROVE  /\ tracks # <<>> /\ UNCHANGED <<order_pos, phase, current>>
         /\ List' = Splice(List, order_pos + 1, tracks)
<1>1. /\ tracks # <<>> /\ UNCHANGED <<order_pos, phase, current>>
      /\ queue' = Splice(queue, index + 1, tracks)
      /\ play_order' = play_next_insertion(play_order, order_pos, index, Len(tracks))
  BY DEF PlayNext, AppendAndStart, player
<1>2. /\ tracks \in Seq(Tracks) /\ queue \in Seq(Tracks)
      /\ IsPlayOrder(play_order, Len(queue)) /\ Len(queue) \in Nat
      /\ order_pos \in 0..(Len(queue) - 1) /\ play_order[order_pos + 1] = index
  BY BatchIsSeq, OrderFacts DEF OrderInv
<1>3. Traversal(Splice(queue, play_order[order_pos + 1] + 1, tracks),
                play_next_insertion(play_order, order_pos, play_order[order_pos + 1], Len(tracks)))
        = Splice(Traversal(queue, play_order), order_pos + 1, tracks)
  BY <1>2, PlayNextTraversal
<1>. QED  BY <1>1, <1>2, <1>3 DEF List

LEMMA PlayNextAddsNext ==
  ASSUME OrderInv, queue # <<>>, sink # "none", NEW tracks \in Batches, PlayNext(tracks)
  PROVE  Promise!AddNext
<1>1. /\ tracks # <<>> /\ UNCHANGED <<order_pos, phase, current>>
      /\ List' = Splice(List, order_pos + 1, tracks)
  BY PlayNextSplices
<1>2. tracks \in Seq(Tracks) /\ List \in Seq(Tracks) /\ List # <<>>
      /\ order_pos \in 0..(Len(List) - 1)
  BY BatchIsSeq, ListBefore
<1>3. order_pos + 1 \in 0..Len(List)
  BY <1>2, LenProperties
<1>4. Promise!IsInsertion(List, order_pos + 1, List')
  <2>1. ASSUME NEW at \in 0..Len(List)
        PROVE  Promise!IsInsertion(List, at, Splice(List, at, tracks))
    BY <1>1, <1>2, SpliceInserts
  <2>. QED  BY <1>1, <1>3, <2>1
<1>. QED  BY <1>1, <1>2, <1>4 DEF Promise!AddNext, List, Playing, Ready

LEMMA RemoveDrops ==
  ASSUME OrderInv, NEW r \in Nat, r < Len(queue), r # index, RemoveOther(r)
  PROVE  \E k \in 0..(Len(List) - 1) : Promise!Drop(k)
<1>. DEFINE p == PositionOr(play_order, r, 0)
<1>1. /\ queue \in Seq(Tracks) /\ Len(queue) \in Nat /\ IsPlayOrder(play_order, Len(queue))
      /\ r \in 0..(Len(queue) - 1) /\ queue # <<>>
      /\ order_pos \in 0..(Len(queue) - 1) /\ play_order[order_pos + 1] = index
      /\ Len(List) = Len(queue)
  BY OrderFacts, ListBefore DEF OrderInv
<1>2. /\ queue' = RemoveAt(queue, r + 1) /\ play_order' = play_order_after_remove(play_order, r)
      /\ order_pos' = PositionOr(play_order', IF r < index THEN index - 1 ELSE index, 0)
      /\ UNCHANGED <<phase, current>>
  BY DEF RemoveOther, IndexAfterRemove, player
<1>3. /\ p \in 0..(Len(queue) - 1) /\ play_order[p + 1] = r
      /\ Traversal(RemoveAt(queue, r + 1), play_order_after_remove(play_order, r))
           = RemoveAt(Traversal(queue, play_order), p + 1)
      /\ \A at \in 0..(Len(queue) - 1) : at # p =>
           PositionOr(play_order_after_remove(play_order, r),
                      IF r < play_order[at + 1] THEN play_order[at + 1] - 1
                                                ELSE play_order[at + 1], 0)
             = IF p < at THEN at - 1 ELSE at
  BY <1>1, RemoveTraversal
<1>. HIDE DEF p
<1>4. p # order_pos
  BY <1>1, <1>3
<1>5. order_pos' = IF p < order_pos THEN order_pos - 1 ELSE order_pos
  BY <1>1, <1>2, <1>3, <1>4
<1>6. List' = RemoveAt(List, p + 1)
  BY <1>2, <1>3 DEF List
<1>7. Promise!Drop(p)
  BY <1>2, <1>4, <1>5, <1>6 DEF Promise!Drop, Promise!RemoveAt, RemoveAt, List, Playing, Ready
<1>. QED  BY <1>1, <1>3, <1>7

LEMMA MoveStutters ==
  ASSUME OrderInv, NEW from \in Nat, NEW to \in Nat, MoveInQueue(from, to)
  PROVE  UNCHANGED <<List, order_pos, Playing>>
<1>1. /\ queue' = MoveTrack(queue, from, to)
      /\ play_order' = play_order_after_move(play_order, from, to)
      /\ order_pos' = PositionOr(play_order', remap_index_after_move(index, from, to), 0)
      /\ from < Len(queue) /\ to < Len(queue) /\ UNCHANGED <<phase, current>>
  BY DEF MoveInQueue, player
<1>2. /\ queue \in Seq(Tracks) /\ Len(queue) \in Nat /\ IsPlayOrder(play_order, Len(queue))
      /\ from \in 0..(Len(queue) - 1) /\ to \in 0..(Len(queue) - 1)
      /\ order_pos \in 0..(Len(queue) - 1) /\ play_order[order_pos + 1] = index
  BY <1>1, OrderFacts DEF OrderInv
<1>3. /\ Traversal(MoveTrack(queue, from, to), play_order_after_move(play_order, from, to))
           = Traversal(queue, play_order)
      /\ PositionOr(play_order_after_move(play_order, from, to),
                    remap_index_after_move(play_order[order_pos + 1], from, to), 0) = order_pos
  BY <1>2, MoveKeepsTraversal
<1>. QED  BY <1>1, <1>2, <1>3 DEF List, Playing, Ready

LEMMA ShuffleReorders ==
  ASSUME OrderInv, OrderInv', NEW on, SetShuffle(on)
  PROVE  Promise!Reorder \/ UNCHANGED <<List, order_pos, Playing>>
<1>1. UNCHANGED <<queue, index, Playing>> /\ (on = shuffle => UNCHANGED <<play_order, order_pos>>)
  BY SetShuffleKeepsOrder DEF SetShuffle, order, player, Playing, Ready
<1>2. CASE on = shuffle
  BY <1>1, <1>2 DEF List
<1>3. CASE queue = <<>>
  BY <1>1, <1>3, ListBefore, ListAfter
<1>4. CASE queue # <<>>
  <2>1. /\ queue \in Seq(Tracks) /\ IsPlayOrder(play_order, Len(queue))
        /\ IsPlayOrder(play_order', Len(queue))
    BY <1>1 DEF OrderInv, PlayOrderInSync
  <2>2. /\ List # <<>> /\ Len(List) = Len(queue) /\ List[order_pos + 1] = queue[index + 1]
        /\ List' # <<>> /\ Len(List') = Len(queue) /\ order_pos' \in 0..(Len(List') - 1)
        /\ List'[order_pos' + 1] = queue[index + 1]
    BY <1>1, <1>4, ListBefore, ListAfter
  <2>3. Promise!SameTracks(List, List')
    <3>1. ASSUME NEW t \in Tracks
          PROVE  Cardinality({k \in DOMAIN List : List[k] = t})
                   = Cardinality({k \in DOMAIN List' : List'[k] = t})
      <4>1. List' = Traversal(queue, play_order')
        BY <1>1 DEF List
      <4>2. Occurrences(t, List) = Occurrences(t, List')
        BY <2>1, <4>1, OrdersPlayTheSame DEF List
      <4>. QED  BY <4>2 DEF Occurrences
    <3>2. \A set : Promise!Cardinality(set) = Cardinality(set)
      BY DEF Promise!Cardinality, Cardinality
    <3>. QED  BY <2>2, <3>1, <3>2 DEF Promise!SameTracks
  <2>. QED  BY <1>1, <2>2, <2>3 DEF Promise!Reorder, Promise!InList, List, Playing
<1>. QED  BY <1>2, <1>3, <1>4

-----------------------------------------------------------------------------
(* A step that ends in silence, a load included, is a Replace.  What is left *)
(* are the steps that let a loaded track play on.                            *)
LEMMA PromiseStep ==
  ASSUME IInv, IInv', Next
  PROVE  [Promise!Next]_<<List, order_pos, Playing>>
<1>. DEFINE Kept == [Promise!Next]_<<List, order_pos, Playing>>
<1>1. OrderInv /\ OrderInv'
  BY InvGivesOrder DEF IInv, OrderInv, TypeOK
<1>2. CASE phase' # "ready" \/ current' = NoTrack
  BY <1>1, <1>2, SilenceReplaces DEF Promise!Next, Playing, Ready
<1>3. CASE phase' = "ready" /\ current' # NoTrack
  <2>1. Silence => current' = NoTrack
    BY DEF Silence
  <2>2. \A i : StartPlaybackAt(i) => phase' # "ready"
    BY DEF StartPlaybackAt
  <2>3. \A i : Transition(i) => phase' # "ready"
    BY <2>2 DEF Transition
  <2>4. ASSUME UNCHANGED <<order, phase, current>>
        PROVE  Kept
    BY <2>4 DEF List, Playing, Ready, order
  <2>5. sink # "none" => queue # <<>>
    BY DEF IInv, CurrentIsQueued
  <2>6. CASE QueueCommand
    <3>1. ASSUME NEW tracks \in Batches, NEW start, PlayQueue(tracks, start)
          PROVE  Kept
      BY <1>3, <2>1, <2>3, <3>1 DEF PlayQueue
    <3>2. ASSUME NEW tracks \in Batches, AppendQueue(tracks)
          PROVE  Kept
      <4>1. /\ tracks # <<>> /\ queue # <<>> /\ ExtendQueue(tracks)
            /\ UNCHANGED <<order_pos, Playing>>
        BY <1>3, <2>3, <2>5, <3>2 DEF AppendQueue, AppendAndStart, player, Playing, Ready
      <4>. QED  BY <1>1, <4>1, AppendAddsLast DEF Promise!Next
    <3>3. ASSUME NEW tracks \in Batches, PlayNext(tracks)
          PROVE  Kept
      <4>1. sink # "none"
        BY <1>3, <2>3, <3>3 DEF PlayNext, AppendAndStart
      <4>. QED  BY <1>1, <2>5, <3>3, <4>1, PlayNextAddsNext DEF Promise!Next
    <3>4. ASSUME NEW i \in 0..(MaxQueue - 1), RemoveFromQueue(i)
          PROVE  Kept
      <4>1. i \in Nat /\ i < Len(queue) /\ i # index /\ RemoveOther(i)
        BY <1>3, <2>1, <2>2, <3>4 DEF RemoveFromQueue, RemoveCurrent
      <4>2. PICK k \in 0..(Len(List) - 1) : Promise!Drop(k)
        BY <1>1, <4>1, RemoveDrops
      <4>. QED  BY <4>2 DEF Promise!Next, List
    <3>5. ASSUME NEW i, PlayAt(i)
          PROVE  Kept
      BY <1>3, <2>3, <3>5 DEF PlayAt
    <3>6. ASSUME NEW from \in 0..(MaxQueue - 1), NEW to \in 0..(MaxQueue - 1),
                 MoveInQueue(from, to)
          PROVE  Kept
      BY <1>1, <3>6, MoveStutters
    <3>7. ClearQueue => Kept
      BY <1>3, <2>1 DEF ClearQueue
    <3>. QED  BY <2>6, <3>1, <3>2, <3>3, <3>4, <3>5, <3>6, <3>7 DEF QueueCommand
  <2>7. CASE TransportCommand
    <3>1. CASE NextTrack \/ Previous \/ Resume
      BY <1>3, <2>3, <2>4, <3>1
         DEF NextTrack, NextInOrder, WrapQueue, Previous, RestartCurrent, Resume
    <3>2. CASE Pause \/ Stop \/ (\E target \in 0..MaxPos : Seek(target))
      BY <1>3, <2>4, <3>2 DEF Pause, Stop, Seek
    <3>. QED  BY <2>7, <3>1, <3>2 DEF TransportCommand
  <2>8. CASE ModeCommand
    <3>1. ASSUME NEW on, SetShuffle(on)
          PROVE  Kept
      BY <1>1, <3>1, ShuffleReorders DEF Promise!Next
    <3>2. CASE \E v \in Volumes : SetVolume(v)
      BY <2>4, <3>2 DEF SetVolume, player
    <3>3. CASE CycleRepeat \/ \E mode \in Repeats : SetRepeat(mode)
      BY <2>4, <3>3 DEF CycleRepeat, SetRepeat, player
    <3>. QED  BY <2>8, <3>1, <3>2, <3>3 DEF ModeCommand, ToggleShuffle
  <2>9. CASE Shutdown \/ LoadFails
    BY <1>3, <2>9 DEF Shutdown, LoadFails
  <2>10. CASE OpenOutputStream
    BY <1>3, <2>10 DEF OpenOutputStream, player, IInv, CurrentIsQueued, Settled, Ready
  <2>11. CASE AudioStep
    BY <2>4, <2>11 DEF AudioStep, SinkPlays, SourceEnds
  <2>12. CASE LoadSucceeds
    <3>1. /\ phase = "loading" /\ current' = queue[index + 1]
          /\ UNCHANGED <<queue, play_order, order_pos, index>> /\ queue # <<>>
      BY <1>1, <2>12, LoadTargetIsQueued DEF LoadSucceeds, order
    <3>2. List # <<>> /\ List[order_pos + 1] = queue[index + 1]
      BY <1>1, <3>1, ListBefore
    <3>. QED  BY <1>3, <3>1, <3>2 DEF Promise!Next, Promise!Start, List, Playing, Ready
  <2>13. CASE poll_progress
    <3>1. CASE RefreshSpectrum
      BY <2>4, <3>1 DEF RefreshSpectrum, player
    <3>2. CASE QueueExhausted
      BY <1>3, <3>2 DEF QueueExhausted
    <3>3. CASE RepeatTrack \/ NextInOrder \/ WrapQueue
      BY <1>3, <2>3, <3>3 DEF RepeatTrack, NextInOrder, WrapQueue
    <3>. QED  BY <2>13, <3>1, <3>2, <3>3 DEF poll_progress, NaturalEnd
  <2>. QED  BY <2>6, <2>7, <2>8, <2>9, <2>10, <2>11, <2>12, <2>13 DEF Next, Command, EngineStep
<1>. QED  BY <1>2, <1>3

LEMMA PromiseInit ==
  ASSUME Init
  PROVE  Promise!Init
<1>1. queue = <<>> /\ play_order = <<>> /\ order_pos = 0 /\ current = NoTrack
  BY DEF Init
<1>2. Traversal(<<>>, <<>>) = <<>>
  BY DEF Traversal
<1>. QED  BY <1>1, <1>2 DEF Promise!Init

(* The engine implements the playlist: for every set of tracks and queues of *)
(* every length.                                                             *)
THEOREM EngineKeepsPromise == Spec => ImplementsPlaylist
<1>1. IInv /\ IInv' /\ [Next]_vars => [Promise!Next]_(Promise!vars)
  <2>1. ASSUME UNCHANGED vars
        PROVE  UNCHANGED <<List, order_pos, Playing>>
    BY <2>1 DEF vars, order, player, List, Playing, Ready
  <2>. QED  BY <2>1, PromiseStep DEF Promise!vars, List, Playing
<1>. QED  BY <1>1, PromiseInit, Safety, PTL DEF Spec, ImplementsPlaylist, Promise!Spec

(* "Play next" plays next, in queues of every length and whatever the order. *)
THEOREM PlayNextPlaysNext == Spec => PlayNextComesNext
<1>. DEFINE ComesNext ==
       \A tracks \in Batches :
         sink # "none" /\ PlayNext(tracks) =>
           Traversal(queue', play_order') =
             Splice(Traversal(queue, play_order), order_pos + 1, tracks)
<1>1. IInv /\ [Next]_vars => [ComesNext]_vars
  <2>1. IInv => OrderInv /\ (sink # "none" => queue # <<>>)
    BY InvGivesOrder DEF IInv, CurrentIsQueued
  <2>. QED  BY <2>1, PlayNextSplices DEF List
<1>. QED  BY <1>1, Safety, PTL DEF Spec, PlayNextComesNext
=============================================================================
