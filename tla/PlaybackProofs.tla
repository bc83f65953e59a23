---------------------------- MODULE PlaybackProofs ----------------------------
(***************************************************************************)
(* The engine's invariants for every set of tracks, every queue length and *)
(* every bound.  The invariants of Playback are inductive together: each   *)
(* of them is needed by the next.  The order and the position in it come   *)
(* first (OrderInv), as every index the engine uses is taken from them.    *)
(* At the end, what a step of the engine may never do: the invariants say  *)
(* what the state is in which the step is taken.                           *)
(***************************************************************************)
EXTENDS Playback, PlayOrderProofs

(* The queue, the order of play and the engine's place in both *)
OrderInv ==
  /\ queue \in Seq(Tracks) /\ index \in Nat /\ order_pos \in Nat
  /\ PlayOrderInSync

(* The invariant that is inductive *)
IInv ==
  TypeOK /\ PlayOrderInSync /\ CurrentIsQueued /\ SnapshotAgrees
  /\ FactorOfCurrent /\ StoppedIsDark

LEMMA BatchIsSeq ==
  ASSUME NEW tracks \in Batches
  PROVE  tracks \in Seq(Tracks) /\ Len(tracks) \in Nat
<1>1. tracks \in Seq(Tracks)
  BY SeqDef DEF Batches
<1>. QED  BY <1>1, LenProperties

(* What OrderInv gives every action that reads the order *)
LEMMA OrderFacts ==
  ASSUME OrderInv
  PROVE  /\ Len(queue) \in Nat /\ IsPlayOrder(play_order, Len(queue))
         /\ play_order \in Seq(Nat) /\ Len(play_order) = Len(queue)
         /\ \A k \in 1..Len(queue) : play_order[k] \in 0..(Len(queue) - 1)
         /\ queue = <<>> <=> Len(queue) = 0
         /\ queue # <<>> => order_pos + 1 \in 1..Len(queue) /\ index \in 0..(Len(queue) - 1)
                            /\ play_order[order_pos + 1] = index
<1>1. Len(queue) \in Nat /\ IsPlayOrder(play_order, Len(queue))
  BY LenProperties DEF OrderInv, PlayOrderInSync
<1>2. play_order \in Seq(Nat) /\ Len(play_order) = Len(queue)
  BY <1>1, OrderIsSeq
<1>3. \A k \in 1..Len(queue) : play_order[k] \in 0..(Len(queue) - 1)
  BY <1>1 DEF IsPlayOrder
<1>4. queue = <<>> <=> Len(queue) = 0
  BY EmptySeq DEF OrderInv
<1>5. queue # <<>> => order_pos + 1 \in 1..Len(queue) /\ play_order[order_pos + 1] = index
  BY <1>1, <1>4 DEF OrderInv, PlayOrderInSync
<1>6. queue # <<>> => index \in 0..(Len(queue) - 1)
  BY <1>3, <1>5
<1>. QED  BY <1>1, <1>2, <1>3, <1>4, <1>5, <1>6

(* A load in progress loads a track of the queue *)
LEMMA LoadTargetIsQueued ==
  ASSUME OrderInv, phase = "loading"
  PROVE  queue # <<>> /\ queue[index + 1] \in Tracks /\ queue[index + 1] # NoTrack
<1>1. queue # <<>> /\ queue \in Seq(Tracks)
  BY DEF OrderInv, PlayOrderInSync
<1>2. index + 1 \in 1..Len(queue)
  BY <1>1, OrderFacts
<1>3. queue[index + 1] \in Tracks
  BY <1>1, <1>2, ElementOfSeq
<1>. QED  BY <1>1, <1>3, PlaybackAssumption

-----------------------------------------------------------------------------
(* OrderInv, one lemma per way of changing the order *)

(* A track that starts loading is in the queue and where order_pos says *)
LEMMA StartKeepsOrder ==
  ASSUME queue' \in Seq(Tracks), IsPlayOrder(play_order', Len(queue')),
         NEW i \in 0..(Len(queue') - 1), StartPlaybackAt(i)
  PROVE  OrderInv'
<1>1. Len(queue') \in Nat
  BY LenProperties
<1>2. /\ PositionOr(play_order', i, i) \in 0..(Len(queue') - 1)
      /\ play_order'[PositionOr(play_order', i, i) + 1] = i
  BY <1>1, PositionIsFound
<1>3. index' = i /\ order_pos' = PositionOr(play_order', i, i)
  BY DEF StartPlaybackAt
<1>4. queue' # <<>>
  BY <1>1
<1>. QED  BY <1>1, <1>2, <1>3, <1>4 DEF OrderInv, PlayOrderInSync

(* An edit that keeps the place keeps the invariant if the order still lists *)
(* every index and the index is still found                                  *)
LEMMA EditKeepsOrder ==
  ASSUME queue' \in Seq(Tracks), IsPlayOrder(play_order', Len(queue')),
         index' \in 0..(Len(queue') - 1), order_pos' = PositionOr(play_order', index', 0)
  PROVE  OrderInv'
<1>1. Len(queue') \in Nat
  BY LenProperties
<1>2. /\ PositionOr(play_order', index', 0) \in 0..(Len(queue') - 1)
      /\ play_order'[PositionOr(play_order', index', 0) + 1] = index'
  BY <1>1, PositionIsFound
<1>3. queue' # <<>>
  BY <1>1
<1>. QED  BY <1>1, <1>2, <1>3 DEF OrderInv, PlayOrderInSync

LEMMA SilenceKeepsOrder ==
  ASSUME Ready, Silence
  PROVE  OrderInv'
<1>1. queue' = <<>> /\ play_order' = <<>> /\ index' = 0 /\ order_pos' = 0 /\ phase' # "loading"
  BY DEF Silence, Ready
<1>2. IsPlayOrder(<<>>, 0)
  BY DEF IsPlayOrder
<1>. QED  BY <1>1, <1>2 DEF OrderInv, PlayOrderInSync

LEMMA OrderUntouched ==
  ASSUME OrderInv, UNCHANGED order, phase' # "loading"
  PROVE  OrderInv'
BY DEF OrderInv, PlayOrderInSync, order

LEMMA SameOrderStarts ==
  ASSUME OrderInv, UNCHANGED <<queue, play_order>>,
         NEW i \in 0..(Len(queue) - 1), Transition(i)
  PROVE  OrderInv'
<1>1. IsPlayOrder(play_order', Len(queue')) /\ queue' \in Seq(Tracks)
  BY OrderFacts DEF OrderInv
<1>2. StartPlaybackAt(i)
  BY DEF Transition
<1>. QED  BY <1>1, <1>2, StartKeepsOrder

(* Appending, with something loaded or not *)
LEMMA ExtendQueueKeepsOrder ==
  ASSUME OrderInv, NEW tracks \in Batches, ExtendQueue(tracks)
  PROVE  /\ queue' \in Seq(Tracks) /\ Len(queue') = Len(queue) + Len(tracks)
         /\ IsPlayOrder(play_order', Len(queue'))
         /\ \A k \in 1..Len(queue) : play_order'[k] = play_order[k] /\ queue'[k] = queue[k]
<1>1. tracks \in Seq(Tracks) /\ Len(tracks) \in Nat /\ queue \in Seq(Tracks) /\ Len(queue) \in Nat
  BY BatchIsSeq, OrderFacts DEF OrderInv
<1>2. queue' = queue \o tracks /\ play_order' = play_order \o IndexRange(Len(queue), Len(tracks))
  BY DEF ExtendQueue
<1>3. /\ queue \o tracks \in Seq(Tracks) /\ Len(queue \o tracks) = Len(queue) + Len(tracks)
      /\ \A k \in 1..(Len(queue) + Len(tracks)) :
           (queue \o tracks)[k] = IF k <= Len(queue) THEN queue[k] ELSE tracks[k - Len(queue)]
  BY <1>1, ConcatProperties
<1>4. \A k \in 1..Len(queue) : (queue \o tracks)[k] = queue[k]
  BY <1>1, <1>3
<1>5. /\ IsPlayOrder(play_order \o IndexRange(Len(queue), Len(tracks)), Len(queue) + Len(tracks))
      /\ \A k \in 1..Len(queue) :
           (play_order \o IndexRange(Len(queue), Len(tracks)))[k] = play_order[k]
  BY <1>1, OrderFacts, ExtendKeepsOrder
<1>. QED  BY <1>2, <1>3, <1>4, <1>5

LEMMA AppendAndStartKeepsOrder ==
  ASSUME OrderInv, NEW tracks \in Batches, tracks # <<>>, AppendAndStart(tracks)
  PROVE  OrderInv'
<1>1. Len(tracks) \in Nat /\ Len(tracks) > 0 /\ Len(queue) \in Nat
  BY BatchIsSeq, EmptySeq, OrderFacts
<1>2. /\ queue' \in Seq(Tracks) /\ Len(queue') = Len(queue) + Len(tracks)
      /\ IsPlayOrder(play_order', Len(queue'))
  BY ExtendQueueKeepsOrder DEF AppendAndStart
<1>3. Len(queue) \in 0..(Len(queue') - 1) /\ StartPlaybackAt(Len(queue))
  BY <1>1, <1>2 DEF AppendAndStart, Transition
<1>. QED  BY <1>2, <1>3, StartKeepsOrder

LEMMA AppendQueueKeepsOrder ==
  ASSUME OrderInv, CurrentIsQueued, NEW tracks \in Batches, AppendQueue(tracks)
  PROVE  OrderInv'
<1>1. CASE AppendAndStart(tracks)
  BY <1>1, AppendAndStartKeepsOrder DEF AppendQueue
<1>2. CASE ~AppendAndStart(tracks)
  <2>1. /\ ExtendQueue(tracks) /\ sink # "none" /\ Ready
        /\ UNCHANGED <<phase, index, order_pos>>
    BY <1>2 DEF AppendQueue
  <2>2. queue # <<>> /\ phase' # "loading"
    BY <2>1 DEF CurrentIsQueued, Ready
  <2>3. order_pos + 1 \in 1..Len(queue) /\ play_order[order_pos + 1] = index /\ Len(queue) \in Nat
    BY <2>2, OrderFacts
  <2>4. /\ queue' \in Seq(Tracks) /\ Len(queue') = Len(queue) + Len(tracks)
        /\ IsPlayOrder(play_order', Len(queue'))
        /\ play_order'[order_pos + 1] = index /\ Len(tracks) \in Nat
    BY <2>1, <2>3, ExtendQueueKeepsOrder, BatchIsSeq
  <2>5. order_pos' < Len(queue') /\ play_order'[order_pos' + 1] = index'
    BY <2>1, <2>3, <2>4 DEF OrderInv
  <2>6. queue' # <<>>
    BY <2>3, <2>4
  <2>. QED  BY <2>1, <2>4, <2>5, <2>6 DEF OrderInv, PlayOrderInSync
<1>. QED  BY <1>1, <1>2

(* Tracks to play next go in behind the present one, in the queue and the order *)
LEMMA PlayNextKeepsOrderInv ==
  ASSUME OrderInv, CurrentIsQueued, NEW tracks \in Batches, PlayNext(tracks)
  PROVE  /\ OrderInv'
         /\ sink # "none" => queue'[index' + 1] = queue[index + 1]
<1>1. CASE sink = "none"
  BY <1>1, AppendAndStartKeepsOrder DEF PlayNext
<1>2. CASE sink # "none"
  <2>1. /\ queue' = Splice(queue, index + 1, tracks)
        /\ play_order' = play_next_insertion(play_order, order_pos, index, Len(tracks))
        /\ UNCHANGED <<phase, index, order_pos>> /\ Ready
    BY <1>2 DEF PlayNext, AppendAndStart
  <2>2. queue # <<>> /\ phase' # "loading"
    BY <1>2, <2>1 DEF CurrentIsQueued, Ready
  <2>3. /\ order_pos \in 0..(Len(queue) - 1) /\ play_order[order_pos + 1] = index
        /\ index \in 0..(Len(queue) - 1) /\ Len(queue) \in Nat
        /\ IsPlayOrder(play_order, Len(queue))
    BY <2>2, OrderFacts DEF OrderInv
  <2>4. tracks \in Seq(Tracks) /\ Len(tracks) \in Nat /\ queue \in Seq(Tracks)
        /\ index + 1 \in 0..Len(queue)
    BY <2>3, BatchIsSeq DEF OrderInv
  <2>5. /\ Splice(queue, index + 1, tracks) \in Seq(Tracks)
        /\ Len(Splice(queue, index + 1, tracks)) = Len(queue) + Len(tracks)
        /\ \A k \in 1..(Len(queue) + Len(tracks)) :
             Splice(queue, index + 1, tracks)[k] =
               IF k <= index + 1 THEN queue[k]
               ELSE IF k <= index + 1 + Len(tracks) THEN tracks[k - (index + 1)]
               ELSE queue[k - Len(tracks)]
    BY <2>4, SpliceProperties
  <2>6. /\ IsPlayOrder(play_order', Len(queue) + Len(tracks))
        /\ play_order'[order_pos + 1] = index
    BY <2>1, <2>3, <2>4, PlayNextKeepsOrder
  <2>7. queue' \in Seq(Tracks) /\ Len(queue') = Len(queue) + Len(tracks) /\ queue' # <<>>
    BY <2>1, <2>3, <2>4, <2>5
  <2>8. queue'[index' + 1] = queue[index + 1]
    <3>1. index + 1 \in 1..(Len(queue) + Len(tracks)) /\ index + 1 <= index + 1
      BY <2>3, <2>4
    <3>. QED  BY <2>1, <2>5, <3>1
  <2>9. order_pos' < Len(queue')
    BY <2>1, <2>3, <2>4, <2>7
  <2>10. OrderInv'
    BY <2>1, <2>6, <2>7, <2>9 DEF OrderInv, PlayOrderInSync
  <2>. QED  BY <2>8, <2>10
<1>. QED  BY <1>1, <1>2

(* Removing another entry than the engine's leaves the engine at its track *)
LEMMA RemoveOtherKeepsOrder ==
  ASSUME OrderInv, Ready, NEW r \in Nat, r < Len(queue), r # index, RemoveOther(r)
  PROVE  /\ OrderInv' /\ queue' # <<>>
         /\ queue'[index' + 1] = queue[index + 1]
<1>1. /\ Len(queue) \in Nat /\ IsPlayOrder(play_order, Len(queue)) /\ queue \in Seq(Tracks)
      /\ r \in 0..(Len(queue) - 1) /\ r + 1 \in 1..Len(queue) /\ index \in 0..(Len(queue) - 1)
  BY OrderFacts DEF OrderInv
<1>2. /\ RemoveAt(queue, r + 1) \in Seq(Tracks)
      /\ Len(RemoveAt(queue, r + 1)) = Len(queue) - 1
      /\ \A k \in 1..(Len(queue) - 1) :
           RemoveAt(queue, r + 1)[k] = IF k < r + 1 THEN queue[k] ELSE queue[k + 1]
  BY <1>1, RemoveAtProperties
<1>3. /\ queue' = RemoveAt(queue, r + 1)
      /\ play_order' = play_order_after_remove(play_order, r)
      /\ index' = IF r < index THEN index - 1 ELSE index
      /\ order_pos' = PositionOr(play_order', index', 0)
  BY DEF RemoveOther, IndexAfterRemove
<1>4. IsPlayOrder(play_order', Len(queue'))
  BY <1>1, <1>2, <1>3, RemoveKeepsOrder
<1>5. index' \in 0..(Len(queue') - 1)
  BY <1>1, <1>2, <1>3
<1>6. OrderInv'
  BY <1>2, <1>3, <1>4, <1>5, EditKeepsOrder
<1>7. queue'[index' + 1] = queue[index + 1]
  <2>1. CASE r < index
    <3>1. index' + 1 = index /\ index \in 1..(Len(queue) - 1) /\ ~(index < r + 1)
      BY <1>1, <1>3, <2>1
    <3>. QED  BY <1>2, <1>3, <3>1
  <2>2. CASE ~(r < index)
    <3>1. index' = index /\ index + 1 \in 1..(Len(queue) - 1) /\ index + 1 < r + 1
      BY <1>1, <1>3, <2>2
    <3>. QED  BY <1>2, <1>3, <3>1
  <2>. QED  BY <2>1, <2>2
<1>8. queue' # <<>>
  BY <1>2, <1>3, <1>5
<1>. QED  BY <1>6, <1>7, <1>8

LEMMA RemoveCurrentKeepsOrder ==
  ASSUME OrderInv, Ready, index < Len(queue), RemoveCurrent
  PROVE  OrderInv'
<1>1. CASE Len(queue) = 1
  BY <1>1, SilenceKeepsOrder DEF RemoveCurrent
<1>2. CASE Len(queue) # 1
  <2>1. /\ Len(queue) > 1 /\ queue' = RemoveAt(queue, index + 1)
        /\ play_order' = play_order_after_remove(play_order, index)
        /\ StartPlaybackAt(MinOf(index, Len(queue) - 2))
    BY <1>2 DEF RemoveCurrent
  <2>2. /\ Len(queue) \in Nat /\ IsPlayOrder(play_order, Len(queue)) /\ queue \in Seq(Tracks)
        /\ index \in 0..(Len(queue) - 1) /\ index + 1 \in 1..Len(queue)
    BY OrderFacts DEF OrderInv
  <2>3. queue' \in Seq(Tracks) /\ Len(queue') = Len(queue) - 1
    BY <2>1, <2>2, RemoveAtProperties
  <2>4. IsPlayOrder(play_order', Len(queue'))
    BY <2>1, <2>2, <2>3, RemoveKeepsOrder
  <2>5. MinOf(index, Len(queue) - 2) \in 0..(Len(queue') - 1)
    BY <2>1, <2>2, <2>3 DEF MinOf
  <2>. QED  BY <2>1, <2>3, <2>4, <2>5, StartKeepsOrder
<1>. QED  BY <1>1, <1>2

(* A moved queue keeps the engine at its track *)
LEMMA MoveKeepsOrderInv ==
  ASSUME OrderInv, NEW from \in Nat, NEW to \in Nat, MoveInQueue(from, to)
  PROVE  /\ OrderInv' /\ queue' # <<>> /\ Len(queue') = Len(queue)
         /\ queue'[index' + 1] = queue[index + 1]
<1>1. /\ queue' = MoveTrack(queue, from, to)
      /\ play_order' = play_order_after_move(play_order, from, to)
      /\ index' = remap_index_after_move(index, from, to)
      /\ order_pos' = PositionOr(play_order', index', 0)
      /\ from < Len(queue) /\ to < Len(queue)
  BY DEF MoveInQueue
<1>2. /\ Len(queue) \in Nat /\ IsPlayOrder(play_order, Len(queue)) /\ queue \in Seq(Tracks)
      /\ from \in 0..(Len(queue) - 1) /\ to \in 0..(Len(queue) - 1)
      /\ index \in 0..(Len(queue) - 1)
  BY <1>1, OrderFacts DEF OrderInv
<1>3. /\ queue' \in Seq(Tracks) /\ Len(queue') = Len(queue)
      /\ queue'[index' + 1] = queue[index + 1]
  BY <1>1, <1>2, MoveTrackProperties
<1>4. IsPlayOrder(play_order', Len(queue'))
  BY <1>1, <1>2, <1>3, MoveKeepsOrder
<1>5. index' \in 0..(Len(queue') - 1)
  BY <1>1, <1>2, <1>3, RemapIsInjective
<1>6. OrderInv'
  BY <1>1, <1>3, <1>4, <1>5, EditKeepsOrder
<1>7. queue' # <<>>
  BY <1>3, <1>5
<1>. QED  BY <1>3, <1>6, <1>7

LEMMA PlayQueueKeepsOrder ==
  ASSUME OrderInv, NEW tracks \in Batches, NEW start \in Nat, PlayQueue(tracks, start)
  PROVE  OrderInv'
<1>1. CASE tracks = <<>>
  BY <1>1, SilenceKeepsOrder DEF PlayQueue
<1>2. CASE tracks # <<>>
  <2>. DEFINE at == MinOf(start, Len(tracks) - 1)
  <2>1. /\ queue' = tracks
        /\ play_order' \in new_queue_play_order(Len(tracks), shuffle, at)
        /\ StartPlaybackAt(at)
    BY <1>2 DEF PlayQueue, Transition
  <2>2. tracks \in Seq(Tracks) /\ Len(tracks) \in Nat /\ Len(tracks) > 0
    BY <1>2, BatchIsSeq, EmptySeq
  <2>3. at \in 0..(Len(tracks) - 1)
    BY <2>2 DEF MinOf
  <2>. HIDE DEF at
  <2>4. IsPlayOrder(play_order', Len(tracks))
    BY <2>1, <2>2, NewQueueIsOrder
  <2>. QED  BY <2>1, <2>2, <2>3, <2>4, StartKeepsOrder
<1>. QED  BY <1>1, <1>2

(* Next, and the natural end of a track *)
LEMMA NextInOrderKeepsOrder ==
  ASSUME OrderInv, NextInOrder
  PROVE  OrderInv'
<1>1. order_pos + 2 \in 1..Len(queue) /\ Transition(play_order[order_pos + 2])
      /\ UNCHANGED <<queue, play_order>>
  BY OrderFacts DEF NextInOrder, HasNextInOrder, OrderInv
<1>2. play_order[order_pos + 2] \in 0..(Len(queue) - 1)
  BY <1>1, OrderFacts
<1>. QED  BY <1>1, <1>2, SameOrderStarts

LEMMA WrapQueueKeepsOrder ==
  ASSUME OrderInv, WrapQueue
  PROVE  OrderInv'
<1>1. /\ UNCHANGED queue /\ play_order # <<>> /\ StartPlaybackAt(play_order'[1])
      /\ play_order' \in IF shuffle THEN shuffled_play_order(Len(queue), shuffle, NoAnchor)
                                     ELSE {play_order}
  BY DEF WrapQueue, CanWrap, Transition
<1>2. /\ IsPlayOrder(play_order, Len(queue)) /\ Len(queue) \in Nat
      /\ Len(play_order) = Len(queue) /\ play_order \in Seq(Nat)
  BY OrderFacts
<1>3. IsPlayOrder(play_order', Len(queue))
  <2>1. CASE shuffle
    BY <1>1, <1>2, <2>1, ShuffledIsOrder
  <2>2. CASE ~shuffle
    BY <1>1, <1>2, <2>2
  <2>. QED  BY <2>1, <2>2
<1>4. Len(queue) > 0
  BY <1>1, <1>2, EmptySeq
<1>5. play_order'[1] \in 0..(Len(queue) - 1)
  <2>1. 1 \in 1..Len(queue)
    BY <1>2, <1>4
  <2>. QED  BY <1>3, <2>1 DEF IsPlayOrder
<1>. QED  BY <1>1, <1>3, <1>5, StartKeepsOrder DEF OrderInv

LEMMA SetShuffleKeepsOrder ==
  ASSUME OrderInv, NEW on, SetShuffle(on)
  PROVE  OrderInv' /\ UNCHANGED <<queue, index>>
<1>1. Ready /\ UNCHANGED phase
  BY DEF SetShuffle
<1>2. CASE on = shuffle
  BY <1>1, <1>2, OrderUntouched DEF SetShuffle, order, Ready
<1>3. CASE on # shuffle
  <2>1. /\ play_order' \in shuffled_play_order(Len(queue), on, index)
        /\ order_pos' = PositionOr(play_order', index, 0)
        /\ UNCHANGED <<queue, index>>
    BY <1>3 DEF SetShuffle, Reshuffle
  <2>2. Len(queue) \in Nat /\ queue \in Seq(Tracks)
    BY OrderFacts DEF OrderInv
  <2>3. IsPlayOrder(play_order', Len(queue'))
    BY <2>1, <2>2, ShuffledIsOrder
  <2>4. CASE queue # <<>>
    <3>1. index' \in 0..(Len(queue') - 1) /\ order_pos' = PositionOr(play_order', index', 0)
      BY <2>1, <2>4, OrderFacts
    <3>2. OrderInv'
      BY <2>1, <2>2, <2>3, <3>1, EditKeepsOrder
    <3>. QED  BY <2>1, <3>2
  <2>5. CASE queue = <<>>
    <3>1. Len(queue) = 0 /\ index = 0
      BY <2>5, OrderFacts DEF OrderInv, PlayOrderInSync
    <3>2. ~ \E k \in DOMAIN play_order' : play_order'[k] = index
      <4>1. DOMAIN play_order' = 1..0
        BY <2>1, <2>3, <3>1, OrderIsSeq
      <4>. QED  BY <4>1
    <3>3. order_pos' = 0
      BY <2>1, <3>2 DEF PositionOr
    <3>4. phase' # "loading"
      BY <1>1 DEF Ready
    <3>. QED  BY <2>1, <2>2, <2>3, <2>5, <3>1, <3>3, <3>4 DEF OrderInv, PlayOrderInSync
  <2>. QED  BY <2>4, <2>5
<1>. QED  BY <1>2, <1>3

LEMMA PreviousKeepsOrder ==
  ASSUME OrderInv, Previous
  PROVE  OrderInv'
<1>1. CASE pos > RestartThreshold \/ order_pos = 0
  BY <1>1, OrderUntouched DEF Previous, RestartCurrent, Ready
<1>2. CASE ~(pos > RestartThreshold \/ order_pos = 0)
  <2>1. UNCHANGED <<queue, play_order>> /\ Transition(play_order[order_pos]) /\ order_pos # 0
    BY <1>2 DEF Previous
  <2>2. order_pos \in 1..Len(queue)
    BY <2>1, OrderFacts DEF OrderInv, PlayOrderInSync
  <2>3. play_order[order_pos] \in 0..(Len(queue) - 1)
    BY <2>2, OrderFacts
  <2>. QED  BY <2>1, <2>3, SameOrderStarts
<1>. QED  BY <1>1, <1>2

LEMMA ResumeKeepsOrder ==
  ASSUME OrderInv, Resume
  PROVE  OrderInv'
<1>1. CASE current # NoTrack
  BY <1>1, OrderUntouched DEF Resume, Ready
<1>2. CASE current = NoTrack
  <2>1. UNCHANGED <<queue, play_order>> /\ Transition(MinOf(index, Len(queue) - 1)) /\ queue # <<>>
    BY <1>2 DEF Resume
  <2>2. MinOf(index, Len(queue) - 1) \in 0..(Len(queue) - 1)
    BY <2>1, OrderFacts DEF MinOf
  <2>. QED  BY <2>1, <2>2, SameOrderStarts
<1>. QED  BY <1>1, <1>2

LEMMA PollKeepsOrder ==
  ASSUME OrderInv, CurrentIsQueued, poll_progress
  PROVE  OrderInv'
<1>1. Ready /\ sink # "none"
  BY DEF poll_progress
<1>2. CASE RefreshSpectrum
  BY <1>1, <1>2, OrderUntouched DEF RefreshSpectrum, Ready
<1>3. CASE RepeatTrack
  <2>1. index \in 0..(Len(queue) - 1)
    BY <1>1, OrderFacts DEF CurrentIsQueued
  <2>. QED  BY <1>3, <2>1, SameOrderStarts DEF RepeatTrack
<1>4. CASE NextInOrder
  BY <1>4, NextInOrderKeepsOrder
<1>5. CASE WrapQueue
  BY <1>5, WrapQueueKeepsOrder
<1>6. CASE QueueExhausted
  BY <1>1, <1>6, OrderUntouched DEF QueueExhausted, Ready
<1>. QED  BY <1>2, <1>3, <1>4, <1>5, <1>6 DEF poll_progress, NaturalEnd

(* Every command and every step of the threads keeps the order in sync *)
LEMMA OrderStep ==
  ASSUME OrderInv, CurrentIsQueued, Next
  PROVE  OrderInv'
<1>1. ASSUME NEW tracks \in Batches, NEW start \in 0..Len(tracks), PlayQueue(tracks, start)
      PROVE  OrderInv'
  <2>1. start \in Nat
    BY <1>1, BatchIsSeq
  <2>. QED  BY <1>1, <2>1, PlayQueueKeepsOrder
<1>2. ASSUME NEW tracks \in Batches, AppendQueue(tracks)
      PROVE  OrderInv'
  BY <1>2, AppendQueueKeepsOrder
<1>3. ASSUME NEW tracks \in Batches, PlayNext(tracks)
      PROVE  OrderInv'
  BY <1>3, PlayNextKeepsOrderInv
<1>4. ASSUME NEW i \in 0..(MaxQueue - 1), RemoveFromQueue(i)
      PROVE  OrderInv'
  <2>1. Ready /\ i < Len(queue) /\ i \in Nat
    BY <1>4 DEF RemoveFromQueue
  <2>2. CASE i = index
    BY <1>4, <2>1, <2>2, RemoveCurrentKeepsOrder DEF RemoveFromQueue
  <2>3. CASE i # index
    BY <1>4, <2>1, <2>3, RemoveOtherKeepsOrder DEF RemoveFromQueue
  <2>. QED  BY <2>2, <2>3
<1>5. ASSUME NEW i \in 0..(MaxQueue - 1), PlayAt(i)
      PROVE  OrderInv'
  <2>1. i \in 0..(Len(queue) - 1)
    BY <1>5, OrderFacts DEF PlayAt
  <2>. QED  BY <1>5, <2>1, SameOrderStarts DEF PlayAt
<1>6. ASSUME NEW from \in 0..(MaxQueue - 1), NEW to \in 0..(MaxQueue - 1), MoveInQueue(from, to)
      PROVE  OrderInv'
  <2>1. from \in Nat /\ to \in Nat
    OBVIOUS
  <2>. QED  BY <1>6, <2>1, MoveKeepsOrderInv
<1>7. CASE ClearQueue
  BY <1>7, SilenceKeepsOrder DEF ClearQueue
<1>8. CASE NextTrack
  BY <1>8, NextInOrderKeepsOrder, WrapQueueKeepsOrder DEF NextTrack
<1>9. CASE Previous
  BY <1>9, PreviousKeepsOrder
<1>10. CASE Resume
  BY <1>10, ResumeKeepsOrder
<1>11. CASE Pause \/ Stop \/ \E target \in 0..MaxPos : Seek(target)
  BY <1>11, OrderUntouched DEF Pause, Stop, Seek, Ready
<1>12. CASE \/ \E v \in Volumes : SetVolume(v)
            \/ CycleRepeat \/ \E mode \in Repeats : SetRepeat(mode)
  BY <1>12, OrderUntouched DEF SetVolume, RecomputeFactor, CycleRepeat, SetRepeat, Ready
<1>13. CASE ToggleShuffle \/ \E on \in BOOLEAN : SetShuffle(on)
  BY <1>13, SetShuffleKeepsOrder DEF ToggleShuffle
<1>14. CASE Shutdown
  BY <1>14, OrderUntouched DEF Shutdown
<1>15. CASE OpenOutputStream \/ LoadSucceeds \/ LoadFails
  BY <1>15, OrderUntouched DEF OpenOutputStream, LoadSucceeds, LoadFails
<1>16. CASE poll_progress
  BY <1>16, PollKeepsOrder
<1>17. CASE AudioStep
  <2>1. UNCHANGED <<order, phase>> /\ sink # "none"
    BY <1>17 DEF AudioStep, SinkPlays, SourceEnds
  <2>. QED  BY <2>1, OrderUntouched DEF CurrentIsQueued, Ready
<1>. QED  BY <1>1, <1>2, <1>3, <1>4, <1>5, <1>6, <1>7, <1>8, <1>9, <1>10, <1>11, <1>12, <1>13,
             <1>14, <1>15, <1>16, <1>17
          DEF Next, Command, QueueCommand, TransportCommand, ModeCommand, EngineStep

-----------------------------------------------------------------------------
(* Types.  Those of the order follow from OrderInv; what is left is split    *)
(* into the engine's other state and what a step sends out.                  *)

PlayerType ==
  /\ phase \in {"opening", "ready", "loading", "exited"}
  /\ repeat \in Repeats /\ shuffle \in BOOLEAN
  /\ current \in MaybeTrack
  /\ sink \in {"none", "playing", "paused", "ended"}
  /\ pos \in 0..MaxPos
  /\ volume \in Volumes /\ volume_factor \in Volumes \X MaybeTrack
  /\ snap \in SnapshotType

OutputType ==
  /\ events \in Seq(EventNames)
  /\ scrobbles \in Seq([id : Tracks, submission : BOOLEAN])

LEMMA TypesSplit ==
  ASSUME OrderInv
  PROVE  TypeOK <=> PlayerType /\ OutputType
<1>1. play_order \in Seq(Nat) /\ queue \in Seq(Tracks) /\ index \in Nat /\ order_pos \in Nat
  BY OrderFacts DEF OrderInv
<1>. QED  BY <1>1 DEF TypeOK, PlayerType, OutputType

(* Tuples of at most three events, and of at most one scrobble *)
LEMMA ShortSequences ==
  ASSUME NEW S
  PROVE  /\ <<>> \in Seq(S)
         /\ \A x \in S : <<x>> \in Seq(S)
         /\ \A x, y \in S : <<x, y>> \in Seq(S)
         /\ \A x, y, z \in S : <<x, y, z>> \in Seq(S)
OBVIOUS

LEMMA ScrobbleType ==
  ASSUME current \in MaybeTrack
  PROVE  /\ maybe_scrobble_outgoing \in Seq([id : Tracks, submission : BOOLEAN])
         /\ ScrobbleTakenSink \in Seq([id : Tracks, submission : BOOLEAN])
<1>. DEFINE Requests == [id : Tracks, submission : BOOLEAN]
<1>1. current # NoTrack => [id |-> current, submission |-> TRUE] \in Requests
  BY DEF MaybeTrack
<1>. HIDE DEF Requests
<1>2. <<>> \in Seq(Requests)
      /\ (current # NoTrack => <<[id |-> current, submission |-> TRUE]>> \in Seq(Requests))
  BY <1>1, ShortSequences
<1>3. maybe_scrobble_outgoing \in Seq(Requests)
  BY <1>2 DEF maybe_scrobble_outgoing
<1>4. ScrobbleTakenSink \in Seq(Requests)
  BY <1>2, <1>3 DEF ScrobbleTakenSink
<1>. QED  BY <1>3, <1>4 DEF Requests

LEMMA OutputStep ==
  ASSUME PlayerType, OrderInv, OrderInv', PlayerType', Next
  PROVE  OutputType'
<1>. DEFINE Requests == [id : Tracks, submission : BOOLEAN]
<1>0. /\ maybe_scrobble_outgoing \in Seq(Requests) /\ ScrobbleTakenSink \in Seq(Requests)
      /\ <<>> \in Seq(Requests) /\ <<>> \in Seq(EventNames)
      /\ (current' \in Tracks => <<[id |-> current', submission |-> FALSE]>> \in Seq(Requests))
  BY ScrobbleType, ShortSequences DEF PlayerType
<1>a. \A x \in EventNames : <<x>> \in Seq(EventNames)
  BY ShortSequences
<1>b. \A x, y \in EventNames : <<x, y>> \in Seq(EventNames)
  BY ShortSequences
<1>c. \A x, y, z \in EventNames : <<x, y, z>> \in Seq(EventNames)
  BY ShortSequences
<1>d. {"Stopped", "Playing", "Paused", "TrackChanged", "QueueEnded", "PlaybackError", "Seeked",
       "RepeatChanged", "ShuffleChanged"} \subseteq EventNames
  BY DEF EventNames, Statuses
<1>. HIDE DEF Requests
<1>1. \A i : Transition(i) => OutputType'
  BY <1>0 DEF Transition, StartPlaybackAt, OutputType, Requests
<1>2. ASSUME NEW tracks \in Batches, NEW start \in 0..Len(tracks), PlayQueue(tracks, start)
      PROVE  OutputType'
  BY <1>0, <1>1, <1>2, <1>c, <1>d DEF PlayQueue, Silence, OutputType, Requests
<1>3. ASSUME NEW tracks \in Batches, AppendQueue(tracks) \/ PlayNext(tracks)
      PROVE  OutputType'
  BY <1>0, <1>1, <1>3 DEF AppendQueue, PlayNext, AppendAndStart, OutputType, Requests
<1>4. ASSUME NEW i \in 0..(MaxQueue - 1), RemoveFromQueue(i)
      PROVE  OutputType'
  <2>1. CASE RemoveCurrent
    BY <1>0, <1>b, <1>d, <2>1 DEF RemoveCurrent, Silence, StartPlaybackAt, OutputType, Requests
  <2>2. CASE RemoveOther(i)
    BY <1>0, <2>2 DEF RemoveOther, IndexAfterRemove, OutputType, Requests
  <2>. QED  BY <1>4, <2>1, <2>2 DEF RemoveFromQueue
<1>5. CASE \E from, to \in 0..(MaxQueue - 1) : MoveInQueue(from, to)
  BY <1>0, <1>5 DEF MoveInQueue, OutputType, Requests
<1>6. CASE ClearQueue
  BY <1>0, <1>b, <1>d, <1>6 DEF ClearQueue, Silence, OutputType, Requests
<1>7. CASE \/ NextTrack \/ \E i \in 0..(MaxQueue - 1) : PlayAt(i)
  BY <1>1, <1>7 DEF NextTrack, PlayAt, NextInOrder, WrapQueue
<1>8. CASE Previous
  BY <1>0, <1>1, <1>8 DEF Previous, RestartCurrent, OutputType, Requests
<1>9. CASE Resume \/ Pause \/ Stop \/ \E target \in 0..MaxPos : Seek(target)
  BY <1>0, <1>1, <1>9, <1>a, <1>d DEF Resume, Pause, Stop, Seek, OutputType, Requests
<1>10. CASE ModeCommand \/ Shutdown
  BY <1>0, <1>10, <1>a, <1>d
     DEF ModeCommand, SetVolume, RecomputeFactor, CycleRepeat, SetRepeat, ToggleShuffle, SetShuffle, Shutdown,
         OutputType, Requests
<1>11. CASE OpenOutputStream \/ LoadFails
  <2>1. CASE OpenOutputStream
    BY <1>0, <1>a, <1>d, <2>1 DEF OpenOutputStream, OutputType, Requests
  <2>2. CASE LoadFails
    BY <1>0, <1>c, <1>d, <2>2 DEF LoadFails, OutputType, Requests
  <2>. QED  BY <1>11, <2>1, <2>2
<1>12. CASE LoadSucceeds
  <2>1. current' \in Tracks
    BY <1>12, LoadTargetIsQueued DEF LoadSucceeds
  <2>. QED  BY <1>0, <1>12, <1>b, <1>d, <2>1 DEF LoadSucceeds, RecomputeFactor, OutputType, Requests
<1>13. CASE poll_progress
  <2>1. CASE RepeatTrack \/ NextInOrder \/ WrapQueue
    BY <1>1, <2>1 DEF RepeatTrack, NextInOrder, WrapQueue
  <2>2. CASE QueueExhausted
    BY <1>0, <1>b, <1>d, <2>2 DEF QueueExhausted, OutputType, Requests
  <2>3. CASE RefreshSpectrum
    BY <1>0, <2>3 DEF RefreshSpectrum, OutputType, Requests
  <2>. QED  BY <1>13, <2>1, <2>2, <2>3 DEF poll_progress, NaturalEnd
<1>14. CASE AudioStep
  BY <1>0, <1>14 DEF AudioStep, SinkPlays, SourceEnds, OutputType, Requests
<1>. QED  BY <1>2, <1>3, <1>4, <1>5, <1>6, <1>7, <1>8, <1>9, <1>10, <1>11, <1>12, <1>13, <1>14
          DEF Next, Command, QueueCommand, TransportCommand, EngineStep

(* The rest of the engine's state, in one step per group of actions *)
LEMMA PlayerStep ==
  ASSUME PlayerType, OrderInv, OrderInv', Next
  PROVE  PlayerType'
<1>0. /\ queue \in Seq(Tracks) /\ Len(queue) \in Nat /\ index \in Nat
      /\ queue' \in Seq(Tracks) /\ Len(queue') \in Nat /\ index' \in Nat
  BY LenProperties DEF OrderInv
<1>1. \A i : Transition(i) /\ snap' \in SnapshotType => PlayerType'
  BY PlaybackAssumption DEF Transition, StartPlaybackAt, PlayerType, modes, loudness
<1>2. Silence => PlayerType'
  <2>1. <<>> \in Seq(Tracks) /\ 0 \in Nat /\ 0 \in 0..MaxPos
    BY PlaybackAssumption
  <2>2. EmptiedSnapshot \in SnapshotType
    BY <2>1 DEF EmptiedSnapshot, PlayerType, SnapshotType, Statuses, MaybeTrack
  <2>. QED  BY <2>1, <2>2 DEF Silence, PlayerType, MaybeTrack, modes, loudness
<1>3. [snap EXCEPT !.queue = queue'] \in SnapshotType
      /\ [snap EXCEPT !.queue = queue', !.queue_len = Len(queue')] \in SnapshotType
  BY <1>0 DEF PlayerType, SnapshotType
<1>4. ASSUME NEW tracks \in Batches, NEW start \in 0..Len(tracks), PlayQueue(tracks, start)
      PROVE  PlayerType'
  BY <1>1, <1>2, <1>3, <1>4 DEF PlayQueue
<1>5. ASSUME NEW tracks \in Batches, AppendQueue(tracks) \/ PlayNext(tracks)
      PROVE  PlayerType'
  BY <1>1, <1>3, <1>5
     DEF AppendQueue, PlayNext, AppendAndStart, PlayerType, modes, loudness, player
<1>6. CASE RemoveCurrent
  BY <1>2, <1>6, PlaybackAssumption
     DEF RemoveCurrent, StartPlaybackAt, PlayerType, MaybeTrack, modes, loudness
<1>7. ASSUME NEW i \in 0..(MaxQueue - 1), RemoveOther(i)
      PROVE  PlayerType'
  BY <1>0, <1>7 DEF RemoveOther, IndexAfterRemove, PlayerType, SnapshotType, modes, loudness, player
<1>8. CASE \E from, to \in 0..(MaxQueue - 1) : MoveInQueue(from, to)
  BY <1>0, <1>8 DEF MoveInQueue, PlayerType, SnapshotType, modes, loudness, player
<1>9. CASE \/ NextTrack \/ \E i \in 0..(MaxQueue - 1) : PlayAt(i)
  BY <1>1, <1>9 DEF NextTrack, PlayAt, NextInOrder, WrapQueue, PlayerType
<1>10. CASE Previous
  BY <1>1, <1>10, PlaybackAssumption
     DEF Previous, RestartCurrent, SeekAccepted, SeekRefused, PlayerType, modes, loudness
<1>11. CASE Resume \/ Pause
  BY <1>1, <1>11 DEF Resume, Pause, PlayerType, SnapshotType, Statuses, modes, loudness
<1>12. CASE Stop \/ \E target \in 0..MaxPos : Seek(target)
  <2>1. CASE Stop
    <3>1. [snap EXCEPT !.status = "Stopped", !.spectrum = "zero"] \in SnapshotType
      BY DEF PlayerType, SnapshotType, Statuses
    <3>. QED  BY <2>1, <3>1, PlaybackAssumption DEF Stop, PlayerType, MaybeTrack, modes, loudness
  <2>2. ASSUME NEW target \in 0..MaxPos, Seek(target)
        PROVE  PlayerType'
    BY <2>2 DEF Seek, SeekAccepted, SeekRefused, PlayerType, modes, loudness
  <2>. QED  BY <1>12, <2>1, <2>2
<1>13. CASE \/ \E v \in Volumes : SetVolume(v)
            \/ CycleRepeat \/ \E mode \in Repeats : SetRepeat(mode)
  BY <1>13
     DEF SetVolume, RecomputeFactor, CycleRepeat, SetRepeat, Cycle, Repeats, PlayerType, SnapshotType, modes,
         loudness, player
<1>14. CASE ToggleShuffle \/ \E on \in BOOLEAN : SetShuffle(on)
  BY <1>14
     DEF ToggleShuffle, SetShuffle, Reshuffle, PlayerType, SnapshotType, loudness, player
<1>15. CASE Shutdown \/ OpenOutputStream
  BY <1>15, PlaybackAssumption DEF Shutdown, OpenOutputStream, PlayerType, modes, loudness, player
<1>16. CASE LoadSucceeds
  <2>1. current' \in Tracks
    BY <1>16, LoadTargetIsQueued DEF LoadSucceeds
  <2>. QED  BY <1>0, <1>16, <2>1
            DEF LoadSucceeds, RecomputeFactor, PlayerType, SnapshotType, MaybeTrack, Statuses, modes
<1>17. CASE LoadFails
  BY <1>0, <1>17 DEF LoadFails, PlayerType, SnapshotType, MaybeTrack, Statuses, modes, loudness
<1>18. CASE poll_progress
  <2>1. CASE RefreshSpectrum
    BY <2>1 DEF RefreshSpectrum, PlayerType, SnapshotType, modes, loudness, player
  <2>2. CASE QueueExhausted
    BY <2>2 DEF QueueExhausted, PlayerType, SnapshotType, MaybeTrack, Statuses, modes, loudness
  <2>3. CASE RepeatTrack \/ NextInOrder \/ WrapQueue
    BY <1>1, <2>3 DEF RepeatTrack, NextInOrder, WrapQueue, PlayerType
  <2>. QED  BY <1>18, <2>1, <2>2, <2>3 DEF poll_progress, NaturalEnd
<1>19. CASE AudioStep
  BY <1>19, PlaybackAssumption DEF AudioStep, SinkPlays, SourceEnds, PlayerType, modes, loudness
<1>. QED  BY <1>2, <1>4, <1>5, <1>6, <1>7, <1>8, <1>9, <1>10, <1>11, <1>12, <1>13, <1>14, <1>15,
             <1>16, <1>17, <1>18, <1>19
          DEF Next, Command, QueueCommand, TransportCommand, ModeCommand, EngineStep,
              RemoveFromQueue, ClearQueue

-----------------------------------------------------------------------------
(* The loaded track and the queue entry the engine points at *)

(* A step that begins a load leaves nothing to say about a loaded track *)
LEMMA StartIsSafe ==
  ASSUME NEW i, StartPlaybackAt(i)
  PROVE  CurrentIsQueued' /\ FactorOfCurrent' /\ StoppedIsDark'
BY DEF StartPlaybackAt, CurrentIsQueued, FactorOfCurrent, StoppedIsDark, Settled

LEMMA QueuedStep ==
  ASSUME IInv, OrderInv, OrderInv', Next
  PROVE  CurrentIsQueued'
<1>0. CurrentIsQueued
  BY DEF IInv
<1>1. \A i : Transition(i) => CurrentIsQueued'
  BY StartIsSafe DEF Transition
<1>2. Silence => CurrentIsQueued'
  BY DEF Silence, CurrentIsQueued
<1>3. UNCHANGED <<queue, index, current, sink, phase>> => CurrentIsQueued'
  BY <1>0 DEF CurrentIsQueued, Settled, Ready
<1>4. ASSUME NEW tracks \in Batches, NEW start \in 0..Len(tracks), PlayQueue(tracks, start)
      PROVE  CurrentIsQueued'
  BY <1>1, <1>2, <1>4 DEF PlayQueue
<1>5. ASSUME NEW tracks \in Batches, AppendQueue(tracks)
      PROVE  CurrentIsQueued'
  <2>1. CASE AppendAndStart(tracks)
    BY <1>1, <2>1 DEF AppendAndStart
  <2>2. CASE ~AppendAndStart(tracks)
    <3>1. /\ ExtendQueue(tracks) /\ sink # "none" /\ Ready
          /\ UNCHANGED <<phase, index, current, sink>>
      BY <1>5, <2>2 DEF AppendQueue, player
    <3>2. queue # <<>>
      BY <1>0, <3>1 DEF CurrentIsQueued
    <3>3. index + 1 \in 1..Len(queue)
      BY <3>2, OrderFacts
    <3>4. queue'[index + 1] = queue[index + 1]
      BY <3>1, <3>3, ExtendQueueKeepsOrder
    <3>5. queue' # <<>>
      <4>1. Len(queue') = Len(queue) + Len(tracks) /\ Len(tracks) \in Nat /\ Len(queue) > 0
        BY <3>1, <3>3, ExtendQueueKeepsOrder, BatchIsSeq
      <4>. QED  BY <4>1
    <3>. QED  BY <1>0, <3>1, <3>4, <3>5 DEF CurrentIsQueued, Settled, Ready
  <2>. QED  BY <2>1, <2>2
<1>6. ASSUME NEW tracks \in Batches, PlayNext(tracks)
      PROVE  CurrentIsQueued'
  <2>1. CASE sink = "none"
    BY <1>1, <1>6, <2>1 DEF PlayNext, AppendAndStart
  <2>2. CASE sink # "none"
    <3>1. Ready /\ UNCHANGED <<phase, index, current, sink>>
      BY <1>6, <2>2 DEF PlayNext, AppendAndStart, player
    <3>2. queue'[index' + 1] = queue[index + 1]
      BY <1>0, <1>6, <2>2, PlayNextKeepsOrderInv
    <3>3. queue' # <<>>
      <4>1. Len(queue) \in Nat /\ Len(queue) # 0
        BY <1>0, <2>2, OrderFacts DEF CurrentIsQueued
      <4>2. tracks \in Seq(Tracks) /\ queue \in Seq(Tracks) /\ index + 1 \in 0..Len(queue)
        BY <4>1, BatchIsSeq, OrderFacts DEF OrderInv
      <4>3. Len(queue') = Len(queue) + Len(tracks) /\ Len(tracks) \in Nat
        BY <1>6, <2>2, <4>2, SpliceProperties, BatchIsSeq DEF PlayNext, AppendAndStart
      <4>. QED  BY <4>1, <4>3
    <3>. QED  BY <1>0, <3>1, <3>2, <3>3 DEF CurrentIsQueued, Settled, Ready
  <2>. QED  BY <2>1, <2>2
<1>7. CASE RemoveCurrent
  BY <1>2, <1>7, StartIsSafe DEF RemoveCurrent
<1>8. ASSUME NEW i \in 0..(MaxQueue - 1), RemoveFromQueue(i), i # index
      PROVE  CurrentIsQueued'
  <2>1. Ready /\ i \in Nat /\ i < Len(queue) /\ RemoveOther(i)
    BY <1>8 DEF RemoveFromQueue
  <2>2. queue' # <<>> /\ queue'[index' + 1] = queue[index + 1]
    BY <1>8, <2>1, RemoveOtherKeepsOrder
  <2>3. UNCHANGED <<phase, current, sink>>
    BY <2>1 DEF RemoveOther, IndexAfterRemove, player
  <2>. QED  BY <1>0, <2>2, <2>3 DEF CurrentIsQueued, Settled, Ready
<1>9. ASSUME NEW from \in 0..(MaxQueue - 1), NEW to \in 0..(MaxQueue - 1), MoveInQueue(from, to)
      PROVE  CurrentIsQueued'
  <2>1. queue' # <<>> /\ queue'[index' + 1] = queue[index + 1]
    BY <1>9, MoveKeepsOrderInv
  <2>2. UNCHANGED <<phase, current, sink>>
    BY <1>9 DEF MoveInQueue, player
  <2>. QED  BY <1>0, <2>1, <2>2 DEF CurrentIsQueued, Settled, Ready
<1>10. CASE ClearQueue
  BY <1>2, <1>10 DEF ClearQueue
<1>11. CASE \/ NextTrack \/ \E i \in 0..(MaxQueue - 1) : PlayAt(i)
  BY <1>1, <1>11 DEF NextTrack, PlayAt, NextInOrder, WrapQueue
<1>12. CASE Previous
  BY <1>1, <1>3, <1>12 DEF Previous, RestartCurrent, order
<1>13. CASE Resume
  <2>1. CASE current = NoTrack
    BY <1>1, <1>13, <2>1 DEF Resume
  <2>2. CASE current # NoTrack
    BY <1>0, <1>13, <2>2 DEF Resume, order, CurrentIsQueued, Settled, Ready
  <2>. QED  BY <2>1, <2>2
<1>14. CASE Pause \/ Stop \/ \E target \in 0..MaxPos : Seek(target)
  BY <1>0, <1>14 DEF Pause, Stop, Seek, order, CurrentIsQueued, Settled, Ready
<1>15. CASE \/ \E v \in Volumes : SetVolume(v)
            \/ CycleRepeat \/ \E mode \in Repeats : SetRepeat(mode)
  BY <1>3, <1>15 DEF SetVolume, RecomputeFactor, CycleRepeat, SetRepeat, order, player
<1>16. ASSUME NEW on, SetShuffle(on)
       PROVE  CurrentIsQueued'
  BY <1>3, <1>16, SetShuffleKeepsOrder DEF SetShuffle, player
<1>17. CASE Shutdown \/ OpenOutputStream
  BY <1>0, <1>17 DEF Shutdown, OpenOutputStream, order, player, CurrentIsQueued, Settled, Ready
<1>18. CASE LoadSucceeds
  BY <1>18, LoadTargetIsQueued DEF LoadSucceeds, RecomputeFactor, order, CurrentIsQueued, Settled, Ready
<1>19. CASE LoadFails
  BY <1>0, <1>19 DEF LoadFails, CurrentIsQueued, Ready
<1>20. CASE poll_progress
  <2>1. CASE RefreshSpectrum
    BY <1>3, <2>1 DEF RefreshSpectrum, order, player
  <2>2. CASE QueueExhausted /\ sink = "ended"
    BY <1>0, <2>2 DEF QueueExhausted, order, CurrentIsQueued, Settled, Ready
  <2>3. CASE RepeatTrack \/ NextInOrder \/ WrapQueue
    BY <1>1, <2>3 DEF RepeatTrack, NextInOrder, WrapQueue
  <2>. QED  BY <1>20, <2>1, <2>2, <2>3 DEF poll_progress, NaturalEnd
<1>21. CASE AudioStep
  <2>1. CASE SinkPlays
    BY <1>3, <2>1 DEF SinkPlays, order
  <2>2. CASE SourceEnds
    BY <1>0, <2>2 DEF SourceEnds, order, CurrentIsQueued, Settled, Ready
  <2>. QED  BY <1>21, <2>1, <2>2 DEF AudioStep
<1>. QED  BY <1>4, <1>5, <1>6, <1>7, <1>8, <1>9, <1>10, <1>11, <1>12, <1>13, <1>14, <1>15,
             <1>16, <1>17, <1>18, <1>19, <1>20, <1>21
          DEF Next, Command, QueueCommand, TransportCommand, ModeCommand, EngineStep,
              RemoveFromQueue, ToggleShuffle

(* The factor is recomputed by the load and by SetVolume, RecomputeFactor, and by nothing else *)
LEMMA FactorStep ==
  ASSUME IInv, Next
  PROVE  FactorOfCurrent'
<1>0. FactorOfCurrent
  BY DEF IInv
<1>1. /\ phase' = "loading" => FactorOfCurrent'
      /\ current' = NoTrack => FactorOfCurrent'
      /\ UNCHANGED <<phase, current, loudness>> => FactorOfCurrent'
  BY <1>0 DEF FactorOfCurrent, Settled, loudness
<1>2. CASE QueueCommand
  BY <1>1, <1>2
     DEF QueueCommand, PlayQueue, AppendQueue, PlayNext, AppendAndStart, RemoveFromQueue,
         RemoveCurrent, RemoveOther, MoveInQueue, ClearQueue, PlayAt, Silence, Transition,
         StartPlaybackAt, player
<1>3. CASE TransportCommand
  BY <1>1, <1>3
     DEF TransportCommand, NextTrack, NextInOrder, WrapQueue, Previous, RestartCurrent, Pause,
         Resume, Stop, Seek, Transition, StartPlaybackAt
<1>4. CASE ModeCommand
  <2>1. ASSUME NEW v \in Volumes, SetVolume(v)
        PROVE  FactorOfCurrent'
    BY <2>1 DEF SetVolume, RecomputeFactor, FactorOfCurrent, player
  <2>. QED  BY <1>1, <1>4, <2>1
            DEF ModeCommand, CycleRepeat, SetRepeat, ToggleShuffle, SetShuffle, player
<1>5. CASE LoadSucceeds
  BY <1>5 DEF LoadSucceeds, RecomputeFactor, FactorOfCurrent
<1>6. CASE Shutdown \/ OpenOutputStream \/ LoadFails
  BY <1>0, <1>1, <1>6
     DEF Shutdown, OpenOutputStream, LoadFails, FactorOfCurrent, Settled, player, loudness
<1>7. CASE poll_progress \/ AudioStep
  BY <1>1, <1>7
     DEF poll_progress, NaturalEnd, RepeatTrack, NextInOrder, WrapQueue, QueueExhausted,
         RefreshSpectrum, AudioStep, SinkPlays, SourceEnds, Transition, StartPlaybackAt, player
<1>. QED  BY <1>2, <1>3, <1>4, <1>5, <1>6, <1>7 DEF Next, Command, EngineStep

(* The spectrum is emptied by every step that publishes Stopped *)
LEMMA DarkStep ==
  ASSUME IInv, Next
  PROVE  StoppedIsDark'
<1>0. StoppedIsDark /\ snap \in SnapshotType
  BY DEF IInv, TypeOK
<1>1. /\ phase' = "loading" => StoppedIsDark'
      /\ snap'.spectrum = "zero" => StoppedIsDark'
      /\ snap'.status # "Stopped" => StoppedIsDark'
  BY DEF StoppedIsDark, Settled
<1>2. Settled /\ snap'.status = snap.status /\ snap'.spectrum = snap.spectrum => StoppedIsDark'
  BY <1>0 DEF StoppedIsDark
<1>3. CASE QueueCommand
  <2>1. Silence => StoppedIsDark'
    BY <1>0, <1>1 DEF Silence, EmptiedSnapshot, SnapshotType
  <2>2. \A i : StartPlaybackAt(i) => StoppedIsDark'
    BY StartIsSafe
  <2>3. ASSUME NEW tracks \in Batches, AppendQueue(tracks) \/ PlayNext(tracks)
        PROVE  StoppedIsDark'
    BY <1>0, <1>2, <2>2, <2>3
       DEF AppendQueue, PlayNext, AppendAndStart, Transition, SnapshotType, Ready, Settled
  <2>4. ASSUME NEW i, RemoveOther(i), Ready
        PROVE  StoppedIsDark'
    BY <1>0, <1>2, <2>4 DEF RemoveOther, IndexAfterRemove, SnapshotType, Ready, Settled
  <2>5. ASSUME NEW from, NEW to, MoveInQueue(from, to)
        PROVE  StoppedIsDark'
    BY <1>0, <1>2, <2>5 DEF MoveInQueue, SnapshotType, Ready, Settled
  <2>. QED  BY <1>3, <2>1, <2>2, <2>3, <2>4, <2>5
            DEF QueueCommand, PlayQueue, RemoveFromQueue, RemoveCurrent, ClearQueue, PlayAt,
                Transition
<1>4. CASE TransportCommand
  <2>1. \A i : Transition(i) => StoppedIsDark'
    BY StartIsSafe DEF Transition
  <2>. QED  BY <1>0, <1>1, <1>2, <1>4, <2>1
            DEF TransportCommand, NextTrack, NextInOrder, WrapQueue, Previous, RestartCurrent,
                Pause, Resume, Stop, Seek, SnapshotType, Ready, Settled
<1>5. CASE ModeCommand
  BY <1>0, <1>2, <1>5
     DEF ModeCommand, SetVolume, RecomputeFactor, CycleRepeat, SetRepeat, ToggleShuffle, SetShuffle, SnapshotType,
         Ready, Settled
<1>6. CASE Shutdown \/ OpenOutputStream
  BY <1>0, <1>2, <1>6 DEF Shutdown, OpenOutputStream, StoppedIsDark, Settled
<1>7. CASE LoadSucceeds \/ LoadFails
  BY <1>0, <1>1, <1>7 DEF LoadSucceeds, RecomputeFactor, LoadFails, SnapshotType
<1>8. CASE poll_progress
  <2>1. CASE RefreshSpectrum
    BY <1>0, <1>1, <2>1 DEF RefreshSpectrum, SnapshotType
  <2>2. CASE QueueExhausted
    BY <1>0, <1>1, <2>2 DEF QueueExhausted, SnapshotType
  <2>3. CASE RepeatTrack \/ NextInOrder \/ WrapQueue
    BY <2>3, StartIsSafe DEF RepeatTrack, NextInOrder, WrapQueue, Transition
  <2>. QED  BY <1>8, <2>1, <2>2, <2>3 DEF poll_progress, NaturalEnd
<1>9. CASE AudioStep
  BY <1>0, <1>9 DEF AudioStep, SinkPlays, SourceEnds, StoppedIsDark, Settled
<1>. QED  BY <1>3, <1>4, <1>5, <1>6, <1>7, <1>8, <1>9 DEF Next, Command, EngineStep

(* What other threads read *)
LEMMA SnapshotStep ==
  ASSUME IInv, OrderInv, OrderInv', Next
  PROVE  SnapshotAgrees'
<1>0. SnapshotAgrees /\ CurrentIsQueued /\ snap \in SnapshotType
  BY DEF IInv, TypeOK
<1>. DEFINE ModesKept == /\ UNCHANGED <<modes, volume>>
                         /\ snap'.repeat = snap.repeat /\ snap'.shuffle = snap.shuffle
                         /\ snap'.volume = snap.volume
            PlayerKept == /\ UNCHANGED <<phase, current, sink>>
                          /\ snap'.track = snap.track /\ snap'.status = snap.status
<1>1. phase' = "loading" /\ ModesKept => SnapshotAgrees'
  BY <1>0 DEF SnapshotAgrees, Settled, modes
<1>2. \A i : Transition(i) /\ (snap' = snap \/ snap' = [snap EXCEPT !.queue = queue'])
        => SnapshotAgrees'
  BY <1>0, <1>1 DEF Transition, StartPlaybackAt, SnapshotType, loudness
<1>3. Silence => SnapshotAgrees'
  <2>1. Silence => /\ snap' = EmptiedSnapshot /\ UNCHANGED <<modes, loudness>>
                   /\ queue' = <<>> /\ index' = 0 /\ current' = NoTrack /\ sink' = "none"
    BY DEF Silence
  <2>2. Len(<<>>) = 0
    OBVIOUS
  <2>. QED  BY <1>0, <2>1, <2>2
            DEF EmptiedSnapshot, SnapshotAgrees, SnapshotType, modes, loudness
<1>4. /\ ModesKept /\ PlayerKept /\ snap'.queue_index = index' /\ snap'.queue_len = Len(queue')
      => SnapshotAgrees'
  BY <1>0 DEF SnapshotAgrees, Settled, modes
<1>5. CASE QueueCommand
  <2>1. ASSUME NEW tracks \in Batches, NEW start \in 0..Len(tracks), PlayQueue(tracks, start)
        PROVE  SnapshotAgrees'
    BY <1>2, <1>3, <2>1 DEF PlayQueue
  <2>2. ASSUME NEW tracks \in Batches, AppendQueue(tracks) \/ PlayNext(tracks)
        PROVE  SnapshotAgrees'
    <3>1. CASE AppendAndStart(tracks)
      BY <1>2, <3>1 DEF AppendAndStart
    <3>2. CASE ~AppendAndStart(tracks)
      <4>1. /\ snap' = [snap EXCEPT !.queue = queue', !.queue_len = Len(queue')]
            /\ UNCHANGED <<phase, index, modes, player, loudness>> /\ Ready
        BY <2>2, <3>2 DEF AppendQueue, PlayNext
      <4>2. snap.queue_index = index
        BY <1>0, <4>1 DEF SnapshotAgrees, Settled, Ready
      <4>. QED  BY <1>0, <1>4, <4>1, <4>2 DEF SnapshotType, player, loudness
    <3>. QED  BY <3>1, <3>2
  <2>3. CASE RemoveCurrent
    BY <1>1, <1>3, <2>3 DEF RemoveCurrent, StartPlaybackAt, loudness
  <2>4. ASSUME NEW i, RemoveOther(i)
        PROVE  SnapshotAgrees'
    BY <1>0, <1>4, <2>4 DEF RemoveOther, IndexAfterRemove, SnapshotType, player, loudness
  <2>5. ASSUME NEW from \in 0..(MaxQueue - 1), NEW to \in 0..(MaxQueue - 1), MoveInQueue(from, to)
        PROVE  SnapshotAgrees'
    <3>1. /\ snap' = [snap EXCEPT !.queue = queue', !.queue_index = index']
          /\ UNCHANGED <<phase, modes, player, loudness>> /\ Ready
      BY <2>5 DEF MoveInQueue
    <3>2. Len(queue') = Len(queue)
      BY <2>5, MoveKeepsOrderInv
    <3>3. snap.queue_len = Len(queue)
      BY <1>0, <3>1 DEF SnapshotAgrees, Settled, Ready
    <3>. QED  BY <1>0, <1>4, <3>1, <3>2, <3>3 DEF SnapshotType, player, loudness
  <2>. QED  BY <1>2, <1>3, <1>5, <2>1, <2>2, <2>3, <2>4, <2>5
            DEF QueueCommand, RemoveFromQueue, ClearQueue, PlayAt
<1>6. CASE TransportCommand
  <2>1. CASE NextTrack
    BY <1>2, <2>1 DEF NextTrack, NextInOrder, WrapQueue
  <2>2. CASE Previous
    BY <1>0, <1>2, <2>2 DEF Previous, RestartCurrent, SnapshotAgrees, Settled, order, modes, loudness
  <2>3. CASE Pause
    BY <1>0, <2>3
       DEF Pause, SnapshotAgrees, SnapshotType, CurrentIsQueued, Settled, Ready, order, modes,
           loudness
  <2>4. CASE Resume
    BY <1>0, <1>2, <2>4
       DEF Resume, SnapshotAgrees, SnapshotType, Settled, Ready, order, modes, loudness
  <2>5. CASE Stop
    BY <1>0, <2>5
       DEF Stop, SnapshotAgrees, SnapshotType, Settled, Ready, order, modes, loudness
  <2>6. CASE \E target \in 0..MaxPos : Seek(target)
    BY <1>0, <2>6 DEF Seek, SnapshotAgrees, Settled, order, modes, loudness
  <2>. QED  BY <1>6, <2>1, <2>2, <2>3, <2>4, <2>5, <2>6 DEF TransportCommand
<1>7. CASE ModeCommand
  <2>1. ASSUME NEW v, SetVolume(v)
        PROVE  SnapshotAgrees'
    BY <1>0, <2>1 DEF SetVolume, RecomputeFactor, SnapshotAgrees, SnapshotType, Settled, order, modes, player
  <2>2. ASSUME NEW mode, SetRepeat(mode)
        PROVE  SnapshotAgrees'
    BY <1>0, <2>2 DEF SetRepeat, SnapshotAgrees, SnapshotType, Settled, order, player, loudness
  <2>3. ASSUME NEW on, SetShuffle(on)
        PROVE  SnapshotAgrees'
    <3>1. UNCHANGED <<queue, index>> /\ shuffle' = on
      BY <2>3, SetShuffleKeepsOrder DEF SetShuffle, Reshuffle
    <3>. QED  BY <1>0, <2>3, <3>1
              DEF SetShuffle, SnapshotAgrees, SnapshotType, Settled, player, loudness
  <2>. QED  BY <1>7, <2>1, <2>2, <2>3 DEF ModeCommand, CycleRepeat, ToggleShuffle
<1>8. CASE Shutdown \/ OpenOutputStream
  BY <1>0, <1>8 DEF Shutdown, OpenOutputStream, SnapshotAgrees, Settled, order, modes, player, loudness
<1>9. CASE LoadSucceeds
  <2>1. UNCHANGED <<queue, index, modes, volume>> /\ current' = queue[index + 1]
    BY <1>9 DEF LoadSucceeds, RecomputeFactor, order
  <2>2. current' # NoTrack
    BY <1>9, <2>1, LoadTargetIsQueued DEF LoadSucceeds
  <2>. QED  BY <1>0, <1>9, <2>1, <2>2 DEF LoadSucceeds, RecomputeFactor, SnapshotAgrees, SnapshotType, modes
<1>10. CASE LoadFails
  <2>1. sink = "none"
    BY <1>0, <1>10 DEF LoadFails, CurrentIsQueued, Ready
  <2>. QED  BY <1>0, <1>10, <2>1
            DEF LoadFails, SnapshotAgrees, SnapshotType, order, modes, loudness
<1>11. CASE poll_progress
  <2>1. CASE RefreshSpectrum
    BY <1>0, <2>1
       DEF RefreshSpectrum, SnapshotAgrees, SnapshotType, Settled, order, modes, player, loudness
  <2>2. CASE QueueExhausted /\ sink = "ended"
    BY <1>0, <2>2
       DEF QueueExhausted, SnapshotAgrees, SnapshotType, Settled, order, modes, loudness
  <2>3. CASE RepeatTrack \/ NextInOrder \/ WrapQueue
    BY <1>2, <2>3 DEF RepeatTrack, NextInOrder, WrapQueue
  <2>. QED  BY <1>11, <2>1, <2>2, <2>3 DEF poll_progress, NaturalEnd
<1>12. CASE AudioStep
  BY <1>0, <1>12 DEF AudioStep, SinkPlays, SourceEnds, SnapshotAgrees, Settled, order, modes, loudness
<1>. QED  BY <1>5, <1>6, <1>7, <1>8, <1>9, <1>10, <1>11, <1>12 DEF Next, Command, EngineStep

-----------------------------------------------------------------------------
LEMMA InitIsSafe == Init => IInv
<1>. SUFFICES ASSUME Init PROVE IInv
  OBVIOUS
<1>1. IsPlayOrder(<<>>, 0)
  BY DEF IsPlayOrder
<1>2. OrderInv
  BY <1>1 DEF Init, OrderInv, PlayOrderInSync
<1>3. PlayerType
  <2>1. /\ FullVolume \in Volumes /\ 0 \in 0..MaxPos /\ <<>> \in Seq(Tracks)
        /\ <<FullVolume, NoTrack>> \in Volumes \X MaybeTrack /\ NoTrack \in MaybeTrack
    BY PlaybackAssumption DEF MaybeTrack
  <2>2. snap \in SnapshotType
    BY <2>1 DEF Init, SnapshotType, Statuses, Repeats
  <2>. QED  BY <2>1, <2>2 DEF Init, PlayerType, Repeats
<1>4. OutputType
  BY DEF Init, OutputType
<1>5. CurrentIsQueued /\ FactorOfCurrent /\ StoppedIsDark
  BY DEF Init, CurrentIsQueued, FactorOfCurrent, StoppedIsDark
<1>6. SnapshotAgrees
  BY DEF Init, SnapshotAgrees, Settled
<1>. QED  BY <1>2, <1>3, <1>4, <1>5, <1>6, TypesSplit DEF IInv, OrderInv

LEMMA StepIsSafe == IInv /\ [Next]_vars => IInv'
<1>. SUFFICES ASSUME IInv, [Next]_vars PROVE IInv'
  OBVIOUS
<1>1. OrderInv
  BY DEF IInv, TypeOK, OrderInv
<1>2. CASE Next
  <2>1. OrderInv'
    BY <1>1, <1>2, OrderStep DEF IInv
  <2>2. PlayerType /\ OutputType
    BY <1>1, TypesSplit DEF IInv
  <2>3. PlayerType'
    BY <1>1, <1>2, <2>1, <2>2, PlayerStep
  <2>4. OutputType'
    BY <1>1, <1>2, <2>1, <2>2, <2>3, OutputStep
  <2>5. TypeOK'
    BY <2>1, <2>3, <2>4, TypesSplit, PTL
  <2>6. CurrentIsQueued' /\ SnapshotAgrees' /\ FactorOfCurrent' /\ StoppedIsDark'
    BY <1>1, <1>2, <2>1, QueuedStep, SnapshotStep, FactorStep, DarkStep
  <2>. QED  BY <2>1, <2>5, <2>6 DEF IInv, OrderInv
<1>3. CASE UNCHANGED vars
  BY <1>3
     DEF vars, order, modes, player, loudness, outputs, IInv, TypeOK, PlayOrderInSync,
         CurrentIsQueued, SnapshotAgrees, FactorOfCurrent, StoppedIsDark, Settled, Ready
<1>. QED  BY <1>2, <1>3

(* The six invariants together: for every set of tracks and every bound they *)
(* hold in every reachable state.                                            *)
THEOREM Safety == Spec => []IInv
BY InitIsSafe, StepIsSafe, PTL DEF Spec

(* Every field of the engine and of its snapshot keeps its type, whatever    *)
(* clients send.                                                             *)
THEOREM TypeCorrect == Spec => []TypeOK
<1>1. IInv => TypeOK
  BY DEF IInv
<1>. QED  BY <1>1, Safety, PTL

(* The play order is at all times a permutation of the queue's indices with  *)
(* order_pos at the engine's index: no edit, move, removal, insertion or     *)
(* reshuffle of a queue of any length ever breaks it.                        *)
THEOREM OrderStaysInSync == Spec => []PlayOrderInSync
<1>1. IInv => PlayOrderInSync
  BY DEF IInv
<1>. QED  BY <1>1, Safety, PTL

(* What plays is the queue's entry at the engine's index, always             *)
THEOREM CurrentStaysQueued == Spec => []CurrentIsQueued
<1>1. IInv => CurrentIsQueued
  BY DEF IInv
<1>. QED  BY <1>1, Safety, PTL

(* Whoever locks the snapshot outside a load reads the engine's own state    *)
THEOREM SnapshotIsRight == Spec => []SnapshotAgrees
<1>1. IInv => SnapshotAgrees
  BY DEF IInv
<1>. QED  BY <1>1, Safety, PTL

(* The volume a listener hears is the set volume times the gain of the track *)
(* that plays                                                                *)
THEOREM FactorIsCurrent == Spec => []FactorOfCurrent
<1>1. IInv => FactorOfCurrent
  BY DEF IInv
<1>. QED  BY <1>1, Safety, PTL

(* However playback stopped, the published spectrum is empty                 *)
THEOREM StoppedStaysDark == Spec => []StoppedIsDark
<1>1. IInv => StoppedIsDark
  BY DEF IInv
<1>. QED  BY <1>1, Safety, PTL

-----------------------------------------------------------------------------
(* The steps *)

(* What StatusAnnounced and EveryListenRecordedOnce say of one step *)
Announced ==
  snap'.status # snap.status => \E k \in DOMAIN events' : events'[k] = snap'.status

RecordedOnce ==
  /\ ListenEnds =>
       scrobbles' = IF Qualifies(current, pos)
                    THEN <<[id |-> current, submission |-> TRUE]>> ELSE <<>>
  /\ RecordsAPlay /\ ~ListenEnds =>
       /\ scrobbles' = <<[id |-> current, submission |-> TRUE]>>
       /\ UNCHANGED <<order, modes, current, sink, snap>>

-----------------------------------------------------------------------------
(* A start leaves the status alone: the load that follows announces it *)
LEMMA AnnouncedStep ==
  ASSUME IInv, Next
  PROVE  Announced
<1>0. snap \in SnapshotType
  BY DEF IInv, TypeOK
<1>1. snap'.status = snap.status => Announced
  BY DEF Announced
<1>2. /\ \A x : events' = <<x>> /\ snap'.status = x => Announced
      /\ \A x, y : events' = <<x, y>> /\ (snap'.status = x \/ snap'.status = y) => Announced
      /\ \A x, y, z : events' = <<x, y, z>> /\ snap'.status = z => Announced
  <2>1. \A x : DOMAIN <<x>> = {1} /\ <<x>>[1] = x
    OBVIOUS
  <2>2. \A x, y : DOMAIN <<x, y>> = {1, 2} /\ <<x, y>>[1] = x /\ <<x, y>>[2] = y
    OBVIOUS
  <2>3. \A x, y, z : DOMAIN <<x, y, z>> = {1, 2, 3} /\ <<x, y, z>>[3] = z
    OBVIOUS
  <2>. QED  BY <2>1, <2>2, <2>3 DEF Announced
<1>3. Silence => snap'.status = "Stopped"
  BY <1>0 DEF Silence, EmptiedSnapshot, SnapshotType
<1>4. CASE QueueCommand
  <2>1. ASSUME NEW tracks \in Batches, NEW start, PlayQueue(tracks, start)
        PROVE  Announced
    BY <1>0, <1>1, <1>2, <1>3, <2>1 DEF PlayQueue, SnapshotType
  <2>2. ASSUME NEW tracks \in Batches, AppendQueue(tracks) \/ PlayNext(tracks)
        PROVE  Announced
    BY <1>0, <1>1, <2>2 DEF AppendQueue, PlayNext, AppendAndStart, SnapshotType
  <2>3. ASSUME NEW i, RemoveFromQueue(i)
        PROVE  Announced
    BY <1>0, <1>1, <1>2, <1>3, <2>3
       DEF RemoveFromQueue, RemoveCurrent, RemoveOther, SnapshotType
  <2>4. ASSUME NEW i, PlayAt(i)
        PROVE  Announced
    BY <1>1, <2>4 DEF PlayAt
  <2>5. ASSUME NEW from, NEW to, MoveInQueue(from, to)
        PROVE  Announced
    BY <1>0, <1>1, <2>5 DEF MoveInQueue, SnapshotType
  <2>6. ClearQueue => Announced
    BY <1>2, <1>3 DEF ClearQueue
  <2>. QED  BY <1>4, <2>1, <2>2, <2>3, <2>4, <2>5, <2>6 DEF QueueCommand
<1>5. CASE TransportCommand
  <2>1. CASE NextTrack \/ Previous \/ (\E target \in 0..MaxPos : Seek(target))
    BY <1>1, <2>1 DEF NextTrack, NextInOrder, WrapQueue, Previous, RestartCurrent, Seek
  <2>2. CASE Pause \/ Resume \/ Stop
    BY <1>0, <1>1, <1>2, <2>2 DEF Pause, Resume, Stop, SnapshotType
  <2>. QED  BY <1>5, <2>1, <2>2 DEF TransportCommand
<1>6. CASE ModeCommand
  BY <1>0, <1>1, <1>6
     DEF ModeCommand, SetVolume, CycleRepeat, SetRepeat, ToggleShuffle, SetShuffle, SnapshotType
<1>7. CASE Shutdown \/ OpenOutputStream \/ AudioStep
  BY <1>1, <1>7 DEF Shutdown, OpenOutputStream, AudioStep, SinkPlays, SourceEnds
<1>8. CASE LoadSucceeds \/ LoadFails
  <2>1. CASE LoadSucceeds
    <3>1. snap'.status = "Playing" /\ events' = <<"TrackChanged", "Playing">>
      BY <1>0, <2>1 DEF LoadSucceeds, SnapshotType
    <3>. QED  BY <1>2, <3>1
  <2>2. CASE LoadFails
    <3>1. snap'.status = "Stopped" /\ events' = <<"PlaybackError", "TrackChanged", "Stopped">>
      BY <1>0, <2>2 DEF LoadFails, SnapshotType
    <3>. QED  BY <1>2, <3>1
  <2>. QED  BY <1>8, <2>1, <2>2
<1>9. CASE poll_progress
  <2>1. CASE RefreshSpectrum
    BY <1>0, <1>1, <2>1 DEF RefreshSpectrum, SnapshotType
  <2>2. CASE QueueExhausted
    BY <1>0, <1>2, <2>2 DEF QueueExhausted, SnapshotType
  <2>3. CASE RepeatTrack \/ NextInOrder \/ WrapQueue
    BY <1>1, <2>3 DEF RepeatTrack, NextInOrder, WrapQueue
  <2>. QED  BY <1>9, <2>1, <2>2, <2>3 DEF poll_progress, NaturalEnd
<1>. QED  BY <1>4, <1>5, <1>6, <1>7, <1>8, <1>9 DEF Next, Command, EngineStep

-----------------------------------------------------------------------------
(* The nine ways a listen ends come down to four shapes of a step: one that  *)
(* ends it with the right record, one that records nothing and lets it go    *)
(* on, the restart, and the end of the daemon.                               *)
LEMMA RecordedStep ==
  ASSUME IInv, Next
  PROVE  RecordedOnce
<1>. DEFINE Record == <<[id |-> current, submission |-> TRUE]>>
<1>0. Ready /\ current # NoTrack => sink # "none"
  BY DEF IInv, CurrentIsQueued, Ready, Settled
<1>1. scrobbles' = <<>> => ~RecordsAPlay
  BY DEF RecordsAPlay
<1>2. /\ maybe_scrobble_outgoing = <<>> \/ (maybe_scrobble_outgoing = Record /\ current # NoTrack)
      /\ current # NoTrack =>
           maybe_scrobble_outgoing = IF Qualifies(current, pos) THEN Record ELSE <<>>
  BY DEF maybe_scrobble_outgoing
<1>3. Ready => ScrobbleTakenSink = maybe_scrobble_outgoing
  BY <1>0 DEF ScrobbleTakenSink, maybe_scrobble_outgoing
<1>4. ASSUME Ready, scrobbles' = maybe_scrobble_outgoing, phase' # "exited",
             sink' = "none" \/ current' = NoTrack
      PROVE  RecordedOnce
  <2>1. CASE current = NoTrack
    BY <1>1, <1>2, <1>4, <2>1 DEF RecordedOnce, ListenEnds
  <2>2. CASE current # NoTrack
    BY <1>0, <1>2, <1>4, <2>2 DEF RecordedOnce, ListenEnds
  <2>. QED  BY <2>1, <2>2
<1>5. ASSUME scrobbles' = <<>>, current' = current, sink' # "none" \/ sink' = sink
      PROVE  RecordedOnce
  BY <1>1, <1>5 DEF RecordedOnce, ListenEnds
<1>6. \A i : Ready /\ Transition(i) => RecordedOnce
  BY <1>4 DEF Transition, StartPlaybackAt
<1>7. Ready /\ Silence => RecordedOnce
  BY <1>3, <1>4 DEF Silence, Ready
<1>8. CASE QueueCommand
  <2>1. ASSUME NEW tracks \in Batches, NEW start, PlayQueue(tracks, start)
        PROVE  RecordedOnce
    BY <1>6, <1>7, <2>1 DEF PlayQueue
  <2>2. ASSUME NEW tracks \in Batches, AppendQueue(tracks) \/ PlayNext(tracks)
        PROVE  RecordedOnce
    BY <1>5, <1>6, <2>2 DEF AppendQueue, PlayNext, AppendAndStart, player
  <2>3. ASSUME NEW i, RemoveFromQueue(i)
        PROVE  RecordedOnce
    <3>1. CASE RemoveOther(i)
      BY <1>5, <3>1 DEF RemoveOther, player
    <3>2. CASE RemoveCurrent
      BY <1>3, <1>4, <1>7, <2>3, <3>2 DEF RemoveFromQueue, RemoveCurrent, StartPlaybackAt
    <3>. QED  BY <2>3, <3>1, <3>2 DEF RemoveFromQueue
  <2>4. ASSUME NEW i, PlayAt(i)
        PROVE  RecordedOnce
    BY <1>6, <2>4 DEF PlayAt
  <2>5. ASSUME NEW from, NEW to, MoveInQueue(from, to)
        PROVE  RecordedOnce
    BY <1>5, <2>5 DEF MoveInQueue, player
  <2>6. ClearQueue => RecordedOnce
    BY <1>7 DEF ClearQueue
  <2>. QED  BY <1>8, <2>1, <2>2, <2>3, <2>4, <2>5, <2>6 DEF QueueCommand
<1>9. CASE TransportCommand
  <2>1. ASSUME Ready, RestartCurrent
        PROVE  RecordedOnce
    <3>1. UNCHANGED <<order, modes, current, sink, snap>> /\ scrobbles' = maybe_scrobble_outgoing
      BY <2>1 DEF RestartCurrent
    <3>2. ~ListenEnds
      BY <3>1 DEF ListenEnds
    <3>3. RecordsAPlay => scrobbles' = Record
      BY <1>1, <1>2, <3>1
    <3>. QED  BY <3>1, <3>2, <3>3 DEF RecordedOnce
  <2>2. CASE NextTrack \/ Previous
    BY <1>6, <2>1, <2>2 DEF NextTrack, NextInOrder, WrapQueue, Previous
  <2>3. CASE Pause \/ Resume
    BY <1>5, <1>6, <2>3 DEF Pause, Resume
  <2>4. CASE Stop
    BY <1>3, <1>4, <2>4 DEF Stop, Ready
  <2>5. ASSUME NEW target, Seek(target)
        PROVE  RecordedOnce
    BY <1>5, <2>5 DEF Seek
  <2>. QED  BY <1>9, <2>2, <2>3, <2>4, <2>5 DEF TransportCommand
<1>10. CASE ModeCommand
  BY <1>5, <1>10
     DEF ModeCommand, SetVolume, CycleRepeat, SetRepeat, ToggleShuffle, SetShuffle, player
<1>11. CASE Shutdown
  BY <1>1, <1>11 DEF Shutdown, RecordedOnce, ListenEnds
<1>12. CASE OpenOutputStream \/ AudioStep
  BY <1>5, <1>12 DEF OpenOutputStream, AudioStep, SinkPlays, SourceEnds, player
<1>13. CASE LoadSucceeds \/ LoadFails
  <2>1. sink = "none"
    BY <1>13 DEF IInv, CurrentIsQueued, LoadSucceeds, LoadFails, Ready
  <2>2. ~RecordsAPlay
    BY <1>1, <1>13 DEF LoadSucceeds, LoadFails, RecordsAPlay
  <2>. QED  BY <2>1, <2>2 DEF RecordedOnce, ListenEnds
<1>14. CASE poll_progress
  <2>1. CASE RefreshSpectrum
    BY <1>5, <2>1 DEF RefreshSpectrum, player
  <2>2. CASE QueueExhausted
    BY <1>4, <1>14, <2>2 DEF poll_progress, QueueExhausted, Ready
  <2>3. CASE RepeatTrack \/ NextInOrder \/ WrapQueue
    BY <1>6, <1>14, <2>3 DEF poll_progress, RepeatTrack, NextInOrder, WrapQueue
  <2>. QED  BY <1>14, <2>1, <2>2, <2>3 DEF poll_progress, NaturalEnd
<1>. QED  BY <1>8, <1>9, <1>10, <1>11, <1>12, <1>13, <1>14 DEF Next, Command, EngineStep

-----------------------------------------------------------------------------
(* No step of the engine changes the published status without the event that *)
(* tells the MPRIS bridge of it.                                             *)
THEOREM StatusIsAnnounced == Spec => StatusAnnounced
<1>1. IInv /\ [Next]_vars => [Announced]_vars
  BY AnnouncedStep
<1>. QED  BY <1>1, Safety, PTL DEF Spec, StatusAnnounced, Announced

(* However a listen ends it is recorded exactly once if it qualified, under  *)
(* its own id, and nothing else is ever recorded but by a restart.           *)
THEOREM ListensAreRecorded == Spec => EveryListenRecordedOnce
<1>1. IInv /\ [Next]_vars => [RecordedOnce]_vars
  BY RecordedStep
<1>. QED  BY <1>1, Safety, PTL DEF Spec, EveryListenRecordedOnce, RecordedOnce

=============================================================================
