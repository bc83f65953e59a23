------------------------------- MODULE MCLaps -------------------------------
(***************************************************************************)
(* The laps of a queue of three.  What comes round rests on the            *)
(* renumberings of PlayOrder, so the assumptions TLC evaluates here        *)
(* compare these with a second definition each.                            *)
(***************************************************************************)
EXTENDS MCPlayback

(* For the laps of a queue of three, clients that only start a queue, step   *)
(* and jump in it, edit it and set its modes: the steps left out (sound,     *)
(* seeks, pauses, additions) change neither the order nor what follows.  Nor *)
(* does the position: a source just ends.                                    *)
LapCommand ==
  \/ queue = <<>> /\ \E tracks \in Batches : PlayQueue(tracks, 0)
  \/ NextTrack
  \/ \E i \in 0..(MaxQueue - 1) : PlayAt(i) \/ RemoveFromQueue(i) \/ MoveInQueue(0, i)
  \/ \E mode \in Repeats : SetRepeat(mode)
  \/ \E on \in BOOLEAN : SetShuffle(on)

LapSpec ==
  /\ Init /\ [][LapCommand \/ EngineStep \/ SourceEnds]_vars
  /\ EngineFairness

-----------------------------------------------------------------------------
(* play_order_after_remove, written as the code's filter and map *)
FilterAndShift(order_, removed) ==
  LET kept == SelectSeq(order_, LAMBDA i : i # removed)
  IN  [k \in DOMAIN kept |-> IF kept[k] > removed THEN kept[k] - 1 ELSE kept[k]]

(* remap_index_after_move by what a removal and an insertion do to a list *)
MovedTo(i, from, to, len) ==
  LET moved == MoveTrack(IdentityOrder(len), from, to)
  IN  (CHOOSE k \in DOMAIN moved : moved[k] = i) - 1

ASSUME RemoveIsFilterAndShift ==
  \A len \in 1..4 : \A o \in PlayOrders(len), removed \in 0..(len - 1) :
    play_order_after_remove(o, removed) = FilterAndShift(o, removed)

ASSUME RemapFollowsTheMove ==
  \A len \in 1..4 : \A i, from, to \in 0..(len - 1) :
    from # to => remap_index_after_move(i, from, to) = MovedTo(i, from, to, len)

ASSUME EditsKeepTheTraversal ==
  \A len \in 1..4 : \A o \in PlayOrders(len), from, to \in 0..(len - 1) :
    LET q == [k \in 1..len |-> k]
    IN  from # to =>
          Traversal(MoveTrack(q, from, to), play_order_after_move(o, from, to))
            = Traversal(q, o)
=============================================================================
