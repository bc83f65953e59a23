------------------------------ MODULE PlayOrder ------------------------------
(***************************************************************************)
(* The pure index arithmetic behind the playback queue                     *)
(* (daemon/src/playback.rs, the helpers factored out of the engine).       *)
(*                                                                         *)
(* A queue is a sequence of tracks.  As in the code an index into it is    *)
(* 0-based: track i of the queue is queue[i + 1].  A play order is a       *)
(* sequence of such indices, and a position in it is 0-based as well.      *)
(***************************************************************************)
EXTENDS Integers, SequencesExt

(* order lists every index of a queue of the given length exactly once *)
IsPlayOrder(order, len) ==
  /\ order \in [1..len -> 0..(len - 1)]
  /\ \A j, k \in 1..len : order[j] = order[k] => j = k
  /\ \A i \in 0..(len - 1) : \E k \in 1..len : order[k] = i

PlayOrders(len) == {order \in [1..len -> 0..(len - 1)] : IsPlayOrder(order, len)}

IdentityOrder(len) == [k \in 1..len |-> k - 1]

(* `None` for shuffled_play_order's anchor: an index of no queue *)
NoAnchor == -1

(* The orders shuffled_play_order may return: the outcome of rand's shuffle *)
(* is nondeterministic.                                                     *)
shuffled_play_order(len, shuffle, anchor) ==
  IF ~shuffle \/ len = 0
  THEN {IdentityOrder(len)}
  ELSE {order \in PlayOrders(len) : anchor \in 0..(len - 1) => order[1] = anchor}

new_queue_play_order(len, shuffle, start_index) ==
  shuffled_play_order(len, shuffle,
                      IF start_index < len THEN start_index ELSE len - 1)

(* order.iter().position(|&i| i == index).unwrap_or(default): an order lists *)
(* an index at most once, so the first match is the only one.                *)
PositionOr(order, index, default) ==
  IF \E k \in DOMAIN order : order[k] = index
  THEN (CHOOSE k \in DOMAIN order : order[k] = index) - 1
  ELSE default

(* Slip: the entries past the removed one are not shifted down *)
play_order_after_remove_unshifted(order, removed) ==
  RemoveAt(order, PositionOr(order, removed, 0) + 1)

(* The filter drops the one entry equal to removed (at position p); the map *)
(* shifts the entries past it down.                                         *)
play_order_after_remove(order, removed) ==
  LET p == PositionOr(order, removed, Len(order)) + 1
      Kept(k) == order[IF k < p THEN k ELSE k + 1]
  IN  [k \in 1..(Len(order) - 1) |->
         IF Kept(k) > removed THEN Kept(k) - 1 ELSE Kept(k)]

(* Slip: the entry at the destination itself stays where it is *)
remap_index_after_move_exclusive(i, from, to) ==
  CASE i = from                              -> to
    [] i # from /\ i \in from + 1 .. to - 1    -> i - 1
    [] i # from /\ i \in to + 1 .. from - 1    -> i + 1
    [] OTHER                                  -> i

remap_index_after_move(i, from, to) ==
  CASE i = from                          -> to
    [] i # from /\ i \in from + 1 .. to    -> i - 1
    [] i # from /\ i \in to .. from - 1    -> i + 1
    [] OTHER                              -> i

play_order_after_move(order, from, to) ==
  [k \in DOMAIN order |-> remap_index_after_move(order[k], from, to)]

play_order_after_insert(order, insert_at, count) ==
  [k \in DOMAIN order |-> IF order[k] >= insert_at THEN order[k] + count ELSE order[k]]

(* The count indices from start on: the range start..start + count *)
IndexRange(start, count) == [k \in 1..count |-> start + k - 1]

(* Vec::splice at 0-based position at: seq with inserted put in before it *)
Splice(seq, at, inserted) ==
  SubSeq(seq, 1, at) \o inserted \o SubSeq(seq, at + 1, Len(seq))

(* Slip: the batch joins the end of the order instead of the present place *)
play_next_insertion_at_end(order, order_pos, current_index, count) ==
  play_order_after_insert(order, current_index + 1, count) \o IndexRange(current_index + 1, count)

(* The new order; the batch goes into the queue at current_index + 1 *)
play_next_insertion(order, order_pos, current_index, count) ==
  Splice(play_order_after_insert(order, current_index + 1, count),
         order_pos + 1,
         IndexRange(current_index + 1, count))

(* Vec::remove(from) then Vec::insert(to, track) on the queue itself *)
MoveTrack(queue, from, to) ==
  InsertAt(RemoveAt(queue, from + 1), to + 1, queue[from + 1])

(* The tracks in the order in which Next steps through them *)
Traversal(queue, order) == [k \in DOMAIN order |-> queue[order[k] + 1]]
=============================================================================
