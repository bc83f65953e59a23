------------------------------- MODULE Playlist -------------------------------
(***************************************************************************)
(* What the playback engine promises a listener, without indices,          *)
(* permutations, sinks or snapshots: a list of tracks in the order they    *)
(* are going to play, a cursor into it, and the track that is playing, if  *)
(* any, which is the one at the cursor.                                    *)
(*                                                                         *)
(* While a track plays the list may grow, shrink and be reshuffled around  *)
(* it, but only in the ways the first four actions allow, and the music    *)
(* is never interrupted by them.  Any other change passes through silence. *)
(***************************************************************************)
EXTENDS Integers, SequencesExt

CONSTANTS Tracks, NoTrack

VARIABLES list, cursor, playing

vars == <<list, cursor, playing>>

Init == list = <<>> /\ cursor = 0 /\ playing = NoTrack

(* after is before with a batch of tracks put in at position at *)
IsInsertion(before, at, after) ==
  LET n == Len(after) - Len(before)
  IN  /\ n > 0
      /\ SubSeq(after, 1, at) = SubSeq(before, 1, at)
      /\ SubSeq(after, at + n + 1, Len(after)) = SubSeq(before, at + 1, Len(before))

SameTracks(before, after) ==
  /\ Len(before) = Len(after)
  /\ \A t \in Tracks : Cardinality({k \in DOMAIN before : before[k] = t})
                         = Cardinality({k \in DOMAIN after : after[k] = t})

InList(c, l) == l # <<>> /\ c \in 0..(Len(l) - 1)

(* Appended tracks play after everything already in the list *)
AddLast ==
  /\ list # <<>>
  /\ IsInsertion(list, Len(list), list')
  /\ UNCHANGED <<cursor, playing>>

(* "Play next" tracks play right after the present one, before older batches *)
AddNext ==
  /\ list # <<>>
  /\ IsInsertion(list, cursor + 1, list')
  /\ UNCHANGED <<cursor, playing>>

(* Another entry than the present one goes; the rest play as they would have *)
Drop(k) ==
  /\ k # cursor
  /\ list' = RemoveAt(list, k + 1)
  /\ cursor' = IF k < cursor THEN cursor - 1 ELSE cursor
  /\ UNCHANGED playing

(* Toggling shuffle: the same tracks, the cursor still on the present one *)
Reorder ==
  /\ list # <<>>
  /\ SameTracks(list, list')
  /\ InList(cursor', list') /\ list'[cursor' + 1] = list[cursor + 1]
  /\ UNCHANGED playing

(* A track starts: the one at the cursor, after silence *)
Start ==
  /\ playing = NoTrack /\ list # <<>>
  /\ playing' = list[cursor + 1]
  /\ UNCHANGED <<list, cursor>>

(* The music stops where it is *)
Halt == playing' = NoTrack /\ UNCHANGED <<list, cursor>>

(* On to another entry, or the same one once more *)
Select ==
  /\ playing' = NoTrack
  /\ UNCHANGED list
  /\ InList(cursor', list)

(* Another list, or none: a new queue, a new lap, the present entry removed, *)
(* tracks added to silence, the queue cleared                                *)
Replace ==
  /\ playing' = NoTrack
  /\ list' \in Seq(Tracks)
  /\ InList(cursor', list') \/ (list' = <<>> /\ cursor' = 0)

Next ==
  \/ AddLast \/ AddNext \/ Reorder
  \/ \E k \in 0..(Len(list) - 1) : Drop(k)
  \/ Start \/ Halt \/ Select \/ Replace

Spec == Init /\ [][Next]_vars
=============================================================================
