----------------------------- MODULE MCPlayback -----------------------------
(* Small instances of Playback for TLC. *)
EXTENDS Playback

CONSTANTS a, b, c

(* a is recorded once half of it has played, b after the 4 minutes at most *)
TwoDurations == [t \in {a, b} |-> IF t = a THEN 2 ELSE 8]

(* Durations nobody knows: nothing is ever recorded *)
NoDurations == [t \in Tracks |-> 0]

(* States that differ only in what the last step sent out are one: no action *)
(* reads events or scrobbles, and the properties about them are about steps. *)
WithoutOutputs == <<phase, order, modes, player, loudness, snap>>
=============================================================================
