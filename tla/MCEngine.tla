------------------------------ MODULE MCEngine ------------------------------
(***************************************************************************)
(* The instance that checks the engine's safety and compares it with       *)
(* Playlist.  Each behaviour keeps to one focus: long queues, which need   *)
(* one position, or listening, which needs positions and volumes but no    *)
(* long queue.                                                             *)
(***************************************************************************)
EXTENDS MCPlayback

VARIABLE focus

MCInit == Init /\ focus \in {"queue", "listening"}

MCNext ==
  /\ Next
  /\ UNCHANGED focus
  /\ focus = "queue" => UNCHANGED <<pos, volume>>
  /\ focus = "listening" => Len(queue') <= 2

MCSpec == MCInit /\ [][MCNext]_<<vars, focus>>

FocusWithoutOutputs == <<WithoutOutputs, focus>>
=============================================================================
