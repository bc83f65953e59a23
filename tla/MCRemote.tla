------------------------------ MODULE MCRemote ------------------------------
(***************************************************************************)
(* A small instance of Remote for TLC.  A behaviour begins with a queue of *)
(* two tracks; from then on its clients keep to one kind of command, its   *)
(* focus: the queue, the transport or the modes.                           *)
(***************************************************************************)
EXTENDS Remote

CONSTANTS a, b

VARIABLE focus

MCVars == <<remoteVars, focus>>

NoDurations == [t \in Tracks |-> 0]

ThreeUploads == {<<>>, <<b>>, <<a, b>>}

Focused ==
  CASE focus = "queue" -> {"PlayQueue", "PlayAt", "AppendQueue", "PlayNext", "RemoveFromQueue",
                           "MoveInQueue", "ClearQueue", "Shutdown"}
    [] focus = "transport" -> {"Next", "Previous", "Pause", "Resume", "Stop", "Seek", "ClearQueue"}
    [] focus = "modes" -> {"SetVolume", "CycleRepeat", "SetRepeat", "ToggleShuffle",
                           "SetShuffle", "Next", "Pause"}

(* No more tracks are added than the bound on the queue has room for *)
Chosen(cmd) ==
  /\ cmd.op \in Focused
  /\ cmd.op \in {"AppendQueue", "PlayNext"} => Len(cmd.arg) < 2

MCInit == RemoteInit /\ focus \in {"queue", "transport", "modes"}

FirstQueue == With("PlayQueue", [tracks |-> <<a, b>>, start_index |-> 0])

MCClient ==
  \/ sends = 0 /\ Send(FirstQueue)
  \/ sends > 0 /\ \E cmd \in Calls : Chosen(cmd) /\ Send(cmd)

MCNext == (MCClient \/ Daemon) /\ UNCHANGED focus

MCSpec == MCInit /\ [][MCNext]_MCVars /\ RemoteFairness

(* No action reads the outputs of the last step, nor the bars *)
WithoutOutputs ==
  <<phase, order, modes, player, loudness, [snap EXCEPT !.spectrum = "zero"], channels, focus>>
=============================================================================
