-------------------------------- MODULE Remote --------------------------------
(***************************************************************************)
(* Playback driven from outside (PlaybackHandle of playback.rs, mpris.rs,  *)
(* control.rs, the event bridge of main.rs, the TUI's transport keys).     *)
(*                                                                         *)
(* Nobody calls the engine: MPRIS clients, the control interface and the   *)
(* TUI's keys turn into commands in one channel, which the engine takes    *)
(* one at a time, and the engine's events go through another channel to    *)
(* the bridge, which signals MPRIS clients.  Between a client's reading of *)
(* the snapshot and its command being carried out, anything may happen.    *)
(***************************************************************************)
EXTENDS Playback, Filtering

CONSTANTS
  Uploads,      (* the lists of tracks clients send                            *)
  MaxIndex,     (* bound: the queue indices clients send                       *)
  MaxSends,     (* bound: the commands clients send in a behaviour             *)
  MaxUnread     (* bound: events the bridge has not come to when a step starts *)

ASSUME RemoteAssumption ==
  /\ Uploads \subseteq Batches
  /\ MaxIndex \in Nat /\ MaxSends \in Nat /\ MaxUnread \in Nat

VARIABLES
  pending,      (* the command channel                                         *)
  sends,        (* the commands sent so far                                    *)
  unread,       (* the event channel: what the bridge acts on, it logs the rest *)
  published     (* the MPRIS properties a client knows that listens to signals *)

channels == <<pending, sends, unread, published>>
remoteVars == <<vars, channels>>

RemoteInit ==
  /\ Init
  /\ pending = <<>> /\ sends = 0 /\ unread = <<>>
  /\ published = [status |-> "Stopped", track |-> NoTrack, repeat |-> "off", shuffle |-> FALSE]

-----------------------------------------------------------------------------
(* Commands, and what the engine does with one *)

Plain(op)         == [op |-> op]
With(op, arg)     == [op |-> op, arg |-> arg]

Perform(cmd) ==
  \/ cmd.op = "PlayQueue"       /\ PlayQueue(cmd.arg.tracks, cmd.arg.start_index)
  \/ cmd.op = "PlayAt"          /\ PlayAt(cmd.arg)
  \/ cmd.op = "AppendQueue"     /\ AppendQueue(cmd.arg)
  \/ cmd.op = "PlayNext"        /\ PlayNext(cmd.arg)
  \/ cmd.op = "RemoveFromQueue" /\ RemoveFromQueue(cmd.arg)
  \/ cmd.op = "MoveInQueue"     /\ MoveInQueue(cmd.arg.from, cmd.arg.to)
  \/ cmd.op = "ClearQueue"      /\ ClearQueue
  \/ cmd.op = "Next"            /\ NextTrack
  \/ cmd.op = "Previous"        /\ Previous
  \/ cmd.op = "Pause"           /\ Pause
  \/ cmd.op = "Resume"          /\ Resume
  \/ cmd.op = "Stop"            /\ Stop
  \/ cmd.op = "Seek"            /\ Seek(cmd.arg)
  \/ cmd.op = "SetVolume"       /\ SetVolume(cmd.arg)
  \/ cmd.op = "CycleRepeat"     /\ CycleRepeat
  \/ cmd.op = "SetRepeat"       /\ SetRepeat(cmd.arg)
  \/ cmd.op = "ToggleShuffle"   /\ ToggleShuffle
  \/ cmd.op = "SetShuffle"      /\ SetShuffle(cmd.arg)
  \/ cmd.op = "Shutdown"        /\ Shutdown

(* A command whose guard fails when its turn comes is dropped *)
Ignore(cmd) ==
  /\ ~ENABLED Perform(cmd)
  /\ events' = <<>> /\ scrobbles' = <<>>
  /\ UNCHANGED <<phase, order, modes, player, loudness, snap>>

-----------------------------------------------------------------------------
(* Events, and what the bridge does with one *)

Kinds == Statuses \cup {"TrackChanged", "RepeatChanged", "ShuffleChanged"}

(* A mode's event carries the mode as it was sent; TrackChanged carries none *)
Carried(name) ==
  With(name, CASE name = "RepeatChanged"  -> snap'.repeat
               [] name = "ShuffleChanged" -> snap'.shuffle
               [] OTHER                   -> NoTrack)

Relay ==
  LET bridged == Filtered(events', Kinds)
  IN  unread' = unread \o [k \in DOMAIN bridged |-> Carried(bridged[k])]

(* Slip: a change of shuffle is taken for a change of the loop mode *)
Signalled_mixed_up(properties, event) ==
  CASE event.op \in Statuses -> [properties EXCEPT !.status = event.op]
    [] event.op = "TrackChanged" -> [properties EXCEPT !.track = snap.track]
    [] event.op = "RepeatChanged" -> [properties EXCEPT !.repeat = event.arg]
    [] event.op = "ShuffleChanged" -> properties

(* What a client knows after the signals for one event.  The metadata is    *)
(* that of the snapshot by the time the bridge comes to the event.          *)
Signalled(properties, event) ==
  CASE event.op \in Statuses -> [properties EXCEPT !.status = event.op]
    [] event.op = "TrackChanged" -> [properties EXCEPT !.track = snap.track]
    [] event.op = "RepeatChanged" -> [properties EXCEPT !.repeat = event.arg]
    [] event.op = "ShuffleChanged" -> [properties EXCEPT !.shuffle = event.arg]

bridge_playback_events_to_mpris ==
  /\ unread # <<>>
  /\ published' = Signalled(published, Head(unread))
  /\ unread' = Tail(unread)
  /\ UNCHANGED <<vars, pending, sends>>

-----------------------------------------------------------------------------
(* The methods clients may call, each as the commands it may send *)

to_track_meta == Uploads

ControlMethods ==
  {With("PlayQueue", [tracks |-> tracks, start_index |-> i]) :
     tracks \in to_track_meta, i \in 0..MaxIndex}
    \cup {With(op, i) : op \in {"PlayAt", "RemoveFromQueue"}, i \in 0..MaxIndex}
    \cup {With(op, tracks) : op \in {"AppendQueue", "PlayNext"}, tracks \in to_track_meta}
    \cup {With("MoveInQueue", [from |-> i, to |-> j]) : i, j \in 0..MaxIndex}
    \cup {With("Seek", target) : target \in 0..MaxPos}
    \cup {With("SetVolume", v) : v \in Volumes}
    \cup {Plain(op) : op \in {"ClearQueue", "Next", "Previous", "Pause", "Resume", "Stop",
                              "CycleRepeat", "ToggleShuffle"}}

(* Slip: a paused player is paused once more *)
play_pause_paused == Plain(IF snap.status = "Stopped" THEN "Resume" ELSE "Pause")

play_pause == Plain(IF snap.status = "Playing" THEN "Pause" ELSE "Resume")

(* Seek adds its offset to the position in the snapshot, which is up to one *)
(* poll old or that of the track before: any target may come of it, as from *)
(* SetPosition, which ignores the track it is meant for.                    *)
MprisMethods ==
  {play_pause}
    \cup {Plain(op) : op \in {"Next", "Previous", "Pause", "Stop", "Resume"}}
    \cup {With("Seek", target) : target \in 0..MaxPos}
    \cup {With("SetRepeat", mode) : mode \in Repeats}
    \cup {With("SetShuffle", on) : on \in BOOLEAN}
    \cup {With("SetVolume", v) : v \in Volumes}

(* The keys compute from the status of the last turn of the TUI's loop: the *)
(* space bar may send either of its commands, the arrows any target and     *)
(* - and + any volume.                                                      *)
TransportKeys ==
  {Plain(op) : op \in {"Pause", "Resume", "Stop", "Next", "Previous",
                       "CycleRepeat", "ToggleShuffle"}}
    \cup {With("Seek", target) : target \in 0..MaxPos}
    \cup {With("SetVolume", v) : v \in Volumes}

Calls == ControlMethods \cup MprisMethods \cup TransportKeys \cup {Plain("Shutdown")}

(* PlaybackHandle::send: with the engine gone the command goes nowhere *)
Send(cmd) ==
  /\ sends < MaxSends
  /\ sends' = sends + 1
  /\ pending' = IF phase = "exited" THEN pending ELSE Append(pending, cmd)
  /\ UNCHANGED <<vars, unread, published>>

-----------------------------------------------------------------------------
(* The engine's loop *)

(* Slip: a command that cannot be carried out yet stays at the head *)
Rest_held_back == IF phase' = "exited" THEN <<>>
                  ELSE IF ENABLED Perform(Head(pending)) THEN Tail(pending) ELSE pending

(* Slip: commands wait for an engine that is gone *)
Rest_kept == Tail(pending)

(* The channel goes with the engine thread *)
Rest == IF phase' = "exited" THEN <<>> ELSE Tail(pending)

TakeCommand ==
  /\ Ready
  /\ pending # <<>>
  /\ Len(unread) <= MaxUnread
  /\ Perform(Head(pending)) \/ Ignore(Head(pending))
  /\ pending' = Rest
  /\ Relay
  /\ UNCHANGED <<sends, published>>

(* recv_timeout times out only while no command is waiting *)
Poll ==
  /\ pending = <<>>
  /\ Len(unread) <= MaxUnread
  /\ poll_progress
  /\ Relay
  /\ UNCHANGED <<pending, sends, published>>

Load ==
  /\ Len(unread) <= MaxUnread
  /\ LoadSucceeds \/ LoadFails
  /\ Relay
  /\ UNCHANGED <<pending, sends, published>>

Opening ==
  /\ OpenOutputStream
  /\ pending' = IF phase' = "exited" THEN <<>> ELSE pending
  /\ Relay
  /\ UNCHANGED <<sends, published>>

Audio == AudioStep /\ UNCHANGED channels

Client == \E cmd \in Calls : Send(cmd)

Daemon == TakeCommand \/ Poll \/ Load \/ Opening \/ Audio \/ bridge_playback_events_to_mpris

RemoteNext == Client \/ Daemon

(* Both loops go on, and a load comes to some end *)
RemoteFairness ==
  /\ WF_remoteVars(Opening) /\ WF_remoteVars(TakeCommand) /\ WF_remoteVars(Load)
  /\ WF_remoteVars(bridge_playback_events_to_mpris)

RemoteSpec == RemoteInit /\ [][RemoteNext]_remoteVars /\ RemoteFairness

-----------------------------------------------------------------------------
(* Properties *)

(* What an event may be by the time the bridge comes to it *)
BridgeEvents ==
  {With(name, NoTrack) : name \in Statuses \cup {"TrackChanged"}}
    \cup {With("RepeatChanged", mode) : mode \in Repeats}
    \cup {With("ShuffleChanged", on) : on \in BOOLEAN}

(* The channels carry commands and events the other side knows, and nothing *)
(* waits for an engine that is gone.                                        *)
RemoteTypeOK ==
  /\ sends \in 0..MaxSends
  /\ pending \in Seq(Calls) /\ Len(pending) <= sends
  /\ phase = "exited" => pending = <<>>
  /\ unread \in Seq(BridgeEvents) /\ Len(unread) <= MaxUnread + 2
  /\ published \in [status : Statuses, track : MaybeTrack, repeat : Repeats, shuffle : BOOLEAN]

(* Where the bridge comes to the last word of these names *)
LastOf(names) ==
  {k \in DOMAIN unread : /\ unread[k].op \in names
                         /\ \A later \in k + 1..Len(unread) : unread[later].op \notin names}

(* Once the bridge has come to every event sent so far, an MPRIS client that *)
(* only listens to signals knows the status, the modes and the track the     *)
(* snapshot holds, whatever it missed while the bridge lagged behind.  (The  *)
(* bridge of main.rs; that a queue cleared or emptied leaves the last        *)
(* track's metadata standing is left out.)  The event of a track that is     *)
(* still to come signals whatever track the snapshot has by then.            *)
BridgeConverges ==
  /\ \A k \in LastOf(Statuses) : unread[k].op = snap.status
  /\ LastOf(Statuses) = {} => published.status = snap.status
  /\ \A k \in LastOf({"RepeatChanged"}) : unread[k].arg = snap.repeat
  /\ LastOf({"RepeatChanged"}) = {} => published.repeat = snap.repeat
  /\ \A k \in LastOf({"ShuffleChanged"}) : unread[k].arg = snap.shuffle
  /\ LastOf({"ShuffleChanged"}) = {} => published.shuffle = snap.shuffle
  /\ LastOf({"TrackChanged"}) = {} /\ snap.track # NoTrack => published.track = snap.track

(* PlayPause with nothing else under way does what the listener expects: a   *)
(* player that sounds is paused and one that is paused sounds again.         *)
PlayPauseTurns ==
  [][Ready /\ pending = <<>> /\ current # NoTrack /\ Send(play_pause) =>
       \/ sink = "playing" /\ pending' = <<Plain("Pause")>>
       \/ sink = "paused" /\ pending' = <<Plain("Resume")>>
       \/ sink = "ended"]_remoteVars

(* Every command is taken in the end, however many of them came to nothing  *)
(* and however many loads failed before, unless the engine is gone.         *)
EveryCommandTaken == <>[](phase = "exited" \/ pending = <<>>)
=============================================================================
