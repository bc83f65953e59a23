------------------------------- MODULE Playback -------------------------------
(***************************************************************************)
(* The playback engine (daemon/src/playback.rs): one thread that takes     *)
(* commands from a channel, owns the queue and the audio sink, and         *)
(* publishes a Snapshot under a mutex plus a stream of Events.             *)
(*                                                                         *)
(* One action per command, one for the poll that a 250 ms timeout of the   *)
(* channel triggers, and the audio thread's own steps.  Loading a track    *)
(* blocks on HTTP with no lock held, so every other thread can read the    *)
(* snapshot in the middle of it: start_playback_at is two steps,           *)
(* StartPlaybackAt up to the load and LoadSucceeds or LoadFails after it,  *)
(* and the engine takes no command between them.                           *)
(*                                                                         *)
(* A position is a small number of ticks.  A track stands for a TrackMeta  *)
(* with a song id, credentials being present; a duration of 0 stands for   *)
(* a track that never qualifies for a scrobble.                            *)
(***************************************************************************)
EXTENDS PlayOrder

CONSTANTS
  Tracks,            (* the tracks clients may queue                          *)
  NoTrack,           (* None, for an Option<TrackMeta>                        *)
  Duration,          (* the duration a track's metadata claims, 0 if unknown  *)
  ScrobbleCap,       (* the 4 minutes a scrobble never asks more than         *)
  RestartThreshold,  (* RESTART_THRESHOLD                                     *)
  MaxPos,            (* bound: ticks a sink plays                             *)
  MaxQueue,          (* bound: tracks in a queue                              *)
  Volumes,           (* the volumes a client may set                          *)
  FullVolume         (* 1.0                                                   *)

ASSUME PlaybackAssumption ==
  /\ NoTrack \notin Tracks
  /\ Duration \in [Tracks -> Nat]
  /\ ScrobbleCap \in Nat /\ RestartThreshold \in Nat
  /\ MaxPos \in Nat /\ MaxQueue \in Nat
  /\ FullVolume \in Volumes

VARIABLES
  phase,          (* where the engine thread is: opening, ready, loading, exited *)
  queue, index, play_order, order_pos,
  repeat, shuffle,
  current,        (* the track loaded into the sink, if any                   *)
  sink,           (* none, or a source that is playing, paused or ended       *)
  pos,            (* Sink::get_pos, 0 with no sink                            *)
  volume,
  volume_factor,  (* the volume and the track whose gain are multiplied       *)
  snap,           (* the Snapshot other threads read                          *)
  events,         (* the Events sent by the last step                         *)
  scrobbles       (* the scrobble requests spawned by the last step           *)

order    == <<queue, index, play_order, order_pos>>
modes    == <<repeat, shuffle>>
player   == <<current, sink, pos>>
loudness == <<volume, volume_factor>>
outputs  == <<events, scrobbles>>
vars     == <<phase, order, modes, player, loudness, snap, outputs>>

Statuses == {"Stopped", "Playing", "Paused"}
Repeats  == {"off", "track", "queue"}

(* StatusChanged carries the new status and is written as that status *)
EventNames == Statuses \cup {"TrackChanged", "QueueEnded", "PlaybackError", "Seeked",
                             "RepeatChanged", "ShuffleChanged"}

(* Every queue a client may send, up to the bound *)
Batches == UNION {[1..n -> Tracks] : n \in 0..MaxQueue}

MinOf(a, b) == IF a < b THEN a ELSE b

-----------------------------------------------------------------------------
(* Scrobbling *)

scrobble_threshold(duration) == MinOf(duration \div 2, ScrobbleCap)

Qualifies(track, position) ==
  Duration[track] > 0 /\ position >= scrobble_threshold(Duration[track])

(* The requests maybe_scrobble_outgoing spawns: a recorded play or none *)
maybe_scrobble_outgoing ==
  IF current # NoTrack /\ Qualifies(current, pos)
  THEN <<[id |-> current, submission |-> TRUE]>>
  ELSE <<>>

(* if let Some(sink) = state.sink.take() { maybe_scrobble_outgoing(..) } *)
ScrobbleTakenSink == IF sink = "none" THEN <<>> ELSE maybe_scrobble_outgoing

-----------------------------------------------------------------------------
Init ==
  /\ phase = "opening"
  /\ queue = <<>> /\ index = 0 /\ play_order = <<>> /\ order_pos = 0
  /\ repeat = "off" /\ shuffle = FALSE
  /\ current = NoTrack /\ sink = "none" /\ pos = 0
  /\ volume = FullVolume /\ volume_factor = <<FullVolume, NoTrack>>
  /\ snap = [status |-> "Stopped", track |-> NoTrack, volume |-> FullVolume,
             queue_index |-> 0, queue_len |-> 0, queue |-> <<>>,
             spectrum |-> "zero", repeat |-> "off", shuffle |-> FALSE]
  /\ events = <<>> /\ scrobbles = <<>>

(* run_engine's first act; with no output device the thread is gone for good *)
OpenOutputStream ==
  /\ phase = "opening"
  /\ \/ phase' = "ready"  /\ events' = <<>>
     \/ phase' = "exited" /\ events' = <<"PlaybackError">>
  /\ scrobbles' = <<>>
  /\ UNCHANGED <<order, modes, player, loudness, snap>>

Ready == phase = "ready"

(* The engine is not in the middle of a load, and its thread has not returned *)
Settled == phase \in {"opening", "ready"}

(* start_playback_at up to the load.  The caller determines queue',        *)
(* play_order', snap', current' and scrobbles'.  Its early return for an    *)
(* index outside the queue is never taken, which PlayOrderInSync shows.     *)
StartPlaybackAt(i) ==
  /\ phase' = "loading"
  /\ index' = i
  /\ order_pos' = PositionOr(play_order', i, i)
  /\ sink' = "none" /\ pos' = 0
  /\ events' = <<>>
  /\ UNCHANGED <<modes, loudness>>

(* A transition from one track to another: what was playing may be scrobbled *)
Transition(i) ==
  /\ StartPlaybackAt(i)
  /\ scrobbles' = maybe_scrobble_outgoing
  /\ UNCHANGED current

(* Slip: the factor of the track or the volume before stays in force *)
RecomputeFactor_late(track) == UNCHANGED volume_factor

(* volume_factor.store(volume * replay_gain_scale(track)) *)
RecomputeFactor(track) == volume_factor' = <<volume', track>>

LoadSucceeds ==
  /\ phase = "loading"
  /\ phase' = "ready"
  /\ current' = queue[index + 1]
  /\ sink' = "playing"
  /\ snap' = [snap EXCEPT !.status = "Playing", !.track = current',
                          !.queue_index = index, !.queue_len = Len(queue)]
  /\ events' = <<"TrackChanged", "Playing">>
  /\ scrobbles' = <<[id |-> current', submission |-> FALSE]>>
  /\ UNCHANGED <<order, modes, pos, volume>>
  /\ RecomputeFactor(current')

LoadFails ==
  /\ phase = "loading"
  /\ phase' = "ready"
  /\ current' = NoTrack
  /\ snap' = [snap EXCEPT !.status = "Stopped", !.track = NoTrack,
                          !.queue_index = index, !.queue_len = Len(queue),
                          !.spectrum = "zero"]
  /\ events' = <<"PlaybackError", "TrackChanged", "Stopped">>
  /\ scrobbles' = <<>>
  /\ UNCHANGED <<order, modes, sink, pos, loudness>>

-----------------------------------------------------------------------------
(* Commands that replace or edit the queue *)

(* Slip: the length of the queue that was dropped goes on being published *)
EmptiedSnapshot_old_length == [snap EXCEPT !.status = "Stopped", !.track = NoTrack,
                                           !.queue_index = 0, !.queue = <<>>,
                                           !.spectrum = "zero"]

EmptiedSnapshot == [snap EXCEPT !.status = "Stopped", !.track = NoTrack,
                                !.queue_index = 0, !.queue_len = 0,
                                !.queue = <<>>, !.spectrum = "zero"]

(* Nothing is loaded and nothing is queued any more *)
Silence ==
  /\ queue' = <<>> /\ play_order' = <<>> /\ index' = 0 /\ order_pos' = 0
  /\ current' = NoTrack /\ sink' = "none" /\ pos' = 0
  /\ snap' = EmptiedSnapshot
  /\ scrobbles' = ScrobbleTakenSink
  /\ UNCHANGED <<phase, modes, loudness>>

PlayQueue(tracks, start_index) ==
  /\ Ready
  /\ \/ /\ tracks = <<>>
        /\ Silence
        /\ events' = <<"TrackChanged", "QueueEnded", "Stopped">>
     \/ /\ tracks # <<>>
        /\ queue' = tracks
        /\ snap' = [snap EXCEPT !.queue = tracks]
        /\ LET start == MinOf(start_index, Len(tracks) - 1)
           IN  /\ play_order' \in new_queue_play_order(Len(tracks), shuffle, start)
               /\ Transition(start)

(* The queue and order of AppendQueue, and of PlayNext with nothing loaded *)
ExtendQueue(tracks) ==
  /\ queue' = queue \o tracks
  /\ play_order' = play_order \o IndexRange(Len(queue), Len(tracks))

AppendAndStart(tracks) ==
  /\ sink = "none"
  /\ ExtendQueue(tracks)
  /\ snap' = [snap EXCEPT !.queue = queue']
  /\ Transition(Len(queue))

AppendQueue(tracks) ==
  /\ Ready
  /\ tracks # <<>>
  /\ Len(queue) + Len(tracks) <= MaxQueue
  /\ \/ AppendAndStart(tracks)
     \/ /\ sink # "none"
        /\ ExtendQueue(tracks)
        /\ snap' = [snap EXCEPT !.queue = queue', !.queue_len = Len(queue')]
        /\ events' = <<>> /\ scrobbles' = <<>>
        /\ UNCHANGED <<phase, index, order_pos, modes, player, loudness>>

PlayNext(tracks) ==
  /\ Ready
  /\ tracks # <<>>
  /\ Len(queue) + Len(tracks) <= MaxQueue
  /\ \/ AppendAndStart(tracks)
     \/ /\ sink # "none"
        /\ queue' = Splice(queue, index + 1, tracks)
        /\ play_order' = play_next_insertion(play_order, order_pos, index, Len(tracks))
        /\ snap' = [snap EXCEPT !.queue = queue', !.queue_len = Len(queue')]
        /\ events' = <<>> /\ scrobbles' = <<>>
        /\ UNCHANGED <<phase, index, order_pos, modes, player, loudness>>

(* The removed entry is the one the engine is at, whether it plays or not *)
RemoveCurrent ==
  \/ /\ Len(queue) = 1
     /\ Silence
     /\ events' = <<"Stopped", "QueueEnded">>
  \/ /\ Len(queue) > 1
     /\ queue' = RemoveAt(queue, index + 1)
     /\ play_order' = play_order_after_remove(play_order, index)
     /\ StartPlaybackAt(MinOf(index, Len(queue) - 2))
     /\ current' = NoTrack
     /\ scrobbles' = ScrobbleTakenSink
     /\ UNCHANGED snap

(* Slip: index goes down whichever side of it the entry was removed from *)
IndexAfterRemove_always_down(remove_index) == index - 1

IndexAfterRemove(remove_index) == IF remove_index < index THEN index - 1 ELSE index

RemoveOther(remove_index) ==
  /\ queue' = RemoveAt(queue, remove_index + 1)
  /\ play_order' = play_order_after_remove(play_order, remove_index)
  /\ index' = IndexAfterRemove(remove_index)
  /\ order_pos' = PositionOr(play_order', index', 0)
  /\ snap' = [snap EXCEPT !.queue = queue', !.queue_len = Len(queue'),
                          !.queue_index = index']
  /\ events' = <<>> /\ scrobbles' = <<>>
  /\ UNCHANGED <<phase, modes, player, loudness>>

RemoveFromQueue(remove_index) ==
  /\ Ready
  /\ remove_index < Len(queue)
  /\ \/ remove_index = index /\ RemoveCurrent
     \/ remove_index # index /\ RemoveOther(remove_index)

MoveInQueue(from, to) ==
  /\ Ready
  /\ from < Len(queue) /\ to < Len(queue) /\ from # to
  /\ queue' = MoveTrack(queue, from, to)
  /\ play_order' = play_order_after_move(play_order, from, to)
  /\ index' = remap_index_after_move(index, from, to)
  /\ order_pos' = PositionOr(play_order', index', 0)
  /\ snap' = [snap EXCEPT !.queue = queue', !.queue_index = index']
  /\ events' = <<>> /\ scrobbles' = <<>>
  /\ UNCHANGED <<phase, modes, player, loudness>>

ClearQueue ==
  /\ Ready
  /\ Silence
  /\ events' = <<"Stopped", "QueueEnded">>

-----------------------------------------------------------------------------
(* Commands that move within the queue *)

PlayAt(i) ==
  /\ Ready
  /\ i < Len(queue)
  /\ UNCHANGED <<queue, play_order, snap>>
  /\ Transition(i)

(* Slip: off by one, the last entry of the order is never reached *)
HasNextInOrder_short == order_pos + 2 < Len(play_order)

HasNextInOrder == order_pos + 1 < Len(play_order)

NextInOrder ==
  /\ HasNextInOrder
  /\ UNCHANGED <<queue, play_order, snap>>
  /\ Transition(play_order[order_pos + 2])

(* Slip: the queue wraps whatever the repeat mode *)
CanWrap_always == ~HasNextInOrder /\ play_order # <<>>

CanWrap == ~HasNextInOrder /\ repeat = "queue" /\ play_order # <<>>

(* Back to the front of the order, reshuffled first when shuffle is on *)
WrapQueue ==
  /\ CanWrap
  /\ UNCHANGED <<queue, snap>>
  /\ play_order' \in IF shuffle THEN shuffled_play_order(Len(queue), shuffle, NoAnchor)
                                ELSE {play_order}
  /\ Transition(play_order'[1])

(* At the end of the queue with repeat off Next does nothing *)
NextTrack ==
  /\ Ready
  /\ NextInOrder \/ WrapQueue

(* Sink::try_seek: a sink whose source has ended accepts without moving, and *)
(* a stream that cannot seek refuses and stays where it is.                  *)
SeekAccepted(target) == pos' = IF sink = "ended" THEN pos ELSE target
SeekRefused == UNCHANGED pos

(* The outcome of the seek is ignored *)
RestartCurrent ==
  /\ scrobbles' = maybe_scrobble_outgoing
  /\ IF sink = "none" THEN UNCHANGED pos ELSE SeekAccepted(0) \/ SeekRefused
  /\ events' = <<>>
  /\ UNCHANGED <<phase, order, modes, current, sink, loudness, snap>>

Previous ==
  /\ Ready
  /\ \/ /\ pos > RestartThreshold \/ order_pos = 0
        /\ RestartCurrent
     \/ /\ ~(pos > RestartThreshold \/ order_pos = 0)
        /\ UNCHANGED <<queue, play_order, snap>>
        /\ Transition(play_order[order_pos])

(* Slip: pausing publishes Paused and sends no StatusChanged *)
Pause_unannounced ==
  /\ Ready
  /\ sink # "none"
  /\ sink' = IF sink = "playing" THEN "paused" ELSE sink
  /\ snap' = [snap EXCEPT !.status = "Paused"]
  /\ events' = <<>> /\ scrobbles' = <<>>
  /\ UNCHANGED <<phase, order, modes, current, pos, loudness>>

Pause ==
  /\ Ready
  /\ sink # "none"
  /\ sink' = IF sink = "playing" THEN "paused" ELSE sink
  /\ snap' = [snap EXCEPT !.status = "Paused"]
  /\ events' = <<"Paused">> /\ scrobbles' = <<>>
  /\ UNCHANGED <<phase, order, modes, current, pos, loudness>>

Resume ==
  /\ Ready
  /\ \/ /\ current # NoTrack /\ sink # "none"
        /\ sink' = IF sink = "paused" THEN "playing" ELSE sink
        /\ snap' = [snap EXCEPT !.status = "Playing"]
        /\ events' = <<"Playing">> /\ scrobbles' = <<>>
        /\ UNCHANGED <<phase, order, modes, current, pos, loudness>>
     \/ /\ current = NoTrack /\ queue # <<>>
        /\ UNCHANGED <<queue, play_order, snap>>
        /\ Transition(MinOf(index, Len(queue) - 1))

(* Slip: the last bars stay on the screen *)
Stop_lit ==
  /\ Ready
  /\ scrobbles' = ScrobbleTakenSink
  /\ current' = NoTrack /\ sink' = "none" /\ pos' = 0
  /\ snap' = [snap EXCEPT !.status = "Stopped"]
  /\ events' = <<"Stopped">>
  /\ UNCHANGED <<phase, order, modes, loudness>>

Stop ==
  /\ Ready
  /\ scrobbles' = ScrobbleTakenSink
  /\ current' = NoTrack /\ sink' = "none" /\ pos' = 0
  /\ snap' = [snap EXCEPT !.status = "Stopped", !.spectrum = "zero"]
  /\ events' = <<"Stopped">>
  /\ UNCHANGED <<phase, order, modes, loudness>>

Seek(target) ==
  /\ Ready
  /\ sink # "none"
  /\ \/ SeekAccepted(target) /\ events' = <<"Seeked">>
     \/ SeekRefused /\ events' = <<>>
  /\ scrobbles' = <<>>
  /\ UNCHANGED <<phase, order, modes, current, sink, loudness, snap>>

-----------------------------------------------------------------------------
(* Commands that set a mode *)

SetVolume(v) ==
  /\ Ready
  /\ volume' = v
  /\ RecomputeFactor(current)
  /\ snap' = [snap EXCEPT !.volume = v]
  /\ events' = <<>> /\ scrobbles' = <<>>
  /\ UNCHANGED <<phase, order, modes, player>>

Cycle == [off |-> "track", track |-> "queue", queue |-> "off"]

SetRepeat(mode) ==
  /\ Ready
  /\ repeat' = mode
  /\ snap' = [snap EXCEPT !.repeat = mode]
  /\ events' = <<"RepeatChanged">> /\ scrobbles' = <<>>
  /\ UNCHANGED <<phase, order, shuffle, player, loudness>>

CycleRepeat == SetRepeat(Cycle[repeat])

(* Slip: the place in the old order is kept in the new one *)
Reshuffle_stale_place(on) ==
  /\ shuffle' = on
  /\ play_order' \in shuffled_play_order(Len(queue), on, index)
  /\ UNCHANGED <<queue, index, order_pos>>

(* regenerate_play_order with the current index as the anchor *)
Reshuffle(on) ==
  /\ shuffle' = on
  /\ play_order' \in shuffled_play_order(Len(queue), on, index)
  /\ order_pos' = PositionOr(play_order', index, 0)
  /\ UNCHANGED <<queue, index>>

SetShuffle(on) ==
  /\ Ready
  /\ IF on = shuffle THEN UNCHANGED <<order, shuffle>> ELSE Reshuffle(on)
  /\ snap' = [snap EXCEPT !.shuffle = on]
  /\ events' = <<"ShuffleChanged">> /\ scrobbles' = <<>>
  /\ UNCHANGED <<phase, repeat, player, loudness>>

ToggleShuffle == SetShuffle(~shuffle)

(* The listen that was going on is not scrobbled: the thread just returns *)
Shutdown ==
  /\ Ready
  /\ phase' = "exited"
  /\ sink' = "none" /\ pos' = 0
  /\ events' = <<>> /\ scrobbles' = <<>>
  /\ UNCHANGED <<order, modes, current, loudness, snap>>

-----------------------------------------------------------------------------
(* The engine's own steps: the poll after 250 ms without a command *)

(* Slip: the finished track stays current, to be recorded once more *)
QueueExhausted_keeps_current ==
  /\ ~HasNextInOrder /\ ~CanWrap
  /\ scrobbles' = maybe_scrobble_outgoing
  /\ snap' = [snap EXCEPT !.status = "Stopped", !.spectrum = "zero"]
  /\ events' = <<"QueueEnded", "Stopped">>
  /\ UNCHANGED <<phase, order, modes, player, loudness>>

QueueExhausted ==
  /\ ~HasNextInOrder /\ ~CanWrap
  /\ scrobbles' = maybe_scrobble_outgoing
  /\ current' = NoTrack
  /\ snap' = [snap EXCEPT !.status = "Stopped", !.spectrum = "zero"]
  /\ events' = <<"QueueEnded", "Stopped">>
  /\ UNCHANGED <<phase, order, modes, sink, pos, loudness>>

RepeatTrack ==
  /\ UNCHANGED <<queue, play_order, snap>>
  /\ Transition(index)

NaturalEnd ==
  \/ repeat = "track" /\ RepeatTrack
  \/ repeat # "track" /\ (NextInOrder \/ WrapQueue \/ QueueExhausted)

(* The bars may still be all zero: too few samples since the last reset *)
RefreshSpectrum ==
  /\ snap.status = "Playing"
  /\ \E bars \in {"zero", "live"} : snap' = [snap EXCEPT !.spectrum = bars]
  /\ events' = <<>> /\ scrobbles' = <<>>
  /\ UNCHANGED <<phase, order, modes, player, loudness>>

poll_progress ==
  /\ Ready
  /\ sink # "none"
  /\ IF sink = "ended" /\ snap.status = "Playing" THEN NaturalEnd ELSE RefreshSpectrum

(* The audio thread: it plays on, or runs out of samples, possibly early *)
SinkPlays ==
  /\ sink = "playing" /\ pos < MaxPos
  /\ pos' = pos + 1
  /\ events' = <<>> /\ scrobbles' = <<>>
  /\ UNCHANGED <<phase, order, modes, current, sink, loudness, snap>>

SourceEnds ==
  /\ sink = "playing"
  /\ sink' = "ended"
  /\ events' = <<>> /\ scrobbles' = <<>>
  /\ UNCHANGED <<phase, order, modes, current, pos, loudness, snap>>

-----------------------------------------------------------------------------
QueueCommand ==
  \/ \E tracks \in Batches : \E start \in 0..Len(tracks) : PlayQueue(tracks, start)
  \/ \E tracks \in Batches : AppendQueue(tracks) \/ PlayNext(tracks)
  \/ \E i \in 0..(MaxQueue - 1) : RemoveFromQueue(i) \/ PlayAt(i)
  \/ \E from, to \in 0..(MaxQueue - 1) : MoveInQueue(from, to)
  \/ ClearQueue

TransportCommand ==
  \/ NextTrack \/ Previous \/ Pause \/ Resume \/ Stop
  \/ \E target \in 0..MaxPos : Seek(target)

ModeCommand ==
  \/ \E v \in Volumes : SetVolume(v)
  \/ CycleRepeat \/ \E mode \in Repeats : SetRepeat(mode)
  \/ ToggleShuffle \/ \E on \in BOOLEAN : SetShuffle(on)

Command == QueueCommand \/ TransportCommand \/ ModeCommand \/ Shutdown

EngineStep == OpenOutputStream \/ LoadSucceeds \/ LoadFails \/ poll_progress
AudioStep  == SinkPlays \/ SourceEnds

Next == Command \/ EngineStep \/ AudioStep

Spec == Init /\ [][Next]_vars

(* The engine thread and the audio thread keep running; clients owe nothing, *)
(* and a load comes to some end, not necessarily to a good one.              *)
EngineFairness ==
  /\ WF_vars(LoadSucceeds \/ LoadFails)
  /\ WF_vars(poll_progress)
  /\ WF_vars(SourceEnds)

LiveSpec == Spec /\ EngineFairness

-----------------------------------------------------------------------------
(* Types *)

MaybeTrack == Tracks \cup {NoTrack}

SnapshotType ==
  [status : Statuses, track : MaybeTrack, volume : Volumes,
   queue_index : Nat, queue_len : Nat, queue : Seq(Tracks),
   spectrum : {"zero", "live"}, repeat : Repeats, shuffle : BOOLEAN]

(* Every variable of the engine keeps the type its field has in EngineState *)
(* or in Snapshot.                                                         *)
TypeOK ==
  /\ phase \in {"opening", "ready", "loading", "exited"}
  /\ queue \in Seq(Tracks) /\ index \in Nat
  /\ play_order \in Seq(Nat) /\ order_pos \in Nat
  /\ repeat \in Repeats /\ shuffle \in BOOLEAN
  /\ current \in MaybeTrack
  /\ sink \in {"none", "playing", "paused", "ended"}
  /\ pos \in 0..MaxPos
  /\ volume \in Volumes /\ volume_factor \in Volumes \X MaybeTrack
  /\ snap \in SnapshotType
  /\ events \in Seq(EventNames)
  /\ scrobbles \in Seq([id : Tracks, submission : BOOLEAN])

-----------------------------------------------------------------------------
(* Safety *)

(* The invariant the play_order field documents, which Next, Previous and   *)
(* every queue edit rely on: the order lists each index of the queue once,  *)
(* and order_pos is where the engine's index stands in it.  It holds in     *)
(* every state, so no index into queue or play_order is ever out of bounds, *)
(* the target of a load in progress included.                               *)
PlayOrderInSync ==
  /\ IsPlayOrder(play_order, Len(queue))
  /\ queue = <<>> => index = 0 /\ order_pos = 0 /\ phase # "loading"
  /\ queue # <<>> => order_pos < Len(queue) /\ play_order[order_pos + 1] = index

(* Whatever edits, moves, removals and reshuffles happened since a track    *)
(* was loaded, the queue entry the engine points at is still that track:    *)
(* what plays, what is scrobbled and what Next counts from never part.      *)
CurrentIsQueued ==
  /\ Settled /\ current # NoTrack => queue # <<>> /\ queue[index + 1] = current
  /\ Settled /\ current # NoTrack => sink # "none"
  /\ sink # "none" => Ready /\ queue # <<>>
  /\ sink \in {"playing", "paused"} => current # NoTrack

(* Outside a load a reader of the snapshot (MPRIS, a TUI, the idle timer)   *)
(* sees the state the engine is in: the position in the queue, the loaded   *)
(* track, and a status that is Playing only with a track loaded and Paused  *)
(* whenever the sink is; the modes and the volume it always sees.           *)
SnapshotAgrees ==
  /\ snap.repeat = repeat /\ snap.shuffle = shuffle /\ snap.volume = volume
  /\ Settled =>
       /\ snap.queue_index = index /\ snap.queue_len = Len(queue)
       /\ current # NoTrack => snap.track = current /\ snap.status # "Stopped"
       /\ snap.status = "Playing" => current # NoTrack /\ sink # "paused"
       /\ sink = "playing" => snap.status = "Playing"

(* While a track is loaded the factor VolumeControl multiplies its samples  *)
(* with is the present volume times this very track's ReplayGain, never the *)
(* previous track's.                                                        *)
FactorOfCurrent ==
  Settled /\ current # NoTrack => volume_factor = <<volume, current>>

(* The visualizer shows nothing once playback has stopped, by whichever of  *)
(* the six ways it can stop.                                                *)
StoppedIsDark == Settled /\ snap.status = "Stopped" => snap.spectrum = "zero"

-----------------------------------------------------------------------------
(* What a step may never do *)

RecordsAPlay == \E k \in DOMAIN scrobbles' : scrobbles'[k].submission

(* The loaded track stops being the one that plays; a daemon shutdown,      *)
(* which never scrobbles, is left out.                                      *)
ListenEnds ==
  /\ current # NoTrack /\ sink # "none"
  /\ sink' = "none" \/ current' = NoTrack
  /\ phase' # "exited"

(* However a listen ends (skip, jump, stop, clear, removal, a new queue, the *)
(* natural end) it is recorded exactly once if it had reached the threshold  *)
(* and not at all otherwise, always under the id of the track that was       *)
(* playing and not of its successor.  The only other step that records a     *)
(* play is Previous restarting the current track.                            *)
EveryListenRecordedOnce ==
  [][/\ ListenEnds =>
          scrobbles' = IF Qualifies(current, pos)
                       THEN <<[id |-> current, submission |-> TRUE]>> ELSE <<>>
     /\ RecordsAPlay /\ ~ListenEnds =>
          /\ scrobbles' = <<[id |-> current, submission |-> TRUE]>>
          /\ UNCHANGED <<order, modes, current, sink, snap>>]_vars

(* The MPRIS bridge learns of a status only from StatusChanged: a step that  *)
(* changes the published status sends the new one.                           *)
StatusAnnounced ==
  [][snap'.status # snap.status =>
       \E k \in DOMAIN events' : events'[k] = snap'.status]_vars

(* "Inserts tracks to play immediately after the current one ... the most     *)
(* recently requested "play next" always wins the front spot" (the PlayNext   *)
(* command): they are the next entries of the traversal, behind the track     *)
(* that goes on playing, and what was to play next follows them, with         *)
(* shuffle on as well as off and after any number of earlier insertions.      *)
PlayNextComesNext ==
  [][\A tracks \in Batches :
       sink # "none" /\ PlayNext(tracks) =>
         Traversal(queue', play_order') =
           Splice(Traversal(queue, play_order), order_pos + 1, tracks)]_vars

-----------------------------------------------------------------------------
(* Refinement: what a listener is promised (Playlist) *)

Promise == INSTANCE Playlist WITH
  list    <- Traversal(queue, play_order),
  cursor  <- order_pos,
  playing <- IF Ready THEN current ELSE NoTrack

(* The engine implements the playlist a listener sees: the tracks in the    *)
(* order they will play, a cursor, and what is playing.                     *)
ImplementsPlaylist == Promise!Spec

-----------------------------------------------------------------------------
(* Liveness *)

(* From some point on clients send nothing and every load succeeds: each    *)
(* step is the engine's or the audio thread's own.                          *)
Quiet == <>[][LoadSucceeds \/ poll_progress \/ AudioStep]_vars

(* With repeat on the whole queue, every queued track is played again and    *)
(* again, also when each lap is reshuffled: no entry is skipped for ever.    *)
EveryTrackComesRound ==
  \A t \in Tracks :
    Quiet /\ <>[](repeat = "queue" /\ t \in ToSet(queue)) /\ []<>(sink = "playing")
      => []<>(current = t)

(* With repeat off, playback left alone runs out and says so: it never loops *)
(* and never hangs on a source that has ended.  (An engine that was shut     *)
(* down leaves its last status behind in the snapshot.)                      *)
PlaysOut ==
  Quiet /\ <>[](repeat = "off")
    => <>[](phase = "exited" \/ (sink # "playing" /\ snap.status # "Playing"))

-----------------------------------------------------------------------------
(* What the comments say and the code does not do *)

(* "A permutation of 0..queue.len() that Next/Previous actually step        *)
(* through -- the identity order when shuffle is off" (the play_order       *)
(* field): a reordered queue plays in its displayed order.                  *)
IdentityWhenUnshuffled == ~shuffle => play_order = IdentityOrder(Len(queue))

(* "If nothing is currently playing, playback starts at the first appended  *)
(* track instead" (Command::AppendQueue, and PlayNext after it).            *)
AdditionsAreAudible ==
  [][Ready /\ current = NoTrack /\ Len(queue') > Len(queue) => phase' = "loading"]_vars

(* "The full queue, in order -- for a TUI Queue view.  Cloned into the      *)
(* snapshot only when the queue actually changes" (Snapshot::queue).        *)
SnapshotQueueFresh == Ready => snap.queue = queue

(* "Restarting counts as finishing this listen of the track" (the Previous  *)
(* handler): once a play is recorded the track is gone or back at its start, *)
(* so that the same listen cannot be recorded again.                         *)
RecordingFinishesListen ==
  [][RecordsAPlay => current' = NoTrack \/ sink' = "none" \/ pos' = 0]_vars
=============================================================================
