# Verification of maraetai-tui

`maraetai-tui` is a terminal music client in two processes: `maraetaid`, a
daemon that owns the audio output, the queue and two D-Bus interfaces, and
`maraetai`, the terminal client. This directory holds TLA+ modules translated
from its Rust source, TLC configurations that check them on small instances,
and theorems proved with TLAPS for every value of the constants.

Source references are to `src/`; `playback.rs` is `src/daemon/src/playback.rs`.

## 1. The system

| component | state it keeps | operations | interacts with | what is hard |
|---|---|---|---|---|
| playback engine, `daemon/src/playback.rs` | `EngineState` (queue, index, play order, modes, sink, loaded track), the `Snapshot` under a mutex | 17 commands, a poll every 250 ms, loading a track | commands by channel, snapshot by mutex, `Event`s by channel, the audio thread by rodio's `Sink` | long sequences of edits, a load that blocks for seconds with the snapshot readable, sources that end between polls, a seek that is refused |
| play order arithmetic, same file, 810-913 | none | shuffle, remove, move, insert, play next | called by the engine | renumbering; boundaries |
| MPRIS interface and bridge, `daemon/src/mpris.rs`, `daemon/src/main.rs` | none of its own | transport methods, properties, the loop that turns `Event`s into signals | reads the snapshot, sends commands | decides on a snapshot that queued commands will change; an event carries no metadata and the snapshot is read late |
| control interface, `daemon/src/control.rs` | the activity flag (in the handle) | queue methods, `status`, `queue`, `quit` | the same | thin forwarding |
| daemon lifecycle, `daemon/src/lifecycle.rs`, `main.rs` | pidfile and its lock, bus names, the idle counter | start, idle tick, shutdown | reads `is_playing` and the activity flag | commands that arrive between the check and the exit; a second daemon; the order of truncate and lock |
| TUI auto-spawn, `tui/src/lifecycle.rs` | none | `ensure_daemon_running` | D-Bus, spawns the daemon | a daemon that is just shutting down |
| range reader, `daemon/src/range_reader.rs` | position, open body, bytes left to skip, length | `read`, `seek`, `ensure_open` | HTTP | a server that ignores `Range`, bodies that end early, lengths that are not known |
| visualizer, `daemon/src/visualizer.rs` | ring of samples, FFT plan | `compute`, `reset` | audio thread and engine | numeric only |
| TUI application, `tui/src/app.rs` | screens, cursors, marks, filters, art, lyrics, update state | keys, 1 event loop | proxy calls, spawned fetches that report by channel | row numbers of a list fetched earlier; late results |
| update check, `tui/src/update_check.rs` | none | check, apply | cargo, git | two packages installed one after the other |
| library client, art, login, command line | none between calls | HTTP requests | the server | none |
| configuration, `common/src/*` | config file and keyring | load, save | files | two stores written one after the other |

What makes each correct:

* **engine and play order**: the order is a permutation of the queue; what the
  engine points at is what plays; readers of the snapshot see the truth outside
  a load; each listen is recorded once and under its own id; "play next" plays
  next; with a repeated queue every track comes round, with an unrepeated one
  the music ends; every change of status is announced.
* **MPRIS bridge and channels**: a client that has drained its signals knows
  what the snapshot holds; PlayPause turns the sound over; every command sent is
  taken, or the engine is gone.
* **lifecycle**: one daemon at a time, whatever starts or crashes; the pidfile
  never names another; never an idle shutdown under music or a caller; a Quit
  that was answered ends the daemon.
* **range reader**: the bytes read are the file's at the position asked for.
* **TUI**: a key acts on what is on show; what it plays, deletes or adds is what
  was marked or under the cursor; the art and lyrics shown are the current
  song's; one update at a time, and its outcome is shown.

## 2. Modules

| module | role |
|---|---|
| `PlayOrder` | the pure index arithmetic of the queue |
| `Playback` | the engine: one action per command, the poll, the two halves of a load, the audio thread; all properties |
| `Playlist` | abstract: what a listener is promised |
| `MCPlayback` | the values of the engine's instances |
| `MCEngine` | the instance for the engine's safety and the refinement |
| `MCLaps` | the instance for the liveness properties, and the helpers compared with a second definition |
| `PlayOrderProofs` | lemmas on the index arithmetic, for queues of every length, and on what each edit does to the traversal |
| `PlaybackProofs` | the inductive invariant of the engine, the invariants and the step properties on status and scrobbles as theorems |
| `PlaylistProofs` | the engine implements `Playlist`; "play next" plays next |
| `Remote` | extends `Playback` with everything around it: the command channel, the clients that send, the event channel, the bridge to MPRIS |
| `RemoteProofs` | the engine's invariants under its clients, and that the bridge converges, as theorems |
| `Daemon` | the processes: lock, pidfile, bus names, idle timer, exit, and the TUI's auto-spawn |
| `DaemonProofs` | single instance, the pidfile and the idle exit as theorems |
| `RangeReader` | reading and seeking over HTTP ranges |
| `Stream` | abstract: a file with a cursor |
| `RangeReaderProofs` | the reader's invariant, and that it implements `Stream` |
| `Filtering` | a list without what fails a test (`iter().filter().collect()`) |
| `FilteringProofs` | induction over lists, and what a filter keeps, for lists of every length |
| `Screens` | the TUI's screens and the pure operations on one of them |
| `Background` | the tasks beside the TUI's event loop: art, lyrics, updates |
| `Tui` | the event loop: extends `Screens` and `Background`, one action per key, with the music server |
| `TuiProofs` | every invariant and step property of the TUI and of its tasks as theorems |
| `MCRemote`, `MCDaemon`, `MCRangeReader`, `MCTui` | their instances for TLC |

How they compose: `Remote` is `Playback` with its surroundings, its actions are
`Playback`'s actions with what they take from one channel and put into the
other; `Tui` runs the actions of `Background` between its own. `Daemon` and
`RangeReader` meet the engine at narrow points (a playing flag and a command
that waits; bytes) and stand alone. `PlayOrder` is used by `Playback` only,
`Filtering` by `Remote` and by the TUI.

### Playback and the code

The engine is one thread in a loop over `recv_timeout` (`run_engine`). A
command is handled to its end before the next, so a command is one action, with
one exception: `start_playback_at` fetches the track's head over HTTP with no
lock held, and every other thread can read the snapshot meanwhile. It is split
at `decoder_builder.build()` into `StartPlaybackAt`, which ends in phase
`loading`, and `LoadSucceeds` or `LoadFails`. While `phase = "loading"` no
command is taken. Smaller gaps inside a handler (between a lock released and an
event sent) are not split.

| TLA+ | code |
|---|---|
| `phase` | the thread's place: opening the output stream, in the loop, in a load, returned |
| `queue, index, play_order, order_pos, repeat, shuffle, current, volume` | the fields of `EngineState` |
| `sink`, `pos` | `Option<Sink>` with its source playing, paused or ended, and `Sink::get_pos` |
| `volume_factor` | the pair that is multiplied into the atomic factor: the volume, and the track whose ReplayGain is in it |
| `snap` | the `Snapshot` |
| `events`, `scrobbles` | what the last step sent on the event channel, and the scrobble requests it spawned (`submission` tells a recorded play from "now playing") |
| `SinkPlays`, `SourceEnds` | the audio thread: the position grows, the source runs out, at any position (a body may end early) |
| `SeekAccepted`, `SeekRefused` | `Sink::try_seek`: it may fail, and on an ended source it succeeds and moves nothing |

Indices are 0-based as in the code, sequences 1-based as in TLA+: track `i` is
`queue[i + 1]`.

Abstracted: a track is a model value with a duration (one with no song id, or a
daemon with no credentials, would record nothing; a duration of 0 stands for
both); the gain's value, the samples, `current_format` and the bars (the
spectrum is `zero` or `live`); `Snapshot::position`, which is only a copy of
`pos` up to 250 ms old; logging. A shuffle is any permutation.
`Playlist` and `Stream` have no lines of the code behind them: they are the
promises, stated from the listener's and the decoder's side.

Definitions whose comment starts with *Slip* are not part of the model. Each is
a plausible mistake in the definition that follows it (a missing event, an
index lowered in the wrong case); putting it in the place of that definition
makes TLC report the property it is paired with in `PROJECT.json`. They show
that no property holds by the shape of the model.

### Remote and the code

| TLA+ | code |
|---|---|
| `pending` | the channel between `PlaybackHandle::send` and `recv_timeout` |
| `unread` | the channel of `Event`s, with only those the bridge acts on. `TrackChanged` carries nothing, the modes' events carry the mode |
| `published` | what a client knows that only listens to `PropertiesChanged` |
| `TakeCommand`, `Poll`, `Load`, `Opening` | one turn of `run_engine`. A poll runs only when no command waits, as `recv_timeout` does |
| `Perform`, `Ignore` | the `match` on the command: an action of `Playback`, or nothing if its conditions fail |
| `bridge_playback_events_to_mpris` | one turn of the bridge, which reads the snapshot when it gets to an event |
| `ControlMethods`, `MprisMethods`, `TransportKeys` | what the methods of `control.rs`, those of `mpris.rs` and the transport keys of `app.rs` may send |

`play_pause` reads the snapshot when it is called, long before its command is
taken. A relative seek and the TUI's keys compute from old values: they may send
any target.

### Daemon and the code

`stage` is how far `main` has got in each process: `started`, `opened` (the
pidfile is open, and empty), `locked`, `written`, `registered` (MPRIS name),
`serving` (control name, `select`), `leaving` (`playback.shutdown` sent),
`unlocked` (the guard dropped). The drops at the end of `main` are in the order
of Rust's scopes: the control connection, then the lock; the MPRIS server is
also held by the bridge's task, so its name goes with the runtime, after the
lock. `Vanish` is the end of a process at any point: the kernel and the bus take
back lock and names, the pidfile stays. `take_activity` and `is_playing` are
the two reads of the idle timer, with anything in between. `permit` is
`Notify`'s stored permit. A pid is a sequence of digits, as one may be longer
than another and the write does not truncate. The TUI's 5 seconds are
`Patience` asks. The engine is reduced to a status and a waiting command.
`calm` and `asked` are history.

### RangeReader and the code

`pos`, `len`, `body` and `pending_skip` are the fields; byte k of the file is
the number k, so that `got` tells which bytes a read returned. `read` is a loop
and is taken step by step, `want` is the size of the buffer of the read in
progress. `ensure_open` gets a 206, a 200 or an error, with or without a length;
a body gives any number of bytes up to what was asked for, reports an error, or
ends before its time (`Lose`), which the reader cannot tell from the end. Every
`SeekFrom` is there, with offsets over both ends of u64 (`Top`). That a 206
begins where it was asked to is taken from HTTP.

### Screens, Background, Tui and the code

| TLA+ | code |
|---|---|
| `stack`, `active_tab`, `filter_editing`, `show_help`, `prompt` | the fields of `App` |
| a record of `Screen(..)` | a variant of `enum Screen`: `items` its rows, `selected`, `filter`, `marked`; `of` what else the variant has |
| `visible_indices`, `move_selection`, `toggle_mark`, `marked_songs`, `home_move_selection`, ... | the functions of these names |
| `Ready`, `KeyMode`, `FilterMode`, `Prompting` | the order in which `event_loop` offers a key to the help, the prompt, the query, the filter and the screen |
| the actions of `Tui` | the handlers, one key each |
| `busy`, and `add_song_to_playlist`, `Picked`; `remove_song_from_playlist`, `refresh_playlist_songs`; `set_starred`, `BulkStarred` | the three loops that make one call to the server after the other, one call a step, because other devices use the server in between, and what comes after the last call |
| `playlists`, `starred`, `OtherDevice` | the music server and other clients of it |
| `Outcomes` | a call is done and answered, refused, or done with its answer lost |
| `Tick`, `poll_update_events`, `UpdatePanels` | the head of a turn of the loop |
| `checks`, `applies`, `update_rx` | the spawned tasks and their channel |
| `FetchEnds` | a fetch of art or lyrics; one of art may fail and never arrive |

A filter is told by what it matches, a name by a model value. Handlers whose
only `await` is one call are one action with its outcome, as the event loop is
blocked in it. Fetches into a new screen answer with any list of a small set, or
fail, as their handlers then show an empty screen or stay. A playlist is fetched
from `playlists`, as its rows are later deleted by index. `touched` tells the
playlists that were changed elsewhere since they were fetched: rows are deleted
by index, so no code could do right by those. `settled` is history too: the songs
whose star the series under way has set and no other device has changed since.

### What the properties say

* `PlayOrderInSync`: the comment on `EngineState::play_order`. Every
  `play_order[..]` and `queue[..]` of the code is in bounds because of it, and
  the early return of `start_playback_at` is never taken.
* `CurrentIsQueued`: whatever was edited since, `queue[index]` is the loaded
  track.
* `SnapshotAgrees`: outside a load the snapshot's place, length, track, status,
  modes and volume are the engine's.
* `FactorOfCurrent`: the loaded track is scaled with its own gain and the
  present volume.
* `StoppedIsDark`: no bars when stopped.
* `EveryListenRecordedOnce` (step): a listen that ends is recorded if and only
  if it qualified, once, under its own id.
* `StatusAnnounced` (step): no status is published without its event.
* `PlayNextComesNext` (step): the batch is what the traversal continues with.
* `ImplementsPlaylist` (refinement): under the mapping `list <- Traversal(queue,
  play_order)`, `cursor <- order_pos`, `playing <- current` outside a load, each
  step of the engine is a step of `Playlist`: while music plays the list changes
  only by additions at the end or behind the cursor, by removal of other
  entries, or by a reshuffle that leaves the cursor on the same track.
* `EveryTrackComesRound`, `PlaysOut` (liveness).

* `BridgeConverges`: apply the bridge to every event it has not come to yet, and
  a listener knows the snapshot's status, modes and track. One case is left out,
  because there it fails: see section 6.
* `PlayPauseTurns` (step), `EveryCommandTaken` (liveness), `RemoteTypeOK`.
* `AtMostOneServes`, `PidfileNamesHolder`, `DaemonTypeOK`: single instance under
  races and crashes.
* `IdleExitIsEarned` (step): the timer ends a daemon only if nothing plays and
  as many checks as the timeout has have passed since a client called. What is
  left out is a call between the last two reads, which is lost with the daemon.
* `QuitEnds` (liveness): also for a Quit before `select`.
* `BodyInStep`: the response and the position part by exactly what is left to
  skip. `ImplementsStream` (refinement): each byte is returned once, in order,
  and an end is reported only at the end or after a lost connection.
  `EveryReadReturns` (liveness).
* `MarksAreListed`, `OverlaysFit`: for every screen of the stack.
* `CursorLostOnlyByRefetch` (step): on every screen of the stack the cursor stays
  on a row that is shown, but where the rows are fetched again under a filter. There
  it may be left past them (section 6), still on a row of the whole list.
* `PlaysWhatIsListed`, `OnlyChosenRemoved` (steps): what leaves the TUI is what
  the screen shows; whichever of the calls fail, only chosen songs are removed.
* `MarkedStarsAgree` (step): when a series of star calls ends, all rows of the
  marked songs show the one state, also of those whose call failed, as the code has
  it; and of a song whose call was answered the server has that state, unless
  another device changed it since. Nothing is claimed of a single song's glyph:
  section 6 shows where it does not flip.
* `JobMatchesState`, `AppliedMeansBoth`, `PanelShowsCurrent`: the tasks.

## 3. Runs

| run | configuration | instance | shows |
|---|---|---|---|
| `engine` | `MCEngine.cfg` | 2 tracks; queue up to 3 with one volume at position 0, or queue up to 2 with two volumes and positions 0..3 | order, place, snapshot, status, gain, bars and scrobbles under every command, "play next", and the refinement (about 141,000 states) |
| `laps` | `MCLaps.cfg` | 3 tracks, queue up to 3, `LapSpec` | the liveness properties (about 258,000) |
| `remote` | `MCRemote.cfg` | 2 tracks, 3 commands sent, no index above 1, bridge up to one event behind when a step starts | the channels and the bridge (about 53,000) |
| `daemon` | `MCDaemon.cfg` | 2 daemons, 2 TUIs, pids of two lengths, 2 idle checks | start, exit, crash, idle timer, Quit (about 187,000) |
| `reader` | `MCRangeReader.cfg` | a file of 5 bytes, reads up to 3, skips by 2, `Top` 8 | the reader, its refinement, termination (about 3,100) |
| `tui` | `MCTui.cfg` | 2 songs, 2 playlists up to 3 songs with duplicates, 3 screens deep, 3 commits | the event loop and its tasks (about 249,000) |
| `moved_queue`, `append_after_end`, `removed_current`, `refused_restart` | | queue up to 2 | the engine's four disagreements of section 6; TLC must find each |
| `filtered_refetch`, `duplicate_star` | `MCSelectedIsPosition.cfg`, `MCSelectedStarFlips.cfg` | as `tui` | the TUI's two disagreements of section 6; TLC must find each |

`MCLaps` also has assumptions that TLC evaluates: for every order of up to
4 entries the removal agrees with the code's filter and map, the renumbering
after a move agrees with what a removal and an insertion do to a list, and a
move leaves the traversal as it was.

**Bounds.** Three entries are the fewest in which an entry lies before, at and
after the playing one, a move can go over it in both directions, and a shuffled
order differs from the identity in more than one way; two tracks in three
entries give duplicates, which an argument by track instead of by index gets
wrong. For safety the bounds on lengths stop mattering: section 5 proves every
invariant, step property and refinement for queues, channels and lists of any
length. For liveness they remain. Scrobbling needs positions, not long queues: the
positions of the second half of `engine` are on both sides of the half-duration
threshold (track a), of the cap (track b) and of the restart threshold. `MaxPos`
ends the growth of a position only; a source may end at any. `MaxQueue` limits
the batches sent and the growth of the queue.

For the other runs: two daemons and two TUIs are every pair that can race, and a
third adds no new one (single instance is proved for any number); two ids of
different lengths are what the overwriting of the pidfile can get wrong. Five
bytes are more than one skip and more than one read, `Top` is beyond them, and
the invariant is proved for every length. Three commands in `remote` begin with
a queue of two tracks, after which any two commands race the loads, the polls,
the events and each other; `MaxUnread` stops the engine when the bridge is more
than one event behind, and one step of the engine adds up to two or three more.
Three screens let an info panel be opened over a list and left again; lists have
duplicates, rows without an id and rows a filter hides; `APPLY_LOG_LINES` and
`HOME_PREVIEW_ROWS` are 1 and 2 instead of 10 and 5, below the lengths that
reach them. `MaxJobs` is 2 where the program is to have one, so that a second
could show. `MaxDepth` refuses to open a screen, `MaxPlaylist` to add a song.

**Focus.** `MCEngine`, `MCRemote` and `MCTui` give each behaviour a focus, chosen
at the start, that it keeps to: long queues or listening; commands on the queue,
the transport or the modes; a tab and what is done on it. All of one focus
interleave; two of them do not. In `engine` both take every command, in `remote`
each sees the loads and ends of tracks. In the TUI a change of tab replaces the
stack, which is all they share but the tasks, which are a focus of their own.

**View.** All runs but `laps`, `daemon` and `reader` hide the outputs of the
last step from the comparison of states: `events` and `scrobbles` in the engine's runs
(`WithoutOutputs`), the call `sent` in the TUI's (`WithoutSent`). No action reads
them, no invariant checked there except the type invariants mentions them, and
the step properties look only at their primed values, which TLC has when it
evaluates a step, also a step to a state it has seen. The type invariants are
proved without the view. `remote` uses it beside a liveness property:
`EveryCommandTaken` reads no output, none decides whether a fair action is
enabled, and every fair action changes something the view keeps, so paths
that differ only in outputs are fair, and satisfy the property, alike.

**Laps.** `LapSpec` leaves out commands that cannot matter for what plays after
the clients have gone quiet (sound, seeks, pauses, additions), so that a queue
of three with three tracks fits. It keeps every edit, jump and mode. `PlaysOut`
therefore says nothing of a Pause, Previous, Append or Seek that comes between the
end of a source and the poll; for these the step and state properties of the
other runs are checked (`EveryListenRecordedOnce`, `SnapshotAgrees`).

**Deadlock** is not checked: an engine that has returned (no output device, or
`Shutdown`) does nothing for ever; where a bound is used up, a client has no more
to send.

**Fairness**, in four runs. `EngineFairness` (`laps`): a load ends, one way or
the other (`build()` returns, or its read errors out); an enabled poll runs; a
playing source ends. The first and third are what finite tracks and a server
that answers or hangs up give. The second holds only while clients are quiet:
`recv_timeout` starts anew with each command, and commands less than 250 ms
apart keep the poll from running. So both liveness properties are stated for
behaviours in which clients fall silent at some point and loads then succeed
(`Quiet`), and the program promises no more than that. `EveryTrackComesRound`
further supposes that the music keeps playing (it is not paused for good) and
holds although a shuffled lap is drawn anew each time.

`RemoteFairness` (`remote`): the engine opens its device, takes a command that
waits, ends a load; the bridge takes an event that waits. Each is a loop of a
thread or a task that does nothing else. Clients are not fair, nor is the audio
thread, nor the poll.

`ProcessFairness` (`daemon`): a process that has begun to start or to leave goes
on, and one that waits with a permit is woken. Nobody need start, call or stop
one, and the idle timer is not counted on.

`LiveSpec` of `RangeReader` (`reader`): the read in progress goes on, which is
that the network answers, or ends, in the end. That it fails is allowed and not
counted on.

The TUI has no liveness property: nothing happens in it without a key, and calls
have no timeout in the code, so that a server that never answers stops it.

## 4. Hazards

`PROJECT.json` lists them at their lines, each with the property that would
catch it or the reason why none does yet.

## 5. Proofs

What is proved is every safety property the runs check, invariants, step
properties and the two refinements, for every value of the constants. Assumed:

* `PlaybackAssumption`: naturals for the durations and bounds, `NoTrack` no
  track, the full volume among the volumes;
* `RemoteAssumption`: what clients upload are lists of tracks the engine takes,
  natural bounds;
* `DaemonAssumption`: ids are non-empty sequences of naturals, an idle timeout is
  at least one check;
* `RangeReaderAssumption`: the file is no longer than u64 can count;
* `TuiAssumption`: what the server and the daemon answer are lists, of songs where
  songs are asked for; the ids of playlists are finitely many;
* `BackgroundAssumption`: natural bounds, a branch has a head.

Nothing is assumed about the number of tracks, processes, songs, playlists or
screens, nor about the length of a list or a channel.

### The engine

The first part of `PlayOrderProofs` is about sequences alone. Its lemmas say that
the identity, a shuffle, a removal, a move, an extension and a play-next insertion
each give a play order of the right length; where each entry goes; and that after
a move the track of index `i` is found at the index `i` is renumbered to. The
second part follows the traversal, the list of tracks as Next will play them,
through each edit: a move leaves it and the place in it as they were, an
addition goes to its end, a play-next batch behind the place, a removal takes
one entry out, and any two orders of a queue play each track as often.

`PlaybackProofs` proves `Safety == Spec => []IInv`, with `IInv` the conjunction
of the six invariants. They lean on each other and none of the later ones is
inductive alone:

1. `OrderInv`, the types of the queue with `PlayOrderInSync`, is inductive by
   itself (`OrderStep`, one step per action, each from a lemma of
   `PlayOrderProofs`). It comes first because every other argument needs the
   indices to be in bounds.
2. `CurrentIsQueued` needs it, and for a move `MoveTrackProperties`. That a
   track is loaded only with a sink, and a sink only in phase `ready`, had to be
   added for the step of `LoadFails` and of `SetShuffle`.
3. `SnapshotAgrees`, `FactorOfCurrent` and `StoppedIsDark` follow action by
   action from these; they say nothing in phase `loading`, where the snapshot is
   between two tracks.

The theorems `TypeCorrect`, `OrderStaysInSync`, `CurrentStaysQueued`,
`SnapshotIsRight`, `FactorIsCurrent` and `StoppedStaysDark` read the single
invariants off.

Its last part takes a step from a state in which `IInv` holds. For
`StatusAnnounced` every action either leaves the status alone (a start does: the
load that follows publishes and announces) or sends it. For
`EveryListenRecordedOnce` the ways a listen ends come down to four shapes of a
step: one that ends it and records what `maybe_scrobble_outgoing` says, one that
records nothing and lets it go on, the restart, and the shutdown; that a loaded
track has a sink (`CurrentIsQueued`) is what makes the guarded calls of
`maybe_scrobble_outgoing` agree with the unguarded ones.

`PlaylistProofs` proves the refinement, `EngineKeepsPromise == Spec =>
ImplementsPlaylist`. A step after which nothing is loaded or a load is going on
is a `Replace`, for which `OrderInv` after the step is all it needs. The others
keep the loaded track: appending is `AddLast`, play-next `AddNext`, the removal
of another entry `Drop`, a shuffle toggle `Reorder`, a finished load `Start`,
each by one lemma on the traversal; a move, a seek, a pause, the modes and
the audio thread stutter. `PlayNextPlaysNext` gives `PlayNextComesNext` from the
same lemma as `AddNext`.

### The engine under its clients

`RemoteProofs` proves `RemoteSafety == RemoteSpec => []RemoteInv`. Its parts are
`IInv`, the length of the queue (`QueueFits`), the types of the channels, and
`BridgeConverges`, which is inductive only with the others.

1. A command is performed long after it was sent, in whatever state the engine is
   by then. `PerformIsCommand` says that it is a step of `Playback` all the same,
   for every command clients can send; one whose conditions fail when its turn
   comes is dropped and changes nothing (`DropIsSafe`). So `IInv` and what hangs
   on it hold under `Remote` too (`EngineSafeUnderClients`).
2. `StepTells` goes through the engine's actions: the events of a step the bridge
   is interested in have one of five shapes (`Told`), and whatever part of the
   snapshot they do not name the step left as it was, but for a track that is
   taken off the snapshot without an event.
3. `BridgeConverges` speaks of the last event of each kind in a channel of any
   length. `LastOfLonger` and `LastOfTail` say how that changes when events come
   and when one is taken; the step then follows for status, repeat, shuffle and
   track one by one (`RelayConverges`, `SignalConverges`).

`ChannelsAreTyped` and `SignalsConverge` read these off; `PlayPauseIsRight` needs
`IInv` alone, as the choice is made by the snapshot and the claim is about the sink.

Seen from the engine, a step of all this is one of `Playback`'s, a dropped command or
a stutter (`EngineSteps`). So the step properties hold here as well: the playlist
is still implemented (`PromiseKeptToClients`), a status announced
(`StatusAnnouncedToBridge`) and a listen recorded once
(`ListensRecordedUnderClients`), which no run checks with clients in the picture.

### The daemons

`DaemonProofs` has three invariants. `SingleInstance` says that whoever is past the
lock holds it, that whoever owns a name is at a stage that has asked for it, and
what the pidfile holds. None of its parts is inductive alone: that the pidfile is
not another's needs that a process that writes is the only one past the lock,
which needs that a lock goes only with its holder. `OverwrittenBegins` is the
lemma on writing an id over what is there, whatever the two lengths. From it
`OneServes` and `PidfileIsOurs`. `EarnsIdle` says that a timer that is not done
has counted no more checks than have passed since the last call, unless the flag
is up; `IdleExitsAreEarned` follows in one step from it. The fairness of
`LiveSpec` plays no part. `Blank` says that whoever the lock names is at a stage
that has it and that a process that is off has no flag set; with the other two it
is inductive and gives `NothingOutlives`, the types.

### The range reader

`RangeReaderProofs` has `ReaderInv`, the types with `BodyInStep`, inductive as they
stand once the case of an exhausted body is in it: where a skip ran out the
body is behind the position for good, and only because nothing is left of it is
no wrong byte returned. The refinement then needs one lemma more (`EndIsEnd`):
that an end is reported only with the cursor at or past the end of the file, or
after the connection was lost.

### Lists of every length

`Filtered` is a recursive function, and the library states induction with an
operator for the predicate, which the provers cannot fill in. `FilteringProofs`
states it with a set instead: a set of numbers that is not empty has a least
(`LeastNatural`, from `WFMin`), so a set with 0 and with each successor has all
(`Induction`), and so has a function defined by recursion on the length what its
equation says (`Recursion`, `FilteredUnfolds`). `FilteredPicks` is what the TUI
needs: what a filter keeps of a list is the list read at increasing places. All
that is said of `visible_indices`, of marked songs, of the order of deletions and
of the events the bridge is told rests on it.

### The TUI

`TuiProofs` begins with the tasks. Of all steps of the TUI only three touch the
panels (`StepsOfPanels`), and `PanelShowsCurrent` is inductive under these. For the
update, `UpdateInv` counts checks, installations and events on their way together:
at most one in all (`OneJob`), in the phase that waits for it, and with it
`AppliedMeansBoth` for what an event on its way will say. The phase after all
waiting events were read (`AfterAll`) folds over a channel of any length.

The screens' invariant is `TuiInv`, with three parts:

* `ScreensOK`: on every screen of the stack, rows, cursor, marks and a query being
  typed fit together (`ScreenOK`), and a picker is on top of the list its songs
  are of. A screen under another must be as good as the one on top, as Esc brings
  it back; and a cursor can be kept on a row only if the rows are typed, as what
  filters match and what marks name are parts of them.
* `ModesOK`: a prompt, a filter being typed and a call under way each belong to the
  screen on top, and exclude one another. Without it a step of a removal might find
  another screen there, and the cursor of a picker might be left over by a prompt.
* `ServerOK`: playlists are lists of songs, which is what is fetched into a screen.

There is one lemma per key (`MoveKeeps`, `BackKeeps`, ..., `NextTui`), resting on one
per operation of `Screens`: `WithFilter`, `Refreshed`, `Following`, `move_selection`,
`toggle_mark`, `clear_marks`, the flips of a star. From `TuiInvariant` the
theorems `TypesOfTui`, `MarksStayListed` and `OverlaysStayFit` follow at once, and
`PlaysOnlyWhatIsListed` by what the keys that play send.

`CursorsLostOnlyByRefetch` is about steps from and to states with `TuiInv`. What the
invariant has of a cursor (`CursorFits`, in `ScreenOK`) is that it is on a shown row,
or off them under a filter but on a row of the whole list (`OffShow`). That gives the
second half of the claim; for the first, that nothing but a refetch takes the cursor
there, each key is gone through once more (`NextCursors`): most leave every
screen's cursor, rows and filter alone or take it to a row that is shown, a
screen that is opened has its cursor on its first row, and one that comes back is as
it was left.

`MarkedStarsEndAgreed` needs an invariant of the series of calls, `StarInv`
(`StarsAreSettled`): outside a series nothing is settled, and in it the server has
the star of every settled song as the series sets it. It is kept by a call, whatever
becomes of it, as all calls of a series set the same state, and by another device,
because what it changes is settled no more.

`OnlyChosenAreRemoved` needs to know that a row number means the same song on the
screen and on the server, through calls that fail or whose answer is lost. This is
`ListsInv`, inductive with `TuiInv`:

* `InPlace`: the list of a playlist is the second screen of the stack, on top of
  the playlists, so that no second copy of it grows stale under another screen;
* `ListsInStep`: unless a removal is going on or someone else has edited it, the
  playlist begins with the rows that are listed (songs may have been added at its
  end since, by the picker);
* `RemovalInStep`: while rows are being removed, those still to come are chosen
  ones, each above the one before, and up to the next of them the playlist is as
  listed. That the order is a descending one (`OrderDescends`) is what keeps this
  so whether or not the call in between was carried out.

A removal then takes out the song its row showed, and no other one is fewer for it
(`OtherCopiesStay`, by an injection of its places).

### Only model-checked

The five liveness properties (`EveryTrackComesRound`, `PlaysOut`,
`EveryCommandTaken`, `QuitEnds`, `EveryReadReturns`): liveness under fairness and
ENABLED are out of the prover's reach. So are the assumptions of `MCLaps`,
which compare two definitions, and the six runs of section 6. What is proved is
about the model: that it follows the code is for the reader of `map` to judge.

## 6. Where code and comments part

Each has a run in which TLC shows the behaviour.

1. `moved_queue`: the comment on `play_order` (playback.rs:464-465) calls it the
   identity order when shuffle is off. `MoveInQueue` renumbers it so that the
   *traversal* stays what it was: a queue reordered with `J`/`K` is shown in the
   new order and plays in the old one.
2. `append_after_end`: playback.rs:182-184 says that appending with nothing
   playing starts the first appended track. After the queue has run out the
   exhausted sink is still there, and the handler asks for the sink.
3. `removed_current`: playback.rs:134-137 calls `Snapshot::queue` the full queue.
   Removing the playing entry while others remain does not publish the new
   queue.
4. `refused_restart`: playback.rs:698-700 says that restarting finishes the
   listen. `Previous` records it and ignores a refused seek, after which the
   same listen is recorded again.
5. `filtered_refetch`: the comment on `visible_indices` (app.rs:1318-1324) calls
   `selected` always a position within the visible rows. After `d`, `J`, `K` or `D`
   on a queue, or `d` on a playlist, the rows are fetched again and `selected` is
   kept within the whole list (1841, 1856): under a filter it may be past the visible
   rows. Nothing is highlighted then, and keys on the selected row do nothing until
   the cursor is moved.
6. `duplicate_star`: app.rs:1975-1977 says that `f` flips the glyph of the selected
   song immediately. The row is looked up by the song's id (2007-2010) and the first
   one taken. With the cursor on a later row of the same song, on a list or in a
   later section of Home, the selected glyph stays, and the next `f` sends the same
   request again.

Seen on the way, without a run. In the engine and around it: `has_next` knows
neither order nor repeat (playback.rs:147); removing the engine's entry while
stopped starts the next one (594-624); `ClearQueue` and the removal of the last
entry set the track to `None` without `TrackChanged` (608-621, 650-670), so that
MPRIS clients keep the last track's metadata (the case `BridgeConverges` leaves
out); additions send no event, so CanGoNext goes stale; `Shutdown` records no
listen and leaves `Playing` in the snapshot (792-797); `Pause` after the end of
the queue publishes `Paused` with nothing loaded (712-717); a position stands for
listened time, so a seek past the threshold records a play; MPRIS `SetPosition`
ignores the track it is meant for (mpris.rs:125-129); two quick PlayPause presses
read one snapshot and send the same command twice (mpris.rs:99-104).

In the daemon: a process that is refused the lock has already emptied the pidfile
of the one that serves (lifecycle.rs:39), and as a pid is written over what is
there without truncating, a shorter id may be followed by the end of a longer one
that was written between its opening and its writing; nothing in the repository
reads the file. The MPRIS name outlives the lock (main.rs:73, 117-119): a new
daemon may get the lock and then fail to register. The comment on
`SingleInstanceGuard` calls it held "for the daemon's entire lifetime"; it is
dropped a little before that.

In the range reader: the comment at range_reader.rs:123-127 expects a request at
the end of the file to return "200/206 with no bytes"; a server may answer 416,
which a read reports as an error (92-94). A body cut off is reported as the end of
the file.

In the TUI: the comment on `u` says "Settings tab only" (app.rs:825), the handler
does not ask for the tab; Esc takes back a confirmation on any tab. Marks are
cleared though the call failed (1427-1428). Bulk starring changes the glyphs of
songs the server refused (2035-2047). `P` on a queued track without an id opens a
picker for the empty id (1615). Home opens with its cursor on the first section,
which may be empty. The two packages of an update may come from different
commits. A failure to fetch lyrics looks like a song that has none.

## 7. Not modelled, and the plan

Left out for good:

* **the library client's decoding**, login and the command line: requests and
  JSON with no state between calls. What the calls that change the server do is in
  `Tui`;
* **the visualizer**: an FFT; what the engine does with its bars is in `Playback`;
* **drawing**: `app.rs` from line 2173 on, the message line and the layout of the
  panels; `draw` changes nothing but the scroll of what it draws;
* **configuration and credentials**: a file and a keyring with no concurrent
  reader; login writes them one after the other, and a failure in between leaves
  a new user name without its password (config.rs:150);
* **real time**: the 250 ms of the poll and of the TUI's turn, and that polls
  starve under commands less than 250 ms apart.

What is left to do:

1. Row numbers of the queue screen (app.rs:1757) sent to an engine whose queue has
   changed since, and what a removal by index does to a playlist somebody else edits
   meanwhile: no run states either.
2. The queue screen against the running engine (`Tui` with `Remote`): too many
   states as they stand. At present the screen takes any queue from the daemon,
   and the engine any index from a client, so each side is checked against more
   than the other can do.
3. `Daemon` with the engine of `Remote` in place of its playing flag.
