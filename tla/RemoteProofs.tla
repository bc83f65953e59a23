----------------------------- MODULE RemoteProofs -----------------------------
(***************************************************************************)
(* The engine under its clients and its bridge, for every set of tracks,   *)
(* every upload, every length of both channels: the engine's invariants    *)
(* hold whatever commands arrive, and a client that only listens to        *)
(* signals comes to know what the snapshot holds.                          *)
(***************************************************************************)
EXTENDS Remote, PlaylistProofs, FilteringProofs

-----------------------------------------------------------------------------
(* What the bridge is told of a step *)

(* A list of one, two or three as the shorter one and its last element *)
LEMMA LastOfOne == \A x : <<x>> = Append(<<>>, x)
OBVIOUS

LEMMA LastOfTwo ==
  ASSUME NEW x, NEW y
  PROVE  <<x, y>> = Append(<<x>>, y)
<1> DEFINE two  == <<x, y>>
           more == Append(<<x>>, y)
<1>1. two \in Seq({x, y}) /\ Len(two) = 2 /\ two[1] = x /\ two[2] = y
  OBVIOUS
<1>2. more \in Seq({x, y}) /\ Len(more) = 2 /\ more[1] = x /\ more[2] = y
  OBVIOUS
<1> HIDE DEF two, more
<1>3. \A k \in 1..Len(two) : two[k] = more[k]
  BY <1>1, <1>2
<1>4. two = more
  BY <1>1, <1>2, <1>3, SeqEqual
<1> QED
  BY <1>4 DEF two, more

LEMMA LastOfThree ==
  ASSUME NEW x, NEW y, NEW z
  PROVE  <<x, y, z>> = Append(<<x, y>>, z)
<1> DEFINE three == <<x, y, z>>
           more  == Append(<<x, y>>, z)
<1>1. three \in Seq({x, y, z}) /\ Len(three) = 3 /\ three[1] = x /\ three[2] = y /\ three[3] = z
  OBVIOUS
<1>2. more \in Seq({x, y, z}) /\ Len(more) = 3 /\ more[1] = x /\ more[2] = y /\ more[3] = z
  OBVIOUS
<1> HIDE DEF three, more
<1>3. \A k \in 1..Len(three) : three[k] = more[k]
  BY <1>1, <1>2
<1>4. three = more
  BY <1>1, <1>2, <1>3, SeqEqual
<1> QED
  BY <1>4 DEF three, more

LEMMA FewEvents ==
  ASSUME NEW s \in Statuses
  PROVE  /\ Filtered(<<>>, Kinds) = <<>>
         /\ \A name \in {"PlaybackError", "Seeked"} : Filtered(<<name>>, Kinds) = <<>>
         /\ \A name \in {s, "RepeatChanged", "ShuffleChanged"} : Filtered(<<name>>, Kinds) = <<name>>
         /\ Filtered(<<s, "QueueEnded">>, Kinds) = <<s>>
         /\ Filtered(<<"QueueEnded", s>>, Kinds) = <<s>>
         /\ Filtered(<<"TrackChanged", s>>, Kinds) = <<"TrackChanged", s>>
         /\ Filtered(<<"PlaybackError", "TrackChanged", s>>, Kinds) = <<"TrackChanged", s>>
         /\ Filtered(<<"TrackChanged", "QueueEnded", s>>, Kinds) = <<"TrackChanged", s>>
<1>1. /\ s \in Kinds /\ {"TrackChanged", "RepeatChanged", "ShuffleChanged"} \subseteq Kinds
      /\ \A name \in {"PlaybackError", "Seeked", "QueueEnded"} : name \notin Kinds
      /\ EventNames = Kinds \cup {"PlaybackError", "Seeked", "QueueEnded"}
  BY DEF Kinds, Statuses, EventNames
<1>2. <<>> \in Seq(EventNames) /\ \A x, y \in EventNames : <<x>> \in Seq(EventNames)
                                                         /\ <<x, y>> \in Seq(EventNames)
  OBVIOUS
<1>3. \A list \in Seq(EventNames) : \A x \in EventNames :
        Filtered(Append(list, x), Kinds) =
          IF x \in Kinds THEN Append(Filtered(list, Kinds), x) ELSE Filtered(list, Kinds)
  BY FilteredAppend
<1>7. Filtered(<<>>, Kinds) = <<>>
  BY FilteredEmpty
<1>4. ASSUME NEW x \in EventNames
      PROVE  Filtered(<<x>>, Kinds) = IF x \in Kinds THEN <<x>> ELSE <<>>
  <2>1. Append(<<>>, x) = <<x>>
    BY LastOfOne
  <2> QED
    BY <1>2, <1>3, <1>7, <2>1
<1>5. ASSUME NEW x \in EventNames, NEW y \in EventNames
      PROVE  Filtered(<<x, y>>, Kinds) =
               IF x \in Kinds THEN IF y \in Kinds THEN <<x, y>> ELSE <<x>>
                              ELSE IF y \in Kinds THEN <<y>> ELSE <<>>
  <2>1. Append(<<>>, y) = <<y>> /\ Append(<<x>>, y) = <<x, y>>
    BY LastOfOne, LastOfTwo
  <2>2. <<x>> \in Seq(EventNames) /\ Filtered(<<x>>, Kinds) = IF x \in Kinds THEN <<x>> ELSE <<>>
    BY <1>2, <1>4
  <2>3. Filtered(<<x, y>>, Kinds) = IF y \in Kinds THEN Append(Filtered(<<x>>, Kinds), y)
                                                   ELSE Filtered(<<x>>, Kinds)
    BY <1>3, <2>1, <2>2
  <2> QED
    BY <2>1, <2>2, <2>3
<1>6. ASSUME NEW x \in EventNames, NEW y \in EventNames, NEW z \in EventNames, z \in Kinds
      PROVE  Filtered(<<x, y, z>>, Kinds) = Append(Filtered(<<x, y>>, Kinds), z)
  <2>1. Append(<<x, y>>, z) = <<x, y, z>>
    BY LastOfThree
  <2> QED
    BY <1>2, <1>3, <1>6, <2>1
<1>8. /\ \A name \in {"PlaybackError", "Seeked"} : Filtered(<<name>>, Kinds) = <<>>
      /\ \A name \in {s, "RepeatChanged", "ShuffleChanged"} : Filtered(<<name>>, Kinds) = <<name>>
  BY <1>1, <1>4
<1>9. /\ Filtered(<<s, "QueueEnded">>, Kinds) = <<s>>
      /\ Filtered(<<"QueueEnded", s>>, Kinds) = <<s>>
      /\ Filtered(<<"TrackChanged", s>>, Kinds) = <<"TrackChanged", s>>
      /\ Filtered(<<"PlaybackError", "TrackChanged">>, Kinds) = <<"TrackChanged">>
      /\ Filtered(<<"TrackChanged", "QueueEnded">>, Kinds) = <<"TrackChanged">>
  BY <1>1, <1>5
<1>10. /\ Filtered(<<"PlaybackError", "TrackChanged", s>>, Kinds) = <<"TrackChanged", s>>
       /\ Filtered(<<"TrackChanged", "QueueEnded", s>>, Kinds) = <<"TrackChanged", s>>
  <2>1. Append(<<"TrackChanged">>, s) = <<"TrackChanged", s>>
    BY LastOfTwo
  <2>2. {"PlaybackError", "TrackChanged", "QueueEnded", s} \subseteq EventNames
    BY <1>1
  <2>3. /\ Filtered(<<"PlaybackError", "TrackChanged", s>>, Kinds)
              = Append(Filtered(<<"PlaybackError", "TrackChanged">>, Kinds), s)
        /\ Filtered(<<"TrackChanged", "QueueEnded", s>>, Kinds)
              = Append(Filtered(<<"TrackChanged", "QueueEnded">>, Kinds), s)
    BY <1>1, <1>6, <2>2
  <2> QED
    BY <1>9, <2>1, <2>3
<1> QED
  BY <1>7, <1>8, <1>9, <1>10

(* What a step's events tell the bridge, next to what it did to the snapshot *)
Bridged == Filtered(events', Kinds)

SameStatus  == snap'.status = snap.status
SameRepeat  == snap'.repeat = snap.repeat
SameShuffle == snap'.shuffle = snap.shuffle
SameTrack   == snap'.track \in {snap.track, NoTrack}

Told ==
  \/ Bridged = <<>> /\ SameStatus /\ SameRepeat /\ SameShuffle /\ SameTrack
  \/ Bridged = <<snap'.status>> /\ snap'.status \in Statuses /\ SameRepeat /\ SameShuffle /\ SameTrack
  \/ Bridged = <<"TrackChanged", snap'.status>> /\ snap'.status \in Statuses /\ SameRepeat /\ SameShuffle
  \/ Bridged = <<"RepeatChanged">> /\ SameStatus /\ SameShuffle /\ SameTrack
  \/ Bridged = <<"ShuffleChanged">> /\ SameStatus /\ SameRepeat /\ SameTrack

LEMMA QuietTells ==
  ASSUME events' = <<>>, SameStatus, SameRepeat, SameShuffle, SameTrack
  PROVE  Told
BY FilteredEmpty DEF Told, Bridged

LEMMA StepTells ==
  ASSUME IInv, Next
  PROVE  Told
<1>0. snap \in SnapshotType /\ \A s \in {"Stopped", "Playing", "Paused"} : s \in Statuses
  BY DEF IInv, TypeOK, Statuses
<1>1. UNCHANGED snap /\ events' = <<>> => Told
  BY QuietTells DEF SameStatus, SameRepeat, SameShuffle, SameTrack
<1>2. Silence => /\ snap'.status = "Stopped" /\ SameRepeat /\ SameShuffle /\ SameTrack
  BY <1>0 DEF Silence, EmptiedSnapshot, SnapshotType, SameRepeat, SameShuffle, SameTrack
<1>3. \A tracks : events' = <<>> /\ snap' = [snap EXCEPT !.queue = tracks] => Told
  BY <1>0, QuietTells DEF SnapshotType, SameStatus, SameRepeat, SameShuffle, SameTrack
<1>4. CASE QueueCommand
  <2>1. ASSUME NEW tracks \in Batches, NEW start, PlayQueue(tracks, start)
        PROVE  Told
    <3>1. CASE Silence /\ events' = <<"TrackChanged", "QueueEnded", "Stopped">>
      BY <1>0, <1>2, <3>1, FewEvents DEF Told, Bridged
    <3>2. CASE snap' = [snap EXCEPT !.queue = tracks] /\ events' = <<>>
      BY <1>3, <3>2
    <3> QED
      BY <2>1, <3>1, <3>2 DEF PlayQueue, Transition, StartPlaybackAt
  <2>2. ASSUME NEW tracks \in Batches, AppendQueue(tracks) \/ PlayNext(tracks)
        PROVE  Told
    BY <1>0, <1>3, <2>2, QuietTells
       DEF AppendQueue, PlayNext, AppendAndStart, Transition, StartPlaybackAt,
           SnapshotType, SameStatus, SameRepeat, SameShuffle, SameTrack
  <2>3. ASSUME NEW i, RemoveFromQueue(i)
        PROVE  Told
    <3>1. CASE Silence /\ events' = <<"Stopped", "QueueEnded">>
      BY <1>0, <1>2, <3>1, FewEvents DEF Told, Bridged
    <3>2. CASE RemoveOther(i)
      BY <1>0, <3>2, QuietTells DEF RemoveOther, SnapshotType, SameStatus, SameRepeat, SameShuffle, SameTrack
    <3> QED
      BY <1>1, <2>3, <3>1, <3>2 DEF RemoveFromQueue, RemoveCurrent, StartPlaybackAt
  <2>4. ASSUME NEW i, PlayAt(i)
        PROVE  Told
    BY <1>1, <2>4 DEF PlayAt, Transition, StartPlaybackAt
  <2>5. ASSUME NEW from, NEW to, MoveInQueue(from, to)
        PROVE  Told
    BY <1>0, <2>5, QuietTells DEF MoveInQueue, SnapshotType, SameStatus, SameRepeat, SameShuffle, SameTrack
  <2>6. CASE ClearQueue
    BY <1>0, <1>2, <2>6, FewEvents DEF ClearQueue, Told, Bridged
  <2> QED
    BY <1>4, <2>1, <2>2, <2>3, <2>4, <2>5, <2>6 DEF QueueCommand
<1>5. CASE TransportCommand
  <2>1. CASE NextTrack \/ Previous
    BY <1>1, <2>1 DEF NextTrack, NextInOrder, WrapQueue, Previous, RestartCurrent, Transition, StartPlaybackAt
  <2>2. ASSUME NEW target, Seek(target)
        PROVE  Told
    <3>1. UNCHANGED snap /\ Bridged = <<>>
      BY <1>0, <2>2, FewEvents DEF Seek, Bridged
    <3> QED
      BY <3>1 DEF Told, SameStatus, SameRepeat, SameShuffle, SameTrack
  <2>3. \A s \in Statuses : events' = <<s>> /\ snap' = [snap EXCEPT !.status = s] => Told
    BY <1>0, FewEvents DEF Told, Bridged, SnapshotType, SameStatus, SameRepeat, SameShuffle, SameTrack
  <2>4. CASE Pause \/ Resume
    BY <1>0, <1>1, <2>3, <2>4 DEF Pause, Resume, Transition, StartPlaybackAt
  <2>5. CASE Stop
    BY <1>0, <2>5, FewEvents DEF Stop, Told, Bridged, SnapshotType, SameRepeat, SameShuffle, SameTrack
  <2> QED
    BY <1>5, <2>1, <2>2, <2>4, <2>5 DEF TransportCommand
<1>6. CASE ModeCommand
  <2>1. ASSUME NEW v, SetVolume(v)
        PROVE  Told
    BY <1>0, <2>1, QuietTells DEF SetVolume, SnapshotType, SameStatus, SameRepeat, SameShuffle, SameTrack
  <2>2. ASSUME NEW mode, SetRepeat(mode)
        PROVE  Told
    BY <1>0, <2>2, FewEvents DEF SetRepeat, Told, Bridged, SnapshotType, SameStatus, SameShuffle, SameTrack
  <2>3. ASSUME NEW on, SetShuffle(on)
        PROVE  Told
    BY <1>0, <2>3, FewEvents DEF SetShuffle, Told, Bridged, SnapshotType, SameStatus, SameRepeat, SameTrack
  <2> QED
    BY <1>6, <2>1, <2>2, <2>3 DEF ModeCommand, CycleRepeat, ToggleShuffle
<1>7. CASE Shutdown \/ AudioStep
  BY <1>1, <1>7 DEF Shutdown, AudioStep, SinkPlays, SourceEnds
<1>8. CASE OpenOutputStream
  <2>1. UNCHANGED snap /\ Bridged = <<>>
    BY <1>0, <1>8, FewEvents DEF OpenOutputStream, Bridged
  <2> QED
    BY <2>1 DEF Told, SameStatus, SameRepeat, SameShuffle, SameTrack
<1>9. CASE LoadSucceeds
  BY <1>0, <1>9, FewEvents DEF LoadSucceeds, Told, Bridged, SnapshotType, SameRepeat, SameShuffle
<1>10. CASE LoadFails
  BY <1>0, <1>10, FewEvents DEF LoadFails, Told, Bridged, SnapshotType, SameRepeat, SameShuffle
<1>11. CASE poll_progress
  <2>1. CASE RefreshSpectrum
    BY <1>0, <2>1, QuietTells DEF RefreshSpectrum, SnapshotType, SameStatus, SameRepeat, SameShuffle, SameTrack
  <2>2. CASE QueueExhausted
    BY <1>0, <2>2, FewEvents
       DEF QueueExhausted, Told, Bridged, SnapshotType, SameRepeat, SameShuffle, SameTrack
  <2>3. CASE RepeatTrack \/ NextInOrder \/ WrapQueue
    BY <1>1, <2>3 DEF RepeatTrack, NextInOrder, WrapQueue, Transition, StartPlaybackAt
  <2> QED
    BY <1>11, <2>1, <2>2, <2>3 DEF poll_progress, NaturalEnd
<1> QED
  BY <1>4, <1>5, <1>6, <1>7, <1>8, <1>9, <1>10, <1>11 DEF Next, Command, EngineStep

-----------------------------------------------------------------------------
(* Whatever a client sends, the engine takes a step of its own *)

QueueFits == Len(queue) <= MaxQueue

LEMMA BatchFits ==
  ASSUME NEW tracks \in Batches
  PROVE  tracks \in Seq(Tracks) /\ Len(tracks) \in 0..MaxQueue
<1>1. PICK n \in 0..MaxQueue : tracks \in [1..n -> Tracks]
  BY DEF Batches
<1>2. n \in Nat
  BY PlaybackAssumption
<1>3. tracks \in Seq(Tracks)
  BY BatchIsSeq
<1>4. Len(tracks) = n
  BY <1>1, <1>2, <1>3
<1> QED
  BY <1>3, <1>4

LEMMA FitsStep ==
  ASSUME IInv, QueueFits, Next
  PROVE  QueueFits'
<1>0. /\ OrderInv /\ Len(queue) \in Nat /\ queue \in Seq(Tracks) /\ MaxQueue \in Nat
      /\ queue # <<>> => index \in 0..(Len(queue) - 1)
  BY OrderFacts, PlaybackAssumption DEF IInv, TypeOK, OrderInv
<1>1. UNCHANGED queue => QueueFits'
  BY DEF QueueFits
<1>2. Silence => QueueFits'
  BY <1>0, EmptySeq DEF Silence, QueueFits
<1>3. \A i : Transition(i) /\ UNCHANGED queue => QueueFits'
  BY <1>1
<1>4. CASE QueueCommand
  <2>1. ASSUME NEW tracks \in Batches, NEW start, PlayQueue(tracks, start)
        PROVE  QueueFits'
    <3>1. tracks \in Seq(Tracks) /\ Len(tracks) \in 0..MaxQueue
      BY BatchFits
    <3> QED
      BY <1>2, <2>1, <3>1 DEF PlayQueue, QueueFits
  <2>2. ASSUME NEW tracks \in Batches, AppendQueue(tracks) \/ PlayNext(tracks)
        PROVE  QueueFits'
    <3>1. tracks \in Seq(Tracks) /\ Len(tracks) \in Nat /\ Len(queue) + Len(tracks) <= MaxQueue
      BY <2>2, BatchIsSeq DEF AppendQueue, PlayNext
    <3>2. CASE ExtendQueue(tracks)
      BY <1>0, <3>1, <3>2, ExtendQueueKeepsOrder DEF QueueFits
    <3>3. CASE sink # "none" /\ queue' = Splice(queue, index + 1, tracks)
      <4>1. queue # <<>>
        BY <3>3 DEF IInv, CurrentIsQueued
      <4>2. Len(Splice(queue, index + 1, tracks)) = Len(queue) + Len(tracks)
        <5>1. index + 1 \in 0..Len(queue)
          BY <1>0, <4>1
        <5> QED
          BY <1>0, <3>1, <5>1, SpliceProperties
      <4> QED
        BY <3>1, <3>3, <4>2 DEF QueueFits
    <3> QED
      BY <2>2, <3>2, <3>3 DEF AppendQueue, PlayNext, AppendAndStart
  <2>3. ASSUME NEW i \in Nat, RemoveFromQueue(i)
        PROVE  QueueFits'
    <3>1. i < Len(queue)
      BY <2>3 DEF RemoveFromQueue
    <3>2. Len(RemoveAt(queue, i + 1)) = Len(queue) - 1
      BY <1>0, <3>1, RemoveAtProperties
    <3>3. queue' = RemoveAt(queue, i + 1) \/ Silence
      BY <2>3 DEF RemoveFromQueue, RemoveCurrent, RemoveOther
    <3> QED
      BY <1>0, <1>2, <3>2, <3>3 DEF QueueFits
  <2>4. ASSUME NEW i, PlayAt(i)
        PROVE  QueueFits'
    BY <1>1, <2>4 DEF PlayAt
  <2>5. ASSUME NEW from \in Nat, NEW to \in Nat, MoveInQueue(from, to)
        PROVE  QueueFits'
    BY <1>0, <2>5, MoveKeepsOrderInv DEF QueueFits
  <2>6. CASE ClearQueue
    BY <1>2, <2>6 DEF ClearQueue
  <2>7. \A i \in 0..(MaxQueue - 1) : i \in Nat
    BY <1>0
  <2> QED
    BY <1>4, <2>1, <2>2, <2>3, <2>4, <2>5, <2>6, <2>7 DEF QueueCommand
<1>5. CASE TransportCommand
  BY <1>1, <1>5 DEF TransportCommand, NextTrack, NextInOrder, WrapQueue, Previous, RestartCurrent,
     Pause, Resume, Stop, Seek, order
<1>6. CASE ModeCommand
  BY <1>1, <1>6 DEF ModeCommand, SetVolume, CycleRepeat, SetRepeat, ToggleShuffle, SetShuffle, Reshuffle, order
<1>7. CASE Shutdown \/ OpenOutputStream \/ LoadSucceeds \/ LoadFails \/ AudioStep
  BY <1>1, <1>7 DEF Shutdown, OpenOutputStream, LoadSucceeds, LoadFails, AudioStep, SinkPlays,
     SourceEnds, order
<1>8. CASE poll_progress
  BY <1>1, <1>8 DEF poll_progress, NaturalEnd, RepeatTrack, NextInOrder, WrapQueue, QueueExhausted,
     RefreshSpectrum, order
<1> QED
  BY <1>4, <1>5, <1>6, <1>7, <1>8 DEF Next, Command, EngineStep

(* An index beyond the upload starts its last track *)
LEMMA StartIsCapped ==
  ASSUME NEW tracks \in Batches, NEW start \in Nat, PlayQueue(tracks, start)
  PROVE  \E capped \in 0..Len(tracks) : PlayQueue(tracks, capped)
<1> DEFINE capped == MinOf(start, Len(tracks))
<1>1. Len(tracks) \in Nat
  BY BatchIsSeq
<1>2. capped \in 0..Len(tracks) /\ MinOf(capped, Len(tracks) - 1) = MinOf(start, Len(tracks) - 1)
  BY <1>1 DEF MinOf
<1> HIDE DEF capped
<1>3. PlayQueue(tracks, capped)
  BY <1>2 DEF PlayQueue
<1> QED
  BY <1>2, <1>3

LEMMA PerformIsCommand ==
  ASSUME IInv, QueueFits, NEW cmd \in Calls, Perform(cmd)
  PROVE  Next
<1>0. MaxQueue \in Nat /\ Len(queue) \in Nat /\ MaxIndex \in Nat
  BY PlaybackAssumption, RemoteAssumption, OrderFacts DEF IInv, TypeOK, OrderInv
<1>1. ASSUME cmd.op = "PlayQueue"
      PROVE  cmd.arg.tracks \in Batches /\ cmd.arg.start_index \in Nat
  <2>1. PICK tracks \in Uploads, i \in 0..MaxIndex :
          cmd = With("PlayQueue", [tracks |-> tracks, start_index |-> i])
    BY <1>1 DEF Calls, ControlMethods, MprisMethods, TransportKeys, With, Plain, play_pause, to_track_meta
  <2> QED
    BY <1>0, <2>1, RemoteAssumption DEF With
<1>2. ASSUME cmd.op \in {"PlayAt", "RemoveFromQueue"}
      PROVE  cmd.arg \in Nat
  BY <1>0, <1>2 DEF Calls, ControlMethods, MprisMethods, TransportKeys, With, Plain, play_pause, to_track_meta
<1>3. ASSUME cmd.op \in {"AppendQueue", "PlayNext"}
      PROVE  cmd.arg \in Batches
  BY <1>3, RemoteAssumption
     DEF Calls, ControlMethods, MprisMethods, TransportKeys, With, Plain, play_pause, to_track_meta
<1>4. ASSUME cmd.op = "MoveInQueue"
      PROVE  cmd.arg.from \in Nat /\ cmd.arg.to \in Nat
  <2>1. PICK i \in 0..MaxIndex, j \in 0..MaxIndex : cmd = With("MoveInQueue", [from |-> i, to |-> j])
    BY <1>4 DEF Calls, ControlMethods, MprisMethods, TransportKeys, With, Plain, play_pause, to_track_meta
  <2> QED
    BY <1>0, <2>1 DEF With
<1>5. ASSUME cmd.op \in {"Seek", "SetVolume", "SetRepeat", "SetShuffle"}
      PROVE  /\ cmd.op = "Seek" => cmd.arg \in 0..MaxPos
             /\ cmd.op = "SetVolume" => cmd.arg \in Volumes
             /\ cmd.op = "SetRepeat" => cmd.arg \in Repeats
             /\ cmd.op = "SetShuffle" => cmd.arg \in BOOLEAN
  BY <1>5 DEF Calls, ControlMethods, MprisMethods, TransportKeys, With, Plain, play_pause, to_track_meta
<1>6. CASE cmd.op = "PlayQueue" /\ PlayQueue(cmd.arg.tracks, cmd.arg.start_index)
  BY <1>1, <1>6, StartIsCapped DEF Next, Command, QueueCommand
<1>7. CASE cmd.op \in {"PlayAt", "RemoveFromQueue"} /\ (PlayAt(cmd.arg) \/ RemoveFromQueue(cmd.arg))
  <2>1. cmd.arg < Len(queue)
    BY <1>7 DEF PlayAt, RemoveFromQueue
  <2>2. cmd.arg \in 0..(MaxQueue - 1)
    BY <1>0, <1>2, <1>7, <2>1 DEF QueueFits
  <2> QED
    BY <1>7, <2>2 DEF Next, Command, QueueCommand
<1>8. CASE cmd.op \in {"AppendQueue", "PlayNext"} /\ (AppendQueue(cmd.arg) \/ PlayNext(cmd.arg))
  BY <1>3, <1>8 DEF Next, Command, QueueCommand
<1>9. CASE cmd.op = "MoveInQueue" /\ MoveInQueue(cmd.arg.from, cmd.arg.to)
  <2>1. cmd.arg.from \in 0..(MaxQueue - 1) /\ cmd.arg.to \in 0..(MaxQueue - 1)
    BY <1>0, <1>4, <1>9 DEF QueueFits, MoveInQueue
  <2> QED
    BY <1>9, <2>1 DEF Next, Command, QueueCommand
<1>10. CASE cmd.op = "Seek" /\ Seek(cmd.arg)
  BY <1>5, <1>10 DEF Next, Command, TransportCommand
<1>11. CASE \/ cmd.op = "SetVolume" /\ SetVolume(cmd.arg)
            \/ cmd.op = "SetRepeat" /\ SetRepeat(cmd.arg)
            \/ cmd.op = "SetShuffle" /\ SetShuffle(cmd.arg)
  BY <1>5, <1>11 DEF Next, Command, ModeCommand
<1>12. CASE ClearQueue \/ NextTrack \/ Previous \/ Pause \/ Resume \/ Stop \/ CycleRepeat
            \/ ToggleShuffle \/ Shutdown
  BY <1>12 DEF Next, Command, QueueCommand, TransportCommand, ModeCommand
<1> QED
  BY <1>6, <1>7, <1>8, <1>9, <1>10, <1>11, <1>12 DEF Perform

-----------------------------------------------------------------------------
(* The last event of a kind in a channel *)

LastIn(list, names) ==
  {k \in DOMAIN list : /\ list[k].op \in names
                       /\ \A later \in k + 1..Len(list) : list[later].op \notin names}

LEMMA LastExists ==
  ASSUME NEW S, NEW list \in Seq(S), NEW names, NEW n \in DOMAIN list, list[n].op \in names
  PROVE  LastIn(list, names) # {}
<1> DEFINE N == Len(list)
           T == {k \in 0..N : k \in DOMAIN list /\ list[k].op \in names}
<1>1. N \in Nat /\ DOMAIN list = 1..N
  OBVIOUS
<1>2. n \in T /\ T \in SUBSET (0..N)
  BY <1>1
<1>3. \E m \in T : \A k \in T : k <= m
  <2> HIDE DEF T, N
  <2> QED
    BY <1>1, <1>2, GreatestNatural
<1>4. PICK m \in T : \A k \in T : k <= m
  BY <1>3
<1>5. \A later \in m + 1..N : list[later].op \notin names
  BY <1>1, <1>4
<1> QED
  BY <1>1, <1>4, <1>5 DEF LastIn

(* An extended channel: the last event is one of the new ones, or as it was *)
Extends(longer, list, n) ==
  /\ Len(longer) = Len(list) + n
  /\ \A k \in 1..Len(list) : longer[k] = list[k]

LastMoves(longer, list, n, names) ==
  /\ (\A k \in 1..n : longer[Len(list) + k].op \notin names) =>
       LastIn(longer, names) = LastIn(list, names)
  /\ \A k \in 1..n :
       /\ longer[Len(list) + k].op \in names
       /\ \A later \in k + 1..n : longer[Len(list) + later].op \notin names
       => LastIn(longer, names) = {Len(list) + k}

LEMMA LastOfLonger ==
  ASSUME NEW S, NEW list \in Seq(S), NEW longer \in Seq(S), NEW n \in Nat, NEW names,
         Extends(longer, list, n)
  PROVE  LastMoves(longer, list, n, names)
<1> DEFINE N == Len(list)
<1>1. N \in Nat /\ DOMAIN list = 1..N /\ DOMAIN longer = 1..(N + n)
  BY DEF Extends
<1>2. \A k \in N + 1..N + n : k - N \in 1..n /\ k = N + (k - N)
  BY <1>1
<1>3. ASSUME \A k \in 1..n : longer[N + k].op \notin names
      PROVE  LastIn(longer, names) = LastIn(list, names)
  <2>1. \A k \in N + 1..N + n : longer[k].op \notin names
    BY <1>2, <1>3
  <2>2. \A k \in 1..N : longer[k] = list[k]
    BY DEF Extends
  <2>3. ASSUME NEW k \in LastIn(longer, names)
        PROVE  k \in LastIn(list, names)
    <3>1. k \in 1..N
      BY <1>1, <2>1, <2>3 DEF LastIn
    <3>2. \A later \in k + 1..N : list[later].op \notin names
      BY <1>1, <2>2, <2>3, <3>1 DEF LastIn
    <3> QED
      BY <1>1, <2>2, <2>3, <3>1, <3>2 DEF LastIn
  <2>4. ASSUME NEW k \in LastIn(list, names)
        PROVE  k \in LastIn(longer, names)
    <3>1. k \in 1..N /\ list[k].op \in names /\ \A later \in k + 1..N : list[later].op \notin names
      BY <1>1, <2>4 DEF LastIn
    <3>2. \A later \in k + 1..N + n : longer[later].op \notin names
      BY <1>1, <2>1, <2>2, <3>1
    <3> QED
      BY <1>1, <2>2, <3>1, <3>2 DEF LastIn
  <2> QED
    BY <2>3, <2>4
<1>4. ASSUME NEW k \in 1..n, longer[N + k].op \in names,
             \A later \in k + 1..n : longer[N + later].op \notin names
      PROVE  LastIn(longer, names) = {N + k}
  <2>1. \A later \in (N + k) + 1..N + n : longer[later].op \notin names
    <3>1. \A later \in (N + k) + 1..N + n : later - N \in k + 1..n /\ later = N + (later - N)
      BY <1>1
    <3> QED
      BY <1>4, <3>1
  <2>2. N + k \in 1..N + n
    BY <1>1
  <2>3. \A m \in 1..N + n : m # N + k => m \in (N + k) + 1..N + n \/ N + k \in m + 1..N + n
    BY <1>1
  <2> QED
    BY <1>1, <1>4, <2>1, <2>2, <2>3 DEF LastIn
<1> QED
  BY <1>3, <1>4 DEF LastMoves

(* A channel without its first event *)
LEMMA LastOfTail ==
  ASSUME NEW S, NEW list \in Seq(S), list # <<>>, NEW names
  PROVE  /\ \A k \in LastIn(Tail(list), names) : k + 1 \in LastIn(list, names) /\ Tail(list)[k] = list[k + 1]
         /\ LastIn(Tail(list), names) = {} =>
              IF list[1].op \in names THEN 1 \in LastIn(list, names) ELSE LastIn(list, names) = {}
<1> DEFINE N    == Len(list)
           rest == Tail(list)
<1>1. /\ N \in Nat \ {0} /\ DOMAIN list = 1..N
      /\ rest \in Seq(S) /\ Len(rest) = N - 1 /\ DOMAIN rest = 1..(N - 1)
      /\ \A k \in 1..(N - 1) : rest[k] = list[k + 1]
  OBVIOUS
<1> HIDE DEF rest
<1>2. ASSUME NEW k \in LastIn(rest, names)
      PROVE  k + 1 \in LastIn(list, names) /\ rest[k] = list[k + 1]
  <2>1. /\ k \in 1..(N - 1) /\ rest[k].op \in names
        /\ \A later \in k + 1..N - 1 : rest[later].op \notin names
    BY <1>1, <1>2 DEF LastIn
  <2>2. ASSUME NEW later \in (k + 1) + 1..N
        PROVE  list[later].op \notin names
    <3>1. later - 1 \in k + 1..N - 1 /\ later - 1 \in 1..(N - 1) /\ (later - 1) + 1 = later
      BY <1>1, <2>1
    <3> QED
      BY <1>1, <2>1, <3>1
  <2> QED
    BY <1>1, <2>1, <2>2 DEF LastIn
<1>3. ASSUME LastIn(rest, names) = {}
      PROVE  IF list[1].op \in names THEN 1 \in LastIn(list, names) ELSE LastIn(list, names) = {}
  <2>1. \A k \in 1..(N - 1) : rest[k].op \notin names
    BY <1>1, <1>3, LastExists
  <2>2. ASSUME NEW k \in 2..N
        PROVE  list[k].op \notin names
    <3>1. k - 1 \in 1..(N - 1) /\ (k - 1) + 1 = k
      BY <1>1
    <3> QED
      BY <1>1, <2>1, <3>1
  <2> QED
    BY <1>1, <2>2 DEF LastIn
<1> QED
  BY <1>2, <1>3 DEF rest

-----------------------------------------------------------------------------
(* Events and signals *)

LEMMA EventShapes ==
  ASSUME NEW event \in BridgeEvents
  PROVE  /\ event.op \in Kinds
         /\ event.op = "RepeatChanged" => event.arg \in Repeats
         /\ event.op = "ShuffleChanged" => event.arg \in BOOLEAN
<1>1. CASE event \in {With(name, NoTrack) : name \in Statuses \cup {"TrackChanged"}}
  BY <1>1 DEF With, Kinds, Statuses
<1>2. CASE event \in {With("RepeatChanged", mode) : mode \in Repeats}
  BY <1>2 DEF With, Kinds
<1>3. CASE event \in {With("ShuffleChanged", on) : on \in BOOLEAN}
  <2>1. PICK on \in BOOLEAN : event = With("ShuffleChanged", on)
    BY <1>3
  <2> QED
    BY <2>1 DEF With, Kinds
<1> QED
  BY <1>1, <1>2, <1>3 DEF BridgeEvents

LEMMA CarriedShapes ==
  ASSUME snap' \in SnapshotType
  PROVE  /\ \A s \in Statuses \cup {"TrackChanged"} : Carried(s) \in BridgeEvents /\ Carried(s).op = s
         /\ Carried("RepeatChanged") \in BridgeEvents /\ Carried("RepeatChanged").op = "RepeatChanged"
         /\ Carried("RepeatChanged").arg = snap'.repeat
         /\ Carried("ShuffleChanged") \in BridgeEvents /\ Carried("ShuffleChanged").op = "ShuffleChanged"
         /\ Carried("ShuffleChanged").arg = snap'.shuffle
<1>1. snap'.repeat \in Repeats /\ snap'.shuffle \in BOOLEAN
  BY DEF SnapshotType
<1>2. \A s \in Statuses \cup {"TrackChanged"} : Carried(s) = With(s, NoTrack)
  BY DEF Carried, Statuses
<1>3. Carried("RepeatChanged") = With("RepeatChanged", snap'.repeat)
  BY DEF Carried
<1>4. Carried("ShuffleChanged") = With("ShuffleChanged", snap'.shuffle)
  BY DEF Carried
<1>5. \A s \in Statuses \cup {"TrackChanged"} : Carried(s) \in BridgeEvents /\ Carried(s).op = s
  BY <1>2 DEF BridgeEvents, With
<1>6. /\ Carried("RepeatChanged") \in BridgeEvents /\ Carried("RepeatChanged").op = "RepeatChanged"
      /\ Carried("RepeatChanged").arg = snap'.repeat
  BY <1>1, <1>3 DEF BridgeEvents, With
<1>7. /\ Carried("ShuffleChanged") \in BridgeEvents /\ Carried("ShuffleChanged").op = "ShuffleChanged"
      /\ Carried("ShuffleChanged").arg = snap'.shuffle
  BY <1>1, <1>4 DEF BridgeEvents, With
<1> QED
  BY <1>5, <1>6, <1>7

(* The channel after a step that told the bridge of n names *)
LEMMA Relayed ==
  ASSUME unread \in Seq(BridgeEvents), Relay, snap' \in SnapshotType,
         NEW n \in Nat, Bridged \in [1..n -> Kinds]
  PROVE  /\ unread' \in Seq(BridgeEvents) /\ Len(unread') = Len(unread) + n
         /\ \A k \in 1..Len(unread) : unread'[k] = unread[k]
         /\ \A k \in 1..n : unread'[Len(unread) + k] = Carried(Bridged[k])
<1> DEFINE more == [k \in 1..n |-> Carried(Bridged[k])]
<1>1. DOMAIN Bridged = 1..n /\ unread' = unread \o [k \in DOMAIN Bridged |-> Carried(Bridged[k])]
  BY DEF Relay, Bridged
<1>2. unread' = unread \o more
  BY <1>1
<1>3. \A name \in Kinds : Carried(name) \in BridgeEvents
  BY CarriedShapes DEF Kinds
<1>4. more \in [1..n -> BridgeEvents]
  BY <1>3
<1>5. more \in Seq(BridgeEvents) /\ Len(more) = n /\ \A k \in 1..n : more[k] = Carried(Bridged[k])
  <2>1. more \in Seq(BridgeEvents)
    BY <1>4, SeqDef
  <2>2. Len(more) = n
    BY <1>4, <2>1
  <2> QED
    BY <2>1, <2>2
<1> HIDE DEF more
<1>6. /\ unread \o more \in Seq(BridgeEvents) /\ Len(unread \o more) = Len(unread) + n
      /\ \A k \in 1..Len(unread) : (unread \o more)[k] = unread[k]
      /\ \A k \in 1..n : (unread \o more)[Len(unread) + k] = more[k]
  BY <1>5
<1> QED
  BY <1>2, <1>5, <1>6

(* A step that adds no event of these names, or one last *)
LEMMA SameLast ==
  ASSUME unread \in Seq(BridgeEvents), Relay, snap' \in SnapshotType,
         NEW n \in Nat, Bridged \in [1..n -> Kinds], NEW names
  PROVE  /\ (\A k \in 1..n : Bridged[k] \notin names) =>
              /\ LastOf(names)' = LastOf(names)
              /\ \A k \in LastOf(names)' : unread'[k] = unread[k]
         /\ (n > 0 /\ Bridged[n] \in names) =>
              LastOf(names)' = {Len(unread) + n} /\ unread'[Len(unread) + n] = Carried(Bridged[n])
         /\ (\E k \in 1..n : Bridged[k] \in names) => LastOf(names)' # {}
<1>1. /\ unread' \in Seq(BridgeEvents) /\ Len(unread') = Len(unread) + n
      /\ \A k \in 1..Len(unread) : unread'[k] = unread[k]
      /\ \A k \in 1..n : unread'[Len(unread) + k] = Carried(Bridged[k])
  BY Relayed
<1>2. \A k \in 1..n : unread'[Len(unread) + k].op = Bridged[k]
  <2>1. \A name \in Kinds : Carried(name).op = name
    BY CarriedShapes DEF Kinds
  <2> QED
    BY <1>1, <2>1
<1>3. LastOf(names)' = LastIn(unread', names) /\ LastOf(names) = LastIn(unread, names)
  BY DEF LastOf, LastIn
<1>4. /\ (\A k \in 1..n : unread'[Len(unread) + k].op \notin names) =>
           LastIn(unread', names) = LastIn(unread, names)
      /\ \A k \in 1..n :
           /\ unread'[Len(unread) + k].op \in names
           /\ \A later \in k + 1..n : unread'[Len(unread) + later].op \notin names
           => LastIn(unread', names) = {Len(unread) + k}
  <2> DEFINE longer == unread'
  <2>1. longer \in Seq(BridgeEvents) /\ Extends(longer, unread, n)
    BY <1>1 DEF Extends
  <2> HIDE DEF longer
  <2>2. unread \in Seq(BridgeEvents) /\ n \in Nat
    OBVIOUS
  <2>3. LastMoves(longer, unread, n, names)
    BY <2>1, <2>2, LastOfLonger
  <2> QED
    BY <2>3 DEF longer, LastMoves
<1>5. ASSUME \A k \in 1..n : Bridged[k] \notin names
      PROVE  LastOf(names)' = LastOf(names) /\ \A k \in LastOf(names)' : unread'[k] = unread[k]
  <2>1. \A k \in LastIn(unread, names) : k \in 1..Len(unread)
    BY DEF LastIn
  <2> QED
    BY <1>1, <1>2, <1>3, <1>4, <1>5, <2>1
<1>6. ASSUME n > 0, Bridged[n] \in names
      PROVE  LastOf(names)' = {Len(unread) + n} /\ unread'[Len(unread) + n] = Carried(Bridged[n])
  <2>1. n \in 1..n /\ n + 1..n = {}
    BY <1>6
  <2> QED
    BY <1>1, <1>2, <1>3, <1>4, <1>6, <2>1
<1>7. ASSUME NEW k \in 1..n, Bridged[k] \in names
      PROVE  LastOf(names)' # {}
  <2>1. Len(unread) + k \in DOMAIN unread' /\ unread'[Len(unread) + k].op \in names
    BY <1>1, <1>2, <1>7
  <2> QED
    BY <1>1, <1>3, <2>1, LastExists
<1> QED
  BY <1>5, <1>6, <1>7

(* The four parts of BridgeConverges *)
StatusHeard ==
  /\ \A k \in LastOf(Statuses) : unread[k].op = snap.status
  /\ LastOf(Statuses) = {} => published.status = snap.status

RepeatHeard ==
  /\ \A k \in LastOf({"RepeatChanged"}) : unread[k].arg = snap.repeat
  /\ LastOf({"RepeatChanged"}) = {} => published.repeat = snap.repeat

ShuffleHeard ==
  /\ \A k \in LastOf({"ShuffleChanged"}) : unread[k].arg = snap.shuffle
  /\ LastOf({"ShuffleChanged"}) = {} => published.shuffle = snap.shuffle

TrackHeard ==
  LastOf({"TrackChanged"}) = {} /\ snap.track # NoTrack => published.track = snap.track

LEMMA PartsOfConverging ==
  BridgeConverges <=> StatusHeard /\ RepeatHeard /\ ShuffleHeard /\ TrackHeard
BY DEF BridgeConverges, StatusHeard, RepeatHeard, ShuffleHeard, TrackHeard

Relaying(n) ==
  /\ unread \in Seq(BridgeEvents) /\ Relay /\ snap' \in SnapshotType /\ UNCHANGED published
  /\ n \in Nat /\ Bridged \in [1..n -> Kinds]

LEMMA StatusRelayed ==
  ASSUME NEW n, Relaying(n), StatusHeard,
         \/ SameStatus /\ \A k \in 1..n : Bridged[k] \notin Statuses
         \/ n > 0 /\ Bridged[n] = snap'.status /\ snap'.status \in Statuses
  PROVE  StatusHeard'
<1>1. CASE SameStatus /\ \A k \in 1..n : Bridged[k] \notin Statuses
  <2>1. LastOf(Statuses)' = LastOf(Statuses) /\ \A k \in LastOf(Statuses)' : unread'[k] = unread[k]
    BY <1>1, SameLast DEF Relaying
  <2> QED
    BY <1>1, <2>1 DEF StatusHeard, SameStatus, Relaying
<1>2. CASE n > 0 /\ Bridged[n] = snap'.status /\ snap'.status \in Statuses
  <2>1. LastOf(Statuses)' = {Len(unread) + n} /\ unread'[Len(unread) + n] = Carried(Bridged[n])
    BY <1>2, SameLast DEF Relaying
  <2>2. Carried(snap'.status).op = snap'.status
    BY <1>2, CarriedShapes DEF Relaying
  <2> QED
    BY <1>2, <2>1, <2>2 DEF StatusHeard
<1> QED
  BY <1>1, <1>2

LEMMA RepeatRelayed ==
  ASSUME NEW n, Relaying(n), RepeatHeard,
         \/ SameRepeat /\ \A k \in 1..n : Bridged[k] # "RepeatChanged"
         \/ n > 0 /\ Bridged[n] = "RepeatChanged"
  PROVE  RepeatHeard'
<1> DEFINE names == {"RepeatChanged"}
<1>1. CASE SameRepeat /\ \A k \in 1..n : Bridged[k] # "RepeatChanged"
  <2>0. \A k \in 1..n : Bridged[k] \notin names
    BY <1>1
  <2> HIDE DEF names
  <2>1. LastOf(names)' = LastOf(names) /\ \A k \in LastOf(names)' : unread'[k] = unread[k]
    BY <2>0, SameLast DEF Relaying
  <2> USE DEF names
  <2> QED
    BY <1>1, <2>1 DEF RepeatHeard, SameRepeat, Relaying
<1>2. CASE n > 0 /\ Bridged[n] = "RepeatChanged"
  <2>0. Bridged[n] \in names
    BY <1>2
  <2> HIDE DEF names
  <2>1. LastOf(names)' = {Len(unread) + n} /\ unread'[Len(unread) + n] = Carried(Bridged[n])
    BY <1>2, <2>0, SameLast DEF Relaying
  <2> USE DEF names
  <2>2. Carried("RepeatChanged").arg = snap'.repeat
    BY CarriedShapes DEF Relaying
  <2> QED
    BY <1>2, <2>1, <2>2 DEF RepeatHeard
<1> QED
  BY <1>1, <1>2

LEMMA ShuffleRelayed ==
  ASSUME NEW n, Relaying(n), ShuffleHeard,
         \/ SameShuffle /\ \A k \in 1..n : Bridged[k] # "ShuffleChanged"
         \/ n > 0 /\ Bridged[n] = "ShuffleChanged"
  PROVE  ShuffleHeard'
<1> DEFINE names == {"ShuffleChanged"}
<1>1. CASE SameShuffle /\ \A k \in 1..n : Bridged[k] # "ShuffleChanged"
  <2>0. \A k \in 1..n : Bridged[k] \notin names
    BY <1>1
  <2> HIDE DEF names
  <2>1. LastOf(names)' = LastOf(names) /\ \A k \in LastOf(names)' : unread'[k] = unread[k]
    BY <2>0, SameLast DEF Relaying
  <2> USE DEF names
  <2> QED
    BY <1>1, <2>1 DEF ShuffleHeard, SameShuffle, Relaying
<1>2. CASE n > 0 /\ Bridged[n] = "ShuffleChanged"
  <2>0. Bridged[n] \in names
    BY <1>2
  <2> HIDE DEF names
  <2>1. LastOf(names)' = {Len(unread) + n} /\ unread'[Len(unread) + n] = Carried(Bridged[n])
    BY <1>2, <2>0, SameLast DEF Relaying
  <2> USE DEF names
  <2>2. Carried("ShuffleChanged").arg = snap'.shuffle
    BY CarriedShapes DEF Relaying
  <2> QED
    BY <1>2, <2>1, <2>2 DEF ShuffleHeard
<1> QED
  BY <1>1, <1>2

LEMMA TrackRelayed ==
  ASSUME NEW n, Relaying(n), TrackHeard,
         \/ SameTrack /\ \A k \in 1..n : Bridged[k] # "TrackChanged"
         \/ \E k \in 1..n : Bridged[k] = "TrackChanged"
  PROVE  TrackHeard'
<1> DEFINE names == {"TrackChanged"}
<1>1. CASE SameTrack /\ \A k \in 1..n : Bridged[k] # "TrackChanged"
  <2>0. \A k \in 1..n : Bridged[k] \notin names
    BY <1>1
  <2> HIDE DEF names
  <2>1. LastOf(names)' = LastOf(names)
    BY <2>0, SameLast DEF Relaying
  <2> USE DEF names
  <2> QED
    BY <1>1, <2>1 DEF TrackHeard, SameTrack, Relaying
<1>2. CASE \E k \in 1..n : Bridged[k] = "TrackChanged"
  <2>0. \E k \in 1..n : Bridged[k] \in names
    BY <1>2
  <2> HIDE DEF names
  <2>1. LastOf(names)' # {}
    BY <2>0, SameLast DEF Relaying
  <2> USE DEF names
  <2> QED
    BY <2>1 DEF TrackHeard
<1> QED
  BY <1>1, <1>2

LEMMA RelayConverges ==
  ASSUME unread \in Seq(BridgeEvents), Relay, snap' \in SnapshotType, UNCHANGED published,
         Told, BridgeConverges
  PROVE  /\ BridgeConverges'
         /\ unread' \in Seq(BridgeEvents) /\ Len(unread') <= Len(unread) + 2
<1>0. StatusHeard /\ RepeatHeard /\ ShuffleHeard /\ TrackHeard
  BY PartsOfConverging
<1>1. ASSUME NEW n \in 0..2, Relaying(n),
             StatusHeard', RepeatHeard', ShuffleHeard', TrackHeard'
      PROVE  /\ BridgeConverges'
             /\ unread' \in Seq(BridgeEvents) /\ Len(unread') <= Len(unread) + 2
  <2>1. BridgeConverges'
    BY <1>1, PartsOfConverging, PTL
  <2>2. unread' \in Seq(BridgeEvents) /\ Len(unread') = Len(unread) + n
    BY <1>1, Relayed DEF Relaying
  <2> QED
    BY <1>1, <2>1, <2>2
<1>2. \A s \in Statuses : s \in Kinds /\ s # "TrackChanged" /\ s # "RepeatChanged" /\ s # "ShuffleChanged"
  BY DEF Statuses, Kinds
<1>3. /\ {"TrackChanged", "RepeatChanged", "ShuffleChanged"} \subseteq Kinds
      /\ \A name \in {"TrackChanged", "RepeatChanged", "ShuffleChanged"} : name \notin Statuses
  BY DEF Statuses, Kinds
<1>4. CASE Bridged = <<>> /\ SameStatus /\ SameRepeat /\ SameShuffle /\ SameTrack
  <2>1. Relaying(0) /\ 1..0 = {}
    BY <1>4 DEF Relaying
  <2> QED
    BY <1>0, <1>1, <1>4, <2>1, StatusRelayed, RepeatRelayed, ShuffleRelayed, TrackRelayed
<1>5. ASSUME NEW name \in Kinds, Bridged = <<name>>
      PROVE  Relaying(1) /\ Bridged[1] = name /\ 1..1 = {1}
  BY <1>5 DEF Relaying
<1>6. CASE Bridged = <<snap'.status>> /\ snap'.status \in Statuses /\ SameRepeat /\ SameShuffle /\ SameTrack
  <2>1. Relaying(1) /\ Bridged[1] = snap'.status /\ 1..1 = {1}
    BY <1>2, <1>5, <1>6
  <2> QED
    BY <1>0, <1>1, <1>2, <1>6, <2>1, StatusRelayed, RepeatRelayed, ShuffleRelayed, TrackRelayed
<1>7. CASE Bridged = <<"RepeatChanged">> /\ SameStatus /\ SameShuffle /\ SameTrack
  <2>1. Relaying(1) /\ Bridged[1] = "RepeatChanged" /\ 1..1 = {1}
    BY <1>3, <1>5, <1>7
  <2> QED
    BY <1>0, <1>1, <1>3, <1>7, <2>1, StatusRelayed, RepeatRelayed, ShuffleRelayed, TrackRelayed
<1>8. CASE Bridged = <<"ShuffleChanged">> /\ SameStatus /\ SameRepeat /\ SameTrack
  <2>1. Relaying(1) /\ Bridged[1] = "ShuffleChanged" /\ 1..1 = {1}
    BY <1>3, <1>5, <1>8
  <2> QED
    BY <1>0, <1>1, <1>3, <1>8, <2>1, StatusRelayed, RepeatRelayed, ShuffleRelayed, TrackRelayed
<1>9. CASE Bridged = <<"TrackChanged", snap'.status>> /\ snap'.status \in Statuses /\ SameRepeat /\ SameShuffle
  <2>1. Bridged[1] = "TrackChanged" /\ Bridged[2] = snap'.status /\ 1..2 = {1, 2}
        /\ Bridged \in [1..2 -> Kinds]
    BY <1>2, <1>3, <1>9
  <2>2. Relaying(2)
    BY <2>1 DEF Relaying
  <2> QED
    BY <1>0, <1>1, <1>2, <1>9, <2>1, <2>2, StatusRelayed, RepeatRelayed, ShuffleRelayed, TrackRelayed
<1> QED
  BY <1>4, <1>6, <1>7, <1>8, <1>9 DEF Told

(* One event less in the channel *)
TailHears(names) ==
  /\ \A k \in LastOf(names)' : k + 1 \in LastOf(names) /\ unread'[k] = unread[k + 1]
  /\ LastOf(names)' = {} =>
       IF unread[1].op \in names THEN 1 \in LastOf(names) ELSE LastOf(names) = {}

LEMMA SignalConverges ==
  ASSUME unread \in Seq(BridgeEvents), snap \in SnapshotType,
         published \in [status : Statuses, track : MaybeTrack, repeat : Repeats, shuffle : BOOLEAN],
         bridge_playback_events_to_mpris, BridgeConverges
  PROVE  /\ BridgeConverges' /\ unread' \in Seq(BridgeEvents) /\ Len(unread') <= Len(unread)
         /\ published' \in [status : Statuses, track : MaybeTrack, repeat : Repeats, shuffle : BOOLEAN]
<1> DEFINE event == Head(unread)
<1>1. /\ unread # <<>> /\ unread' = Tail(unread) /\ published' = Signalled(published, event)
      /\ UNCHANGED snap
  BY DEF bridge_playback_events_to_mpris, vars
<1>2. /\ event \in BridgeEvents /\ event = unread[1] /\ unread' \in Seq(BridgeEvents)
      /\ Len(unread') <= Len(unread)
  BY <1>1
<1>3. ASSUME NEW names
      PROVE  TailHears(names)
  <2>1. LastOf(names)' = LastIn(unread', names) /\ LastOf(names) = LastIn(unread, names)
    BY DEF LastOf, LastIn
  <2>2. unread \in Seq(BridgeEvents) /\ unread # <<>>
    BY <1>1
  <2>3. /\ \A k \in LastIn(Tail(unread), names) : k + 1 \in LastIn(unread, names) /\ Tail(unread)[k] = unread[k + 1]
        /\ LastIn(Tail(unread), names) = {} =>
             IF unread[1].op \in names THEN 1 \in LastIn(unread, names) ELSE LastIn(unread, names) = {}
    BY ONLY <2>2, LastOfTail
  <2> QED
    BY <1>1, <2>1, <2>3 DEF TailHears
<1>4. StatusHeard /\ RepeatHeard /\ ShuffleHeard /\ TrackHeard
  BY PartsOfConverging
<1>5. \A s \in Statuses : s # "TrackChanged" /\ s # "RepeatChanged" /\ s # "ShuffleChanged"
  BY DEF Statuses
<1>6. /\ published = [status |-> published.status, track |-> published.track,
                      repeat |-> published.repeat, shuffle |-> published.shuffle]
      /\ published.status \in Statuses /\ published.track \in MaybeTrack
      /\ published.repeat \in Repeats /\ published.shuffle \in BOOLEAN
      /\ snap.track \in MaybeTrack
  BY DEF SnapshotType
<1> HIDE DEF event
<1>7. CASE event.op \in Statuses
  <2>1. published' = [published EXCEPT !.status = event.op] /\ event.op \in Statuses
    BY <1>1, <1>2, <1>5, <1>6, <1>7, EventShapes DEF Signalled
  <2>2. published' = [status |-> event.op, track |-> published.track, repeat |-> published.repeat, shuffle |-> published.shuffle]
    BY <1>6, <2>1
  <2>3. published'.status = event.op /\ published'.track = published.track
        /\ published'.repeat = published.repeat /\ published'.shuffle = published.shuffle
    BY <2>2
  <2>4. published' \in [status : Statuses, track : MaybeTrack, repeat : Repeats, shuffle : BOOLEAN]
    BY <1>6, <2>1, <2>2
  <2>5. StatusHeard'
    <3>1. TailHears(Statuses) /\ event.op \in Statuses
      BY <1>3, <1>7
    <3>2. ASSUME NEW k \in LastOf(Statuses)'
          PROVE  unread'[k].op = snap'.status
      BY <1>1, <1>4, <3>1 DEF StatusHeard, TailHears
    <3>3. ASSUME LastOf(Statuses)' = {}
          PROVE  published'.status = snap'.status
      BY <1>1, <1>2, <1>4, <2>3, <3>1, <3>3 DEF StatusHeard, TailHears
    <3> QED
      BY <3>2, <3>3 DEF StatusHeard
  <2>6. TrackHeard'
    <3>1. event.op \notin {"TrackChanged"}
      BY <1>5, <1>7
    <3> QED
      BY <1>1, <1>2, <1>3, <1>4, <2>3, <3>1 DEF TrackHeard, TailHears
  <2>7. RepeatHeard'
    <3>1. TailHears({"RepeatChanged"}) /\ event.op \notin {"RepeatChanged"}
      BY <1>3, <1>5, <1>7
    <3>2. ASSUME NEW k \in LastOf({"RepeatChanged"})'
          PROVE  unread'[k].arg = snap'.repeat
      BY <1>1, <1>4, <3>1 DEF RepeatHeard, TailHears
    <3>3. ASSUME LastOf({"RepeatChanged"})' = {}
          PROVE  published'.repeat = snap'.repeat
      BY <1>1, <1>2, <1>4, <2>3, <3>1, <3>3 DEF RepeatHeard, TailHears
    <3> QED
      BY <3>2, <3>3 DEF RepeatHeard
  <2>8. ShuffleHeard'
    <3>1. TailHears({"ShuffleChanged"}) /\ event.op \notin {"ShuffleChanged"}
      BY <1>3, <1>5, <1>7
    <3>2. ASSUME NEW k \in LastOf({"ShuffleChanged"})'
          PROVE  unread'[k].arg = snap'.shuffle
      BY <1>1, <1>4, <3>1 DEF ShuffleHeard, TailHears
    <3>3. ASSUME LastOf({"ShuffleChanged"})' = {}
          PROVE  published'.shuffle = snap'.shuffle
      BY <1>1, <1>2, <1>4, <2>3, <3>1, <3>3 DEF ShuffleHeard, TailHears
    <3> QED
      BY <3>2, <3>3 DEF ShuffleHeard
  <2>9. BridgeConverges'
    BY <2>5, <2>6, <2>7, <2>8, PartsOfConverging, PTL
  <2> QED
    BY <1>2, <2>4, <2>9
<1>8. CASE event.op = "TrackChanged"
  <2>1. published' = [published EXCEPT !.track = snap.track] /\ snap.track \in MaybeTrack
    BY <1>1, <1>2, <1>5, <1>6, <1>8, EventShapes DEF Signalled
  <2>2. published' = [status |-> published.status, track |-> snap.track, repeat |-> published.repeat, shuffle |-> published.shuffle]
    BY <1>6, <2>1
  <2>3. published'.status = published.status /\ published'.track = snap.track
        /\ published'.repeat = published.repeat /\ published'.shuffle = published.shuffle
    BY <2>2
  <2>4. published' \in [status : Statuses, track : MaybeTrack, repeat : Repeats, shuffle : BOOLEAN]
    BY <1>6, <2>1, <2>2
  <2>5. TrackHeard'
    BY <1>1, <1>2, <1>3, <1>4, <1>8, <2>3 DEF TrackHeard
  <2>6. StatusHeard'
    <3>1. TailHears(Statuses) /\ event.op \notin Statuses
      BY <1>3, <1>5, <1>8
    <3>2. ASSUME NEW k \in LastOf(Statuses)'
          PROVE  unread'[k].op = snap'.status
      BY <1>1, <1>4, <3>1 DEF StatusHeard, TailHears
    <3>3. ASSUME LastOf(Statuses)' = {}
          PROVE  published'.status = snap'.status
      BY <1>1, <1>2, <1>4, <2>3, <3>1, <3>3 DEF StatusHeard, TailHears
    <3> QED
      BY <3>2, <3>3 DEF StatusHeard
  <2>7. RepeatHeard'
    <3>1. TailHears({"RepeatChanged"}) /\ event.op \notin {"RepeatChanged"}
      BY <1>3, <1>5, <1>8
    <3>2. ASSUME NEW k \in LastOf({"RepeatChanged"})'
          PROVE  unread'[k].arg = snap'.repeat
      BY <1>1, <1>4, <3>1 DEF RepeatHeard, TailHears
    <3>3. ASSUME LastOf({"RepeatChanged"})' = {}
          PROVE  published'.repeat = snap'.repeat
      BY <1>1, <1>2, <1>4, <2>3, <3>1, <3>3 DEF RepeatHeard, TailHears
    <3> QED
      BY <3>2, <3>3 DEF RepeatHeard
  <2>8. ShuffleHeard'
    <3>1. TailHears({"ShuffleChanged"}) /\ event.op \notin {"ShuffleChanged"}
      BY <1>3, <1>5, <1>8
    <3>2. ASSUME NEW k \in LastOf({"ShuffleChanged"})'
          PROVE  unread'[k].arg = snap'.shuffle
      BY <1>1, <1>4, <3>1 DEF ShuffleHeard, TailHears
    <3>3. ASSUME LastOf({"ShuffleChanged"})' = {}
          PROVE  published'.shuffle = snap'.shuffle
      BY <1>1, <1>2, <1>4, <2>3, <3>1, <3>3 DEF ShuffleHeard, TailHears
    <3> QED
      BY <3>2, <3>3 DEF ShuffleHeard
  <2>9. BridgeConverges'
    BY <2>5, <2>6, <2>7, <2>8, PartsOfConverging, PTL
  <2> QED
    BY <1>2, <2>4, <2>9
<1>9. CASE event.op = "RepeatChanged"
  <2>1. published' = [published EXCEPT !.repeat = event.arg] /\ event.arg \in Repeats
    BY <1>1, <1>2, <1>5, <1>6, <1>9, EventShapes DEF Signalled
  <2>2. published' = [status |-> published.status, track |-> published.track, repeat |-> event.arg, shuffle |-> published.shuffle]
    BY <1>6, <2>1
  <2>3. published'.status = published.status /\ published'.track = published.track
        /\ published'.repeat = event.arg /\ published'.shuffle = published.shuffle
    BY <2>2
  <2>4. published' \in [status : Statuses, track : MaybeTrack, repeat : Repeats, shuffle : BOOLEAN]
    BY <1>6, <2>1, <2>2
  <2>5. RepeatHeard'
    <3>1. TailHears({"RepeatChanged"}) /\ event.op \in {"RepeatChanged"}
      BY <1>3, <1>9
    <3>2. ASSUME NEW k \in LastOf({"RepeatChanged"})'
          PROVE  unread'[k].arg = snap'.repeat
      BY <1>1, <1>4, <3>1 DEF RepeatHeard, TailHears
    <3>3. ASSUME LastOf({"RepeatChanged"})' = {}
          PROVE  published'.repeat = snap'.repeat
      BY <1>1, <1>2, <1>4, <2>3, <3>1, <3>3 DEF RepeatHeard, TailHears
    <3> QED
      BY <3>2, <3>3 DEF RepeatHeard
  <2>6. StatusHeard'
    <3>1. TailHears(Statuses) /\ event.op \notin Statuses
      BY <1>3, <1>5, <1>9
    <3>2. ASSUME NEW k \in LastOf(Statuses)'
          PROVE  unread'[k].op = snap'.status
      BY <1>1, <1>4, <3>1 DEF StatusHeard, TailHears
    <3>3. ASSUME LastOf(Statuses)' = {}
          PROVE  published'.status = snap'.status
      BY <1>1, <1>2, <1>4, <2>3, <3>1, <3>3 DEF StatusHeard, TailHears
    <3> QED
      BY <3>2, <3>3 DEF StatusHeard
  <2>7. TrackHeard'
    <3>1. event.op \notin {"TrackChanged"}
      BY <1>5, <1>9
    <3> QED
      BY <1>1, <1>2, <1>3, <1>4, <2>3, <3>1 DEF TrackHeard, TailHears
  <2>8. ShuffleHeard'
    <3>1. TailHears({"ShuffleChanged"}) /\ event.op \notin {"ShuffleChanged"}
      BY <1>3, <1>5, <1>9
    <3>2. ASSUME NEW k \in LastOf({"ShuffleChanged"})'
          PROVE  unread'[k].arg = snap'.shuffle
      BY <1>1, <1>4, <3>1 DEF ShuffleHeard, TailHears
    <3>3. ASSUME LastOf({"ShuffleChanged"})' = {}
          PROVE  published'.shuffle = snap'.shuffle
      BY <1>1, <1>2, <1>4, <2>3, <3>1, <3>3 DEF ShuffleHeard, TailHears
    <3> QED
      BY <3>2, <3>3 DEF ShuffleHeard
  <2>9. BridgeConverges'
    BY <2>5, <2>6, <2>7, <2>8, PartsOfConverging, PTL
  <2> QED
    BY <1>2, <2>4, <2>9
<1>10. CASE event.op = "ShuffleChanged"
  <2>1. published' = [published EXCEPT !.shuffle = event.arg] /\ event.arg \in BOOLEAN
    BY <1>1, <1>2, <1>5, <1>6, <1>10, EventShapes DEF Signalled
  <2>2. published' = [status |-> published.status, track |-> published.track, repeat |-> published.repeat, shuffle |-> event.arg]
    BY <1>6, <2>1
  <2>3. published'.status = published.status /\ published'.track = published.track
        /\ published'.repeat = published.repeat /\ published'.shuffle = event.arg
    BY <2>2
  <2>4. published' \in [status : Statuses, track : MaybeTrack, repeat : Repeats, shuffle : BOOLEAN]
    BY <1>6, <2>1, <2>2
  <2>5. ShuffleHeard'
    <3>1. TailHears({"ShuffleChanged"}) /\ event.op \in {"ShuffleChanged"}
      BY <1>3, <1>10
    <3>2. ASSUME NEW k \in LastOf({"ShuffleChanged"})'
          PROVE  unread'[k].arg = snap'.shuffle
      BY <1>1, <1>4, <3>1 DEF ShuffleHeard, TailHears
    <3>3. ASSUME LastOf({"ShuffleChanged"})' = {}
          PROVE  published'.shuffle = snap'.shuffle
      BY <1>1, <1>2, <1>4, <2>3, <3>1, <3>3 DEF ShuffleHeard, TailHears
    <3> QED
      BY <3>2, <3>3 DEF ShuffleHeard
  <2>6. StatusHeard'
    <3>1. TailHears(Statuses) /\ event.op \notin Statuses
      BY <1>3, <1>5, <1>10
    <3>2. ASSUME NEW k \in LastOf(Statuses)'
          PROVE  unread'[k].op = snap'.status
      BY <1>1, <1>4, <3>1 DEF StatusHeard, TailHears
    <3>3. ASSUME LastOf(Statuses)' = {}
          PROVE  published'.status = snap'.status
      BY <1>1, <1>2, <1>4, <2>3, <3>1, <3>3 DEF StatusHeard, TailHears
    <3> QED
      BY <3>2, <3>3 DEF StatusHeard
  <2>7. TrackHeard'
    <3>1. event.op \notin {"TrackChanged"}
      BY <1>5, <1>10
    <3> QED
      BY <1>1, <1>2, <1>3, <1>4, <2>3, <3>1 DEF TrackHeard, TailHears
  <2>8. RepeatHeard'
    <3>1. TailHears({"RepeatChanged"}) /\ event.op \notin {"RepeatChanged"}
      BY <1>3, <1>5, <1>10
    <3>2. ASSUME NEW k \in LastOf({"RepeatChanged"})'
          PROVE  unread'[k].arg = snap'.repeat
      BY <1>1, <1>4, <3>1 DEF RepeatHeard, TailHears
    <3>3. ASSUME LastOf({"RepeatChanged"})' = {}
          PROVE  published'.repeat = snap'.repeat
      BY <1>1, <1>2, <1>4, <2>3, <3>1, <3>3 DEF RepeatHeard, TailHears
    <3> QED
      BY <3>2, <3>3 DEF RepeatHeard
  <2>9. BridgeConverges'
    BY <2>5, <2>6, <2>7, <2>8, PartsOfConverging, PTL
  <2> QED
    BY <1>2, <2>4, <2>9
<1> QED
  BY <1>2, <1>7, <1>8, <1>9, <1>10, EventShapes DEF Kinds

-----------------------------------------------------------------------------
(* The invariant that is inductive *)

RemoteInv == IInv /\ QueueFits /\ RemoteTypeOK /\ BridgeConverges

(* A step of the engine, or the turn of a command that is dropped *)
Dropped ==
  /\ events' = <<>> /\ scrobbles' = <<>>
  /\ UNCHANGED <<phase, order, modes, player, loudness, snap>>

LEMMA IgnoredIsDropped ==
  ASSUME NEW cmd, Ignore(cmd)
  PROVE  Dropped
BY DEF Ignore, Dropped

LEMMA DropIsSafe ==
  ASSUME IInv, QueueFits, Dropped
  PROVE  IInv' /\ QueueFits'
<1>1. /\ UNCHANGED <<phase, queue, index, play_order, order_pos, repeat, shuffle, current, sink, pos,
                     volume, volume_factor, snap>>
      /\ events' = <<>> /\ scrobbles' = <<>>
  BY DEF Dropped, order, modes, player, loudness
<1>2. <<>> \in Seq(EventNames) /\ <<>> \in Seq([id : Tracks, submission : BOOLEAN])
  OBVIOUS
<1>3. TypeOK'
  BY <1>1, <1>2 DEF IInv, TypeOK
<1>4. /\ PlayOrderInSync' /\ CurrentIsQueued' /\ SnapshotAgrees'
      /\ FactorOfCurrent' /\ StoppedIsDark' /\ QueueFits'
  BY <1>1 DEF IInv, PlayOrderInSync, CurrentIsQueued, SnapshotAgrees, FactorOfCurrent,
     StoppedIsDark, QueueFits, Settled, Ready
<1> QED
  BY <1>3, <1>4 DEF IInv

LEMMA EngineIsSafe ==
  ASSUME IInv, QueueFits, Next \/ Dropped
  PROVE  IInv' /\ QueueFits' /\ Told
<1>1. CASE Next
  BY <1>1, StepIsSafe, FitsStep, StepTells
<1>2. CASE Dropped
  <2>1. Told
    BY <1>2, QuietTells DEF Dropped, SameStatus, SameRepeat, SameShuffle, SameTrack
  <2> QED
    BY <1>2, <2>1, DropIsSafe
<1> QED
  BY <1>1, <1>2

LEMMA EngineConverges ==
  ASSUME RemoteInv, Next \/ Dropped, Relay, UNCHANGED published
  PROVE  /\ IInv' /\ QueueFits' /\ BridgeConverges'
         /\ unread' \in Seq(BridgeEvents) /\ Len(unread') <= Len(unread) + 2
<1>1. IInv' /\ QueueFits' /\ Told
  BY EngineIsSafe DEF RemoteInv
<1>2. snap' \in SnapshotType
  BY <1>1 DEF IInv, TypeOK
<1> QED
  BY <1>1, <1>2, RelayConverges DEF RemoteInv, RemoteTypeOK

(* Opening the output sends nothing the bridge acts on *)
LEMMA OpeningTellsNothing ==
  ASSUME RemoteInv, OpenOutputStream, Relay
  PROVE  unread' \in Seq(BridgeEvents) /\ Len(unread') = Len(unread)
<1>1. Bridged = <<>>
  <2>1. "Stopped" \in Statuses
    BY DEF Statuses
  <2> QED
    BY <2>1, FewEvents DEF OpenOutputStream, Bridged
<1>2. Bridged \in [1..0 -> Kinds]
  BY <1>1
<1>3. snap' \in SnapshotType
  BY DEF RemoteInv, IInv, TypeOK, OpenOutputStream
<1> QED
  BY <1>2, <1>3, Relayed DEF RemoteInv, RemoteTypeOK

(* The space bar of an MPRIS client sends what others send too: what the    *)
(* clients may call is the same at any moment.                              *)
Standing ==
  {Plain(op) : op \in {"Next", "Previous", "Pause", "Stop", "Resume"}}
    \cup {With("Seek", target) : target \in 0..MaxPos}
    \cup {With("SetRepeat", mode) : mode \in Repeats}
    \cup {With("SetShuffle", on) : on \in BOOLEAN}
    \cup {With("SetVolume", v) : v \in Volumes}

LEMMA CallsAre == Calls = ControlMethods \cup Standing \cup TransportKeys \cup {Plain("Shutdown")}
<1>1. play_pause \in Standing
  <2>1. play_pause = Plain("Pause") \/ play_pause = Plain("Resume")
    BY DEF play_pause
  <2>2. Plain("Pause") \in Standing /\ Plain("Resume") \in Standing
    BY DEF Standing
  <2> QED
    BY <2>1, <2>2
<1>2. MprisMethods = {play_pause} \cup Standing
  BY DEF MprisMethods, Standing
<1> HIDE DEF Standing
<1> QED
  BY <1>1, <1>2 DEF Calls

LEMMA CallsStay == Calls' = Calls
<1>1. play_pause' \in Standing
  <2>1. play_pause' = Plain("Pause") \/ play_pause' = Plain("Resume")
    BY DEF play_pause, Plain
  <2>2. Plain("Pause") \in Standing /\ Plain("Resume") \in Standing
    BY DEF Standing
  <2> QED
    BY <2>1, <2>2
<1>2. MprisMethods' = {play_pause'} \cup Standing
  BY DEF MprisMethods, Standing, Plain, With
<1>3. /\ ControlMethods' = ControlMethods /\ TransportKeys' = TransportKeys
      /\ Plain("Shutdown")' = Plain("Shutdown")
  BY DEF ControlMethods, TransportKeys, Plain, With, to_track_meta
<1>4. Calls' = ControlMethods \cup MprisMethods' \cup TransportKeys \cup {Plain("Shutdown")}
  BY <1>3 DEF Calls
<1> QED
  BY <1>1, <1>2, <1>4, CallsAre

(* The channels, named one by one for the steps below *)
LEMMA ChannelTypes ==
  ASSUME sends' \in 0..MaxSends, pending' \in Seq(Calls), Len(pending') <= sends',
         phase' = "exited" => pending' = <<>>,
         unread' \in Seq(BridgeEvents), Len(unread') <= MaxUnread + 2,
         published' \in [status : Statuses, track : MaybeTrack, repeat : Repeats, shuffle : BOOLEAN]
  PROVE  RemoteTypeOK'
<1>1. BridgeEvents' = BridgeEvents /\ Statuses' = Statuses /\ MaybeTrack' = MaybeTrack /\ Repeats' = Repeats
  BY DEF BridgeEvents, Statuses, MaybeTrack, Repeats, With
<1> QED
  BY <1>1, CallsStay DEF RemoteTypeOK

LEMMA RemoteStarts == RemoteInit => RemoteInv
<1> SUFFICES ASSUME RemoteInit
             PROVE  RemoteInv
  OBVIOUS
<1>1. IInv
  BY InitIsSafe DEF RemoteInit
<1>2. QueueFits
  BY PlaybackAssumption DEF RemoteInit, Init, QueueFits
<1>3. RemoteTypeOK
  <2>1. pending = <<>> /\ unread = <<>> /\ sends = 0 /\ phase = "opening"
    BY DEF RemoteInit, Init
  <2>2. published \in [status : Statuses, track : MaybeTrack, repeat : Repeats, shuffle : BOOLEAN]
    BY DEF RemoteInit, Statuses, MaybeTrack, Repeats
  <2> QED
    BY <2>1, <2>2, RemoteAssumption DEF RemoteTypeOK
<1>4. BridgeConverges
  <2>1. \A names : LastOf(names) = {}
    BY DEF RemoteInit, LastOf
  <2>2. /\ published.status = "Stopped" /\ published.repeat = "off" /\ published.shuffle = FALSE
        /\ snap.status = "Stopped" /\ snap.repeat = "off" /\ snap.shuffle = FALSE /\ snap.track = NoTrack
    BY DEF RemoteInit, Init
  <2> QED
    BY <2>1, <2>2 DEF BridgeConverges
<1> QED
  BY <1>1, <1>2, <1>3, <1>4 DEF RemoteInv

LEMMA RemoteSteps == RemoteInv /\ [RemoteNext]_remoteVars => RemoteInv'
<1> SUFFICES ASSUME RemoteInv, [RemoteNext]_remoteVars
             PROVE  RemoteInv'
  OBVIOUS
<1> USE RemoteAssumption
<1>0. /\ IInv /\ QueueFits /\ RemoteTypeOK /\ BridgeConverges
      /\ sends \in Nat /\ pending \in Seq(Calls) /\ unread \in Seq(BridgeEvents)
  BY DEF RemoteInv, RemoteTypeOK
<1>1. ASSUME UNCHANGED <<vars, unread, published>>, sends' \in 0..MaxSends,
             pending' \in Seq(Calls), Len(pending') <= sends', phase = "exited" => pending' = <<>>
      PROVE  RemoteInv'
  <2>1. IInv'
    BY <1>0, <1>1, StepIsSafe
  <2>2. UNCHANGED <<queue, snap, phase>>
    BY <1>1 DEF vars, order
  <2>3. QueueFits'
    BY <1>0, <2>2 DEF QueueFits
  <2>4. BridgeConverges'
    BY <1>0, <1>1, <2>2 DEF BridgeConverges, LastOf
  <2>5. RemoteTypeOK'
    <3>1. /\ Len(unread') <= MaxUnread + 2 /\ unread' \in Seq(BridgeEvents)
          /\ published' \in [status : Statuses, track : MaybeTrack, repeat : Repeats, shuffle : BOOLEAN]
          /\ phase' = "exited" => pending' = <<>>
      BY <1>0, <1>1, <2>2 DEF RemoteTypeOK
    <3> QED
      BY <1>1, <3>1, ChannelTypes
  <2> QED
    BY <2>1, <2>3, <2>4, <2>5 DEF RemoteInv
<1>2. ASSUME Next \/ Dropped, Relay, UNCHANGED <<sends, published>>, Len(unread') <= MaxUnread + 2,
             pending' \in Seq(Calls), Len(pending') <= Len(pending), phase' = "exited" => pending' = <<>>
      PROVE  RemoteInv'
  <2>1. IInv' /\ QueueFits' /\ BridgeConverges' /\ unread' \in Seq(BridgeEvents)
    BY <1>2, EngineConverges
  <2>2. RemoteTypeOK'
    <3>1. /\ sends' \in 0..MaxSends
          /\ published' \in [status : Statuses, track : MaybeTrack, repeat : Repeats, shuffle : BOOLEAN]
      BY <1>0, <1>2 DEF RemoteTypeOK
    <3>2. Len(pending') <= sends'
      <4>1. Len(pending) <= sends /\ sends' = sends /\ Len(pending) \in Nat /\ Len(pending') \in Nat
        BY <1>0, <1>2 DEF RemoteTypeOK
      <4> QED
        BY <1>0, <1>2, <4>1
    <3> QED
      BY <1>2, <2>1, <3>1, <3>2, ChannelTypes
  <2> QED
    BY <2>1, <2>2 DEF RemoteInv
<1>3. ASSUME Len(unread) <= MaxUnread, Next \/ Dropped, Relay, UNCHANGED published
      PROVE  Len(unread') <= MaxUnread + 2
  <2>1. unread' \in Seq(BridgeEvents) /\ Len(unread') <= Len(unread) + 2
    BY <1>3, EngineConverges
  <2> QED
    BY <1>0, <1>3, <2>1
<1>4. CASE Client
  <2>1. PICK cmd \in Calls : Send(cmd)
    BY <1>4 DEF Client
  <2>2. /\ sends < MaxSends /\ sends' = sends + 1 /\ UNCHANGED <<vars, unread, published>>
        /\ pending' = IF phase = "exited" THEN pending ELSE Append(pending, cmd)
    BY <2>1 DEF Send
  <2>3. /\ pending' \in Seq(Calls) /\ Len(pending') <= Len(pending) + 1
        /\ phase = "exited" => pending' = <<>>
    BY <1>0, <2>2 DEF RemoteTypeOK
  <2> QED
    BY <1>0, <1>1, <2>2, <2>3 DEF RemoteTypeOK
<1>5. CASE TakeCommand
  <2>1. /\ Perform(Head(pending)) \/ Ignore(Head(pending))
        /\ pending # <<>> /\ Len(unread) <= MaxUnread /\ pending' = Rest /\ Relay
        /\ UNCHANGED <<sends, published>>
    BY <1>5 DEF TakeCommand
  <2>2. Head(pending) \in Calls /\ Tail(pending) \in Seq(Calls) /\ Len(Tail(pending)) <= Len(pending)
    BY <1>0, <2>1
  <2>3. Next \/ Dropped
    BY <1>0, <2>1, <2>2, PerformIsCommand, IgnoredIsDropped
  <2>4. pending' \in Seq(Calls) /\ Len(pending') <= Len(pending) /\ (phase' = "exited" => pending' = <<>>)
    BY <1>0, <2>1, <2>2 DEF Rest
  <2> QED
    BY <1>2, <1>3, <2>1, <2>3, <2>4
<1>6. CASE Poll \/ Load
  <2>1. /\ Len(unread) <= MaxUnread /\ Relay /\ UNCHANGED <<pending, sends, published>>
        /\ (poll_progress /\ pending = <<>>) \/ LoadSucceeds \/ LoadFails
    BY <1>6 DEF Poll, Load
  <2>2. Next
    BY <2>1 DEF Next, EngineStep
  <2>3. phase' = "exited" => pending' = <<>>
    BY <2>1 DEF LoadSucceeds, LoadFails
  <2> QED
    BY <1>0, <1>2, <1>3, <2>1, <2>2, <2>3
<1>7. CASE Opening
  <2>1. /\ OpenOutputStream /\ Relay /\ UNCHANGED <<sends, published>>
        /\ pending' = IF phase' = "exited" THEN <<>> ELSE pending
    BY <1>7 DEF Opening
  <2>2. Next
    BY <2>1 DEF Next, EngineStep
  <2>3. Len(unread') <= MaxUnread + 2
    BY <1>0, <2>1, OpeningTellsNothing DEF RemoteTypeOK
  <2>4. pending' \in Seq(Calls) /\ Len(pending') <= Len(pending)
    BY <1>0, <2>1
  <2> QED
    BY <1>2, <2>1, <2>2, <2>3, <2>4
<1>8. CASE Audio
  <2>1. AudioStep /\ UNCHANGED <<pending, sends, unread, published, snap, phase, queue>>
    BY <1>8 DEF Audio, channels, AudioStep, SinkPlays, SourceEnds, order
  <2>2. IInv'
    BY <1>0, <2>1, StepIsSafe DEF Next
  <2>3. QueueFits'
    BY <1>0, <2>1 DEF QueueFits
  <2>4. BridgeConverges'
    BY <1>0, <2>1 DEF BridgeConverges, LastOf
  <2>5. RemoteTypeOK'
    BY <1>0, <2>1, ChannelTypes DEF RemoteTypeOK
  <2> QED
    BY <2>2, <2>3, <2>4, <2>5 DEF RemoteInv
<1>9. CASE bridge_playback_events_to_mpris
  <2>1. UNCHANGED <<vars, pending, sends>> /\ UNCHANGED <<phase, queue>>
    BY <1>9 DEF bridge_playback_events_to_mpris, vars, order
  <2>2. IInv' /\ QueueFits'
    BY <1>0, <2>1, StepIsSafe DEF QueueFits
  <2>3. snap \in SnapshotType
    BY <1>0 DEF IInv, TypeOK
  <2>4. /\ BridgeConverges' /\ unread' \in Seq(BridgeEvents) /\ Len(unread') <= Len(unread)
        /\ published' \in [status : Statuses, track : MaybeTrack, repeat : Repeats, shuffle : BOOLEAN]
    BY <1>0, <1>9, <2>3, SignalConverges DEF RemoteTypeOK
  <2>5. RemoteTypeOK'
    <3>1. /\ sends' \in 0..MaxSends /\ pending' \in Seq(Calls) /\ Len(pending') <= sends'
          /\ phase' = "exited" => pending' = <<>>
      BY <1>0, <2>1 DEF RemoteTypeOK
    <3>2. Len(unread') <= MaxUnread + 2
      <4>1. Len(unread) <= MaxUnread + 2 /\ Len(unread) \in Nat /\ Len(unread') \in Nat
        BY <1>0, <2>4 DEF RemoteTypeOK
      <4> QED
        BY <2>4, <4>1
    <3> QED
      BY <2>4, <3>1, <3>2, ChannelTypes
  <2> QED
    BY <2>2, <2>4, <2>5 DEF RemoteInv
<1>10. CASE UNCHANGED remoteVars
  <2>1. UNCHANGED <<vars, unread, published, pending, sends>>
    BY <1>10 DEF remoteVars, channels
  <2> QED
    BY <1>0, <1>1, <2>1 DEF RemoteTypeOK
<1> QED
  BY <1>4, <1>5, <1>6, <1>7, <1>8, <1>9, <1>10 DEF RemoteNext, Daemon

THEOREM RemoteSafety == RemoteSpec => []RemoteInv
BY RemoteStarts, RemoteSteps, PTL DEF RemoteSpec

(* The engine keeps every one of its invariants whatever commands come      *)
(* through the channel, in whatever order and however late.                 *)
THEOREM EngineSafeUnderClients == RemoteSpec => []IInv
<1>1. RemoteInv => IInv
  BY DEF RemoteInv
<1> QED
  BY <1>1, RemoteSafety, PTL

(* Both channels carry what the other side knows, and nothing waits for an  *)
(* engine that is gone.                                                     *)
THEOREM ChannelsAreTyped == RemoteSpec => []RemoteTypeOK
<1>1. RemoteInv => RemoteTypeOK
  BY DEF RemoteInv
<1> QED
  BY <1>1, RemoteSafety, PTL

(* However far the bridge lags behind, the signals still to come leave a    *)
(* client with what the snapshot holds.                                     *)
THEOREM SignalsConverge == RemoteSpec => []BridgeConverges
<1>1. RemoteInv => BridgeConverges
  BY DEF RemoteInv
<1> QED
  BY <1>1, RemoteSafety, PTL

-----------------------------------------------------------------------------
(* PlayPause *)

Turns ==
  Ready /\ pending = <<>> /\ current # NoTrack /\ Send(play_pause) =>
    \/ sink = "playing" /\ pending' = <<Plain("Pause")>>
    \/ sink = "paused" /\ pending' = <<Plain("Resume")>>
    \/ sink = "ended"

(* A listener's PlayPause pauses what sounds and goes on with what is paused, *)
(* for it reads a status that is right whenever no load is under way.         *)
THEOREM PlayPauseIsRight == RemoteSpec => PlayPauseTurns
<1>1. RemoteInv => Turns
  <2> SUFFICES ASSUME RemoteInv, Ready, pending = <<>>, current # NoTrack, Send(play_pause)
               PROVE  \/ sink = "playing" /\ pending' = <<Plain("Pause")>>
                      \/ sink = "paused" /\ pending' = <<Plain("Resume")>>
                      \/ sink = "ended"
    BY DEF Turns
  <2>1. Settled /\ CurrentIsQueued /\ SnapshotAgrees /\ sink \in {"none", "playing", "paused", "ended"}
    BY DEF RemoteInv, IInv, TypeOK, Settled, Ready
  <2>2. sink # "none" /\ (sink = "playing" => snap.status = "Playing")
        /\ (sink = "paused" => snap.status # "Playing")
    BY <2>1 DEF CurrentIsQueued, SnapshotAgrees
  <2>3. pending' = Append(<<>>, play_pause)
    BY DEF Send, Ready
  <2>4. \A cmd : Append(<<>>, cmd) = <<cmd>>
    BY LastOfOne
  <2> QED
    BY <2>1, <2>2, <2>3, <2>4 DEF play_pause
<1>2. RemoteInv /\ [RemoteNext]_remoteVars => [Turns]_remoteVars
  BY <1>1
<1> QED
  BY <1>2, RemoteSafety, PTL DEF RemoteSpec, PlayPauseTurns, Turns

-----------------------------------------------------------------------------
(* The engine of Playback under all this *)

(* Seen from the engine, everything around it is one command now and then   *)
LEMMA EngineSteps ==
  ASSUME RemoteInv, [RemoteNext]_remoteVars
  PROVE  [Next \/ Dropped]_vars
<1>1. CASE TakeCommand
  <2>1. /\ Perform(Head(pending)) \/ Ignore(Head(pending))
        /\ pending # <<>> /\ pending \in Seq(Calls)
    BY <1>1 DEF TakeCommand, RemoteInv, RemoteTypeOK
  <2>2. Head(pending) \in Calls
    BY <2>1
  <2> QED
    BY <2>1, <2>2, PerformIsCommand, IgnoredIsDropped DEF RemoteInv
<1>2. CASE Poll \/ Load \/ Opening \/ Audio
  BY <1>2 DEF Poll, Load, Opening, Audio, Next, EngineStep
<1>3. CASE Client \/ bridge_playback_events_to_mpris \/ UNCHANGED remoteVars
  BY <1>3 DEF Client, Send, bridge_playback_events_to_mpris, remoteVars
<1> QED
  BY <1>1, <1>2, <1>3 DEF RemoteNext, Daemon

(* A command that comes too late to mean anything is no step of a listener's *)
LEMMA DroppedIsSilent ==
  ASSUME Dropped
  PROVE  /\ Announced /\ RecordedOnce
         /\ UNCHANGED <<List, order_pos, Playing>>
<1>1. /\ UNCHANGED <<phase, queue, play_order, order_pos, current, sink, snap>> /\ scrobbles' = <<>>
  BY DEF Dropped, order, player
<1>2. ~RecordsAPlay
  BY <1>1 DEF RecordsAPlay
<1>3. ~ListenEnds
  BY <1>1 DEF ListenEnds
<1> QED
  BY <1>1, <1>2, <1>3 DEF Announced, RecordedOnce, List, Playing, Ready

(* Whoever sends what, and however late it is taken: the engine remains the *)
(* playlist it promises a listener.                                         *)
THEOREM PromiseKeptToClients == RemoteSpec => ImplementsPlaylist
<1>1. RemoteInit => Promise!Init
  BY PromiseInit DEF RemoteInit
<1>2. RemoteInv /\ RemoteInv' /\ [RemoteNext]_remoteVars => [Promise!Next]_(Promise!vars)
  <2> SUFFICES ASSUME RemoteInv, RemoteInv', [RemoteNext]_remoteVars
               PROVE  [Promise!Next]_(Promise!vars)
    OBVIOUS
  <2>1. CASE Next
    BY <2>1, PromiseStep DEF RemoteInv, Promise!vars, List, Playing
  <2>2. CASE Dropped
    BY <2>2, DroppedIsSilent DEF Promise!vars, List, Playing
  <2>3. CASE UNCHANGED vars
    BY <2>3 DEF vars, order, player, Promise!vars, Ready
  <2> QED
    BY <2>1, <2>2, <2>3, EngineSteps
<1> QED
  BY <1>1, <1>2, RemoteSafety, PTL DEF RemoteSpec, ImplementsPlaylist, Promise!Spec

(* The bridge misses no change of status, whatever commands race. *)
THEOREM StatusAnnouncedToBridge == RemoteSpec => StatusAnnounced
<1>1. RemoteInv /\ [RemoteNext]_remoteVars => [Announced]_vars
  BY EngineSteps, AnnouncedStep, DroppedIsSilent DEF RemoteInv
<1> QED
  BY <1>1, RemoteSafety, PTL DEF RemoteSpec, StatusAnnounced, Announced

(* Nor is a listen lost or recorded twice when the commands that end it race *)
(* with the end of the track: the second one finds it gone.                  *)
THEOREM ListensRecordedUnderClients == RemoteSpec => EveryListenRecordedOnce
<1>1. RemoteInv /\ [RemoteNext]_remoteVars => [RecordedOnce]_vars
  BY EngineSteps, RecordedStep, DroppedIsSilent DEF RemoteInv
<1> QED
  BY <1>1, RemoteSafety, PTL DEF RemoteSpec, EveryListenRecordedOnce, RecordedOnce

=============================================================================
