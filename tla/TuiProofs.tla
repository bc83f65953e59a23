------------------------------ MODULE TuiProofs ------------------------------
(***************************************************************************)
(* The TUI, whatever keys are pressed, whatever the server answers and     *)
(* whatever another device does to the playlists, for every library.       *)
(*                                                                         *)
(* First what runs beside the event loop: the panels show what plays, the  *)
(* phase of the update is that of the one job in flight, and Applied means *)
(* both packages.  Then the screens: a cursor that is on no row on show is *)
(* on one that a filter hides, marks and overlays fit the list they were   *)
(* made for, what is played was listed, and several songs that are starred *)
(* end in one state; the invariant that is inductive is TuiInv (StarInv    *)
(* for the stars).  Then the playlists: a listed one begins as it was      *)
(* listed (ListsInv, with TuiInv), so only songs that were chosen leave    *)
(* it.  Last the cursors, step by step: none but a list fetched again      *)
(* under a filter takes one off the rows that are shown.                   *)
(***************************************************************************)
EXTENDS Tui, FilteringProofs, FiniteSetTheorems

-----------------------------------------------------------------------------
(* What runs beside the event loop: the steps *)

(* What the TUI's steps are to the panels *)
LEMMA StepsOfPanels ==
  ASSUME [Next]_vars
  PROVE  \/ UNCHANGED panelVars
         \/ \E now \in Playing : UpdatePanels(now)
         \/ FetchEnds
         \/ PanelsRestart
<1>1. CASE (TuiStep \/ OtherDevice) /\ UNCHANGED backgroundVars
  BY <1>1 DEF backgroundVars
<1>2. CASE CheckKey
  BY <1>2 DEF CheckKey
<1>3. CASE UpdateKey
  BY <1>3 DEF UpdateKey
<1>4. CASE BackKey
  BY <1>4 DEF BackKey
<1>5. CASE Quit
  BY <1>5 DEF Quit, BackgroundRestart
<1>6. CASE Turn /\ NoScreenChanges
  BY <1>6 DEF Turn, Tick
<1>7. CASE Task /\ NoScreenChanges
  BY <1>7 DEF Task
<1>8. CASE UNCHANGED vars
  BY <1>8 DEF vars, backgroundVars
<1> QED
  BY <1>1, <1>2, <1>3, <1>4, <1>5, <1>6, <1>7, <1>8 DEF Next

(* and to the update *)
LEMMA StepsOfUpdate ==
  ASSUME [Next]_vars
  PROVE  \/ UNCHANGED updateVars
         \/ check_for_update \/ request_apply_update \/ BackOut
         \/ poll_update_events \/ UpdateTask \/ UpdateRestart
<1>1. CASE (TuiStep \/ OtherDevice) /\ UNCHANGED backgroundVars
  BY <1>1 DEF backgroundVars
<1>2. CASE CheckKey
  BY <1>2 DEF CheckKey
<1>3. CASE UpdateKey
  BY <1>3 DEF UpdateKey
<1>4. CASE BackKey
  BY <1>4 DEF BackKey
<1>5. CASE Quit
  BY <1>5 DEF Quit, BackgroundRestart
<1>6. CASE Turn /\ NoScreenChanges
  BY <1>6 DEF Turn, Tick
<1>7. CASE Task /\ NoScreenChanges
  BY <1>7 DEF Task
<1>8. CASE UNCHANGED vars
  BY <1>8 DEF vars, backgroundVars
<1> QED
  BY <1>1, <1>2, <1>3, <1>4, <1>5, <1>6, <1>7, <1>8 DEF Next

-----------------------------------------------------------------------------
(* The panels *)

(* A change of what plays empties its panel, and what arrives is taken only *)
(* if it is of what plays now                                               *)
LEMMA UpdateShowsCurrent ==
  ASSUME PanelShowsCurrent, NEW now \in Playing, UpdatePanels(now)
  PROVE  PanelShowsCurrent'
<1>1. current' = now /\ shown' = [p \in Panels |-> ShownFor(p, now[p])]
  BY DEF UpdatePanels
<1>2. ASSUME NEW p \in Panels
      PROVE  ShownFor(p, now[p]) \in {Nothing, now[p]}
  <2>1. shown[p] \in {Nothing, current[p]}
    BY DEF PanelShowsCurrent
  <2> QED
    BY <2>1 DEF ShownFor, Drained
<1> QED
  BY <1>1, <1>2 DEF PanelShowsCurrent

(* Art and lyrics on show are those of what plays now, for any songs, any   *)
(* server and any order in which the fetches of songs skipped past arrive.  *)
THEOREM PanelsShowCurrent == Spec => []PanelShowsCurrent
<1>1. Init => PanelShowsCurrent
  BY DEF Init, BackgroundInit, PanelShowsCurrent
<1>2. PanelShowsCurrent /\ [Next]_vars => PanelShowsCurrent'
  <2> SUFFICES ASSUME PanelShowsCurrent, [Next]_vars
               PROVE  PanelShowsCurrent'
    OBVIOUS
  <2>1. CASE UNCHANGED panelVars
    BY <2>1 DEF panelVars, PanelShowsCurrent
  <2>2. CASE \E now \in Playing : UpdatePanels(now)
    BY <2>2, UpdateShowsCurrent
  <2>3. CASE FetchEnds
    BY <2>3 DEF FetchEnds, PanelShowsCurrent
  <2>4. CASE PanelsRestart
    BY <2>4 DEF PanelsRestart, PanelShowsCurrent
  <2> QED
    BY <2>1, <2>2, <2>3, <2>4, StepsOfPanels
<1> QED
  BY <1>1, <1>2, PTL DEF Spec

-----------------------------------------------------------------------------
(* The events the loop drains *)

(* What each event in turn makes of the phase on show *)
EachInTurn(after, state, events) ==
  after[0] = state /\ \A n \in 1..Len(events) : after[n] = After(after[n - 1], events[n])

LEMMA AfterAllUnfolds ==
  ASSUME NEW S, NEW V, NEW state \in V, NEW events \in Seq(S),
         \A v \in V : \A n \in 1..Len(events) : After(v, events[n]) \in V
  PROVE  \E after \in [0..Len(events) -> V] :
           AfterAll(state, events) = after[Len(events)] /\ EachInTurn(after, state, events)
<1> DEFINE step == [p \in (1..Len(events)) \X V |-> After(p[2], events[p[1]])]
           Is(f) == f = [n \in 0..Len(events) |-> IF n = 0 THEN state ELSE After(f[n - 1], events[n])]
           h == CHOOSE f : Is(f)
<1>1. Len(events) \in Nat
  OBVIOUS
<1>2. step \in [(1..Len(events)) \X V -> V]
  OBVIOUS
<1>3. \A n \in 1..Len(events) : \A v \in V : step[<<n, v>>] = After(v, events[n])
  OBVIOUS
<1>4. PICK g \in [0..Len(events) -> V] : Unrolls(g, Len(events), state, step)
  <2> HIDE DEF step, Is, h
  <2> QED
    BY <1>1, <1>2, Recursion
<1>5. AfterAll(state, events) = h[Len(events)]
  BY DEF AfterAll
<1> HIDE DEF step
<1>6. \A n \in 1..Len(events) : g[n] = After(g[n - 1], events[n])
  <2> TAKE n \in 1..Len(events)
  <2>1. g[n - 1] \in V
    BY <1>1
  <2> QED
    BY <1>3, <1>4, <2>1 DEF Unrolls
<1>7. Is(g)
  BY <1>1, <1>4, <1>6 DEF Unrolls
<1>8. Is(h)
  <2> HIDE DEF Is
  <2> QED
    BY <1>7
<1> HIDE DEF h
<1>9. h[0] = state /\ \A n \in 1..Len(events) : h[n] = After(h[n - 1], events[n])
  BY <1>1, <1>8
<1>10. h[Len(events)] = g[Len(events)]
  <2>1. h[0] = g[0]
    BY <1>4, <1>9 DEF Unrolls
  <2>2. StepAlike(h, g, Len(events))
    BY <1>6, <1>9 DEF StepAlike
  <2> QED
    BY <1>1, <2>1, <2>2, RecursionIsUnique
<1> QED
  BY <1>4, <1>5, <1>6, <1>10 DEF Unrolls, EachInTurn

(* The draining of events each of which keeps the phase in a set keeps it   *)
(* there; of more than none, the last one has the last word                 *)
LEMMA AfterAllFacts ==
  ASSUME NEW S, NEW V, NEW state \in V, NEW events \in Seq(S),
         \A v \in V : \A n \in 1..Len(events) : After(v, events[n]) \in V
  PROVE  /\ AfterAll(state, events) \in V
         /\ events = <<>> => AfterAll(state, events) = state
         /\ events # <<>> => \E v \in V : AfterAll(state, events) = After(v, events[Len(events)])
<1>1. PICK after \in [0..Len(events) -> V] :
         AfterAll(state, events) = after[Len(events)] /\ EachInTurn(after, state, events)
  BY AfterAllUnfolds
<1>2. Len(events) \in Nat
  OBVIOUS
<1>3. after[Len(events)] \in V
  BY <1>2
<1>4. ASSUME events = <<>>
      PROVE  after[Len(events)] = state
  BY <1>1, <1>4 DEF EachInTurn
<1>5. ASSUME events # <<>>
      PROVE  \E v \in V : after[Len(events)] = After(v, events[Len(events)])
  <2>1. Len(events) \in 1..Len(events) /\ Len(events) - 1 \in 0..Len(events)
    BY <1>2, <1>5
  <2>2. after[Len(events) - 1] \in V
    BY <2>1
  <2> QED
    BY <1>1, <2>1, <2>2 DEF EachInTurn
<1> QED
  BY <1>1, <1>3, <1>4, <1>5

-----------------------------------------------------------------------------
(* The invariant of the update *)

EventKinds == {"ApplyProgress", "Newer", "Same", "ApplyDone", "Failed"}

Events == [kind : EventKinds, commit : 0..branch]

Progress(event) == event.kind = "ApplyProgress"

(* An installation in flight clones a commit no older than the confirmed    *)
(* one, and once at its second package has installed the first from such    *)
Installing(job) ==
  /\ job = [todo |-> job.todo, cloned |-> job.cloned]
  /\ job.cloned = 0 \/ job.cloned \in confirmed..branch
  /\ \/ job.todo = Packages
     \/ job.todo = <<"maraetai-tui">> /\ installed["maraetai-daemon"] >= confirmed

BothInstalled == \A p \in ToSet(Packages) : installed[p] >= confirmed

NothingInFlight ==
  /\ update_state.phase \notin {"Checking", "Applying"}
  /\ checks = 0 /\ applies = <<>> /\ update_rx = <<>>

CheckInFlight ==
  /\ update_state.phase = "Checking" /\ applies = <<>>
  /\ \/ checks = 1 /\ update_rx = <<>>
     \/ /\ checks = 0 /\ Len(update_rx) = 1
        /\ update_rx[1].kind \in {"Newer", "Same", "Failed"}

InstallInFlight ==
  /\ update_state.phase = "Applying" /\ checks = 0
  /\ \/ /\ Len(applies) = 1 /\ applies = <<applies[1]>> /\ Installing(applies[1])
        /\ \A n \in 1..Len(update_rx) : Progress(update_rx[n])
     \/ /\ applies = <<>> /\ update_rx # <<>>
        /\ \A n \in 1..(Len(update_rx) - 1) : Progress(update_rx[n])
        /\ update_rx[Len(update_rx)].kind \in {"ApplyDone", "Failed"}
        /\ update_rx[Len(update_rx)].kind = "ApplyDone" => BothInstalled

OneJob == NothingInFlight \/ CheckInFlight \/ InstallInFlight

CommitsKnown ==
  /\ update_state \in [phase : Phases, commit : 0..branch, lines : 0..APPLY_LOG_LINES]
  /\ update_state.phase \in {"Available", "ConfirmApply"} => update_state.commit # 0
  /\ update_rx \in Seq(Events) /\ Len(update_rx) <= MaxEvents
  /\ \A n \in 1..Len(update_rx) : update_rx[n].kind = "Newer" => update_rx[n].commit # 0
  /\ branch \in 1..MaxHead /\ built \in 1..branch /\ confirmed \in 1..branch
  /\ installed \in [ToSet(Packages) -> 1..branch]
  /\ checks \in 0..MaxJobs /\ Len(applies) <= MaxJobs

UpdateInv == CommitsKnown /\ OneJob /\ AppliedMeansBoth

LEMMA PackagesAre == ToSet(Packages) = {"maraetai-daemon", "maraetai-tui"}
  BY DEF ToSet, Packages

LEMMA InitUpdate == Init => UpdateInv
<1> SUFFICES ASSUME Init
             PROVE  UpdateInv
  OBVIOUS
<1>1. BackgroundInit
  BY DEF Init
<1>2. CommitsKnown
  BY <1>1, BackgroundAssumption DEF BackgroundInit, CommitsKnown, Phase, Phases
<1>3. NothingInFlight /\ AppliedMeansBoth
  BY <1>1 DEF BackgroundInit, NothingInFlight, AppliedMeansBoth, Phase
<1> QED
  BY <1>2, <1>3 DEF UpdateInv, OneJob

LEMMA CheckStarts ==
  ASSUME UpdateInv, check_for_update
  PROVE  UpdateInv'
<1>1. /\ update_state.phase \notin {"Checking", "Applying"}
      /\ checks < MaxJobs /\ update_state' = Phase("Checking") /\ checks' = checks + 1
      /\ UNCHANGED <<applies, update_rx, branch, installed, built, confirmed>>
  BY DEF check_for_update, StartCheck
<1>2. NothingInFlight
  BY <1>1 DEF UpdateInv, OneJob, CheckInFlight, InstallInFlight
<1>3. CommitsKnown'
  BY <1>1, BackgroundAssumption DEF UpdateInv, CommitsKnown, Events, Phase, Phases
<1>4. CheckInFlight' /\ AppliedMeansBoth'
  BY <1>1, <1>2 DEF NothingInFlight, CheckInFlight, AppliedMeansBoth, Phase
<1> QED
  BY <1>3, <1>4 DEF UpdateInv, OneJob

LEMMA ApplyRequested ==
  ASSUME UpdateInv, request_apply_update
  PROVE  UpdateInv'
<1>1. UNCHANGED <<checks, update_rx, branch, installed, built>>
  BY DEF request_apply_update
<1>2. CASE /\ update_state.phase = "Available"
           /\ update_state' = [update_state EXCEPT !.phase = "ConfirmApply"]
           /\ UNCHANGED <<applies, confirmed>>
  <2>1. NothingInFlight
    BY <1>2 DEF UpdateInv, OneJob, CheckInFlight, InstallInFlight
  <2>2. update_state'.phase = "ConfirmApply"
    BY <1>2 DEF UpdateInv, CommitsKnown
  <2>3. CommitsKnown'
    BY <1>1, <1>2 DEF UpdateInv, CommitsKnown, Events, Phases
  <2>4. NothingInFlight' /\ AppliedMeansBoth'
    BY <1>1, <1>2, <2>1, <2>2 DEF NothingInFlight, AppliedMeansBoth
  <2> QED
    BY <2>3, <2>4 DEF UpdateInv, OneJob
<1>3. CASE /\ update_state.phase = "ConfirmApply"
           /\ Len(applies) < MaxJobs
           /\ update_state' = Phase("Applying")
           /\ applies' = Append(applies, [todo |-> Packages, cloned |-> 0])
           /\ confirmed' = update_state.commit
  <2>1. NothingInFlight
    BY <1>3 DEF UpdateInv, OneJob, CheckInFlight, InstallInFlight
  <2>2. applies' = <<[todo |-> Packages, cloned |-> 0]>>
    BY <1>3, <2>1 DEF NothingInFlight
  <2>3. confirmed' \in 1..branch
    BY <1>3 DEF UpdateInv, CommitsKnown
  <2>4. Len(applies') <= MaxJobs
    BY <1>3, <2>1, <2>2, BackgroundAssumption DEF NothingInFlight
  <2>5. CommitsKnown'
    BY <1>1, <1>3, <2>3, <2>4, BackgroundAssumption DEF UpdateInv, CommitsKnown, Events, Phase, Phases
  <2>6. Installing(applies[1])' /\ applies' = <<applies'[1]>> /\ Len(applies') = 1
    BY <2>2 DEF Installing
  <2>7. InstallInFlight'
    BY <1>1, <1>3, <2>1, <2>6 DEF InstallInFlight, NothingInFlight, Phase
  <2>8. AppliedMeansBoth'
    BY <1>3 DEF AppliedMeansBoth, Phase
  <2> QED
    BY <2>5, <2>7, <2>8 DEF UpdateInv, OneJob
<1> QED
  BY <1>2, <1>3 DEF request_apply_update

LEMMA ApplyTakenBack ==
  ASSUME UpdateInv, BackOut
  PROVE  UpdateInv'
<1>1. /\ update_state.phase = "ConfirmApply"
      /\ update_state' = [update_state EXCEPT !.phase = "Available"]
      /\ UNCHANGED <<checks, applies, update_rx, branch, installed, built, confirmed>>
  BY DEF BackOut
<1>2. NothingInFlight
  BY <1>1 DEF UpdateInv, OneJob, CheckInFlight, InstallInFlight
<1>3. update_state'.phase = "Available"
  BY <1>1 DEF UpdateInv, CommitsKnown
<1>4. CommitsKnown'
  BY <1>1 DEF UpdateInv, CommitsKnown, Events, Phases
<1>5. NothingInFlight' /\ AppliedMeansBoth'
  BY <1>1, <1>2, <1>3 DEF NothingInFlight, AppliedMeansBoth
<1> QED
  BY <1>4, <1>5 DEF UpdateInv, OneJob

(* Draining leaves a state with a commit of the branch; while the events    *)
(* are lines of a build, only its log changes                               *)
LEMMA EventsDrained ==
  ASSUME UpdateInv, poll_update_events
  PROVE  UpdateInv'
<1>1. /\ update_state' = AfterAll(update_state, update_rx)
      /\ update_rx' = <<>>
      /\ UNCHANGED <<checks, applies, branch, installed, built, confirmed>>
  BY DEF poll_update_events
<1>2. update_rx \in Seq(Events) /\ Len(update_rx) \in Nat
  BY DEF UpdateInv, CommitsKnown
<1> DEFINE V == {s \in [phase : Phases, commit : 0..branch, lines : 0..APPLY_LOG_LINES] :
                   s.phase \in {"Available", "ConfirmApply"} => s.commit # 0}
<1>3. update_state \in V
  BY DEF UpdateInv, CommitsKnown
<1>4. ASSUME NEW v \in V, NEW n \in 1..Len(update_rx)
      PROVE  After(v, update_rx[n]) \in V
  <2>1. /\ update_rx[n] \in Events
        /\ update_rx[n].kind = "Newer" => update_rx[n].commit # 0
    BY <1>2 DEF UpdateInv, CommitsKnown
  <2>2. branch \in Nat /\ APPLY_LOG_LINES \in Nat
    BY BackgroundAssumption DEF UpdateInv, CommitsKnown
  <2>3. CASE update_rx[n].kind = "ApplyProgress"
    <3>1. CASE v.phase = "Applying" /\ v.lines < APPLY_LOG_LINES
      <4>1. After(v, update_rx[n]) = [v EXCEPT !.lines = @ + 1]
        BY <2>3, <3>1 DEF After
      <4> QED
        BY <2>2, <3>1, <4>1
    <3>2. CASE ~(v.phase = "Applying" /\ v.lines < APPLY_LOG_LINES)
      BY <2>3, <3>2 DEF After
    <3> QED
      BY <3>1, <3>2
  <2>4. CASE update_rx[n].kind = "Newer"
    <3>1. After(v, update_rx[n]) = With("Available", update_rx[n].commit)
      BY <2>4 DEF After
    <3> QED
      BY <2>1, <2>2, <2>4, <3>1 DEF With, Phase, Phases, Events
  <2>5. CASE update_rx[n].kind = "Same"
    <3>1. After(v, update_rx[n]) = Phase("UpToDate")
      BY <2>5 DEF After
    <3> QED
      BY <2>2, <3>1 DEF Phase, Phases
  <2>6. CASE update_rx[n].kind = "ApplyDone"
    <3>1. After(v, update_rx[n]) = Phase("Applied")
      BY <2>6 DEF After
    <3> QED
      BY <2>2, <3>1 DEF Phase, Phases
  <2>7. CASE update_rx[n].kind = "Failed"
    <3>1. After(v, update_rx[n]) = Phase("Failed")
      BY <2>7 DEF After
    <3> QED
      BY <2>2, <3>1 DEF Phase, Phases
  <2> QED
    BY <2>1, <2>3, <2>4, <2>5, <2>6, <2>7 DEF Events, EventKinds
<1>5. /\ update_state' \in V
      /\ update_rx = <<>> => update_state' = update_state
      /\ update_rx # <<>> => \E v \in V : update_state' = After(v, update_rx[Len(update_rx)])
  <2> HIDE DEF V
  <2> QED
    BY <1>1, <1>2, <1>3, <1>4, AfterAllFacts
<1>6. CommitsKnown'
  <2>1. update_rx' \in Seq(Events)' /\ Len(update_rx') = 0
    BY <1>1
  <2> QED
    BY <1>1, <1>5, <2>1, BackgroundAssumption DEF UpdateInv, CommitsKnown
<1>7. CASE NothingInFlight
  <2>1. NothingInFlight' /\ AppliedMeansBoth'
    BY <1>1, <1>5, <1>7 DEF UpdateInv, NothingInFlight, AppliedMeansBoth
  <2> QED
    BY <1>6, <2>1 DEF UpdateInv, OneJob
<1>8. CASE CheckInFlight /\ update_rx = <<>>
  <2>1. CheckInFlight' /\ AppliedMeansBoth'
    BY <1>1, <1>5, <1>8 DEF CheckInFlight, AppliedMeansBoth
  <2> QED
    BY <1>6, <2>1 DEF UpdateInv, OneJob
<1>9. CASE CheckInFlight /\ update_rx # <<>>
  <2>1. checks = 0 /\ applies = <<>> /\ Len(update_rx) = 1 /\ update_rx[1].kind \in {"Newer", "Same", "Failed"}
    BY <1>9 DEF CheckInFlight
  <2>2. PICK v \in V : update_state' = After(v, update_rx[1])
    BY <1>5, <1>9, <2>1
  <2>3. update_state'.phase \in {"Available", "UpToDate", "Failed"}
    BY <2>1, <2>2 DEF After, With, Phase
  <2>4. NothingInFlight' /\ AppliedMeansBoth'
    BY <1>1, <2>1, <2>3 DEF NothingInFlight, AppliedMeansBoth
  <2> QED
    BY <1>6, <2>4 DEF UpdateInv, OneJob
<1>10. CASE InstallInFlight /\ applies # <<>>
  <2>1. /\ update_state.phase = "Applying" /\ checks = 0
        /\ Len(applies) = 1 /\ applies = <<applies[1]>> /\ Installing(applies[1])
        /\ \A n \in 1..Len(update_rx) : Progress(update_rx[n])
    BY <1>10 DEF InstallInFlight
  <2> DEFINE W == {s \in V : s.phase = "Applying"}
  <2>2. update_state \in W
    BY <1>3, <2>1
  <2>3. ASSUME NEW w \in W, NEW n \in 1..Len(update_rx)
        PROVE  After(w, update_rx[n]) \in W
    <3>1. After(w, update_rx[n]) \in V
      BY <1>4
    <3>2. After(w, update_rx[n]) \in {w, [w EXCEPT !.lines = @ + 1]}
      BY <2>1 DEF After, Progress
    <3> QED
      BY <3>1, <3>2
  <2>4. update_state' \in W
    <3> HIDE DEF W
    <3> QED
      BY <1>1, <1>2, <2>2, <2>3, AfterAllFacts
  <2>5. Installing(applies[1])'
    BY <1>1, <2>1 DEF Installing
  <2>6. InstallInFlight' /\ AppliedMeansBoth'
    BY <1>1, <2>1, <2>4, <2>5 DEF InstallInFlight, AppliedMeansBoth
  <2> QED
    BY <1>6, <2>6 DEF UpdateInv, OneJob
<1>11. CASE InstallInFlight /\ applies = <<>>
  <2>1. /\ checks = 0 /\ update_rx # <<>>
        /\ update_rx[Len(update_rx)].kind \in {"ApplyDone", "Failed"}
        /\ update_rx[Len(update_rx)].kind = "ApplyDone" => BothInstalled
    BY <1>11 DEF InstallInFlight
  <2>2. PICK v \in V : update_state' = After(v, update_rx[Len(update_rx)])
    BY <1>5, <2>1
  <2>3. \/ update_state'.phase = "Applied" /\ BothInstalled
        \/ update_state'.phase = "Failed"
    BY <2>1, <2>2 DEF After, Phase
  <2>4. BothInstalled => BothInstalled'
    BY <1>1 DEF BothInstalled
  <2>5. NothingInFlight' /\ AppliedMeansBoth'
    BY <1>1, <1>11, <2>1, <2>3, <2>4 DEF NothingInFlight, AppliedMeansBoth, BothInstalled
  <2> QED
    BY <1>6, <2>5 DEF UpdateInv, OneJob
<1> QED
  BY <1>7, <1>8, <1>9, <1>10, <1>11 DEF UpdateInv, OneJob

-----------------------------------------------------------------------------
(* The tasks *)

(* An event joins those on their way *)
LEMMA Sent ==
  ASSUME CommitsKnown, NEW kind \in EventKinds, NEW commit \in 0..branch, Send(kind, commit),
         branch' = branch, kind = "Newer" => commit # 0
  PROVE  /\ update_rx' \in Seq(Events)' /\ Len(update_rx') = Len(update_rx) + 1
         /\ Len(update_rx') <= MaxEvents
         /\ \A n \in 1..Len(update_rx) : update_rx'[n] = update_rx[n]
         /\ update_rx'[Len(update_rx')] = [kind |-> kind, commit |-> commit]
         /\ \A n \in 1..Len(update_rx') : update_rx'[n].kind = "Newer" => update_rx'[n].commit # 0
<1> DEFINE event == [kind |-> kind, commit |-> commit]
<1>1. /\ Len(update_rx) < MaxEvents /\ update_rx' = Append(update_rx, event)
      /\ update_rx \in Seq(Events) /\ event \in Events /\ Events' = Events
  BY DEF Send, CommitsKnown, Events
<1> HIDE DEF event
<1>2. Len(update_rx) \in Nat /\ MaxEvents \in Nat
  BY <1>1, BackgroundAssumption
<1>3. /\ update_rx' \in Seq(Events) /\ Len(update_rx') = Len(update_rx) + 1
      /\ \A n \in 1..Len(update_rx) : update_rx'[n] = update_rx[n]
      /\ update_rx'[Len(update_rx')] = event
  BY <1>1, <1>2
<1>4. ASSUME NEW n \in 1..Len(update_rx'), update_rx'[n].kind = "Newer"
      PROVE  update_rx'[n].commit # 0
  <2>1. CASE n \in 1..Len(update_rx)
    BY <1>3, <1>4, <2>1 DEF CommitsKnown
  <2>2. CASE n = Len(update_rx')
    BY <1>3, <1>4, <2>2 DEF event
  <2> QED
    BY <1>2, <1>3, <2>1, <2>2
<1> QED
  BY <1>1, <1>2, <1>3, <1>4 DEF event

LEMMA CheckEnds ==
  ASSUME UpdateInv, CheckDone
  PROVE  UpdateInv'
<1>1. /\ checks > 0 /\ checks' = checks - 1
      /\ UNCHANGED <<update_state, applies, branch, installed, built, confirmed>>
  BY DEF CheckDone
<1>2. CommitsKnown /\ branch \in Nat \ {0} /\ checks \in Nat
  BY BackgroundAssumption DEF UpdateInv, CommitsKnown
<1>3. CheckInFlight /\ checks = 1 /\ update_rx = <<>>
  BY <1>1, <1>2 DEF UpdateInv, OneJob, NothingInFlight, CheckInFlight, InstallInFlight
<1>4. PICK kind \in {"Newer", "Same", "Failed"}, commit \in {0, branch} :
         Send(kind, commit) /\ (kind = "Newer" => commit # 0)
  <2>1. CASE Send("Failed", 0)
    BY <2>1
  <2>2. CASE Send(IF is_update_available(branch) THEN "Newer" ELSE "Same", branch)
    BY <1>2, <2>2
  <2> QED
    BY <2>1, <2>2 DEF CheckDone
<1>5. /\ update_rx' \in Seq(Events)' /\ Len(update_rx') = Len(update_rx) + 1
      /\ Len(update_rx') <= MaxEvents
      /\ update_rx'[Len(update_rx')] = [kind |-> kind, commit |-> commit]
      /\ \A n \in 1..Len(update_rx') : update_rx'[n].kind = "Newer" => update_rx'[n].commit # 0
  <2>1. kind \in EventKinds /\ commit \in 0..branch
    BY <1>2 DEF EventKinds
  <2> QED
    BY <1>1, <1>2, <1>4, <2>1, Sent
<1>6. CommitsKnown'
  <2>1. checks' \in 0..MaxJobs
    BY <1>1, <1>3, BackgroundAssumption
  <2> QED
    BY <1>1, <1>2, <1>5, <2>1 DEF CommitsKnown
<1>7. Len(update_rx') = 1 /\ update_rx'[1].kind \in {"Newer", "Same", "Failed"}
  BY <1>3, <1>5
<1>8. CheckInFlight' /\ AppliedMeansBoth'
  BY <1>1, <1>3, <1>7 DEF CheckInFlight, AppliedMeansBoth
<1> QED
  BY <1>6, <1>8 DEF UpdateInv, OneJob

(* While an installation is in flight there is no other *)
LEMMA OnlyInstallation ==
  ASSUME UpdateInv, NEW t \in DOMAIN applies
  PROVE  /\ t = 1 /\ Len(applies) = 1 /\ applies = <<applies[1]>> /\ Installing(applies[1])
         /\ update_state.phase = "Applying" /\ checks = 0
         /\ \A n \in 1..Len(update_rx) : Progress(update_rx[n])
         /\ update_rx \in Seq(Events) /\ Len(update_rx) \in Nat
         /\ branch \in Nat /\ confirmed \in 1..branch
         /\ installed \in [{"maraetai-daemon", "maraetai-tui"} -> 1..branch]
<1>1. applies # <<>>
  OBVIOUS
<1>2. InstallInFlight
  BY <1>1 DEF UpdateInv, OneJob, NothingInFlight, CheckInFlight
<1>3. /\ Len(applies) = 1 /\ applies = <<applies[1]>> /\ Installing(applies[1])
      /\ update_state.phase = "Applying" /\ checks = 0
      /\ \A n \in 1..Len(update_rx) : Progress(update_rx[n])
  BY <1>1, <1>2 DEF InstallInFlight
<1>4. DOMAIN applies = {1}
  <2>1. \A x : DOMAIN <<x>> = {1}
    OBVIOUS
  <2> QED
    BY <1>3, <2>1
<1>5. update_rx \in Seq(Events) /\ Len(update_rx) \in Nat /\ branch \in Nat /\ confirmed \in 1..branch
  BY DEF UpdateInv, CommitsKnown
<1>6. installed \in [{"maraetai-daemon", "maraetai-tui"} -> 1..branch]
  BY PackagesAre DEF UpdateInv, CommitsKnown
<1> QED
  BY <1>3, <1>4, <1>5, <1>6

LEMMA InstallationStarts ==
  ASSUME UpdateInv, NEW t \in DOMAIN applies, InstallStarts(t)
  PROVE  UpdateInv'
<1>1. /\ applies[t].cloned = 0 /\ applies' = [applies EXCEPT ![t].cloned = branch]
      /\ Send("ApplyProgress", 0)
      /\ UNCHANGED <<update_state, checks, branch, installed, built, confirmed>>
  BY DEF InstallStarts
<1>2. /\ t = 1 /\ Len(applies) = 1 /\ applies = <<applies[1]>> /\ Installing(applies[1])
      /\ update_state.phase = "Applying" /\ checks = 0
      /\ \A n \in 1..Len(update_rx) : Progress(update_rx[n])
      /\ Len(update_rx) \in Nat /\ branch \in Nat /\ confirmed \in 1..branch
  BY OnlyInstallation
<1>3. CommitsKnown
  BY DEF UpdateInv
<1>4. /\ update_rx' \in Seq(Events)' /\ Len(update_rx') = Len(update_rx) + 1
      /\ Len(update_rx') <= MaxEvents
      /\ \A n \in 1..Len(update_rx) : update_rx'[n] = update_rx[n]
      /\ update_rx'[Len(update_rx')] = [kind |-> "ApplyProgress", commit |-> 0]
      /\ \A n \in 1..Len(update_rx') : update_rx'[n].kind = "Newer" => update_rx'[n].commit # 0
  <2>1. "ApplyProgress" \in EventKinds /\ 0 \in 0..branch
    BY <1>2 DEF EventKinds
  <2> QED
    BY <1>1, <1>3, <2>1, Sent
<1>5. /\ applies' = <<[todo |-> applies[1].todo, cloned |-> branch]>>
      /\ Len(applies') = 1
  <2>1. applies[1] = [todo |-> applies[1].todo, cloned |-> applies[1].cloned]
    BY <1>2 DEF Installing
  <2>2. ASSUME NEW a, applies = <<a>>, a = [todo |-> a.todo, cloned |-> a.cloned]
        PROVE  [applies EXCEPT ![1].cloned = branch] = <<[todo |-> a.todo, cloned |-> branch]>>
    BY <2>2
  <2>3. applies' = <<[todo |-> applies[1].todo, cloned |-> branch]>>
    BY <1>1, <1>2, <2>1, <2>2
  <2> QED
    BY <2>3
<1>6. Installing(applies[1])' /\ applies' = <<applies'[1]>>
  <2>1. applies'[1] = [todo |-> applies[1].todo, cloned |-> branch]
    BY <1>5
  <2>2. /\ applies'[1].todo = applies[1].todo /\ applies'[1].cloned = branch
        /\ applies'[1] = [todo |-> applies'[1].todo, cloned |-> applies'[1].cloned]
    BY <2>1
  <2> QED
    BY <1>1, <1>2, <1>5, <2>1, <2>2 DEF Installing
<1>7. \A n \in 1..Len(update_rx') : Progress(update_rx'[n])
  BY <1>2, <1>4 DEF Progress
<1>8. CommitsKnown'
  BY <1>1, <1>2, <1>3, <1>4, <1>5 DEF CommitsKnown
<1>9. InstallInFlight' /\ AppliedMeansBoth'
  BY <1>1, <1>2, <1>5, <1>6, <1>7 DEF InstallInFlight, AppliedMeansBoth, Progress
<1> QED
  BY <1>8, <1>9 DEF UpdateInv, OneJob

(* Nothing is left of a list of one job without it *)
LEMMA RemovedAlone == \A a : RemoveAt(<<a>>, 1) = <<>>
  BY DEF RemoveAt

LEMMA InstallationFails ==
  ASSUME UpdateInv, NEW t \in DOMAIN applies, InstallFails(t)
  PROVE  UpdateInv'
<1>1. /\ applies' = RemoveAt(applies, t) /\ Send("Failed", 0)
      /\ UNCHANGED <<update_state, checks, branch, installed, built, confirmed>>
  BY DEF InstallFails
<1>2. /\ t = 1 /\ applies = <<applies[1]>>
      /\ update_state.phase = "Applying" /\ checks = 0
      /\ \A n \in 1..Len(update_rx) : Progress(update_rx[n])
      /\ Len(update_rx) \in Nat /\ branch \in Nat
  BY OnlyInstallation
<1>3. CommitsKnown
  BY DEF UpdateInv
<1>4. /\ update_rx' \in Seq(Events)' /\ Len(update_rx') = Len(update_rx) + 1
      /\ Len(update_rx') <= MaxEvents
      /\ \A n \in 1..Len(update_rx) : update_rx'[n] = update_rx[n]
      /\ update_rx'[Len(update_rx')] = [kind |-> "Failed", commit |-> 0]
      /\ \A n \in 1..Len(update_rx') : update_rx'[n].kind = "Newer" => update_rx'[n].commit # 0
  <2>1. "Failed" \in EventKinds /\ 0 \in 0..branch
    BY <1>2 DEF EventKinds
  <2> QED
    BY <1>1, <1>3, <2>1, Sent
<1>5. applies' = <<>>
  BY <1>1, <1>2, RemovedAlone
<1>6. CommitsKnown'
  BY <1>1, <1>3, <1>4, <1>5, BackgroundAssumption DEF CommitsKnown
<1>7. update_rx' # <<>> /\ \A n \in 1..(Len(update_rx') - 1) : Progress(update_rx'[n])
  BY <1>2, <1>4
<1>8. InstallInFlight' /\ AppliedMeansBoth'
  BY <1>1, <1>2, <1>4, <1>5, <1>7 DEF InstallInFlight, AppliedMeansBoth
<1> QED
  BY <1>6, <1>8 DEF UpdateInv, OneJob

(* The second package ends with both installed *)
LEMMA InstallationEnds ==
  ASSUME UpdateInv, NEW t \in DOMAIN applies, InstallEnds(t)
  PROVE  UpdateInv'
<1> DEFINE job == applies[1]
<1>1. /\ t = 1 /\ Len(applies) = 1 /\ applies = <<job>> /\ Installing(job)
      /\ update_state.phase = "Applying" /\ checks = 0
      /\ \A n \in 1..Len(update_rx) : Progress(update_rx[n])
      /\ update_rx \in Seq(Events) /\ Len(update_rx) \in Nat
      /\ branch \in Nat /\ confirmed \in 1..branch
      /\ installed \in [{"maraetai-daemon", "maraetai-tui"} -> 1..branch]
  BY OnlyInstallation
<1>2. /\ job.cloned # 0
      /\ installed' = [installed EXCEPT ![job.todo[1]] = job.cloned]
      /\ IF Tail(job.todo) = <<>>
         THEN applies' = RemoveAt(applies, 1) /\ Send("ApplyDone", 0)
         ELSE /\ applies' = [applies EXCEPT ![1] = [todo |-> Tail(job.todo), cloned |-> 0]]
              /\ UNCHANGED update_rx
      /\ UNCHANGED <<update_state, checks, branch, built, confirmed>>
  BY <1>1 DEF InstallEnds
<1>3. job.cloned \in confirmed..branch
  BY <1>1, <1>2 DEF Installing
<1>4. CommitsKnown
  BY DEF UpdateInv
<1> HIDE DEF job
<1>5. CASE job.todo = Packages
  <2>1. job.todo[1] = "maraetai-daemon" /\ Tail(job.todo) = <<"maraetai-tui">>
    BY <1>5 DEF Packages
  <2>2. applies' = <<[todo |-> <<"maraetai-tui">>, cloned |-> 0]>> /\ UNCHANGED update_rx
    <3>1. Tail(job.todo) # <<>>
      BY <2>1
    <3>2. /\ applies' = [applies EXCEPT ![1] = [todo |-> Tail(job.todo), cloned |-> 0]]
          /\ UNCHANGED update_rx
      BY <1>2, <3>1
    <3>3. \A a, b : [<<a>> EXCEPT ![1] = b] = <<b>>
      OBVIOUS
    <3>4. applies' = <<[todo |-> Tail(job.todo), cloned |-> 0]>>
      BY <1>1, <3>2, <3>3
    <3> QED
      BY <2>1, <3>2, <3>4
  <2>3. installed' \in [{"maraetai-daemon", "maraetai-tui"} -> 1..branch] /\ installed'["maraetai-daemon"] >= confirmed
    BY <1>1, <1>2, <1>3, <2>1
  <2>4. Installing(applies[1])' /\ applies' = <<applies'[1]>> /\ Len(applies') = 1
    BY <1>2, <2>2, <2>3 DEF Installing
  <2>5. CommitsKnown'
    BY <1>2, <1>4, <2>2, <2>3, <2>4, <1>1, PackagesAre DEF CommitsKnown, Events
  <2>6. InstallInFlight' /\ AppliedMeansBoth'
    BY <1>1, <1>2, <2>2, <2>4 DEF InstallInFlight, AppliedMeansBoth, Progress
  <2> QED
    BY <2>5, <2>6 DEF UpdateInv, OneJob
<1>6. CASE job.todo = <<"maraetai-tui">> /\ installed["maraetai-daemon"] >= confirmed
  <2>1. job.todo[1] = "maraetai-tui" /\ Tail(job.todo) = <<>>
    BY <1>6
  <2>2. applies' = <<>> /\ Send("ApplyDone", 0)
    BY <1>1, <1>2, <2>1, RemovedAlone
  <2>3. /\ installed' \in [{"maraetai-daemon", "maraetai-tui"} -> 1..branch]
        /\ installed'["maraetai-daemon"] >= confirmed /\ installed'["maraetai-tui"] >= confirmed
    BY <1>1, <1>2, <1>3, <1>6, <2>1
  <2>4. BothInstalled'
    BY <1>2, <2>3, PackagesAre DEF BothInstalled
  <2>5. /\ update_rx' \in Seq(Events)' /\ Len(update_rx') = Len(update_rx) + 1
        /\ Len(update_rx') <= MaxEvents
        /\ \A n \in 1..Len(update_rx) : update_rx'[n] = update_rx[n]
        /\ update_rx'[Len(update_rx')] = [kind |-> "ApplyDone", commit |-> 0]
        /\ \A n \in 1..Len(update_rx') : update_rx'[n].kind = "Newer" => update_rx'[n].commit # 0
    <3>1. "ApplyDone" \in EventKinds /\ 0 \in 0..branch
      BY <1>1 DEF EventKinds
    <3> QED
      BY <1>2, <1>4, <2>2, <3>1, Sent
  <2>6. CommitsKnown'
    BY <1>2, <1>4, <2>2, <2>3, <2>5, PackagesAre, BackgroundAssumption DEF CommitsKnown
  <2>7. update_rx' # <<>> /\ \A n \in 1..(Len(update_rx') - 1) : Progress(update_rx'[n])
    BY <1>1, <2>5
  <2>8. InstallInFlight' /\ AppliedMeansBoth'
    BY <1>1, <1>2, <2>2, <2>4, <2>5, <2>7 DEF InstallInFlight, AppliedMeansBoth
  <2> QED
    BY <2>6, <2>8 DEF UpdateInv, OneJob
<1> QED
  BY <1>1, <1>5, <1>6 DEF Installing

LEMMA BranchMovesOn ==
  ASSUME UpdateInv, NewCommit
  PROVE  UpdateInv'
<1>1. /\ branch < MaxHead /\ branch' = branch + 1
      /\ UNCHANGED <<update_state, checks, applies, update_rx, installed, built, confirmed>>
  BY DEF NewCommit
<1>2. CommitsKnown /\ branch \in Nat /\ MaxHead \in Nat
  BY BackgroundAssumption DEF UpdateInv, CommitsKnown
<1>3. update_rx' \in Seq(Events)'
  <2>1. Events \subseteq Events'
    BY <1>1, <1>2 DEF Events
  <2>2. update_rx \in Seq(Events)
    BY <1>2 DEF CommitsKnown
  <2> HIDE DEF Events
  <2> QED
    BY <1>1, <2>1, <2>2
<1>4. CommitsKnown'
  <2>1. update_state' \in [phase : Phases, commit : 0..branch', lines : 0..APPLY_LOG_LINES]
    BY <1>1, <1>2 DEF CommitsKnown
  <2>2. installed' \in [ToSet(Packages) -> 1..branch']
    BY <1>1, <1>2 DEF CommitsKnown
  <2> QED
    BY <1>1, <1>2, <1>3, <2>1, <2>2 DEF CommitsKnown
<1>5. OneJob' /\ AppliedMeansBoth'
  <2>1. \A job : Installing(job) => Installing(job)'
    BY <1>1, <1>2 DEF Installing, CommitsKnown
  <2>2. BothInstalled => BothInstalled'
    BY <1>1 DEF BothInstalled
  <2>3. applies' = applies => (Installing(applies[1]) => Installing(applies[1])')
    BY <2>1
  <2> QED
    BY <1>1, <2>2, <2>3 DEF UpdateInv, OneJob, NothingInFlight, CheckInFlight, InstallInFlight,
       AppliedMeansBoth
<1> QED
  BY <1>4, <1>5 DEF UpdateInv

(* The next process knows of nothing in flight; what the last one cloned it *)
(* may find installed                                                       *)
LEMMA UpdateRestarts ==
  ASSUME UpdateInv, UpdateRestart
  PROVE  UpdateInv'
<1>1. /\ update_state' = Phase("Idle") /\ checks' = 0 /\ applies' = <<>> /\ update_rx' = <<>>
      /\ built' = installed'["maraetai-tui"] /\ UNCHANGED <<branch, confirmed>>
      /\ installed' \in {installed} \cup
            {[installed EXCEPT ![applies[t].todo[1]] = applies[t].cloned] :
               t \in {u \in DOMAIN applies : applies[u].cloned # 0}}
  BY DEF UpdateRestart
<1>2. CommitsKnown /\ branch \in Nat
  BY DEF UpdateInv, CommitsKnown
<1>3. installed' \in [{"maraetai-daemon", "maraetai-tui"} -> 1..branch]
  <2>1. CASE installed' = installed
    BY <1>2, <2>1, PackagesAre DEF CommitsKnown
  <2>2. ASSUME NEW t \in DOMAIN applies, applies[t].cloned # 0,
               installed' = [installed EXCEPT ![applies[t].todo[1]] = applies[t].cloned]
        PROVE  installed' \in [{"maraetai-daemon", "maraetai-tui"} -> 1..branch]
    <3>1. /\ t = 1 /\ Installing(applies[1]) /\ confirmed \in 1..branch
          /\ installed \in [{"maraetai-daemon", "maraetai-tui"} -> 1..branch]
      BY OnlyInstallation
    <3>2. applies[t].cloned \in 1..branch
      BY <1>2, <2>2, <3>1 DEF Installing
    <3> QED
      BY <2>2, <3>1, <3>2
  <2> QED
    BY <1>1, <2>1, <2>2
<1>4. CommitsKnown'
  BY <1>1, <1>2, <1>3, PackagesAre, BackgroundAssumption DEF CommitsKnown, Phase, Phases
<1>5. NothingInFlight' /\ AppliedMeansBoth'
  BY <1>1 DEF NothingInFlight, AppliedMeansBoth, Phase
<1> QED
  BY <1>4, <1>5 DEF UpdateInv, OneJob

-----------------------------------------------------------------------------
(* What follows from it *)

LEMMA NextUpdate ==
  ASSUME UpdateInv, [Next]_vars
  PROVE  UpdateInv'
<1>1. CASE UNCHANGED updateVars
  <2>1. UNCHANGED <<update_state, checks, applies, update_rx, branch, installed, built, confirmed>>
    BY <1>1 DEF updateVars
  <2> QED
    BY <2>1 DEF UpdateInv, CommitsKnown, OneJob, NothingInFlight, CheckInFlight, InstallInFlight,
       AppliedMeansBoth, BothInstalled, Events, Installing
<1>2. CASE UpdateTask
  BY <1>2, CheckEnds, InstallationStarts, InstallationEnds, InstallationFails, BranchMovesOn DEF UpdateTask
<1> QED
  BY <1>1, <1>2, StepsOfUpdate, CheckStarts, ApplyRequested, ApplyTakenBack, EventsDrained, UpdateRestarts

THEOREM UpdateInvariant == Spec => []UpdateInv
<1>1. UpdateInv /\ [Next]_vars => UpdateInv'
  BY NextUpdate
<1> QED
  BY InitUpdate, <1>1, PTL DEF Spec

(* The phase on show tells what is in flight, a check, an installation or   *)
(* neither, for any number of keys pressed, restarts and pushes meanwhile.  *)
THEOREM JobsMatchState == Spec => []JobMatchesState
<1>1. UpdateInv => JobMatchesState
  <2> SUFFICES ASSUME UpdateInv
               PROVE  JobMatchesState
    OBVIOUS
  <2> DEFINE Ends == {n \in DOMAIN update_rx : update_rx[n].kind \in {"Newer", "Same", "Failed", "ApplyDone"}}
  <2>1. DOMAIN update_rx = 1..Len(update_rx) /\ Len(update_rx) \in Nat
    BY DEF UpdateInv, CommitsKnown
  <2>2. Cardinality({}) = 0 /\ (\A n : Cardinality({n}) = 1) /\ Len(<<>>) = 0
    BY FS_EmptySet, FS_Singleton
  <2> DEFINE End == Queued({"Newer", "Same", "Failed", "ApplyDone"})
  <2>3. End = Cardinality(Ends)
    BY DEF Queued
  <2> HIDE DEF End
  <2>4. JobMatchesState <=>
          /\ checks + Len(applies) + End = IF update_state.phase \in {"Checking", "Applying"} THEN 1 ELSE 0
          /\ checks > 0 => update_state.phase = "Checking"
          /\ applies # <<>> => update_state.phase = "Applying"
    BY DEF JobMatchesState, End
  <2>5. CASE NothingInFlight
    <3>1. Ends = {}
      BY <2>5 DEF NothingInFlight
    <3> QED
      BY <2>2, <2>3, <2>4, <2>5, <3>1 DEF NothingInFlight
  <2>6. CASE CheckInFlight
    <3>1. CASE checks = 1 /\ update_rx = <<>>
      <4>1. Ends = {}
        BY <3>1
      <4> QED
        BY <2>2, <2>3, <2>4, <2>6, <3>1, <4>1 DEF CheckInFlight
    <3>2. CASE checks = 0 /\ Len(update_rx) = 1 /\ update_rx[1].kind \in {"Newer", "Same", "Failed"}
      <4>1. Ends = {1}
        BY <2>1, <3>2
      <4>2. End = 1
        BY <2>2, <2>3, <4>1
      <4> QED
        BY <2>2, <2>3, <2>4, <2>6, <3>2, <4>2 DEF CheckInFlight
    <3> QED
      BY <2>6, <3>1, <3>2 DEF CheckInFlight
  <2>7. CASE InstallInFlight
    <3>1. CASE /\ Len(applies) = 1 /\ applies = <<applies[1]>>
               /\ \A n \in 1..Len(update_rx) : Progress(update_rx[n])
      <4>1. Ends = {}
        BY <2>1, <3>1 DEF Progress
      <4>2. End = 0
        BY <2>2, <2>3, <4>1
      <4>3. update_state.phase = "Applying" /\ checks = 0 /\ Len(applies) = 1
        BY <2>7, <3>1 DEF InstallInFlight
      <4> QED
        BY <2>4, <4>2, <4>3
    <3>2. CASE /\ applies = <<>> /\ update_rx # <<>>
               /\ \A n \in 1..(Len(update_rx) - 1) : Progress(update_rx[n])
               /\ update_rx[Len(update_rx)].kind \in {"ApplyDone", "Failed"}
      <4>1. Ends = {Len(update_rx)}
        BY <2>1, <3>2 DEF Progress
      <4>2. End = 1
        BY <2>2, <2>3, <4>1
      <4> QED
        BY <2>2, <2>3, <2>4, <2>7, <3>2, <4>2 DEF InstallInFlight
    <3> QED
      BY <2>7, <3>1, <3>2 DEF InstallInFlight
  <2> QED
    BY <2>5, <2>6, <2>7 DEF UpdateInv, OneJob
<1> QED
  BY <1>1, UpdateInvariant, PTL

(* Applied is only shown when both packages are installed from a commit at  *)
(* least as new as the confirmed one, for any number of pushes, failures    *)
(* and restarts.                                                            *)
THEOREM AppliedIsBoth == Spec => []AppliedMeansBoth
<1>1. UpdateInv => AppliedMeansBoth
  BY DEF UpdateInv
<1> QED
  BY <1>1, UpdateInvariant, PTL

-----------------------------------------------------------------------------
(* Lists *)

LEMMA Lists ==
  ASSUME NEW S, NEW list \in Seq(S)
  PROVE  /\ IsList(list) /\ Len(list) \in Nat /\ DOMAIN list = 1..Len(list)
         /\ ToSet(list) \subseteq S
<1>1. list \in [1..Len(list) -> S] /\ Len(list) \in Nat /\ DOMAIN list = 1..Len(list)
  OBVIOUS
<1>2. list \in [1..Len(list) -> ToSet(list)]
  BY <1>1 DEF ToSet
<1> HIDE DEF ToSet
<1>3. list \in Seq(ToSet(list))
  BY <1>1, <1>2
<1>4. ToSet(list) \subseteq S
  BY <1>1 DEF ToSet
<1> QED
  BY <1>1, <1>3, <1>4 DEF IsList

LEMMA ListOf ==
  ASSUME NEW S, NEW list, IsList(list), \A n \in 1..Len(list) : list[n] \in S
  PROVE  list \in Seq(S)
<1>1. list \in Seq(ToSet(list))
  BY DEF IsList
<1>2. list \in [1..Len(list) -> S] /\ Len(list) \in Nat
  BY <1>1
<1> QED
  BY <1>2

LEMMA IsListFacts ==
  ASSUME NEW list, IsList(list)
  PROVE  Len(list) \in Nat /\ DOMAIN list = 1..Len(list) /\ list = [n \in 1..Len(list) |-> list[n]]
  BY DEF IsList

LEMMA FunctionIsList ==
  ASSUME NEW N \in Nat, NEW f, f = [n \in 1..N |-> f[n]]
  PROVE  IsList(f) /\ Len(f) = N
<1>1. f \in [1..N -> ToSet(f)]
  BY DEF ToSet
<1> HIDE DEF ToSet
<1>2. f \in Seq(ToSet(f)) /\ Len(f) = N
  BY <1>1
<1> QED
  BY <1>2 DEF IsList

LEMMA ListAppended ==
  ASSUME NEW list, IsList(list), NEW x
  PROVE  /\ IsList(Append(list, x)) /\ Len(Append(list, x)) = Len(list) + 1
         /\ Append(list, x)[Len(list) + 1] = x
         /\ \A n \in 1..Len(list) : Append(list, x)[n] = list[n]
<1> DEFINE S == ToSet(list) \cup {x}
<1>1. list \in Seq(ToSet(list))
  BY DEF IsList
<1> HIDE DEF S
<1>2. list \in Seq(S) /\ x \in S
  BY <1>1 DEF S
<1>3. Append(list, x) \in Seq(S)
  BY <1>2
<1>4. IsList(Append(list, x))
  BY <1>3, Lists
<1> QED
  BY <1>2, <1>4

LEMMA ListShortened ==
  ASSUME NEW list, IsList(list), list # <<>>
  PROVE  /\ IsList(Front(list)) /\ Len(Front(list)) = Len(list) - 1 /\ Len(list) \in Nat \ {0}
         /\ \A n \in 1..(Len(list) - 1) : Front(list)[n] = list[n]
<1>1. list \in Seq(ToSet(list))
  BY DEF IsList
<1>2. Len(list) \in Nat \ {0}
  BY <1>1
<1> HIDE DEF ToSet
<1>3. /\ Front(list) \in Seq(ToSet(list)) /\ Len(Front(list)) = Len(list) - 1
      /\ \A n \in 1..(Len(list) - 1) : Front(list)[n] = list[n]
  <2> DEFINE front == SubSeq(list, 1, Len(list) - 1)
  <2>1. 1 \in Int /\ Len(list) - 1 \in Int /\ \A n \in 1..(Len(list) - 1) : list[n] \in ToSet(list)
    BY <1>1, <1>2
  <2>2. /\ front \in Seq(ToSet(list))
        /\ Len(front) = IF 1 <= Len(list) - 1 THEN (Len(list) - 1) - 1 + 1 ELSE 0
        /\ \A n \in 1..((Len(list) - 1) - 1 + 1) : front[n] = list[1 + n - 1]
    BY <2>1, SubSeqProperties
  <2>3. Front(list) = front
    BY DEF Front
  <2> HIDE DEF front
  <2>4. \A n \in 1..(Len(list) - 1) : n \in 1..((Len(list) - 1) - 1 + 1) /\ 1 + n - 1 = n
    BY <1>2
  <2> QED
    BY <1>2, <2>2, <2>3, <2>4
<1> QED
  BY <1>2, <1>3, Lists

(* A set listed once through *)
LEMMA SetListed ==
  ASSUME NEW S, IsFiniteSet(S)
  PROVE  SetToSeq(S) \in Seq(S) /\ (S # {} => SetToSeq(S) # <<>>)
<1>1. Cardinality(S) \in Nat /\ ExistsBijection(1..Cardinality(S), S)
  BY FS_CardinalityType
<1>2. PICK f \in Bijection(1..Cardinality(S), S) : TRUE
  BY <1>1 DEF ExistsBijection
<1>3. f \in [1..Cardinality(S) -> S] /\ IsInjective(f)
  BY <1>2 DEF Bijection, Injection, IsInjective
<1>4. SetToSeq(S) \in [1..Cardinality(S) -> S]
  BY <1>3 DEF SetToSeq
<1>5. SetToSeq(S) \in Seq(S) /\ Len(SetToSeq(S)) = Cardinality(S)
  BY <1>1, <1>4
<1>6. S # {} => Cardinality(S) # 0
  BY FS_EmptySet
<1> QED
  BY <1>5, <1>6

-----------------------------------------------------------------------------
(* What every screen is *)

SongRow == [id : Songs, starred : BOOLEAN]

SectionOK(section) ==
  /\ section = [songs |-> section.songs, rows |-> section.rows]
  /\ section.songs \in BOOLEAN /\ IsList(section.rows)
  /\ section.songs => section.rows \in Seq(SongRow)

SectionsOK(sections) ==
  sections = [n \in 1..4 |-> sections[n]] /\ \A n \in 1..4 : SectionOK(sections[n])

ItemsOK(s) ==
  /\ IsList(s.items)
  /\ HasSongRows(s) => s.items \in Seq(SongRow)
  /\ s.kind = "Home" => SectionsOK(s.items) /\ s.of \in 0..3
  /\ s.kind = "Queue" => s.items \in Seq(Songs \cup {NoId})
  /\ s.kind \in {"PlaylistList", "PlaylistPicker"} => s.items \in Seq(PlaylistIds)
  /\ s.kind = "SongList" => s.of \in PlaylistIds \cup {None}
  /\ s.kind = "PlaylistPicker" => s.of \in Seq(Songs \cup {NoId})

(* A query being typed shows no results *)
Typing(s) == Editing(s) => s.items = <<>> /\ s.selected = 0 /\ s.marked = {}

MarksOK(s) == HasSongRows(s) => s.marked \subseteq ToSet(Ids(s.items))

IsScreen(s) ==
  /\ s = [kind |-> s.kind, items |-> s.items, of |-> s.of,
          selected |-> s.selected, filter |-> s.filter, marked |-> s.marked]
  /\ s.kind \in Kinds /\ s.selected \in Nat

(* Where a list fetched again under a filter can leave the cursor *)
OffShow(s) ==
  /\ s.kind = "Queue" \/ (s.kind = "SongList" /\ s.of # None)
  /\ s.filter # NoFilter /\ OnRow(s, Len(s.items))

CursorFits(s) == CursorShown(s) \/ OffShow(s)

ScreenOK(s) == IsScreen(s) /\ ItemsOK(s) /\ Typing(s) /\ MarksOK(s) /\ CursorFits(s)

LEMMA VisibleFacts ==
  ASSUME NEW s, IsList(s.items)
  PROVE  /\ visible_indices(s) \in Seq(0..(Len(s.items) - 1))
         /\ Len(visible_indices(s)) \in Nat /\ Len(visible_indices(s)) <= Len(s.items)
         /\ s.filter = NoFilter /\ s.kind \in Filterable => Len(visible_indices(s)) = Len(s.items)
         /\ s.kind = "Search" => Len(visible_indices(s)) = Len(s.items)
         /\ \A n \in 1..Len(visible_indices(s)) : visible_indices(s)[n] \in Shown(s)
<1> DEFINE all == [k \in 1..Len(s.items) |-> k - 1]
<1>1. Len(s.items) \in Nat
  BY IsListFacts
<1>2. all \in Seq(0..(Len(s.items) - 1)) /\ Len(all) = Len(s.items) /\ \A n \in 1..Len(all) : all[n] = n - 1
  BY <1>1
<1>3. visible_indices(s) = Filtered(all, Shown(s))
  BY DEF visible_indices
<1> HIDE DEF all
<1>4. /\ Filtered(all, Shown(s)) \in Seq(0..(Len(s.items) - 1))
      /\ Len(Filtered(all, Shown(s))) \in Nat /\ Len(Filtered(all, Shown(s))) <= Len(all)
      /\ \A k \in 1..Len(Filtered(all, Shown(s))) :
            \E n \in 1..Len(all) : Filtered(all, Shown(s))[k] = all[n] /\ all[n] \in Shown(s)
      /\ (\A n \in 1..Len(all) : all[n] \in Shown(s)) => Filtered(all, Shown(s)) = all
  BY <1>2, FilteredFacts
<1>5. (s.filter = NoFilter /\ s.kind \in Filterable) \/ s.kind = "Search" => Shown(s) = 0..(Len(s.items) - 1)
  BY DEF Shown, Matches
<1>6. (s.filter = NoFilter /\ s.kind \in Filterable) \/ s.kind = "Search" => visible_indices(s) = all
  BY <1>1, <1>2, <1>3, <1>4, <1>5
<1> QED
  BY <1>2, <1>3, <1>4, <1>6

LEMMA RealIndexFacts ==
  ASSUME NEW s, IsList(s.items), s.selected \in Nat
  PROVE  /\ RealIndex(s) \subseteq 0..(Len(s.items) - 1)
         /\ Len(s.items) \in Nat
         /\ \A i \in RealIndex(s) : i + 1 \in 1..Len(s.items)
<1>1. visible_indices(s) \in Seq(0..(Len(s.items) - 1)) /\ Len(s.items) \in Nat
  BY VisibleFacts, IsListFacts
<1>2. RealIndex(s) \subseteq 0..(Len(s.items) - 1)
  <2>1. SUFFICES ASSUME s.selected < Len(visible_indices(s))
                 PROVE  visible_indices(s)[s.selected + 1] \in 0..(Len(s.items) - 1)
    BY DEF RealIndex
  <2>2. s.selected + 1 \in 1..Len(visible_indices(s))
    BY <1>1, <2>1
  <2> QED
    BY <1>1, <2>2
<1> QED
  BY <1>1, <1>2

(* The view of a screen is told by its names *)
LEMMA VisibleSame ==
  ASSUME NEW s, NEW t, s.kind = t.kind, s.filter = t.filter, Len(s.items) = Len(t.items), Len(s.items) \in Nat,
         \A k \in 1..Len(s.items) : Name(s, s.items[k]) = Name(t, t.items[k])
  PROVE  visible_indices(s) = visible_indices(t)
<1>1. \A i \in 0..(Len(s.items) - 1) : Matches(s, s.items[i + 1]) = Matches(t, t.items[i + 1])
  BY DEF Matches
<1>2. Shown(s) = Shown(t)
  BY <1>1 DEF Shown
<1> QED
  BY <1>2 DEF visible_indices

(* A new screen has its cursor on its first row, if it has any *)
LEMMA NewScreenOK ==
  ASSUME NEW kind \in Kinds, NEW items, NEW of, ItemsOK(Screen(kind, items, of)),
         kind = "Search" => items = <<>>, kind = "Home" => of = 0
  PROVE  ScreenOK(Screen(kind, items, of))
<1> DEFINE s == Screen(kind, items, of)
<1>1. /\ s.kind = kind /\ s.items = items /\ s.of = of /\ s.selected = 0 /\ s.filter = NoFilter /\ s.marked = {}
      /\ s = [kind |-> s.kind, items |-> s.items, of |-> s.of,
              selected |-> s.selected, filter |-> s.filter, marked |-> s.marked]
  BY DEF Screen
<1>2. ItemsOK(s)
  OBVIOUS
<1> HIDE DEF s
<1>3. IsScreen(s) /\ Typing(s) /\ MarksOK(s)
  BY <1>1 DEF IsScreen, Typing, Editing, MarksOK
<1>4. Len(s.items) \in Nat /\ Len(visible_indices(s)) \in Nat
  BY <1>2, IsListFacts, VisibleFacts DEF ItemsOK
<1>5. CursorFits(s)
  BY <1>1, <1>4 DEF CursorFits, CursorShown, OnRow
<1> QED
  BY <1>2, <1>3, <1>5 DEF ScreenOK, s

-----------------------------------------------------------------------------
(* What the operations on a screen leave of it *)

LEMMA Remainder == \A a \in Int, n \in Nat \ {0} : a % n \in 0..(n - 1)
  OBVIOUS

LEMMA CursorSet ==
  ASSUME NEW s, ScreenOK(s), NEW n \in Nat
  PROVE  LET t == [s EXCEPT !.selected = n]
         IN  /\ t.kind = s.kind /\ t.items = s.items /\ t.of = s.of /\ t.filter = s.filter
             /\ t.marked = s.marked /\ t.selected = n
             /\ visible_indices(t) = visible_indices(s)
             /\ ~Editing(s) /\ CursorFits(t) => ScreenOK(t)
<1> DEFINE t == [s EXCEPT !.selected = n]
<1>1. s = [kind |-> s.kind, items |-> s.items, of |-> s.of,
           selected |-> s.selected, filter |-> s.filter, marked |-> s.marked]
  BY DEF ScreenOK, IsScreen
<1>2. /\ t.kind = s.kind /\ t.items = s.items /\ t.of = s.of /\ t.filter = s.filter
      /\ t.marked = s.marked /\ t.selected = n
      /\ t = [kind |-> t.kind, items |-> t.items, of |-> t.of,
              selected |-> t.selected, filter |-> t.filter, marked |-> t.marked]
  BY <1>1
<1> HIDE DEF t
<1>3. Len(s.items) \in Nat
  BY IsListFacts DEF ScreenOK, ItemsOK
<1>4. visible_indices(t) = visible_indices(s)
  BY <1>2, <1>3, VisibleSame DEF Name, HasSongRows
<1>5. ASSUME ~Editing(s), CursorFits(t)
      PROVE  ScreenOK(t)
  <2>1. IsScreen(t) /\ Typing(t) /\ MarksOK(t)
    BY <1>2, <1>5 DEF ScreenOK, IsScreen, Typing, MarksOK, Editing, HasSongRows
  <2>2. ItemsOK(t)
    BY <1>2 DEF ScreenOK, ItemsOK, HasSongRows
  <2> QED
    BY <1>5, <2>1, <2>2 DEF ScreenOK
<1> QED
  BY <1>2, <1>4, <1>5 DEF t

(* Every row of Home is of one of its sections *)
LEMMA FlatRowsFacts ==
  ASSUME NEW sections, SectionsOK(sections)
  PROVE  LET flat == FlatRows(sections)
         IN  /\ Len(flat) \in Nat
             /\ \A k \in 1..Len(flat) : \E n \in 1..4 : \E r \in 1..Len(sections[n].rows) :
                  flat[k] = <<n - 1, r - 1>>
<1> DEFINE S == {p \in (0..3) \X Nat : \E n \in 1..4 : \E r \in 1..Len(sections[n].rows) : p = <<n - 1, r - 1>>}
<1>1. \A n \in 1..4 : Len(sections[n].rows) \in Nat /\ DOMAIN sections[n].rows = 1..Len(sections[n].rows)
  BY IsListFacts DEF SectionsOK, SectionOK
<1>2. ASSUME NEW n \in 1..4
      PROVE  RowsOf(sections, n) \in Seq(S)
  <2>1. \A k \in 1..Len(sections[n].rows) : <<n - 1, k - 1>> \in S
    BY <1>1
  <2>2. RowsOf(sections, n) = [k \in 1..Len(sections[n].rows) |-> <<n - 1, k - 1>>]
    BY <1>1 DEF RowsOf
  <2>3. Len(sections[n].rows) \in Nat
    BY <1>1
  <2> HIDE DEF S
  <2> QED
    BY <2>1, <2>2, <2>3
<1>3. FlatRows(sections) \in Seq(S)
  <2> HIDE DEF S
  <2>1. /\ RowsOf(sections, 1) \in Seq(S) /\ RowsOf(sections, 2) \in Seq(S)
        /\ RowsOf(sections, 3) \in Seq(S) /\ RowsOf(sections, 4) \in Seq(S)
    BY <1>2
  <2> QED
    BY <2>1 DEF FlatRows
<1>4. \A flat \in Seq(S) : Len(flat) \in Nat /\ \A k \in 1..Len(flat) : flat[k] \in S
  <2> HIDE DEF S
  <2> QED
    OBVIOUS
<1>5. \A p \in S : \E n \in 1..4 : \E r \in 1..Len(sections[n].rows) : p = <<n - 1, r - 1>>
  OBVIOUS
<1> HIDE DEF S
<1> QED
  BY <1>3, <1>4, <1>5

LEMMA HomeMoved ==
  ASSUME NEW s, ScreenOK(s), s.kind = "Home", NEW delta \in {-1, 1}
  PROVE  LET t == home_move_selection(s, delta)
         IN  ScreenOK(t) /\ t.kind = s.kind /\ t.items = s.items
<1> DEFINE flat == FlatRows(s.items)
           here == {k \in DOMAIN flat : flat[k] = <<s.of, s.selected>>}
           now  == IF here = {} THEN 0 ELSE (CHOOSE k \in here : TRUE) - 1
           next == flat[((now + delta) % Len(flat)) + 1]
           t    == [s EXCEPT !.of = next[1], !.selected = next[2]]
<1>1. home_move_selection(s, delta) = IF flat = <<>> THEN s ELSE t
  BY DEF home_move_selection
<1>2. CASE flat = <<>>
  BY <1>1, <1>2
<1>3. CASE flat # <<>>
  <2>1. SectionsOK(s.items)
    BY DEF ScreenOK, ItemsOK
  <2>2. /\ Len(flat) \in Nat /\ DOMAIN flat = 1..Len(flat) /\ Len(flat) # 0
        /\ \A k \in 1..Len(flat) : \E n \in 1..4 : \E r \in 1..Len(s.items[n].rows) :
             flat[k] = <<n - 1, r - 1>>
    <3>1. /\ Len(flat) \in Nat
          /\ \A k \in 1..Len(flat) : \E n \in 1..4 : \E r \in 1..Len(s.items[n].rows) :
               flat[k] = <<n - 1, r - 1>>
      BY <2>1, FlatRowsFacts
    <3>2. DOMAIN flat = 1..Len(flat) /\ Len(flat) # 0
      <4>1. \A n \in 1..4 : Len(s.items[n].rows) \in Nat /\ DOMAIN s.items[n].rows = 1..Len(s.items[n].rows)
        BY <2>1, IsListFacts DEF SectionsOK, SectionOK
      <4>2. \A n \in 1..4 : RowsOf(s.items, n) \in Seq(Nat \X Nat)
        <5> TAKE n \in 1..4
        <5>1. \A k \in 1..Len(s.items[n].rows) : <<n - 1, k - 1>> \in Nat \X Nat
          BY <4>1
        <5> DEFINE S == Nat \X Nat
                   rows == s.items[n].rows
        <5>2. RowsOf(s.items, n) = [k \in 1..Len(rows) |-> <<n - 1, k - 1>>] /\ Len(rows) \in Nat
          BY <4>1 DEF RowsOf
        <5>3. \A k \in 1..Len(rows) : <<n - 1, k - 1>> \in S
          BY <5>1
        <5> HIDE DEF S, rows
        <5>4. RowsOf(s.items, n) \in Seq(S)
          BY <5>2, <5>3
        <5> QED
          BY <5>4 DEF S
      <4>3. flat \in Seq(Nat \X Nat)
        BY <4>2 DEF FlatRows
      <4> HIDE DEF flat
      <4> QED
        BY <1>3, <4>3
    <3> QED
      BY <3>1, <3>2
  <2> HIDE DEF flat
  <2>3. now \in Int
    <3>1. CASE here = {}
      BY <3>1
    <3>2. CASE here # {}
      <4>1. (CHOOSE k \in here : TRUE) \in here
        BY <3>2
      <4> QED
        BY <2>2, <3>2, <4>1
    <3> QED
      BY <3>1, <3>2
  <2> HIDE DEF now
  <2>4. ((now + delta) % Len(flat)) + 1 \in 1..Len(flat)
    <3>1. now + delta \in Int /\ Len(flat) \in Nat \ {0}
      BY <2>2, <2>3
    <3>2. (now + delta) % Len(flat) \in 0..(Len(flat) - 1)
      BY <3>1, Remainder
    <3> QED
      BY <3>1, <3>2
  <2>5. PICK n \in 1..4 : \E r \in 1..Len(s.items[n].rows) : next = <<n - 1, r - 1>>
    BY <2>2, <2>4
  <2>6. PICK r \in 1..Len(s.items[n].rows) : next = <<n - 1, r - 1>>
    BY <2>5
  <2> HIDE DEF next
  <2>7. next[1] = n - 1 /\ next[2] = r - 1
    BY <2>6
  <2>8. s = [kind |-> s.kind, items |-> s.items, of |-> s.of,
             selected |-> s.selected, filter |-> s.filter, marked |-> s.marked]
    BY DEF ScreenOK, IsScreen
  <2>9. /\ t.kind = "Home" /\ t.items = s.items /\ t.of = n - 1 /\ t.selected = r - 1
        /\ t.filter = s.filter /\ t.marked = s.marked
        /\ t = [kind |-> t.kind, items |-> t.items, of |-> t.of,
                selected |-> t.selected, filter |-> t.filter, marked |-> t.marked]
    <3>1. t = [s EXCEPT !.of = n - 1, !.selected = r - 1]
      BY <2>7
    <3> DEFINE u == [s EXCEPT !.of = n - 1]
    <3>2. t = [u EXCEPT !.selected = r - 1]
      BY <3>1
    <3>3. u = [kind |-> s.kind, items |-> s.items, of |-> n - 1,
               selected |-> s.selected, filter |-> s.filter, marked |-> s.marked]
      BY <2>8
    <3> HIDE DEF u, t
    <3>4. t = [kind |-> s.kind, items |-> s.items, of |-> n - 1,
               selected |-> r - 1, filter |-> s.filter, marked |-> s.marked]
      BY <3>2, <3>3
    <3> QED
      BY <3>4
  <2> HIDE DEF t
  <2>10. Len(s.items[n].rows) \in Nat /\ r \in Nat /\ (n - 1) + 1 = n
    BY <2>1, IsListFacts DEF SectionsOK, SectionOK
  <2>11. IsScreen(t) /\ Typing(t) /\ MarksOK(t) /\ ItemsOK(t)
    BY <2>9, <2>10 DEF ScreenOK, IsScreen, ItemsOK, Typing, MarksOK, Editing, HasSongRows, Kinds
  <2>12. Focused(t) = s.items[n] /\ t.selected < Len(s.items[n].rows)
    BY <2>9, <2>10 DEF Focused
  <2>13. CursorFits(t)
    BY <2>9, <2>12 DEF CursorFits, CursorShown, Filterable
  <2> QED
    BY <1>1, <1>3, <2>9, <2>11, <2>13 DEF ScreenOK
<1> QED
  BY <1>2, <1>3

(* Whatever the key, the cursor stays on a row, and the rows               *)
(* are what they were                                                       *)
LEMMA Moved ==
  ASSUME NEW s, ScreenOK(s), NEW delta \in {-1, 1}
  PROVE  LET t == move_selection(s, delta)
         IN  ScreenOK(t) /\ t.kind = s.kind /\ t.items = s.items /\ (s.kind # "Home" => t.of = s.of)
<1> DEFINE t == move_selection(s, delta)
<1>1. s.kind \in Kinds /\ s.selected \in Nat /\ IsList(s.items) /\ Len(s.items) \in Nat
  BY IsListFacts DEF ScreenOK, IsScreen, ItemsOK
<1>2. s.items # <<>> => Len(s.items) # 0
  BY <1>1 DEF IsList
<1>3. Len(visible_indices(s)) \in Nat /\ (visible_indices(s) # <<>> => Len(visible_indices(s)) # 0)
  <2>1. visible_indices(s) \in Seq(0..(Len(s.items) - 1))
    BY <1>1, VisibleFacts
  <2> QED
    BY <2>1
<1>4. CASE s.kind = "Home"
  BY <1>4, HomeMoved DEF move_selection
<1>5. CASE t = s
  BY <1>5
<1>6. CASE /\ s.kind \in {"Search", "PlaylistPicker", "Info"} /\ s.items # <<>> /\ ~Editing(s)
           /\ t = Wrap(s, delta, Len(s.items))
  <2> DEFINE n == (s.selected + delta) % Len(s.items)
  <2>1. n \in 0..(Len(s.items) - 1)
    <3>1. s.selected + delta \in Int /\ Len(s.items) \in Nat \ {0}
      BY <1>1, <1>2, <1>6
    <3> QED
      BY <3>1, Remainder
  <2>2. t = [s EXCEPT !.selected = n]
    BY <1>6 DEF Wrap
  <2> HIDE DEF n, t
  <2>3. CursorFits(t) /\ t.kind = s.kind /\ t.items = s.items /\ t.of = s.of
    BY <1>1, <1>6, <2>1, <2>2, CursorSet DEF CursorFits, CursorShown, OffShow, OnRow, Filterable
  <2> QED
    BY <1>6, <2>1, <2>2, <2>3, CursorSet DEF t
<1>7. CASE /\ s.kind \in Filterable /\ visible_indices(s) # <<>>
           /\ t = Wrap(s, delta, Len(visible_indices(s)))
  <2> DEFINE n == (s.selected + delta) % Len(visible_indices(s))
  <2>1. n \in 0..(Len(visible_indices(s)) - 1)
    <3>1. s.selected + delta \in Int /\ Len(visible_indices(s)) \in Nat \ {0}
      BY <1>1, <1>3, <1>7
    <3> QED
      BY <3>1, Remainder
  <2>2. t = [s EXCEPT !.selected = n]
    BY <1>7 DEF Wrap
  <2> HIDE DEF n, t
  <2>3. /\ visible_indices(t) = visible_indices(s) /\ t.selected = n
        /\ t.kind = s.kind /\ t.items = s.items /\ t.of = s.of
    BY <2>1, <2>2, CursorSet
  <2>4. CursorFits(t)
    BY <1>3, <1>7, <2>1, <2>3 DEF CursorFits, CursorShown, OffShow, OnRow, Filterable
  <2>5. ~Editing(s)
    BY <1>7 DEF Editing, Filterable
  <2> QED
    BY <2>1, <2>2, <2>3, <2>4, <2>5, CursorSet DEF t
<1>8. CASE s.kind = "Info" /\ s.items = <<>>
  <2> DEFINE n == IF s.selected + delta \in 0..MaxScroll THEN s.selected + delta ELSE s.selected
  <2>1. t = [s EXCEPT !.selected = n]
    BY <1>8 DEF move_selection
  <2>2. n \in Nat
    BY <1>1
  <2> HIDE DEF n, t
  <2>3. CursorFits(t) /\ t.kind = s.kind /\ t.items = s.items /\ t.of = s.of
    BY <1>8, <2>1, <2>2, CursorSet DEF CursorFits, CursorShown, OffShow, Filterable
  <2>4. ~Editing(s)
    BY <1>8 DEF Editing
  <2> QED
    BY <2>1, <2>2, <2>3, <2>4, CursorSet DEF t
<1>9. \/ s.kind = "Home" \/ t = s
      \/ /\ s.kind \in {"Search", "PlaylistPicker", "Info"} /\ s.items # <<>> /\ ~Editing(s)
         /\ t = Wrap(s, delta, Len(s.items))
      \/ /\ s.kind \in Filterable /\ visible_indices(s) # <<>>
         /\ t = Wrap(s, delta, Len(visible_indices(s)))
      \/ s.kind = "Info" /\ s.items = <<>>
  BY <1>1 DEF move_selection, move_in_list, Kinds, Filterable, Editing
<1> QED
  BY <1>4, <1>5, <1>6, <1>7, <1>8, <1>9

LEMMA AsRecord ==
  ASSUME NEW s, IsScreen(s)
  PROVE  /\ \A x : /\ [s EXCEPT !.items = x]
                        = [kind |-> s.kind, items |-> x, of |-> s.of,
                           selected |-> s.selected, filter |-> s.filter, marked |-> s.marked]
                   /\ [s EXCEPT !.of = x]
                        = [kind |-> s.kind, items |-> s.items, of |-> x,
                           selected |-> s.selected, filter |-> s.filter, marked |-> s.marked]
                   /\ [s EXCEPT !.selected = x]
                        = [kind |-> s.kind, items |-> s.items, of |-> s.of,
                           selected |-> x, filter |-> s.filter, marked |-> s.marked]
                   /\ [s EXCEPT !.filter = x]
                        = [kind |-> s.kind, items |-> s.items, of |-> s.of,
                           selected |-> s.selected, filter |-> x, marked |-> s.marked]
                   /\ [s EXCEPT !.marked = x]
                        = [kind |-> s.kind, items |-> s.items, of |-> s.of,
                           selected |-> s.selected, filter |-> s.filter, marked |-> x]
         /\ s.kind \in Kinds /\ s.selected \in Nat
<1>1. s = [kind |-> s.kind, items |-> s.items, of |-> s.of,
           selected |-> s.selected, filter |-> s.filter, marked |-> s.marked]
  BY DEF IsScreen
<1> QED
  BY <1>1 DEF IsScreen

(* The cursor of a screen that lists the same names is on a row as before *)
LEMMA SameView ==
  ASSUME NEW s, ScreenOK(s), NEW t, t.kind = s.kind, t.kind # "Home", t.filter = s.filter, t.of = s.of,
         t.selected = s.selected, Len(t.items) = Len(s.items), t.items = <<>> <=> s.items = <<>>,
         \A k \in 1..Len(s.items) : Name(s, s.items[k]) = Name(t, t.items[k])
  PROVE  CursorFits(t)
<1>1. Len(s.items) \in Nat
  BY IsListFacts DEF ScreenOK, ItemsOK
<1>2. visible_indices(t) = visible_indices(s)
  BY <1>1, VisibleSame
<1>3. CursorFits(s)
  BY DEF ScreenOK
<1> QED
  BY <1>2, <1>3 DEF CursorFits, CursorShown, OffShow, OnRow

LEMMA FilterSet ==
  ASSUME NEW s, ScreenOK(s), s.kind \in Filterable, NEW filter
  PROVE  LET t == WithFilter(s, filter)
         IN  ScreenOK(t) /\ t.kind = s.kind /\ t.items = s.items /\ t.of = s.of /\ t.selected = 0
<1> DEFINE u == [s EXCEPT !.filter = filter]
           t == [u EXCEPT !.selected = 0]
<1>1. WithFilter(s, filter) = t
  BY DEF WithFilter
<1>2. u = [kind |-> s.kind, items |-> s.items, of |-> s.of,
           selected |-> s.selected, filter |-> filter, marked |-> s.marked]
  BY AsRecord DEF ScreenOK
<1>3. t = [kind |-> s.kind, items |-> s.items, of |-> s.of,
           selected |-> 0, filter |-> filter, marked |-> s.marked]
  <2> HIDE DEF u
  <2> QED
    BY <1>2
<1> HIDE DEF t, u
<1>4. Len(visible_indices(t)) \in Nat
  BY <1>3, VisibleFacts DEF ScreenOK, ItemsOK
<1>5. IsScreen(t) /\ ItemsOK(t) /\ Typing(t) /\ MarksOK(t)
  BY <1>3 DEF ScreenOK, IsScreen, ItemsOK, Typing, MarksOK, Editing, HasSongRows
<1>6. CursorFits(t)
  BY <1>3, <1>4 DEF CursorFits, CursorShown, OffShow, OnRow, Filterable
<1> QED
  BY <1>1, <1>3, <1>5, <1>6 DEF ScreenOK

LEMMA MarksCleared ==
  ASSUME NEW s, IsScreen(s), ItemsOK(s), Typing(s), CursorFits(s), MarksOK(s) \/ HasSongRows(s)
  PROVE  LET t == clear_marks(s)
         IN  /\ ScreenOK(t) /\ t.kind = s.kind /\ t.items = s.items /\ t.of = s.of
             /\ t.filter = s.filter /\ t.selected = s.selected /\ (HasSongRows(s) => t.marked = {})
<1> DEFINE t == [s EXCEPT !.marked = {}]
<1>1. CASE ~HasSongRows(s)
  BY <1>1 DEF ScreenOK, clear_marks
<1>2. CASE HasSongRows(s)
  <2>1. clear_marks(s) = t
    BY <1>2 DEF clear_marks
  <2>2. t = [kind |-> s.kind, items |-> s.items, of |-> s.of,
             selected |-> s.selected, filter |-> s.filter, marked |-> {}]
    BY AsRecord
  <2> HIDE DEF t
  <2>3. Len(s.items) \in Nat
    BY IsListFacts DEF ItemsOK
  <2>4. visible_indices(t) = visible_indices(s)
    BY <2>2, <2>3, VisibleSame DEF Name, HasSongRows
  <2>5. IsScreen(t) /\ ItemsOK(t) /\ Typing(t) /\ MarksOK(t)
    BY <2>2 DEF IsScreen, ItemsOK, Typing, MarksOK, Editing, HasSongRows
  <2>6. CursorFits(t)
    BY <1>2, <2>2, <2>4 DEF CursorFits, CursorShown, OffShow, OnRow, HasSongRows
  <2> QED
    BY <2>1, <2>2, <2>5, <2>6 DEF ScreenOK
<1> QED
  BY <1>1, <1>2

(* A list fetched again: the cursor is within the whole list, even where a  *)
(* filter shows less of it                                                  *)
LEMMA FetchedAgain ==
  ASSUME NEW s, ScreenOK(s), NEW items,
         \/ s.kind = "Queue" /\ items \in Seq(Songs \cup {NoId})
         \/ s.kind = "SongList" /\ s.of # None /\ items \in Seq(SongRow)
  PROVE  LET t == Refreshed(s, items)
         IN  /\ IsScreen(t) /\ ItemsOK(t) /\ Typing(t) /\ CursorFits(t)
             /\ t.kind = s.kind /\ t.items = items /\ t.of = s.of /\ t.marked = s.marked
<1> DEFINE n == IF s.selected < Len(items) THEN s.selected ELSE IF items = <<>> THEN 0 ELSE Len(items) - 1
           u == [s EXCEPT !.items = items]
           t == [u EXCEPT !.selected = n]
<1>1. /\ IsList(items) /\ Len(items) \in Nat /\ (items = <<>> <=> Len(items) = 0)
      /\ s.selected \in Nat
  <2>1. s.selected \in Nat
    BY DEF ScreenOK, IsScreen
  <2>2. CASE items \in Seq(Songs \cup {NoId})
    BY <2>1, <2>2, Lists
  <2>3. CASE items \in Seq(SongRow)
    BY <2>1, <2>3, Lists
  <2> QED
    BY <2>2, <2>3
<1>2. n \in Nat /\ (n < Len(items) \/ (Len(items) = 0 /\ n = 0))
  BY <1>1
<1>3. Refreshed(s, items) = t
  <2>1. u.selected = s.selected
    BY AsRecord DEF ScreenOK
  <2>2. \A x, y : [s EXCEPT !.items = x, !.selected = y] = [[s EXCEPT !.items = x] EXCEPT !.selected = y]
    OBVIOUS
  <2>3. Refreshed(s, items) = [s EXCEPT !.items = items, !.selected = n]
    BY DEF Refreshed
  <2> HIDE DEF n
  <2> QED
    BY <2>2, <2>3
<1> HIDE DEF n
<1>4. t = [kind |-> s.kind, items |-> items, of |-> s.of,
           selected |-> n, filter |-> s.filter, marked |-> s.marked]
  <2>1. u = [kind |-> s.kind, items |-> items, of |-> s.of,
             selected |-> s.selected, filter |-> s.filter, marked |-> s.marked]
    BY AsRecord DEF ScreenOK
  <2> HIDE DEF u
  <2> QED
    BY <2>1
<1> HIDE DEF t, u
<1>5. /\ Len(visible_indices(t)) \in Nat
      /\ t.filter = NoFilter /\ t.kind \in Filterable => Len(visible_indices(t)) = Len(items)
  BY <1>1, <1>4, VisibleFacts
<1>6. IsScreen(t) /\ ItemsOK(t) /\ Typing(t)
  BY <1>1, <1>2, <1>4 DEF ScreenOK, IsScreen, ItemsOK, Typing, Editing, HasSongRows
<1>7. CursorFits(t)
  <2>1. t.kind \in Filterable /\ t.kind # "Home"
    BY <1>4 DEF Filterable
  <2>2. t.filter # NoFilter => OnRow(t, Len(t.items))
    BY <1>2, <1>4 DEF OnRow
  <2>3. t.filter = NoFilter => OnRow(t, Len(visible_indices(t)))
    BY <1>2, <1>4, <1>5, <2>1 DEF OnRow
  <2> QED
    BY <1>4, <2>1, <2>2, <2>3 DEF CursorFits, CursorShown, OffShow
<1> QED
  BY <1>3, <1>4, <1>6, <1>7

LEMMA Followed ==
  ASSUME NEW s, ScreenOK(s), s.kind = "Queue", NEW place
  PROVE  LET t == Following(s, place)
         IN  ScreenOK(t) /\ t.kind = s.kind
<1> DEFINE shown_at == {n \in DOMAIN visible_indices(s) : visible_indices(s)[n] \in place}
           n == CHOOSE n \in shown_at : TRUE
           t == [s EXCEPT !.selected = n - 1]
<1>1. CASE shown_at = {}
  BY <1>1 DEF Following
<1>2. CASE shown_at # {}
  <2>1. Following(s, place) = t
    BY <1>2 DEF Following
  <2>2. n \in shown_at
    BY <1>2
  <2>3. visible_indices(s) \in Seq(0..(Len(s.items) - 1))
    BY VisibleFacts DEF ScreenOK, ItemsOK
  <2>4. Len(visible_indices(s)) \in Nat /\ n \in 1..Len(visible_indices(s))
    BY <2>2, <2>3
  <2> HIDE DEF n, t
  <2>5. /\ t.kind = "Queue" /\ t.selected = n - 1 /\ n - 1 \in Nat
        /\ visible_indices(t) = visible_indices(s) /\ (~Editing(s) /\ CursorFits(t) => ScreenOK(t))
    BY <2>4, CursorSet DEF t
  <2>6. CursorFits(t) /\ ~Editing(s)
    BY <2>4, <2>5 DEF CursorFits, CursorShown, OffShow, OnRow, Filterable, Editing
  <2> QED
    BY <2>1, <2>5, <2>6
<1> QED
  BY <1>1, <1>2

(* A mark is of the row under the cursor *)
LEMMA MarkToggled ==
  ASSUME NEW s, ScreenOK(s)
  PROVE  LET t == toggle_mark(s)
         IN  /\ ScreenOK(t) /\ t.kind = s.kind /\ t.items = s.items /\ t.of = s.of
             /\ t.filter = s.filter /\ t.selected = s.selected
<1>1. CASE ~(Markable(s) /\ RealIndex(s) # {})
  BY <1>1 DEF toggle_mark
<1>2. CASE Markable(s) /\ RealIndex(s) # {}
  <2> DEFINE i == CHOOSE i \in RealIndex(s) : TRUE
             id == s.items[i + 1].id
             marked == IF id \in s.marked THEN s.marked \ {id} ELSE s.marked \cup {id}
             t == [s EXCEPT !.marked = marked]
  <2>1. toggle_mark(s) = t
    BY <1>2 DEF toggle_mark
  <2>2. i \in RealIndex(s)
    BY <1>2
  <2>3. IsList(s.items) /\ Len(s.items) \in Nat /\ DOMAIN s.items = 1..Len(s.items) /\ s.selected \in Nat
    BY IsListFacts DEF ScreenOK, ItemsOK, IsScreen
  <2> HIDE DEF i
  <2>4. i + 1 \in 1..Len(s.items)
    BY <2>2, <2>3, RealIndexFacts
  <2>5. id \in ToSet(Ids(s.items))
    BY <2>3, <2>4 DEF ToSet, Ids
  <2>6. s.marked \subseteq ToSet(Ids(s.items))
    BY <1>2 DEF ScreenOK, MarksOK, Markable, HasSongRows
  <2> HIDE DEF id
  <2>7. marked \subseteq ToSet(Ids(s.items))
    BY <2>5, <2>6
  <2> HIDE DEF marked
  <2>8. t = [kind |-> s.kind, items |-> s.items, of |-> s.of,
             selected |-> s.selected, filter |-> s.filter, marked |-> marked]
    BY AsRecord DEF ScreenOK
  <2> HIDE DEF t
  <2>9. CursorFits(t)
    BY <1>2, <2>8, SameView DEF Name, HasSongRows, Markable
  <2>10. IsScreen(t) /\ ItemsOK(t) /\ Typing(t) /\ MarksOK(t)
    BY <1>2, <2>7, <2>8 DEF ScreenOK, IsScreen, ItemsOK, Typing, MarksOK, Editing, Markable, HasSongRows
  <2> QED
    BY <2>1, <2>8, <2>9, <2>10 DEF ScreenOK
<1> QED
  BY <1>1, <1>2

-----------------------------------------------------------------------------
(* Stars *)

LEMMA IdsFacts ==
  ASSUME NEW rows \in Seq(SongRow)
  PROVE  /\ Ids(rows) \in Seq(Songs) /\ Len(Ids(rows)) = Len(rows) /\ Len(rows) \in Nat
         /\ DOMAIN rows = 1..Len(rows)
         /\ \A k \in 1..Len(rows) : rows[k] \in SongRow /\ Ids(rows)[k] = rows[k].id
         /\ ToSet(Ids(rows)) = {rows[k].id : k \in 1..Len(rows)}
<1>1. Len(rows) \in Nat /\ DOMAIN rows = 1..Len(rows) /\ \A k \in 1..Len(rows) : rows[k] \in SongRow
  OBVIOUS
<1>2. Ids(rows) = [k \in 1..Len(rows) |-> rows[k].id]
  BY <1>1 DEF Ids
<1>3. \A k \in 1..Len(rows) : rows[k].id \in Songs
  BY <1>1 DEF SongRow
<1>4. Ids(rows) \in Seq(Songs) /\ Len(Ids(rows)) = Len(rows)
  BY <1>1, <1>2, <1>3
<1>5. ToSet(Ids(rows)) = {rows[k].id : k \in 1..Len(rows)}
  BY <1>2 DEF ToSet
<1> QED
  BY <1>1, <1>2, <1>4, <1>5

(* A list of rows that differs in stars alone *)
OnlyStars(rows, flipped, on) ==
  \A k \in DOMAIN rows : flipped[k] \in {rows[k], [rows[k] EXCEPT !.starred = on]}

LEMMA RowsFlipped ==
  ASSUME NEW rows \in Seq(SongRow), NEW on \in BOOLEAN, NEW flipped,
         flipped = [k \in DOMAIN rows |-> flipped[k]], OnlyStars(rows, flipped, on)
  PROVE  /\ flipped \in Seq(SongRow) /\ Len(flipped) = Len(rows) /\ Ids(flipped) = Ids(rows)
         /\ \A k \in 1..Len(rows) : flipped[k].id = rows[k].id
<1>1. /\ Len(rows) \in Nat /\ DOMAIN rows = 1..Len(rows)
      /\ \A k \in 1..Len(rows) : rows[k] \in SongRow
  OBVIOUS
<1>2. \A k \in 1..Len(rows) : flipped[k] \in SongRow /\ flipped[k].id = rows[k].id
  BY <1>1 DEF OnlyStars, SongRow
<1>3. flipped \in Seq(SongRow) /\ Len(flipped) = Len(rows) /\ DOMAIN flipped = DOMAIN rows
  BY <1>1, <1>2
<1>4. Ids(flipped) = Ids(rows)
  BY <1>1, <1>2, <1>3 DEF Ids
<1> QED
  BY <1>2, <1>3, <1>4

LEMMA FlipsOnlyStars ==
  ASSUME NEW rows \in Seq(SongRow), NEW on \in BOOLEAN
  PROVE  /\ \A id : /\ FlipFirst(rows, id, on) = [k \in DOMAIN rows |-> FlipFirst(rows, id, on)[k]]
                    /\ OnlyStars(rows, FlipFirst(rows, id, on), on)
         /\ \A ids : /\ FlipAll(rows, ids, on) = [k \in DOMAIN rows |-> FlipAll(rows, ids, on)[k]]
                     /\ OnlyStars(rows, FlipAll(rows, ids, on), on)
<1>1. ASSUME NEW first
      PROVE  LET f == [k \in DOMAIN rows |->
                         IF k = first THEN [rows[k] EXCEPT !.starred = on] ELSE rows[k]]
             IN  f = [k \in DOMAIN rows |-> f[k]] /\ OnlyStars(rows, f, on)
  BY DEF OnlyStars
<1>2. \A id : /\ FlipFirst(rows, id, on) = [k \in DOMAIN rows |-> FlipFirst(rows, id, on)[k]]
              /\ OnlyStars(rows, FlipFirst(rows, id, on), on)
  BY <1>1 DEF FlipFirst
<1>3. ASSUME NEW ids
      PROVE  /\ FlipAll(rows, ids, on) = [k \in DOMAIN rows |-> FlipAll(rows, ids, on)[k]]
             /\ OnlyStars(rows, FlipAll(rows, ids, on), on)
  BY DEF FlipAll, OnlyStars
<1> QED
  BY <1>2, <1>3

LEMMA ItemsFlipped ==
  ASSUME NEW s, ScreenOK(s), HasSongRows(s), ~Editing(s), NEW rows \in Seq(SongRow),
         Ids(rows) = Ids(s.items), Len(rows) = Len(s.items),
         \A k \in 1..Len(s.items) : rows[k].id = s.items[k].id
  PROVE  LET t == [s EXCEPT !.items = rows]
         IN  /\ ScreenOK(t) /\ t.kind = s.kind /\ t.items = rows /\ t.of = s.of /\ t.marked = s.marked
             /\ t.filter = s.filter /\ t.selected = s.selected
<1> DEFINE t == [s EXCEPT !.items = rows]
<1>1. t = [kind |-> s.kind, items |-> rows, of |-> s.of,
           selected |-> s.selected, filter |-> s.filter, marked |-> s.marked]
  BY AsRecord DEF ScreenOK
<1> HIDE DEF t
<1>2. IsList(rows) /\ IsList(s.items) /\ (rows = <<>> <=> s.items = <<>>)
  <2>1. s.items \in Seq(SongRow)
    BY DEF ScreenOK, ItemsOK
  <2> QED
    BY <2>1, Lists
<1>3. CursorFits(t)
  <2>1. t.kind # "Home"
    BY <1>1 DEF HasSongRows
  <2>2. \A k \in 1..Len(s.items) : Name(s, s.items[k]) = Name(t, t.items[k])
    BY <1>1 DEF Name, HasSongRows
  <2> QED
    BY <1>1, <1>2, <2>1, <2>2, SameView
<1>4. IsScreen(t) /\ ItemsOK(t) /\ Typing(t) /\ MarksOK(t)
  BY <1>1, <1>2 DEF ScreenOK, IsScreen, ItemsOK, Typing, MarksOK, Editing, HasSongRows
<1> QED
  BY <1>1, <1>3, <1>4 DEF ScreenOK, t

(* On Home one row of one section changes *)
LEMMA HomeFlipped ==
  ASSUME NEW s, ScreenOK(s), s.kind = "Home", NEW id, NEW on \in BOOLEAN
  PROVE  LET t == [s EXCEPT !.items = FlipOnHome(s.items, id, on)]
         IN  ScreenOK(t) /\ t.kind = s.kind
<1> DEFINE Has(n) == s.items[n].songs /\ \E k \in DOMAIN s.items[n].rows : s.items[n].rows[k].id = id
           first  == CHOOSE n \in DOMAIN s.items : Has(n) /\ \A m \in 1..(n - 1) : ~Has(m)
           sections == FlipOnHome(s.items, id, on)
           t == [s EXCEPT !.items = sections]
<1>1. SectionsOK(s.items) /\ DOMAIN s.items = 1..4 /\ s.of \in 0..3
  BY DEF ScreenOK, ItemsOK, SectionsOK
<1>2. /\ SectionsOK(sections)
      /\ \A n \in 1..4 : Len(sections[n].rows) = Len(s.items[n].rows)
  <2>1. CASE ~\E n \in DOMAIN s.items : Has(n)
    BY <1>1, <2>1 DEF FlipOnHome
  <2>2. CASE \E n \in DOMAIN s.items : Has(n)
    <3>1. sections = [s.items EXCEPT ![first].rows = FlipFirst(@, id, on)]
      BY <2>2 DEF FlipOnHome
    <3>2. first \in 1..4 /\ Has(first)
      <4> DEFINE T == {n \in 1..4 : Has(n)}
      <4>1. T \in SUBSET Nat /\ T # {}
        BY <1>1, <2>2
      <4>2. PICK m \in T : \A n \in T : m <= n
        <5> HIDE DEF T
        <5> QED
          BY <4>1, LeastNatural
      <4> HIDE DEF Has
      <4>3. m \in DOMAIN s.items /\ Has(m) /\ \A n \in 1..(m - 1) : ~Has(n)
        BY <1>1, <4>2
      <4>4. first \in DOMAIN s.items /\ Has(first)
        BY <4>3
      <4> QED
        BY <1>1, <4>4
    <3> HIDE DEF first
    <3> DEFINE section == s.items[first]
               rows    == FlipFirst(section.rows, id, on)
               flipped == [section EXCEPT !.rows = rows]
    <3>3. SectionOK(section) /\ section.songs = TRUE /\ section.rows \in Seq(SongRow)
      BY <1>1, <3>2 DEF SectionsOK, SectionOK
    <3>4. rows \in Seq(SongRow) /\ Len(rows) = Len(section.rows) /\ IsList(rows)
      <4>1. rows \in Seq(SongRow) /\ Len(rows) = Len(section.rows)
        BY <3>3, RowsFlipped, FlipsOnlyStars
      <4> HIDE DEF rows
      <4> QED
        BY <4>1, Lists
    <3>5. sections = [s.items EXCEPT ![first] = flipped]
      BY <3>1
    <3> HIDE DEF rows, section, sections
    <3>6. flipped = [songs |-> section.songs, rows |-> rows]
      <4>1. section = [songs |-> section.songs, rows |-> section.rows]
        BY <3>3 DEF SectionOK
      <4>2. \A b, x, y : [[songs |-> b, rows |-> x] EXCEPT !.rows = y] = [songs |-> b, rows |-> y]
        OBVIOUS
      <4> QED
        BY <4>1, <4>2
    <3>7. SectionOK(flipped) /\ Len(flipped.rows) = Len(section.rows)
      BY <3>3, <3>4, <3>6 DEF SectionOK
    <3> HIDE DEF flipped
    <3>8. /\ sections = [n \in 1..4 |-> sections[n]]
          /\ \A n \in 1..4 : sections[n] = IF n = first THEN flipped ELSE s.items[n]
      BY <1>1, <3>2, <3>5 DEF SectionsOK
    <3>9. SectionsOK(sections)
      BY <1>1, <3>7, <3>8 DEF SectionsOK
    <3>10. \A n \in 1..4 : Len(sections[n].rows) = Len(s.items[n].rows)
      BY <3>7, <3>8 DEF section
    <3> QED
      BY <3>9, <3>10
  <2> QED
    BY <2>1, <2>2
<1> HIDE DEF sections
<1>3. t = [kind |-> s.kind, items |-> sections, of |-> s.of,
           selected |-> s.selected, filter |-> s.filter, marked |-> s.marked]
  BY AsRecord DEF ScreenOK
<1> HIDE DEF t
<1>4. IsList(sections)
  BY <1>2, FunctionIsList DEF SectionsOK
<1>5. IsScreen(t) /\ ItemsOK(t) /\ Typing(t) /\ MarksOK(t)
  BY <1>2, <1>3, <1>4 DEF ScreenOK, IsScreen, ItemsOK, Typing, MarksOK, Editing, HasSongRows
<1>6. Len(Focused(t).rows) = Len(Focused(s).rows)
  <2>1. s.of + 1 \in 1..4
    BY <1>1
  <2> QED
    BY <1>2, <1>3, <2>1 DEF Focused
<1>7. CursorFits(t)
  BY <1>3, <1>6 DEF ScreenOK, CursorFits, CursorShown, OffShow, OnRow, Filterable
<1> QED
  BY <1>3, <1>5, <1>7 DEF ScreenOK, t, sections

-----------------------------------------------------------------------------
(* What a key acts on is what its screen lists *)

IsListedIn(s, ids) == ids # <<>> /\ ids \in Seq(Songs \cup {NoId}) /\ ToSet(ids) \subseteq Listed(s)

(* What a screen lists, and what is taken from it, by the kind it is *)
LEMMA ListedRows ==
  ASSUME NEW s, HasSongRows(s)
  PROVE  Listed(s) = ToSet(Ids(s.items))
  BY DEF Listed, HasSongRows

LEMMA ByKind ==
  ASSUME NEW s
  PROVE  /\ s.kind = "Home" =>
              /\ selected_song_id(s) = {row.id : row \in HomeSong(s)}
              /\ FromSelection(s) = IF Focused(s).songs /\ Focused(s).rows # <<>>
                                    THEN {From(Focused(s).rows, s.selected)} ELSE {}
         /\ s.kind # "Home" /\ Markable(s) =>
              /\ selected_song_id(s) = {s.items[i + 1].id : i \in RealIndex(s)}
              /\ FromSelection(s) = {From(s.items, i) : i \in RealIndex(s)}
         /\ s.kind = "Queue" => Listed(s) = ToSet(s.items)
  BY DEF selected_song_id, FromSelection, Listed, Markable, HasSongRows

(* Rows taken from those of the screen *)
LEMMA TakenRows ==
  ASSUME NEW S, NEW all \in Seq(SongRow), NEW rows \in Seq(SongRow), rows # <<>>,
         \A k \in 1..Len(rows) : \E n \in 1..Len(all) : rows[k] = all[n],
         ToSet(Ids(all)) \subseteq S
  PROVE  Ids(rows) # <<>> /\ Ids(rows) \in Seq(Songs \cup {NoId}) /\ ToSet(Ids(rows)) \subseteq S
<1>1. /\ Ids(rows) \in Seq(Songs) /\ Len(Ids(rows)) = Len(rows) /\ Len(rows) \in Nat
      /\ ToSet(Ids(rows)) = {rows[k].id : k \in 1..Len(rows)}
      /\ ToSet(Ids(all)) = {all[k].id : k \in 1..Len(all)}
  BY IdsFacts
<1>2. ToSet(Ids(rows)) \subseteq ToSet(Ids(all))
  BY <1>1
<1>3. Len(rows) # 0
  OBVIOUS
<1>4. Ids(rows) \in Seq(Songs \cup {NoId})
  BY <1>1
<1> QED
  BY <1>1, <1>2, <1>3, <1>4

LEMMA FromFacts ==
  ASSUME NEW all \in Seq(SongRow), NEW i \in 0..(Len(all) - 1)
  PROVE  /\ From(all, i) \in Seq(SongRow) /\ From(all, i) # <<>>
         /\ \A k \in 1..Len(From(all, i)) : \E n \in 1..Len(all) : From(all, i)[k] = all[n]
<1> DEFINE from == SubSeq(all, i + 1, Len(all))
<1>1. Len(all) \in Nat /\ i \in Nat /\ i + 1 \in 1..Len(all)
  OBVIOUS
<1>2. /\ from \in Seq(SongRow)
      /\ Len(from) = IF i + 1 <= Len(all) THEN Len(all) - (i + 1) + 1 ELSE 0
      /\ \A k \in 1..(Len(all) - (i + 1) + 1) : from[k] = all[(i + 1) + k - 1]
  <2>1. i + 1 \in Int /\ Len(all) \in Int /\ \A k \in (i + 1)..Len(all) : all[k] \in SongRow
    BY <1>1
  <2> QED
    BY <2>1, SubSeqProperties
<1>3. From(all, i) = from
  BY DEF From
<1> HIDE DEF from
<1>4. Len(from) = Len(all) - i /\ Len(from) # 0
  BY <1>1, <1>2
<1>5. ASSUME NEW k \in 1..Len(from)
      PROVE  \E n \in 1..Len(all) : from[k] = all[n]
  <2>1. k \in 1..(Len(all) - (i + 1) + 1) /\ i + k \in 1..Len(all) /\ (i + 1) + k - 1 = i + k
    BY <1>1, <1>4, <1>5
  <2> QED
    BY <1>2, <2>1
<1>6. from # <<>>
  BY <1>4
<1> QED
  BY <1>2, <1>3, <1>5, <1>6

LEMMA MarkedListed ==
  ASSUME NEW s, ScreenOK(s), HasMarks(s)
  PROVE  IsListedIn(s, Ids(marked_songs(s))) /\ marked_songs(s) \in Seq(SongRow)
<1> DEFINE marked == {row \in ToSet(s.items) : row.id \in s.marked}
           rows   == Filtered(s.items, marked)
<1>1. HasSongRows(s) /\ s.items \in Seq(SongRow) /\ s.marked # {}
  BY DEF HasMarks, ScreenOK, ItemsOK
<1>2. marked_songs(s) = rows
  BY DEF marked_songs
<1>3. PICK n \in 1..Len(s.items) : s.items[n].id \in s.marked
  <2>1. PICK id \in s.marked : id \in ToSet(Ids(s.items))
    BY <1>1 DEF ScreenOK, MarksOK
  <2> QED
    BY <1>1, <2>1, IdsFacts
<1>4. s.items[n] \in marked
  BY <1>1, <1>3 DEF ToSet
<1> HIDE DEF marked
<1>5. /\ rows \in Seq(SongRow)
      /\ \A k \in 1..Len(rows) : \E m \in 1..Len(s.items) : rows[k] = s.items[m]
      /\ \E k \in 1..Len(rows) : rows[k] = s.items[n]
  <2>1. \A list \in Seq(SongRow) :
          /\ Filtered(list, marked) \in Seq(SongRow)
          /\ \A k \in 1..Len(Filtered(list, marked)) : \E m \in 1..Len(list) : Filtered(list, marked)[k] = list[m]
          /\ \A m \in 1..Len(list) :
               list[m] \in marked => \E k \in 1..Len(Filtered(list, marked)) : Filtered(list, marked)[k] = list[m]
    BY FilteredFacts
  <2> QED
    BY <1>1, <1>4, <2>1
<1> HIDE DEF rows
<1>6. rows # <<>>
  BY <1>5
<1>7. ToSet(Ids(s.items)) \subseteq Listed(s)
  BY <1>1, ListedRows
<1> QED
  BY <1>1, <1>2, <1>5, <1>6, <1>7, TakenRows DEF IsListedIn

(* The row under the cursor of Home, and all of its section *)
LEMMA HomeFacts ==
  ASSUME NEW s, ScreenOK(s), s.kind = "Home", Focused(s).songs
  PROVE  /\ Focused(s).rows \in Seq(SongRow) /\ Len(Focused(s).rows) \in Nat
         /\ ToSet(Ids(Focused(s).rows)) \subseteq Listed(s)
         /\ Focused(s).rows # <<>> => s.selected \in 0..(Len(Focused(s).rows) - 1)
<1>1. SectionsOK(s.items) /\ s.of + 1 \in 1..4 /\ s.selected \in Nat /\ DOMAIN s.items = 1..4
  BY DEF ScreenOK, ItemsOK, IsScreen, SectionsOK
<1>2. SectionOK(s.items[s.of + 1])
  BY <1>1 DEF SectionsOK
<1>3. Focused(s).rows \in Seq(SongRow)
  BY <1>2 DEF SectionOK, Focused
<1>4. Len(Focused(s).rows) \in Nat /\ (Focused(s).rows # <<>> => Len(Focused(s).rows) # 0)
  BY <1>3
<1>5. s.selected < Len(Focused(s).rows) \/ s.selected = 0
  <2>1. CursorShown(s) \/ OffShow(s)
    BY DEF ScreenOK, CursorFits
  <2> QED
    BY <2>1 DEF CursorShown, OffShow, Filterable
<1>6. Listed(s) = UNION {ToSet(Ids(s.items[n].rows)) : n \in {m \in DOMAIN s.items : s.items[m].songs}}
  BY DEF Listed, HasSongRows
<1>7. ToSet(Ids(Focused(s).rows)) \subseteq Listed(s)
  <2>1. s.of + 1 \in {m \in DOMAIN s.items : s.items[m].songs}
    BY <1>1 DEF Focused
  <2> QED
    BY <1>6, <2>1 DEF Focused
<1> QED
  BY <1>1, <1>3, <1>4, <1>5, <1>7

LEMMA FromListed ==
  ASSUME NEW s, ScreenOK(s), NEW rows \in FromSelection(s)
  PROVE  IsListedIn(s, Ids(rows))
<1>1. CASE s.kind = "Home"
  <2> DEFINE all == Focused(s).rows
  <2>1. Focused(s).songs /\ all # <<>> /\ rows = From(all, s.selected)
    <3>1. FromSelection(s) = IF Focused(s).songs /\ all # <<>> THEN {From(all, s.selected)} ELSE {}
      BY <1>1, ByKind
    <3> QED
      BY <3>1
  <2>2. all \in Seq(SongRow) /\ ToSet(Ids(all)) \subseteq Listed(s) /\ s.selected \in 0..(Len(all) - 1)
    BY <1>1, <2>1, HomeFacts
  <2> HIDE DEF all
  <2> QED
    BY <2>1, <2>2, FromFacts, TakenRows DEF IsListedIn
<1>2. CASE s.kind # "Home" /\ Markable(s)
  <2>1. PICK i \in RealIndex(s) : rows = From(s.items, i)
    BY <1>2 DEF FromSelection
  <2>2. HasSongRows(s) /\ s.items \in Seq(SongRow) /\ IsList(s.items) /\ s.selected \in Nat
    BY <1>2 DEF ScreenOK, ItemsOK, IsScreen, Markable, HasSongRows
  <2>3. i \in 0..(Len(s.items) - 1)
    BY <2>2, RealIndexFacts
  <2>4. ToSet(Ids(s.items)) \subseteq Listed(s)
    BY <2>2, ListedRows
  <2> QED
    BY <2>1, <2>2, <2>3, <2>4, FromFacts, TakenRows DEF IsListedIn
<1> QED
  BY <1>1, <1>2 DEF FromSelection

LEMMA SelectedListed ==
  ASSUME NEW s, ScreenOK(s), NEW id \in selected_song_id(s)
  PROVE  IsListedIn(s, <<id>>)
<1>1. id \in Songs \cup {NoId} /\ id \in Listed(s)
  <2>1. CASE s.kind = "Home"
    <3> DEFINE all == Focused(s).rows
    <3>1. Focused(s).songs /\ s.selected < Len(all) /\ id = all[s.selected + 1].id
      BY <2>1, ByKind DEF HomeSong
    <3>2. all \in Seq(SongRow) /\ Len(all) \in Nat /\ ToSet(Ids(all)) \subseteq Listed(s)
      BY <2>1, <3>1, HomeFacts
    <3>3. s.selected + 1 \in 1..Len(all)
      BY <3>1, <3>2 DEF ScreenOK, IsScreen
    <3> HIDE DEF all
    <3>4. id \in ToSet(Ids(all)) /\ id \in Songs
      BY <3>1, <3>2, <3>3, IdsFacts DEF SongRow
    <3> QED
      BY <3>2, <3>4
  <2>2. CASE s.kind # "Home" /\ Markable(s)
    <3>1. PICK i \in RealIndex(s) : id = s.items[i + 1].id
      BY <2>2, ByKind
    <3>2. HasSongRows(s) /\ s.items \in Seq(SongRow) /\ IsList(s.items) /\ s.selected \in Nat
      BY <2>2 DEF ScreenOK, ItemsOK, IsScreen, Markable, HasSongRows
    <3>3. i + 1 \in 1..Len(s.items)
      BY <3>2, RealIndexFacts
    <3>4. id \in ToSet(Ids(s.items)) /\ id \in Songs
      BY <3>1, <3>2, <3>3, IdsFacts DEF SongRow
    <3> QED
      BY <3>2, <3>4, ListedRows
  <2>3. CASE s.kind = "Queue"
    <3>1. PICK i \in RealIndex(s) : id = s.items[i + 1]
      BY <2>3 DEF selected_song_id, Markable
    <3>2. s.items \in Seq(Songs \cup {NoId}) /\ IsList(s.items) /\ s.selected \in Nat
      BY <2>3 DEF ScreenOK, ItemsOK, IsScreen
    <3>3. i + 1 \in 1..Len(s.items) /\ DOMAIN s.items = 1..Len(s.items)
      BY <3>2, RealIndexFacts
    <3>4. id \in ToSet(s.items) /\ id \in Songs \cup {NoId}
      BY <3>1, <3>2, <3>3 DEF ToSet
    <3> QED
      BY <2>3, <3>4, ByKind
  <2> QED
    BY <2>1, <2>2, <2>3 DEF selected_song_id, Markable
<1>2. <<id>> \in Seq(Songs \cup {NoId}) /\ <<id>> # <<>> /\ ToSet(<<id>>) = {id}
  BY <1>1 DEF ToSet
<1> QED
  BY <1>1, <1>2 DEF IsListedIn

LEMMA ChosenListed ==
  ASSUME Running, ScreenOK(Top), NEW ids \in Chosen
  PROVE  IsListedIn(Top, ids)
  BY MarkedListed, SelectedListed DEF Chosen

-----------------------------------------------------------------------------
(* The invariant of the event loop *)

StackOK(screens) ==
  IsList(screens) /\ Len(screens) <= MaxDepth /\ \A n \in 1..Len(screens) : ScreenOK(screens[n])

PickerFits(screens, n) ==
  /\ n = Len(screens) /\ n > 1
  /\ screens[n].items # <<>> /\ screens[n].of # <<>>
  /\ ToSet(screens[n].of) \subseteq Listed(screens[n - 1])

PickersFit(screens) ==
  \A n \in 1..Len(screens) : screens[n].kind = "PlaylistPicker" => PickerFits(screens, n)

ScreensOK(screens) == StackOK(screens) /\ PickersFit(screens)

FilterFits == filter_editing => Running /\ Top.kind \in Filterable

PromptFits ==
  prompt # NoPrompt =>
    /\ Running /\ ~filter_editing
    /\ Top.kind = IF prompt.action = "SaveQueue" THEN "Queue" ELSE "PlaylistList"
    /\ prompt = [action |-> prompt.action, target |-> prompt.target, blank |-> prompt.blank]
    /\ prompt.action \in {"New", "Rename", "SaveQueue"} /\ prompt.blank \in BOOLEAN
    /\ prompt.action = "Rename" => \E k \in 1..Len(Top.items) : Top.items[k] = prompt.target

(* Calls are made with the screen that asked for them on top, and the rest  *)
(* of the loop waits                                                        *)
BusyFits ==
  /\ busy = [op |-> busy.op, target |-> busy.target, todo |-> busy.todo]
  /\ busy.op \in {"none", "add", "remove"} \cup StarOps /\ (busy.op = "none" => busy = Idle)
  /\ busy # Idle => Running /\ ~show_help /\ prompt = NoPrompt /\ ~filter_editing
  /\ busy.op = "add" => Top.kind = "PlaylistPicker" /\ busy.todo \in Seq(Songs \cup {NoId})
  /\ busy.op = "remove" => /\ Top.kind = "SongList" /\ Top.of = busy.target
                           /\ busy.target \in PlaylistIds /\ busy.target # None
                           /\ busy.todo \in Seq(Nat)
  /\ busy.op \in StarOps => HasSongRows(Top) /\ ~Editing(Top) /\ busy.todo \in Seq(Songs)

ModesOK ==
  /\ active_tab \in ToSet(TABS) /\ filter_editing \in BOOLEAN /\ show_help \in BOOLEAN
  /\ FilterFits /\ PromptFits /\ BusyFits

PlaylistsOK(lists) == DOMAIN lists \subseteq PlaylistIds /\ lists \in [DOMAIN lists -> Seq(Songs)]

ServerOK ==
  /\ PlaylistsOK(playlists) /\ starred \subseteq Songs /\ touched \subseteq PlaylistIds
  /\ settled \subseteq Songs

TuiInv == ScreensOK(stack) /\ ModesOK /\ ServerOK

LEMMA ScreensFacts ==
  ASSUME NEW screens, ScreensOK(screens), screens # <<>>
  PROVE  /\ IsList(screens) /\ Len(screens) \in Nat \ {0} /\ Len(screens) <= MaxDepth
         /\ \A n \in 1..Len(screens) : ScreenOK(screens[n])
         /\ \A n \in 1..(Len(screens) - 1) : screens[n].kind # "PlaylistPicker"
<1>1. IsList(screens) /\ Len(screens) \in Nat
  BY IsListFacts DEF ScreensOK, StackOK
<1>2. Len(screens) # 0
  BY <1>1 DEF IsList
<1>3. ASSUME NEW n \in 1..(Len(screens) - 1), screens[n].kind = "PlaylistPicker"
      PROVE  FALSE
  <2>1. n \in 1..Len(screens) /\ n # Len(screens)
    BY <1>1
  <2> QED
    BY <1>3, <2>1 DEF ScreensOK, PickersFit, PickerFits
<1> QED
  BY <1>1, <1>2, <1>3 DEF ScreensOK, StackOK

LEMMA TopOK ==
  ASSUME ScreensOK(stack), Running
  PROVE  Len(stack) \in Nat \ {0} /\ ScreenOK(Top) /\ Len(stack) <= MaxDepth
<1>1. Len(stack) \in Nat \ {0} /\ Len(stack) <= MaxDepth /\ \A n \in 1..Len(stack) : ScreenOK(stack[n])
  BY ScreensFacts DEF Running
<1>2. Len(stack) \in 1..Len(stack)
  BY <1>1
<1> QED
  BY <1>1, <1>2 DEF Top

(* The last of the screens is changed *)
LEMMA LastReplaced ==
  ASSUME NEW screens, ScreensOK(screens), screens # <<>>, NEW s, ScreenOK(s),
         s.kind = "PlaylistPicker" => /\ screens[Len(screens)].kind = "PlaylistPicker"
                                      /\ s.items = screens[Len(screens)].items
                                      /\ s.of = screens[Len(screens)].of
  PROVE  LET new == [screens EXCEPT ![Len(screens)] = s]
         IN  ScreensOK(new) /\ new # <<>> /\ Len(new) = Len(screens) /\ new[Len(new)] = s
<1> DEFINE new == [screens EXCEPT ![Len(screens)] = s]
           len == Len(screens)
<1>1. IsList(screens) /\ len \in Nat \ {0} /\ len <= MaxDepth /\ \A n \in 1..len : ScreenOK(screens[n])
  BY ScreensFacts
<1>2. /\ IsList(new) /\ Len(new) = len /\ new[len] = s
      /\ \A n \in 1..len : n # len => new[n] = screens[n]
  <2>1. new = [k \in 1..len |-> new[k]]
    BY <1>1, IsListFacts
  <2>2. IsList(new) /\ Len(new) = len
    <3> HIDE DEF new
    <3> QED
      BY <1>1, <2>1, FunctionIsList
  <2>3. DOMAIN screens = 1..len /\ len \in 1..len
    BY <1>1, IsListFacts
  <2> QED
    BY <2>2, <2>3
<1> HIDE DEF new
<1>3. StackOK(new)
  BY <1>1, <1>2 DEF StackOK
<1>4. ASSUME NEW n \in 1..Len(new), new[n].kind = "PlaylistPicker"
      PROVE  PickerFits(new, n)
  <2>1. n = len
    <3>1. n # len => n \in 1..(len - 1) /\ new[n] = screens[n]
      BY <1>1, <1>2
    <3> QED
      BY <1>4, <3>1, ScreensFacts
  <2>2. PickerFits(screens, n) /\ s.items = screens[n].items /\ s.of = screens[n].of
    BY <1>1, <1>2, <1>4, <2>1 DEF ScreensOK, PickersFit
  <2>3. n - 1 \in 1..len /\ n - 1 # len
    BY <1>1, <2>1, <2>2 DEF PickerFits
  <2>4. new[n - 1] = screens[n - 1]
    BY <1>2, <2>3
  <2> QED
    BY <1>2, <2>1, <2>2, <2>4 DEF PickerFits
<1>5. new # <<>>
  BY <1>1, <1>2
<1> QED
  BY <1>2, <1>3, <1>4, <1>5 DEF ScreensOK, PickersFit, new

LEMMA TopReplaced ==
  ASSUME ScreensOK(stack), Running, NEW s, ScreenOK(s), SetTop(s),
         s.kind = "PlaylistPicker" => Top.kind = "PlaylistPicker" /\ s.items = Top.items /\ s.of = Top.of
  PROVE  ScreensOK(stack') /\ Running' /\ Top' = s /\ Len(stack') = Len(stack)
<1> DEFINE new == [stack EXCEPT ![Len(stack)] = s]
<1>1. ScreensOK(new) /\ new # <<>> /\ Len(new) = Len(stack) /\ new[Len(new)] = s
  BY LastReplaced DEF Running, Top
<1>2. stack' = new
  BY DEF SetTop
<1> HIDE DEF new
<1> QED
  BY <1>1, <1>2 DEF Running, Top

(* A screen is opened on top *)
LEMMA TopPushed ==
  ASSUME ScreensOK(stack), Running, Len(stack) < MaxDepth, Top.kind # "PlaylistPicker",
         NEW s, ScreenOK(s), stack' = Append(stack, s),
         s.kind = "PlaylistPicker" => s.items # <<>> /\ s.of # <<>> /\ ToSet(s.of) \subseteq Listed(Top)
  PROVE  ScreensOK(stack') /\ Running' /\ Top' = s
<1> DEFINE new == Append(stack, s)
           len == Len(stack)
<1>1. /\ IsList(stack) /\ len \in Nat \ {0} /\ len < MaxDepth /\ MaxDepth \in Nat
      /\ \A n \in 1..len : ScreenOK(stack[n]) /\ stack[n].kind # "PlaylistPicker"
  <2>1. /\ IsList(stack) /\ len \in Nat \ {0} /\ \A n \in 1..len : ScreenOK(stack[n])
        /\ \A n \in 1..(len - 1) : stack[n].kind # "PlaylistPicker"
    BY ScreensFacts DEF Running
  <2>2. \A n \in 1..len : n = len \/ n \in 1..(len - 1)
    BY <2>1
  <2> QED
    BY <2>1, <2>2, TuiAssumption DEF Top
<1>2. /\ IsList(new) /\ Len(new) = len + 1 /\ new[len + 1] = s
      /\ \A n \in 1..len : new[n] = stack[n]
  BY <1>1, ListAppended
<1>3. stack' = new
  OBVIOUS
<1> HIDE DEF new
<1>4. \A n \in 1..(len + 1) : n = len + 1 \/ n \in 1..len
  BY <1>1
<1>5. StackOK(new)
  BY <1>1, <1>2, <1>4 DEF StackOK
<1>6. ASSUME NEW n \in 1..Len(new), new[n].kind = "PlaylistPicker"
      PROVE  PickerFits(new, n)
  <2>1. n = len + 1 /\ new[n] = s
    BY <1>1, <1>2, <1>4, <1>6
  <2>2. n - 1 = len /\ n > 1 /\ len \in 1..len
    BY <1>1, <2>1
  <2>3. new[n - 1] = Top
    BY <1>2, <2>2 DEF Top
  <2> QED
    BY <1>2, <1>6, <2>1, <2>2, <2>3 DEF PickerFits
<1>7. new # <<>>
  BY <1>1, <1>2
<1> QED
  BY <1>2, <1>3, <1>5, <1>6, <1>7 DEF ScreensOK, PickersFit, Running, Top

(* The last of the screens is left *)
LEMMA LastLeft ==
  ASSUME NEW screens, ScreensOK(screens), Len(screens) > 1, screens # <<>>
  PROVE  LET new == Front(screens)
         IN  /\ ScreensOK(new) /\ new # <<>> /\ new[Len(new)].kind # "PlaylistPicker"
             /\ new[Len(new)] = screens[Len(screens) - 1] /\ ScreenOK(new[Len(new)])
<1> DEFINE new == Front(screens)
           len == Len(screens)
<1>1. /\ IsList(screens) /\ len \in Nat \ {0} /\ len <= MaxDepth /\ MaxDepth \in Nat
      /\ \A n \in 1..len : ScreenOK(screens[n])
      /\ \A n \in 1..(len - 1) : screens[n].kind # "PlaylistPicker"
  BY ScreensFacts, TuiAssumption
<1>2. IsList(new) /\ Len(new) = len - 1 /\ \A n \in 1..(len - 1) : new[n] = screens[n]
  BY <1>1, ListShortened
<1> HIDE DEF new
<1>3. (\A n \in 1..(len - 1) : n \in 1..len) /\ len - 1 \in 1..(len - 1) /\ len - 1 <= MaxDepth
  BY <1>1
<1>4. StackOK(new) /\ PickersFit(new)
  BY <1>1, <1>2, <1>3 DEF StackOK, PickersFit
<1>5. new # <<>> /\ new[Len(new)] = screens[len - 1] /\ screens[len - 1].kind # "PlaylistPicker"
  BY <1>1, <1>2, <1>3
<1> QED
  BY <1>1, <1>3, <1>4, <1>5 DEF ScreensOK, new

(* A screen alone *)
LEMMA AloneOK ==
  ASSUME NEW s, ScreenOK(s), s.kind # "PlaylistPicker"
  PROVE  ScreensOK(<<s>>)
<1>1. <<s>> = [n \in 1..1 |-> <<s>>[n]] /\ <<s>>[1] = s /\ \A n \in 1..1 : n = 1
  OBVIOUS
<1>2. IsList(<<s>>) /\ Len(<<s>>) = 1
  BY <1>1, FunctionIsList
<1>3. 1 <= MaxDepth
  BY TuiAssumption
<1> QED
  BY <1>1, <1>2, <1>3 DEF StackOK, PickersFit, ScreensOK

LEMMA RootAlone ==
  ASSUME NEW s, ScreenOK(s), s.kind # "PlaylistPicker", stack' = <<s>>
  PROVE  ScreensOK(stack') /\ Running' /\ Top' = s
  BY AloneOK DEF Running, Top

(* The rows of a list of songs *)
LEMMA RowsAre ==
  ASSUME NEW songs \in Seq(Songs)
  PROVE  Rows(songs) \in Seq(SongRow)
<1>1. DOMAIN songs = 1..Len(songs) /\ Len(songs) \in Nat /\ \A k \in 1..Len(songs) : songs[k] \in Songs
  OBVIOUS
<1>2. \A k \in 1..Len(songs) : [id |-> songs[k], starred |-> songs[k] \in starred] \in SongRow
  <2> TAKE k \in 1..Len(songs)
  <2>1. \A b \in BOOLEAN : [id |-> songs[k], starred |-> b] \in SongRow
    BY <1>1 DEF SongRow
  <2>2. (songs[k] \in starred) \in BOOLEAN
    OBVIOUS
  <2> QED
    BY <2>1, <2>2
<1> DEFINE row(k) == [id |-> songs[k], starred |-> songs[k] \in starred]
<1>3. \A k \in 1..Len(songs) : row(k) \in SongRow
  BY <1>2
<1>4. Rows(songs) = [k \in 1..Len(songs) |-> row(k)]
  BY <1>1 DEF Rows
<1> HIDE DEF row
<1> QED
  BY <1>1, <1>3, <1>4

LEMMA SongListOK ==
  ASSUME NEW rows \in Seq(SongRow), NEW of \in PlaylistIds \cup {None}
  PROVE  /\ ScreenOK(Screen("SongList", rows, of)) /\ Screen("SongList", rows, of).kind = "SongList"
<1>1. IsList(rows)
  BY Lists
<1>2. ItemsOK(Screen("SongList", rows, of))
  BY <1>1 DEF ItemsOK, Screen, HasSongRows
<1>3. "SongList" \in Kinds
  BY DEF Kinds, Filterable
<1> QED
  BY <1>2, <1>3, NewScreenOK DEF Screen

LEMMA SongListsAre == \A rows \in OrEmpty(SongLists) : rows \in Seq(SongRow)
<1>1. \A songs \in Tracklists : Rows(songs) \in Seq(SongRow)
  BY RowsAre, TuiAssumption
<1>2. <<>> \in Seq(SongRow)
  OBVIOUS
<1> QED
  BY <1>1, <1>2 DEF OrEmpty, SongLists

LEMMA NamesOK ==
  ASSUME NEW names \in OrEmpty(Shelves), NEW kind \in {"AlbumList", "ArtistList", "GenreList", "Info"}, NEW of
  PROVE  ScreenOK(Screen(kind, names, of)) /\ Screen(kind, names, of).kind = kind
<1>1. IsList(names)
  <2>1. <<>> \in Seq({})
    OBVIOUS
  <2>2. IsList(<<>>)
    BY <2>1, Lists
  <2> QED
    BY <2>2, TuiAssumption DEF OrEmpty
<1>2. ItemsOK(Screen(kind, names, of))
  BY <1>1 DEF ItemsOK, Screen, HasSongRows
<1>3. kind \in Kinds /\ kind # "Search"
  BY DEF Kinds, Filterable
<1> QED
  BY <1>2, <1>3, NewScreenOK DEF Screen

LEMMA PlaylistRootOK ==
  ASSUME NEW lists, PlaylistsOK(lists), NEW root \in PlaylistRoots(lists)
  PROVE  ScreenOK(root) /\ root.kind = "PlaylistList"
<1>1. PICK names \in {<<>>, SetToSeq(DOMAIN lists)} : root = Screen("PlaylistList", names, None)
  BY DEF PlaylistRoots
<1>2. IsFiniteSet(DOMAIN lists)
  BY FS_Subset, TuiAssumption DEF PlaylistsOK
<1>3. names \in Seq(PlaylistIds)
  <2>1. SetToSeq(DOMAIN lists) \in Seq(DOMAIN lists)
    BY <1>2, SetListed
  <2>2. SetToSeq(DOMAIN lists) \in Seq(PlaylistIds)
    BY <2>1 DEF PlaylistsOK
  <2>3. <<>> \in Seq(PlaylistIds)
    OBVIOUS
  <2> QED
    BY <2>2, <2>3
<1>4. ItemsOK(Screen("PlaylistList", names, None))
  BY <1>3, Lists DEF ItemsOK, Screen, HasSongRows
<1>5. "PlaylistList" \in Kinds
  BY DEF Kinds, Filterable
<1> QED
  BY <1>1, <1>4, <1>5, NewScreenOK DEF Screen

LEMMA HomeOK ==
  ASSUME NEW lists \in Dashboards
  PROVE  ScreenOK(Home(lists)) /\ Home(lists).kind = "Home"
<1> DEFINE section(n) == IF n = 2 THEN Section(FALSE, Preview(lists[n]))
                         ELSE Section(TRUE, Rows(Preview(lists[n])))
           sections == [n \in 1..4 |-> section(n)]
<1>1. lists[2] \in Seq(ToSet(lists[2])) /\ \A n \in {1, 3, 4} : lists[n] \in Seq(Songs)
  BY TuiAssumption DEF IsList
<1>2. \A S : \A songs \in Seq(S) : Preview(songs) \in Seq(S)
  <2> TAKE S
  <2> TAKE songs \in Seq(S)
  <2> DEFINE len == IF Len(songs) < HOME_PREVIEW_ROWS THEN Len(songs) ELSE HOME_PREVIEW_ROWS
  <2>1. Len(songs) \in Nat /\ HOME_PREVIEW_ROWS \in Nat
    BY TuiAssumption
  <2>2. 1 \in Int /\ len \in Int /\ \A n \in 1..len : songs[n] \in S
    BY <2>1
  <2> HIDE DEF len
  <2>3. SubSeq(songs, 1, len) \in Seq(S)
    BY <2>2, SubSeqProperties
  <2> QED
    BY <2>3 DEF Preview, len
<1>3. ASSUME NEW n \in 1..4
      PROVE  SectionOK(section(n))
  <2>1. CASE n = 2
    <3> DEFINE rows == Preview(lists[n])
    <3>1. rows \in Seq(ToSet(lists[2]))
      BY <1>1, <1>2, <2>1
    <3> HIDE DEF rows
    <3>2. IsList(rows)
      BY <3>1, Lists
    <3>3. section(n) = Section(FALSE, rows)
      BY <2>1 DEF rows
    <3> QED
      BY <3>2, <3>3 DEF SectionOK, Section
  <2>2. CASE n # 2
    <3> DEFINE rows == Rows(Preview(lists[n]))
    <3>1. lists[n] \in Seq(Songs)
      BY <1>1, <2>2
    <3>2. rows \in Seq(SongRow)
      BY <1>2, <3>1, RowsAre
    <3> HIDE DEF rows
    <3>3. IsList(rows)
      BY <3>2, Lists
    <3>4. section(n) = Section(TRUE, rows)
      BY <2>2 DEF rows
    <3> QED
      BY <3>2, <3>3, <3>4 DEF SectionOK, Section
  <2> QED
    BY <2>1, <2>2
<1>4. Home(lists) = Screen("Home", sections, 0)
  BY DEF Home
<1> HIDE DEF section
<1>5. SectionsOK(sections) /\ IsList(sections)
  <2>1. sections = [n \in 1..4 |-> sections[n]] /\ \A n \in 1..4 : sections[n] = section(n)
    OBVIOUS
  <2> HIDE DEF sections
  <2>2. IsList(sections)
    BY <2>1, FunctionIsList
  <2> QED
    BY <1>3, <2>1, <2>2 DEF SectionsOK
<1> HIDE DEF sections
<1>6. ItemsOK(Screen("Home", sections, 0))
  BY <1>5 DEF ItemsOK, Screen, HasSongRows
<1>7. "Home" \in Kinds
  BY DEF Kinds
<1> QED
  BY <1>4, <1>6, <1>7, NewScreenOK DEF Screen

LEMMA RootsOK ==
  ASSUME ServerOK, NEW tab \in ToSet(TABS), NEW root \in Roots(tab)
  PROVE  ScreenOK(root) /\ root.kind # "PlaylistPicker"
<1>1. tab \in {"Home", "Playlists", "Albums", "Artists", "Genres", "Search", "Queue", "Settings"}
  BY DEF ToSet, TABS
<1>2. CASE tab = "Home"
  BY <1>2, HomeOK DEF Roots
<1>3. CASE tab = "Playlists"
  BY <1>3, PlaylistRootOK DEF Roots, ServerOK
<1>4. CASE tab \in {"Albums", "Artists", "Genres"}
  BY <1>4, NamesOK DEF Roots
<1>5. CASE tab = "Search"
  <2>1. root = Screen("Search", <<>>, "editing")
    BY <1>5 DEF Roots
  <2>2. <<>> \in Seq(SongRow)
    OBVIOUS
  <2>3. ItemsOK(root) /\ "Search" \in Kinds
    BY <2>1, <2>2, Lists DEF ItemsOK, Screen, HasSongRows, Kinds
  <2> QED
    BY <2>1, <2>3, NewScreenOK DEF Screen
<1>6. CASE tab = "Queue"
  <2>1. PICK rows \in OrEmpty(Queues) : root = Screen("Queue", rows, None)
    BY <1>6 DEF Roots
  <2>2. <<>> \in Seq(Songs \cup {NoId})
    OBVIOUS
  <2>3. rows \in Seq(Songs \cup {NoId})
    BY <2>2, TuiAssumption DEF OrEmpty
  <2>4. ItemsOK(Screen("Queue", rows, None)) /\ "Queue" \in Kinds
    BY <2>3, Lists DEF ItemsOK, Screen, HasSongRows, Kinds, Filterable
  <2> QED
    BY <2>1, <2>4, NewScreenOK DEF Screen
<1>7. CASE tab = "Settings"
  <2>1. root = Screen("Settings", <<>>, None)
    BY <1>7 DEF Roots
  <2>2. <<>> \in Seq({})
    OBVIOUS
  <2>3. ItemsOK(root) /\ "Settings" \in Kinds
    BY <2>1, <2>2, Lists DEF ItemsOK, Screen, HasSongRows, Kinds
  <2> QED
    BY <2>1, <2>3, NewScreenOK DEF Screen
<1> QED
  BY <1>1, <1>2, <1>3, <1>4, <1>5, <1>6, <1>7

-----------------------------------------------------------------------------
(* What a key leaves in place *)

LEMMA ServerKept ==
  ASSUME ServerOK, UNCHANGED serverVars
  PROVE  ServerOK'
  BY DEF ServerOK, serverVars, PlaylistsOK

(* A key pressed with no overlay and no call under way *)
LEMMA KeyKeeps ==
  ASSUME TuiInv, Ready, ScreensOK(stack'), Running', UNCHANGED <<show_help, prompt, busy>>,
         active_tab' \in ToSet(TABS), filter_editing' \in BOOLEAN,
         filter_editing' => Top'.kind \in Filterable, ServerOK'
  PROVE  TuiInv'
<1>1. prompt' = NoPrompt /\ busy' = Idle /\ show_help' \in BOOLEAN
  BY DEF Ready, TuiInv, ModesOK
<1>2. FilterFits' /\ PromptFits'
  BY <1>1 DEF FilterFits, PromptFits
<1>3. BusyFits'
  BY <1>1 DEF BusyFits, Idle, StarOps
<1>4. ToSet(TABS)' = ToSet(TABS)
  BY DEF ToSet, TABS
<1> QED
  BY <1>1, <1>2, <1>3, <1>4 DEF TuiInv, ModesOK

(* Of the top screen, what does not matter to others is changed *)
LEMMA TopKeeps ==
  ASSUME TuiInv, Ready, NEW s, ScreenOK(s), SetTop(s), s.kind = Top.kind,
         s.kind = "PlaylistPicker" => s.items = Top.items /\ s.of = Top.of,
         UNCHANGED <<active_tab, show_help, prompt, busy>>,
         filter_editing' \in {filter_editing, FALSE}, ServerOK'
  PROVE  TuiInv'
<1>1. ScreensOK(stack) /\ Running
  BY DEF TuiInv, Ready
<1>2. ScreensOK(stack') /\ Running' /\ Top' = s
  BY <1>1, TopReplaced
<1>3. /\ active_tab' \in ToSet(TABS) /\ filter_editing' \in BOOLEAN
      /\ filter_editing' => Top'.kind \in Filterable
  <2>1. active_tab \in ToSet(TABS) /\ filter_editing \in BOOLEAN /\ (filter_editing => Top.kind \in Filterable)
    BY DEF TuiInv, ModesOK, FilterFits
  <2>2. CASE filter_editing' = filter_editing
    BY <1>2, <2>1, <2>2
  <2>3. CASE filter_editing' = FALSE
    BY <2>1, <2>3
  <2> QED
    BY <2>2, <2>3
<1> QED
  BY <1>2, <1>3, KeyKeeps

LEMMA PushKeeps ==
  ASSUME TuiInv, Ready, Len(stack) < MaxDepth, Top.kind # "PlaylistPicker",
         NEW s, ScreenOK(s), stack' = Append(stack, s),
         s.kind = "PlaylistPicker" => s.items # <<>> /\ s.of # <<>> /\ ToSet(s.of) \subseteq Listed(Top),
         UNCHANGED <<active_tab, show_help, prompt, busy>>,
         filter_editing' = FALSE, ServerOK'
  PROVE  TuiInv'
<1>1. ScreensOK(stack) /\ Running
  BY DEF TuiInv, Ready
<1>2. ScreensOK(stack') /\ Running' /\ Top' = s
  BY <1>1, TopPushed
<1>3. active_tab' \in ToSet(TABS) /\ filter_editing' \in BOOLEAN
  BY DEF TuiInv, ModesOK
<1> QED
  BY <1>2, <1>3, KeyKeeps

LEMMA StackKeeps ==
  ASSUME TuiInv, Ready, UNCHANGED stack, UNCHANGED <<active_tab, show_help, prompt, busy>>,
         filter_editing' \in {filter_editing, FALSE}, ServerOK'
  PROVE  TuiInv'
<1>1. ScreensOK(stack') /\ Running' /\ Top' = Top
  BY DEF TuiInv, Ready, Running, Top
<1>2. /\ active_tab' \in ToSet(TABS) /\ filter_editing' \in BOOLEAN
      /\ filter_editing' => Top'.kind \in Filterable
  <2>1. active_tab \in ToSet(TABS) /\ filter_editing \in BOOLEAN /\ (filter_editing => Top.kind \in Filterable)
    BY DEF TuiInv, ModesOK, FilterFits
  <2>2. CASE filter_editing' = filter_editing
    BY <1>1, <2>1, <2>2
  <2>3. CASE filter_editing' = FALSE
    BY <2>1, <2>3
  <2> QED
    BY <2>2, <2>3
<1> QED
  BY <1>1, <1>2, KeyKeeps

LEMMA TabKeeps ==
  ASSUME TuiInv, Ready, NEW tab \in ToSet(TABS), switch_tab(tab),
         UNCHANGED <<show_help, prompt, busy>>, ServerOK'
  PROVE  TuiInv'
<1>1. PICK root \in Roots(tab) : stack' = <<root>>
  BY DEF switch_tab
<1>2. ScreenOK(root) /\ root.kind # "PlaylistPicker"
  BY RootsOK DEF TuiInv
<1>3. ScreensOK(stack') /\ Running'
  BY <1>1, <1>2, RootAlone
<1> QED
  BY <1>3, KeyKeeps DEF switch_tab

-----------------------------------------------------------------------------
(* The overlays *)

LEMMA HelpKeeps ==
  ASSUME TuiInv, Help
  PROVE  TuiInv'
<1>1. UNCHANGED <<active_tab, stack, filter_editing, prompt, busy, serverVars>>
  BY DEF Help
<1>2. show_help' \in BOOLEAN /\ busy = Idle
  BY DEF Help, KeyMode, Ready, TuiInv, ModesOK, BusyFits
<1>3. ScreensOK(stack') /\ ServerOK' /\ (Running' <=> Running) /\ Top' = Top
  BY <1>1, ServerKept DEF TuiInv, Running, Top
<1>4. ModesOK'
  BY <1>1, <1>2, <1>3 DEF TuiInv, ModesOK, FilterFits, PromptFits, BusyFits, Idle
<1> QED
  BY <1>3, <1>4 DEF TuiInv

LEMMA PromptKeeps ==
  ASSUME TuiInv, KeyMode, NEW action \in {"New", "Rename", "SaveQueue"}, NEW target, NEW blank \in BOOLEAN,
         Prompt(action, target, blank),
         Top.kind = IF action = "SaveQueue" THEN "Queue" ELSE "PlaylistList",
         action = "Rename" => \E k \in 1..Len(Top.items) : Top.items[k] = target
  PROVE  TuiInv'
<1>1. /\ UNCHANGED <<active_tab, stack, filter_editing, show_help, busy, serverVars>>
      /\ prompt' = [action |-> action, target |-> target, blank |-> blank]
  BY DEF Prompt
<1>2. busy = Idle /\ Running /\ ~filter_editing
  BY DEF KeyMode, Ready
<1>3. ScreensOK(stack') /\ ServerOK' /\ (Running' <=> Running) /\ Top' = Top
  BY <1>1, ServerKept DEF TuiInv, Running, Top
<1>4. PromptFits'
  BY <1>1, <1>2, <1>3 DEF PromptFits
<1>5. ModesOK'
  BY <1>1, <1>2, <1>3, <1>4 DEF TuiInv, ModesOK, FilterFits, BusyFits, Idle
<1> QED
  BY <1>3, <1>5 DEF TuiInv

LEMMA PromptsKeep ==
  ASSUME TuiInv, prompt_new_playlist \/ prompt_rename_playlist \/ prompt_save_queue_as_playlist
  PROVE  TuiInv'
<1>1. CASE prompt_new_playlist
  BY <1>1, PromptKeeps DEF prompt_new_playlist
<1>2. CASE prompt_save_queue_as_playlist
  BY <1>2, PromptKeeps DEF prompt_save_queue_as_playlist
<1>3. CASE prompt_rename_playlist
  <2>1. PICK i \in RealIndex(Top) : Prompt("Rename", Top.items[i + 1], FALSE)
    BY <1>3 DEF prompt_rename_playlist
  <2>2. KeyMode /\ Top.kind = "PlaylistList"
    BY <1>3 DEF prompt_rename_playlist
  <2>3. ScreenOK(Top)
    BY <2>2, TopOK DEF TuiInv, KeyMode, Ready
  <2>4. i + 1 \in 1..Len(Top.items)
    BY <2>3, RealIndexFacts DEF ScreenOK, IsScreen, ItemsOK
  <2> QED
    BY <2>1, <2>2, <2>4, PromptKeeps
<1> QED
  BY <1>1, <1>2, <1>3

LEMMA PromptEditsKeep ==
  ASSUME TuiInv, PromptEdit \/ PromptCancel
  PROVE  TuiInv'
<1>1. /\ UNCHANGED <<active_tab, stack, filter_editing, show_help, busy, serverVars>>
      /\ prompt # NoPrompt /\ busy = Idle
      /\ prompt' = NoPrompt \/ prompt' = [prompt EXCEPT !.blank = ~@]
  BY DEF PromptEdit, PromptCancel, Prompting
<1>2. ScreensOK(stack') /\ ServerOK' /\ (Running' <=> Running) /\ Top' = Top
  BY <1>1, ServerKept DEF TuiInv, Running, Top
<1>3. PromptFits'
  <2>1. CASE prompt' = NoPrompt
    BY <2>1 DEF PromptFits
  <2>2. CASE prompt' = [prompt EXCEPT !.blank = ~@]
    <3>1. /\ prompt = [action |-> prompt.action, target |-> prompt.target, blank |-> prompt.blank]
          /\ prompt.blank \in BOOLEAN
      BY <1>1 DEF TuiInv, ModesOK, PromptFits
    <3>2. PICK b \in BOOLEAN : b = ~prompt.blank
      BY <3>1
    <3>3. prompt' = [action |-> prompt.action, target |-> prompt.target, blank |-> b]
      BY <2>2, <3>1, <3>2
    <3> QED
      BY <1>1, <1>2, <3>3 DEF TuiInv, ModesOK, PromptFits
  <2> QED
    BY <1>1, <2>1, <2>2
<1>4. ModesOK'
  BY <1>1, <1>2, <1>3 DEF TuiInv, ModesOK, FilterFits, BusyFits, Idle
<1> QED
  BY <1>2, <1>4 DEF TuiInv

(* No overlay and no call is left *)
LEMMA Settles ==
  ASSUME ScreensOK(stack'), ServerOK', active_tab' \in ToSet(TABS), filter_editing' = FALSE,
         show_help' \in BOOLEAN, prompt' = NoPrompt, busy' = Idle
  PROVE  TuiInv'
<1>1. FilterFits' /\ PromptFits' /\ BusyFits'
  BY DEF FilterFits, PromptFits, BusyFits, Idle, StarOps
<1>2. ToSet(TABS)' = ToSet(TABS)
  BY DEF ToSet, TABS
<1> QED
  BY <1>1, <1>2 DEF TuiInv, ModesOK

LEMMA PlaylistCreated ==
  ASSUME ServerOK, NEW songs \in Seq(Songs), NEW done, NEW lists \in create_playlist(done, songs)
  PROVE  PlaylistsOK(lists)
<1>1. PlaylistsOK(playlists)
  BY DEF ServerOK
<1>2. CASE lists = playlists
  BY <1>1, <1>2
<1>3. ASSUME NEW id \in PlaylistIds \ DOMAIN playlists,
             lists = [p \in DOMAIN playlists \cup {id} |-> IF p = id THEN songs ELSE playlists[p]]
      PROVE  PlaylistsOK(lists)
  BY <1>1, <1>3 DEF PlaylistsOK
<1> QED
  BY <1>2, <1>3 DEF create_playlist

LEMMA AfterPlaylists ==
  ASSUME ScreensOK(stack), active_tab \in ToSet(TABS), filter_editing = FALSE,
         NEW ok, NEW lists, PlaylistsOK(lists), PlaylistsAfter(ok, lists)
  PROVE  ScreensOK(stack') /\ active_tab' \in ToSet(TABS) /\ filter_editing' = FALSE
<1>1. CASE UNCHANGED <<active_tab, stack, filter_editing>>
  BY <1>1
<1>2. CASE /\ active_tab' = "Playlists" /\ filter_editing' = FALSE
           /\ \E root \in PlaylistRoots(lists) : stack' = <<root>>
  <2>1. PICK root \in PlaylistRoots(lists) : stack' = <<root>>
    BY <1>2
  <2>2. ScreensOK(stack')
    BY <2>1, PlaylistRootOK, RootAlone
  <2>3. "Playlists" \in ToSet(TABS)
    <3>1. TABS[2] = "Playlists" /\ 2 \in DOMAIN TABS
      BY DEF TABS
    <3> QED
      BY <3>1 DEF ToSet
  <2> QED
    BY <1>2, <2>2, <2>3
<1> QED
  BY <1>1, <1>2 DEF PlaylistsAfter

LEMMA SubmitKeeps ==
  ASSUME TuiInv, submit_prompt
  PROVE  TuiInv'
<1>1. /\ Running /\ prompt # NoPrompt /\ busy = Idle /\ prompt' = NoPrompt
      /\ UNCHANGED <<show_help, busy, starred, touched, settled>>
  BY DEF submit_prompt, Prompting
<1>2. /\ filter_editing = FALSE /\ active_tab \in ToSet(TABS) /\ show_help' \in BOOLEAN
      /\ ScreensOK(stack) /\ ServerOK /\ ScreenOK(Top)
      /\ Top.kind = IF prompt.action = "SaveQueue" THEN "Queue" ELSE "PlaylistList"
  BY <1>1, TopOK DEF TuiInv, ModesOK, PromptFits
<1>3. /\ PlaylistsOK(playlists') /\ ScreensOK(stack')
      /\ active_tab' \in ToSet(TABS) /\ filter_editing' = FALSE
  <2>1. CASE UNCHANGED <<playlists, active_tab, stack, filter_editing>>
    BY <1>2, <2>1 DEF ServerOK
  <2>2. ASSUME NEW out \in Outcomes, SubmitNew(out)
        PROVE  /\ PlaylistsOK(playlists') /\ ScreensOK(stack')
               /\ active_tab' \in ToSet(TABS) /\ filter_editing' = FALSE
    <3>1. PlaylistsAfter(out.ok, playlists') /\ playlists' \in create_playlist(out.done, <<>>)
      BY <2>2 DEF SubmitNew
    <3>2. PlaylistsOK(playlists')
      <4>1. <<>> \in Seq(Songs)
        OBVIOUS
      <4> QED
        BY <1>2, <3>1, <4>1, PlaylistCreated
    <3> QED
      BY <1>2, <3>1, <3>2, AfterPlaylists
  <2>3. ASSUME NEW out \in Outcomes, SubmitRename(out)
        PROVE  /\ PlaylistsOK(playlists') /\ ScreensOK(stack')
               /\ active_tab' \in ToSet(TABS) /\ filter_editing' = FALSE
    <3>1. PlaylistsAfter(out.ok, playlists) /\ UNCHANGED playlists
      BY <2>3 DEF SubmitRename
    <3>2. PlaylistsOK(playlists) /\ PlaylistsOK(playlists')
      BY <1>2, <3>1 DEF ServerOK
    <3> QED
      BY <1>2, <3>1, <3>2, AfterPlaylists
  <2>4. ASSUME NEW out \in Outcomes, SubmitSaveQueue(out)
        PROVE  /\ PlaylistsOK(playlists') /\ ScreensOK(stack')
               /\ active_tab' \in ToSet(TABS) /\ filter_editing' = FALSE
    <3> DEFINE others == ToSet(Top.items) \ {NoId}
               ids == Filtered(Top.items, others)
    <3>1. /\ UNCHANGED <<active_tab, stack, filter_editing>> /\ prompt.action = "SaveQueue"
          /\ \/ UNCHANGED playlists
             \/ playlists' \in create_playlist(out.done, ids)
      BY <2>4 DEF SubmitSaveQueue
    <3>2. Top.items \in Seq(Songs \cup {NoId})
      BY <1>2, <3>1 DEF ScreenOK, ItemsOK
    <3>3. ids \in Seq(Songs)
      <4>1. others \subseteq Songs
        BY <3>2, Lists
      <4> HIDE DEF others
      <4>2. /\ ids \in Seq(Songs \cup {NoId})
            /\ \A k \in 1..Len(ids) : \E n \in 1..Len(Top.items) : ids[k] = Top.items[n] /\ Top.items[n] \in others
        BY <3>2, FilteredFacts
      <4> HIDE DEF ids
      <4>3. IsList(ids) /\ \A k \in 1..Len(ids) : ids[k] \in Songs
        BY <4>1, <4>2, Lists
      <4> QED
        BY <4>3, ListOf
    <3> HIDE DEF ids
    <3>4. PlaylistsOK(playlists')
      BY <1>2, <3>1, <3>3, PlaylistCreated DEF ServerOK
    <3> QED
      BY <1>2, <3>1, <3>4
  <2> QED
    BY <2>1, <2>2, <2>3, <2>4 DEF submit_prompt
<1>4. ServerOK'
  BY <1>1, <1>2, <1>3 DEF ServerOK, PlaylistsOK
<1> QED
  BY <1>1, <1>2, <1>3, <1>4, Settles

LEMMA SearchScreen ==
  ASSUME NEW items \in Seq(SongRow), NEW of, NEW filter, of = "editing" => items = <<>>,
         NEW s, s = [kind |-> "Search", items |-> items, of |-> of,
                     selected |-> 0, filter |-> filter, marked |-> {}]
  PROVE  ScreenOK(s) /\ s.kind = "Search"
<1>1. IsList(items) /\ Len(items) \in Nat /\ "Search" \in Kinds
  BY Lists DEF Kinds
<1>2. /\ s.kind = "Search" /\ s.items = items /\ s.of = of /\ s.selected = 0 /\ s.filter = filter /\ s.marked = {}
      /\ s = [kind |-> s.kind, items |-> s.items, of |-> s.of,
              selected |-> s.selected, filter |-> s.filter, marked |-> s.marked]
  OBVIOUS
<1>3. IsScreen(s) /\ Typing(s) /\ MarksOK(s)
  BY <1>1, <1>2 DEF IsScreen, Typing, Editing, MarksOK
<1>4. ItemsOK(s) /\ CursorFits(s)
  BY <1>1, <1>2 DEF ItemsOK, HasSongRows, CursorFits, CursorShown, OffShow, OnRow, Filterable
<1> QED
  BY <1>2, <1>3, <1>4 DEF ScreenOK

LEMMA SearchEditKeeps ==
  ASSUME TuiInv, SearchEdit
  PROVE  TuiInv'
<1>1. /\ Ready /\ Editing(Top)
      /\ UNCHANGED <<filter_editing, serverVars>> /\ UNCHANGED <<active_tab, show_help, prompt, busy>>
  BY DEF SearchEdit, UnchangedModes
<1>2. ScreenOK(Top) /\ ServerOK'
  BY <1>1, TopOK, ServerKept DEF TuiInv, Ready
<1>3. /\ Top.kind = "Search" /\ Top.items = <<>> /\ Top.of = "editing"
      /\ Top.selected = 0 /\ Top.marked = {}
  BY <1>1, <1>2 DEF ScreenOK, Typing, Editing
<1>4. <<>> \in Seq(SongRow) /\ None # "editing"
  BY DEF None
<1>5. ASSUME NEW items \in Seq(SongRow), NEW of, NEW filter, of = "editing" => items = <<>>,
             SetTop([kind |-> Top.kind, items |-> items, of |-> of,
                     selected |-> Top.selected, filter |-> filter, marked |-> Top.marked])
      PROVE  TuiInv'
  <2> DEFINE s == [kind |-> Top.kind, items |-> items, of |-> of,
                   selected |-> Top.selected, filter |-> filter, marked |-> Top.marked]
  <2>1. s = [kind |-> "Search", items |-> items, of |-> of, selected |-> 0, filter |-> filter, marked |-> {}]
    BY <1>3
  <2>2. SetTop(s)
    BY <1>5
  <2> HIDE DEF s
  <2>3. ScreenOK(s) /\ s.kind = "Search"
    BY <1>5, <2>1, SearchScreen
  <2> QED
    BY <1>1, <1>2, <1>3, <2>2, <2>3, TopKeeps
<1>6. ASSUME NEW text, SetTop([Top EXCEPT !.filter = text])
      PROVE  TuiInv'
  <2>1. SetTop([kind |-> Top.kind, items |-> Top.items, of |-> Top.of,
                selected |-> Top.selected, filter |-> text, marked |-> Top.marked])
    BY <1>2, <1>6, AsRecord DEF ScreenOK
  <2> QED
    BY <1>3, <1>4, <1>5, <2>1
<1>7. ASSUME SetTop([Top EXCEPT !.of = None])
      PROVE  TuiInv'
  <2>1. SetTop([kind |-> Top.kind, items |-> Top.items, of |-> None,
                selected |-> Top.selected, filter |-> Top.filter, marked |-> Top.marked])
    BY <1>2, <1>7, AsRecord DEF ScreenOK
  <2> QED
    BY <1>3, <1>4, <1>5, <2>1
<1>8. ASSUME NEW rows \in SongLists, SetTop([Top EXCEPT !.of = None, !.items = rows])
      PROVE  TuiInv'
  <2> DEFINE asked == [Top EXCEPT !.of = None]
             s == [Top EXCEPT !.of = None, !.items = rows]
  <2>1. \A t, x, y : [t EXCEPT !.of = x, !.items = y] = [[t EXCEPT !.of = x] EXCEPT !.items = y]
    OBVIOUS
  <2>2. s = [asked EXCEPT !.items = rows]
    BY <2>1
  <2>3. asked = [kind |-> Top.kind, items |-> Top.items, of |-> None,
                 selected |-> Top.selected, filter |-> Top.filter, marked |-> Top.marked]
    BY <1>2, AsRecord DEF ScreenOK
  <2> HIDE DEF asked
  <2>4. s = [kind |-> Top.kind, items |-> rows, of |-> None,
             selected |-> Top.selected, filter |-> Top.filter, marked |-> Top.marked]
    <3> HIDE DEF s
    <3> QED
      BY <2>2, <2>3
  <2>5. SetTop(s)
    BY <1>8
  <2> HIDE DEF s
  <2>6. rows \in Seq(SongRow)
    BY SongListsAre DEF OrEmpty
  <2> QED
    BY <1>4, <1>5, <2>4, <2>5, <2>6
<1> QED
  BY <1>6, <1>7, <1>8 DEF SearchEdit

LEMMA FilterKeeps ==
  ASSUME TuiInv, FilterEdit \/ StopFiltering
  PROVE  TuiInv'
<1>1. /\ Ready /\ Top.kind \in Filterable
      /\ UNCHANGED serverVars /\ UNCHANGED <<active_tab, show_help, prompt, busy>>
  BY DEF FilterEdit, StopFiltering, FilterMode, UnchangedModes
<1>2. ScreenOK(Top) /\ ServerOK'
  BY <1>1, TopOK, ServerKept DEF TuiInv, Ready, serverVars
<1>3. ASSUME NEW filter, SetTop(WithFilter(Top, filter)), filter_editing' = filter_editing \/ filter_editing' = FALSE
      PROVE  TuiInv'
  <2> DEFINE s == WithFilter(Top, filter)
  <2>1. ScreenOK(s) /\ s.kind = Top.kind /\ s.items = Top.items /\ s.of = Top.of
    BY <1>1, <1>2, FilterSet
  <2>2. filter_editing' \in {filter_editing, FALSE} /\ SetTop(s)
    BY <1>3
  <2> HIDE DEF s
  <2> QED
    BY <1>1, <1>2, <2>1, <2>2, TopKeeps
<1>4. ASSUME StopFiltering
      PROVE  TuiInv'
  BY <1>1, <1>2, <1>4, StackKeeps DEF StopFiltering
<1> QED
  BY <1>3, <1>4 DEF FilterEdit

LEMMA SlashKeeps ==
  ASSUME TuiInv, Slash
  PROVE  TuiInv'
<1>1. KeyMode /\ Ready /\ UNCHANGED <<show_help, prompt, busy, serverVars>>
  BY DEF Slash, KeyMode
<1>2. ServerOK'
  BY <1>1, ServerKept DEF TuiInv
<1>3. CASE Top.kind \in Filterable /\ filter_editing' = TRUE /\ UNCHANGED <<active_tab, stack>>
  <2>1. ScreensOK(stack') /\ Running' /\ Top'.kind \in Filterable /\ active_tab' \in ToSet(TABS)
    BY <1>1, <1>3 DEF TuiInv, Ready, Running, Top, ModesOK
  <2> QED
    BY <1>1, <1>2, <1>3, <2>1, KeyKeeps
<1>4. CASE switch_tab("Search")
  <2>1. "Search" \in ToSet(TABS)
    <3>1. TABS[6] = "Search" /\ 6 \in DOMAIN TABS
      BY DEF TABS
    <3> QED
      BY <3>1 DEF ToSet
  <2> QED
    BY <1>1, <1>2, <1>4, <2>1, TabKeeps
<1> QED
  BY <1>3, <1>4 DEF Slash

LEMMA SwitchTabKeeps ==
  ASSUME TuiInv, SwitchTab
  PROVE  TuiInv'
<1>1. Ready /\ UNCHANGED <<show_help, prompt, busy>> /\ ServerOK'
  BY ServerKept DEF SwitchTab, KeyMode, TuiInv
<1>2. PICK tab \in ToSet(TABS) : switch_tab(tab)
  BY DEF SwitchTab
<1> QED
  BY <1>1, <1>2, TabKeeps

LEMMA StartKeeps ==
  ASSUME TuiInv, Start
  PROVE  TuiInv'
<1>1. switch_tab("Home") /\ UNCHANGED <<show_help, prompt, busy, serverVars>> /\ ~Running
  BY DEF Start
<1>2. busy' = Idle /\ prompt' = NoPrompt /\ show_help' \in BOOLEAN /\ ServerOK'
  BY <1>1, ServerKept DEF TuiInv, ModesOK, BusyFits, PromptFits
<1>3. "Home" \in ToSet(TABS)
  <2>1. TABS[1] = "Home" /\ 1 \in DOMAIN TABS
    BY DEF TABS
  <2> QED
    BY <2>1 DEF ToSet
<1>4. PICK root \in Roots("Home") : stack' = <<root>>
  BY <1>1 DEF switch_tab
<1>5. ScreensOK(stack')
  BY <1>3, <1>4, RootsOK, RootAlone DEF TuiInv
<1> QED
  BY <1>1, <1>2, <1>3, <1>5, Settles DEF switch_tab

-----------------------------------------------------------------------------
(* Moving about *)

LEMMA MoveKeeps ==
  ASSUME TuiInv, MoveSelection
  PROVE  TuiInv'
<1>1. /\ Ready /\ UNCHANGED <<filter_editing, serverVars>> /\ UNCHANGED <<active_tab, show_help, prompt, busy>>
  BY DEF MoveSelection, UnchangedModes
<1>2. ScreenOK(Top) /\ ServerOK'
  BY <1>1, TopOK, ServerKept DEF TuiInv, Ready
<1>3. PICK delta \in {-1, 1} : SetTop(move_selection(Top, delta))
  BY DEF MoveSelection
<1> DEFINE s == move_selection(Top, delta)
<1>4. ScreenOK(s) /\ s.kind = Top.kind /\ s.items = Top.items /\ (Top.kind # "Home" => s.of = Top.of)
  BY <1>2, Moved
<1>5. SetTop(s)
  BY <1>3
<1> HIDE DEF s
<1> QED
  BY <1>1, <1>2, <1>4, <1>5, TopKeeps

LEMMA BackKeeps ==
  ASSUME TuiInv, Back
  PROVE  TuiInv'
<1>1. /\ Ready /\ filter_editing' = FALSE
      /\ UNCHANGED serverVars /\ UNCHANGED <<active_tab, show_help, prompt, busy>>
  <2>1. ~filter_editing /\ UNCHANGED filter_editing
    BY DEF Back, ScreenKey, KeyMode
  <2> QED
    BY <2>1 DEF Back, ScreenKey, KeyMode, TuiInv, ModesOK
<1>2. ScreensOK(stack) /\ Running /\ ScreenOK(Top) /\ ServerOK'
  BY <1>1, TopOK, ServerKept DEF TuiInv, Ready
<1>3. CASE Top.kind \in Filterable /\ SetTop(WithFilter(Top, NoFilter))
  <2> DEFINE s == WithFilter(Top, NoFilter)
  <2>1. ScreenOK(s) /\ s.kind = Top.kind /\ s.items = Top.items /\ s.of = Top.of
    BY <1>2, <1>3, FilterSet
  <2>2. SetTop(s)
    BY <1>3
  <2> HIDE DEF s
  <2> QED
    BY <1>1, <1>2, <2>1, <2>2, TopKeeps
<1>4. CASE Len(stack) > 1 /\ stack' = Front(stack)
  <2>1. ScreensOK(stack') /\ Running'
    BY <1>2, <1>4, LastLeft DEF Running
  <2>2. active_tab' \in ToSet(TABS)
    BY <1>1 DEF TuiInv, ModesOK
  <2> QED
    BY <1>1, <1>2, <2>1, <2>2, KeyKeeps
<1> QED
  BY <1>3, <1>4 DEF Back

LEMMA PushesKeep ==
  ASSUME TuiInv, Ready, Top.kind # "PlaylistPicker", NEW screens, Push(screens),
         \A s \in screens : ScreenOK(s) /\ s.kind # "PlaylistPicker",
         UNCHANGED <<active_tab, show_help, prompt, busy>>,
         filter_editing' = FALSE, ServerOK'
  PROVE  TuiInv'
<1>1. CASE UNCHANGED stack
  <2>1. filter_editing' \in {filter_editing, FALSE}
    OBVIOUS
  <2> QED
    BY <1>1, <2>1, StackKeeps
<1>2. ASSUME NEW s \in screens, stack' = Append(stack, s)
      PROVE  TuiInv'
  <2>1. Len(stack) < MaxDepth
    BY DEF Push
  <2> QED
    BY <1>2, <2>1, PushKeeps
<1> QED
  BY <1>1, <1>2 DEF Push

(* What ScreenKey says of the modes *)
LEMMA ScreenKeyFacts ==
  ASSUME TuiInv, ScreenKey
  PROVE  /\ Ready /\ Running /\ filter_editing = FALSE /\ filter_editing' = FALSE
         /\ UNCHANGED <<active_tab, show_help, prompt, busy>>
         /\ ScreensOK(stack) /\ ScreenOK(Top) /\ ~Editing(Top)
<1>1. Ready /\ Running /\ ~filter_editing /\ UNCHANGED <<active_tab, filter_editing, show_help, prompt, busy>> /\ ~Editing(Top)
  BY DEF ScreenKey, KeyMode, Ready
<1>2. filter_editing \in BOOLEAN /\ ScreensOK(stack)
  BY DEF TuiInv, ModesOK
<1>3. filter_editing = FALSE
  BY <1>1, <1>2
<1> QED
  BY <1>1, <1>2, <1>3, TopOK

LEMMA AlbumsPushed == \A s \in {Screen("AlbumList", names, None) : names \in Shelves} :
                        ScreenOK(s) /\ s.kind # "PlaylistPicker"
  BY NamesOK DEF OrEmpty

LEMMA SongsPushed == \A s \in {Screen("SongList", rows, None) : rows \in OrEmpty(SongLists)} :
                       ScreenOK(s) /\ s.kind # "PlaylistPicker"
  BY SongListsAre, SongListOK

LEMMA ExpandKeeps ==
  ASSUME TuiInv, expand_home_section
  PROVE  TuiInv'
<1>1. ScreenKey /\ Top.kind = "Home" /\ UNCHANGED serverVars
  BY DEF expand_home_section
<1>2. /\ Ready /\ filter_editing' = FALSE /\ ServerOK'
      /\ UNCHANGED <<active_tab, show_help, prompt, busy>>
  BY <1>1, ScreenKeyFacts, ServerKept DEF TuiInv
<1>3. CASE push_album_list
  <2>1. Push({Screen("AlbumList", names, None) : names \in Shelves})
    BY <1>3 DEF push_album_list
  <2> QED
    BY <1>1, <1>2, <2>1, AlbumsPushed, PushesKeep
<1>4. CASE push_native_song_list
  <2>1. PICK rows \in OrEmpty(SongLists) : stack' = Append(stack, Screen("SongList", rows, None))
    BY <1>4 DEF push_native_song_list
  <2>2. Len(stack) < MaxDepth
    BY <1>4 DEF push_native_song_list
  <2> DEFINE s == Screen("SongList", rows, None)
  <2>3. ScreenOK(s) /\ s.kind # "PlaylistPicker"
    BY SongsPushed
  <2>4. stack' = Append(stack, s)
    BY <2>1
  <2> HIDE DEF s
  <2> QED
    BY <1>1, <1>2, <2>2, <2>3, <2>4, PushKeeps
<1> QED
  BY <1>3, <1>4 DEF expand_home_section

LEMMA SortKeeps ==
  ASSUME TuiInv, toggle_album_sort
  PROVE  TuiInv'
<1>1. ScreenKey /\ Top.kind = "AlbumList" /\ UNCHANGED serverVars
  BY DEF toggle_album_sort
<1>2. /\ Ready /\ filter_editing' \in {filter_editing, FALSE} /\ ServerOK'
      /\ UNCHANGED <<active_tab, show_help, prompt, busy>>
  BY <1>1, ScreenKeyFacts, ServerKept DEF TuiInv
<1>3. PICK names \in OrEmpty(Shelves) :
         SetTop(Screen("AlbumList", names, IF Top.of = "Newest" THEN "Alphabetical" ELSE "Newest"))
  BY DEF toggle_album_sort
<1> DEFINE s == Screen("AlbumList", names, IF Top.of = "Newest" THEN "Alphabetical" ELSE "Newest")
<1>4. ScreenOK(s) /\ s.kind = "AlbumList"
  BY NamesOK
<1>5. SetTop(s)
  BY <1>3
<1> HIDE DEF s
<1> QED
  BY <1>1, <1>2, <1>4, <1>5, TopKeeps

LEMMA InfoKeeps ==
  ASSUME TuiInv, show_info
  PROVE  TuiInv'
<1>1. ScreenKey /\ Top.kind \in {"ArtistList", "AlbumList"} /\ UNCHANGED serverVars /\ Len(stack) < MaxDepth
  BY DEF show_info
<1>2. /\ Ready /\ filter_editing' = FALSE /\ ServerOK'
      /\ UNCHANGED <<active_tab, show_help, prompt, busy>>
  BY <1>1, ScreenKeyFacts, ServerKept DEF TuiInv
<1>3. PICK similar \in OrEmpty(Shelves) : stack' = Append(stack, Screen("Info", similar, None))
  BY DEF show_info, OrEmpty
<1> DEFINE s == Screen("Info", similar, None)
<1>4. ScreenOK(s) /\ s.kind = "Info"
  BY NamesOK
<1>5. stack' = Append(stack, s)
  BY <1>3
<1> HIDE DEF s
<1> QED
  BY <1>1, <1>2, <1>4, <1>5, PushKeeps

-----------------------------------------------------------------------------
(* Enter *)

LEMMA MarksClearedKeeps ==
  ASSUME TuiInv, Ready, SetTop(clear_marks(Top)), UNCHANGED <<active_tab, show_help, prompt, busy>>,
         filter_editing' = FALSE, ServerOK'
  PROVE  TuiInv'
<1> DEFINE s == clear_marks(Top)
<1>1. ScreenOK(Top)
  BY TopOK DEF TuiInv, Ready
<1>2. ScreenOK(s) /\ s.kind = Top.kind /\ s.items = Top.items /\ s.of = Top.of
  BY <1>1, MarksCleared DEF ScreenOK
<1>3. SetTop(s) /\ filter_editing' \in {filter_editing, FALSE}
  OBVIOUS
<1> HIDE DEF s
<1> QED
  BY <1>2, <1>3, TopKeeps

LEMMA PickKeeps ==
  ASSUME TuiInv, Ready, PickPlaylist, filter_editing' = FALSE, ServerOK', UNCHANGED <<active_tab, show_help, prompt>>
  PROVE  TuiInv'
<1>1. /\ Top.kind = "PlaylistPicker" /\ UNCHANGED stack
      /\ busy' = [op |-> "add", target |-> Top.items[Top.selected + 1], todo |-> Top.of]
  BY DEF PickPlaylist
<1>2. /\ ScreenOK(Top) /\ ScreensOK(stack') /\ Running' /\ Top' = Top
      /\ prompt' = NoPrompt /\ ~show_help'
  BY <1>1, TopOK DEF TuiInv, Ready, Running, Top
<1>3. Top.of \in Seq(Songs \cup {NoId})
  BY <1>1, <1>2 DEF ScreenOK, ItemsOK
<1>4. BusyFits'
  BY <1>1, <1>2, <1>3 DEF BusyFits, Idle, StarOps
<1>5. FilterFits' /\ PromptFits'
  BY <1>2 DEF FilterFits, PromptFits
<1>6. active_tab' \in ToSet(TABS)' /\ show_help' \in BOOLEAN /\ filter_editing' \in BOOLEAN
  BY DEF TuiInv, ModesOK, ToSet, TABS
<1> QED
  BY <1>2, <1>4, <1>5, <1>6 DEF TuiInv, ModesOK

LEMMA EnterKeeps ==
  ASSUME TuiInv, activate_selection
  PROVE  TuiInv'
<1>1. Ready /\ filter_editing' = FALSE /\ UNCHANGED <<active_tab, show_help, prompt, playlists, starred, settled>>
  BY DEF activate_selection
<1>2. ScreensOK(stack) /\ Running /\ ScreenOK(Top) /\ ServerOK
  BY <1>1, TopOK DEF TuiInv, Ready
<1>3. touched' \subseteq touched => ServerOK'
  BY <1>1, <1>2 DEF ServerOK, PlaylistsOK
<1>4. CASE PlayMarked
  <2>1. SetTop(clear_marks(Top)) /\ UNCHANGED <<busy, touched>>
    BY <1>4 DEF PlayMarked
  <2> QED
    BY <1>1, <1>3, <2>1, MarksClearedKeeps
<1>5. CASE PlayFromSelection \/ JumpInQueue
  <2>1. UNCHANGED <<stack, busy, touched>> /\ filter_editing' \in {filter_editing, FALSE}
    BY <1>1, <1>5 DEF PlayFromSelection, JumpInQueue
  <2> QED
    BY <1>1, <1>3, <2>1, StackKeeps
<1>6. CASE OpenAlbum
  <2>1. /\ Push({Screen("SongList", rows, None) : rows \in SongLists}) /\ UNCHANGED <<busy, touched>>
        /\ Top.kind # "PlaylistPicker"
    BY <1>6 DEF OpenAlbum, push_song_list
  <2>2. \A s \in {Screen("SongList", rows, None) : rows \in SongLists} : ScreenOK(s) /\ s.kind # "PlaylistPicker"
    BY SongsPushed DEF OrEmpty
  <2> QED
    BY <1>1, <1>3, <2>1, <2>2, PushesKeep
<1>7. CASE OpenAlbums
  <2>1. /\ Push({Screen("AlbumList", names, None) : names \in Shelves}) /\ UNCHANGED <<busy, touched>>
        /\ Top.kind # "PlaylistPicker"
    BY <1>7 DEF OpenAlbums, push_album_list
  <2> QED
    BY <1>1, <1>3, <2>1, AlbumsPushed, PushesKeep
<1>8. CASE OpenPlaylist
  <2>1. PICK i \in RealIndex(Top) : push_playlist(Top.items[i + 1])
    BY <1>8 DEF OpenPlaylist
  <2> DEFINE id == Top.items[i + 1]
             screens == {Screen("SongList", Rows(playlists[p]), p) : p \in DOMAIN playlists \cap {id}}
  <2>2. Push(screens) /\ touched' \subseteq touched /\ UNCHANGED busy /\ Top.kind # "PlaylistPicker"
    BY <1>8, <2>1 DEF OpenPlaylist, push_playlist
  <2> HIDE DEF id
  <2>3. ASSUME NEW s \in screens
        PROVE  ScreenOK(s) /\ s.kind # "PlaylistPicker"
    <3>1. PICK p \in DOMAIN playlists : s = Screen("SongList", Rows(playlists[p]), p)
      BY <2>3
    <3>2. playlists[p] \in Seq(Songs) /\ p \in PlaylistIds
      BY <1>2 DEF ServerOK, PlaylistsOK
    <3> QED
      BY <3>1, <3>2, RowsAre, SongListOK
  <2> HIDE DEF screens
  <2> QED
    BY <1>1, <1>3, <2>2, <2>3, PushesKeep
<1>9. CASE PickPlaylist
  BY <1>1, <1>3, <1>9, PickKeeps DEF PickPlaylist
<1> QED
  BY <1>4, <1>5, <1>6, <1>7, <1>8, <1>9 DEF activate_selection

-----------------------------------------------------------------------------
(* Marks, and the calls that follow them *)

LEMMA SelectionKeeps ==
  ASSUME TuiInv, ToggleMark \/ append_selection \/ play_next_selection
  PROVE  TuiInv'
<1>1. ScreenKey /\ UNCHANGED serverVars
  BY DEF ToggleMark, append_selection, play_next_selection
<1>2. /\ Ready /\ filter_editing' = FALSE /\ ServerOK' /\ ScreenOK(Top)
      /\ UNCHANGED <<active_tab, show_help, prompt, busy>>
  BY <1>1, ScreenKeyFacts, ServerKept DEF TuiInv
<1>3. filter_editing' \in {filter_editing, FALSE}
  BY <1>2
<1>4. CASE SetTop(clear_marks(Top))
  BY <1>2, <1>4, MarksClearedKeeps
<1>5. CASE UNCHANGED stack
  BY <1>2, <1>3, <1>5, StackKeeps
<1>6. CASE SetTop(toggle_mark(Top))
  <2> DEFINE s == toggle_mark(Top)
  <2>1. ScreenOK(s) /\ s.kind = Top.kind /\ s.items = Top.items /\ s.of = Top.of
    BY <1>2, MarkToggled
  <2>2. SetTop(s)
    BY <1>6
  <2> HIDE DEF s
  <2> QED
    BY <1>2, <1>3, <2>1, <2>2, TopKeeps
<1> QED
  BY <1>4, <1>5, <1>6 DEF ToggleMark, append_selection, play_next_selection

LEMMA PickerKeeps ==
  ASSUME TuiInv, open_playlist_picker
  PROVE  TuiInv'
<1>1. ScreenKey /\ UNCHANGED serverVars /\ Len(stack) < MaxDepth /\ DOMAIN playlists # {}
  BY DEF open_playlist_picker
<1>2. /\ Ready /\ Running /\ filter_editing' = FALSE /\ ServerOK /\ ServerOK' /\ ScreenOK(Top)
      /\ UNCHANGED <<active_tab, show_help, prompt, busy>>
  BY <1>1, ScreenKeyFacts, ServerKept DEF TuiInv
<1>3. PICK ids \in Chosen : stack' = Append(stack, Screen("PlaylistPicker", SetToSeq(DOMAIN playlists), ids))
  BY DEF open_playlist_picker
<1>4. ids # <<>> /\ ids \in Seq(Songs \cup {NoId}) /\ ToSet(ids) \subseteq Listed(Top)
  BY <1>2, ChosenListed DEF IsListedIn
<1>5. Top.kind # "PlaylistPicker"
  <2>1. Top.kind = "PlaylistPicker" => Listed(Top) = {}
    BY DEF Listed, HasSongRows
  <2>2. ids[1] \in ToSet(ids)
    <3>1. 1 \in DOMAIN ids
      BY <1>4
    <3> QED
      BY <3>1 DEF ToSet
  <2> QED
    BY <1>4, <2>1, <2>2
<1> DEFINE names == SetToSeq(DOMAIN playlists)
           s == Screen("PlaylistPicker", names, ids)
<1>6. names \in Seq(PlaylistIds) /\ names # <<>>
  <2>1. IsFiniteSet(DOMAIN playlists) /\ DOMAIN playlists \subseteq PlaylistIds
    BY <1>2, FS_Subset, TuiAssumption DEF ServerOK, PlaylistsOK
  <2>2. names \in Seq(DOMAIN playlists) /\ names # <<>>
    BY <1>1, <2>1, SetListed
  <2> HIDE DEF names
  <2> QED
    BY <2>1, <2>2
<1>7. stack' = Append(stack, s)
  BY <1>3
<1> HIDE DEF names
<1>8. ItemsOK(s) /\ "PlaylistPicker" \in Kinds
  BY <1>4, <1>6, Lists DEF ItemsOK, Screen, HasSongRows, Kinds
<1>9. s.kind = "PlaylistPicker" /\ s.items # <<>> /\ s.of = ids
  BY <1>6 DEF Screen
<1>10. ScreenOK(s)
  BY <1>8, NewScreenOK
<1> HIDE DEF s
<1> QED
  BY <1>1, <1>2, <1>4, <1>5, <1>7, <1>9, <1>10, PushKeeps

(* One of the calls of a series is made *)
LEMMA CallKeeps ==
  ASSUME TuiInv, busy.op # "none", busy.todo # <<>>, busy' = [busy EXCEPT !.todo = Tail(@)],
         UNCHANGED <<active_tab, filter_editing, show_help, prompt, stack>>, ServerOK'
  PROVE  TuiInv'
<1>1. /\ busy = [op |-> busy.op, target |-> busy.target, todo |-> busy.todo]
      /\ busy.op = "add" => busy.todo \in Seq(Songs \cup {NoId})
      /\ busy.op = "remove" => busy.todo \in Seq(Nat)
      /\ busy.op \in StarOps => busy.todo \in Seq(Songs)
      /\ busy # Idle
  BY DEF TuiInv, ModesOK, BusyFits, Idle
<1> DEFINE rest == Tail(busy.todo)
<1>2. /\ busy.op = "add" => rest \in Seq(Songs \cup {NoId})
      /\ busy.op = "remove" => rest \in Seq(Nat)
      /\ busy.op \in StarOps => rest \in Seq(Songs)
  <2>1. \A S : busy.todo \in Seq(S) => Tail(busy.todo) \in Seq(S)
    OBVIOUS
  <2> QED
    BY <1>1, <2>1
<1>3. busy' = [busy EXCEPT !.todo = rest]
  OBVIOUS
<1> HIDE DEF rest
<1>4. busy' = [op |-> busy.op, target |-> busy.target, todo |-> rest]
  BY <1>1, <1>3
<1>5. ScreensOK(stack') /\ (Running' <=> Running) /\ Top' = Top
  BY DEF TuiInv, Running, Top
<1>6. BusyFits'
  <2>1. BusyFits
    BY DEF TuiInv, ModesOK
  <2>2. Running' /\ ~show_help' /\ prompt' = NoPrompt /\ ~filter_editing'
    BY <1>1, <1>5, <2>1 DEF BusyFits
  <2>3. /\ busy'.op = busy.op /\ busy'.target = busy.target /\ busy'.todo = rest
        /\ busy' = [op |-> busy'.op, target |-> busy'.target, todo |-> busy'.todo]
    BY ONLY <1>4
  <2>4. busy.op \in {"add", "remove"} \cup StarOps
    BY <2>1 DEF BusyFits
  <2> QED
    BY <1>2, <1>5, <2>1, <2>2, <2>3, <2>4 DEF BusyFits
<1>7. FilterFits' /\ PromptFits'
  BY <1>5 DEF TuiInv, ModesOK, FilterFits, PromptFits
<1>8. active_tab' \in ToSet(TABS)' /\ show_help' \in BOOLEAN /\ filter_editing' \in BOOLEAN
  BY DEF TuiInv, ModesOK, ToSet, TABS
<1> QED
  BY <1>5, <1>6, <1>7, <1>8 DEF TuiInv, ModesOK

LEMMA RowRemoved ==
  ASSUME NEW S, NEW list \in Seq(S), NEW i \in 1..Len(list)
  PROVE  RemoveAt(list, i) \in Seq(S)
<1> DEFINE front == SubSeq(list, 1, i - 1)
           back  == SubSeq(list, i + 1, Len(list))
<1>1. front \in Seq(S)
  <2>1. 1 \in Int /\ i - 1 \in Int /\ \A k \in 1..(i - 1) : list[k] \in S
    OBVIOUS
  <2> QED
    BY <2>1, SubSeqProperties
<1>2. back \in Seq(S)
  <2>1. i + 1 \in Int /\ Len(list) \in Int /\ \A k \in (i + 1)..Len(list) : list[k] \in S
    OBVIOUS
  <2> QED
    BY <2>1, SubSeqProperties
<1>3. RemoveAt(list, i) = front \o back
  BY DEF RemoveAt
<1> HIDE DEF front, back
<1> QED
  BY <1>1, <1>2, <1>3

LEMMA ListWith ==
  ASSUME NEW lists, PlaylistsOK(lists), NEW id \in DOMAIN lists, NEW songs \in Seq(Songs)
  PROVE  PlaylistsOK([lists EXCEPT ![id] = songs])
  BY DEF PlaylistsOK

LEMMA AddKeeps ==
  ASSUME TuiInv, add_song_to_playlist
  PROVE  TuiInv'
<1>1. /\ busy.op # "none" /\ busy.todo # <<>> /\ busy' = [busy EXCEPT !.todo = Tail(@)]
      /\ UNCHANGED <<active_tab, filter_editing, show_help, prompt, stack, starred, touched, settled>>
      /\ playlists' = playlists \/ playlists' = WithSong(busy.target, busy.todo[1])
  BY DEF add_song_to_playlist, Calling, Steps, Modes
<1>2. ServerOK
  BY DEF TuiInv
<1>3. PlaylistsOK(WithSong(busy.target, busy.todo[1]))
  <2> DEFINE id == busy.target
             song == busy.todo[1]
  <2>1. CASE id \in DOMAIN playlists /\ song \in Songs
    <3>1. playlists[id] \in Seq(Songs)
      BY <1>2, <2>1 DEF ServerOK, PlaylistsOK
    <3>2. Append(playlists[id], song) \in Seq(Songs)
      BY <2>1, <3>1
    <3>3. WithSong(id, song) = [playlists EXCEPT ![id] = Append(playlists[id], song)]
      BY <2>1 DEF WithSong
    <3> HIDE DEF id, song
    <3> QED
      BY <1>2, <2>1, <3>2, <3>3, ListWith DEF ServerOK, id, song
  <2>2. CASE ~(id \in DOMAIN playlists /\ song \in Songs)
    BY <1>2, <2>2 DEF WithSong, ServerOK
  <2> QED
    BY <2>1, <2>2
<1>4. ServerOK'
  BY <1>1, <1>2, <1>3 DEF ServerOK
<1> QED
  BY <1>1, <1>4, CallKeeps

LEMMA RemoveKeeps ==
  ASSUME TuiInv, remove_song_from_playlist
  PROVE  TuiInv'
<1>1. /\ busy.op = "remove" /\ busy.todo # <<>> /\ busy' = [busy EXCEPT !.todo = Tail(@)]
      /\ UNCHANGED <<active_tab, filter_editing, show_help, prompt, stack, starred, touched, settled>>
      /\ playlists' = playlists \/ playlists' = WithoutIndex(busy.target, busy.todo[1])
  BY DEF remove_song_from_playlist, Calling, Steps, Modes
<1>2. ServerOK /\ busy.todo \in Seq(Nat)
  BY <1>1 DEF TuiInv, ModesOK, BusyFits
<1>3. PlaylistsOK(WithoutIndex(busy.target, busy.todo[1]))
  <2> DEFINE id == busy.target
             i == busy.todo[1]
  <2>1. i \in Nat
    BY <1>1, <1>2
  <2>2. CASE id \in DOMAIN playlists /\ i < Len(playlists[id])
    <3>1. playlists[id] \in Seq(Songs) /\ i + 1 \in 1..Len(playlists[id])
      <4>1. playlists[id] \in Seq(Songs)
        BY <1>2, <2>2 DEF ServerOK, PlaylistsOK
      <4> QED
        BY <2>1, <2>2, <4>1
    <3>2. RemoveAt(playlists[id], i + 1) \in Seq(Songs)
      BY <3>1, RowRemoved
    <3>3. WithoutIndex(id, i) = [playlists EXCEPT ![id] = RemoveAt(playlists[id], i + 1)]
      BY <2>2 DEF WithoutIndex
    <3> HIDE DEF id, i
    <3> QED
      BY <1>2, <2>2, <3>2, <3>3, ListWith DEF ServerOK, id, i
  <2>3. CASE ~(id \in DOMAIN playlists /\ i < Len(playlists[id]))
    BY <1>2, <2>3 DEF WithoutIndex, ServerOK
  <2> QED
    BY <2>2, <2>3
<1>4. ServerOK'
  BY <1>1, <1>2, <1>3 DEF ServerOK
<1> QED
  BY <1>1, <1>4, CallKeeps

LEMMA PickedKeeps ==
  ASSUME TuiInv, Picked
  PROVE  TuiInv'
<1>1. /\ busy.op = "add" /\ busy' = Idle /\ Running
      /\ UNCHANGED <<active_tab, filter_editing, show_help, prompt, playlists, starred, touched, settled>>
  BY DEF Picked, Calling, Steps, Modes
<1>2. /\ prompt' = NoPrompt /\ filter_editing' = FALSE /\ Top.kind = "PlaylistPicker"
      /\ active_tab' \in ToSet(TABS) /\ show_help' \in BOOLEAN
  <2>1. busy # Idle
    BY <1>1 DEF Idle
  <2> QED
    BY <1>1, <2>1 DEF TuiInv, ModesOK, BusyFits
<1>3. ServerOK'
  BY <1>1 DEF TuiInv, ServerOK, PlaylistsOK
<1> DEFINE under == Front(stack)
           s == clear_marks(under[Len(under)])
<1>4. stack' = [under EXCEPT ![Len(under)] = s]
  BY DEF Picked
<1>5. /\ ScreensOK(under) /\ under # <<>> /\ ScreenOK(under[Len(under)])
      /\ under[Len(under)].kind # "PlaylistPicker"
  <2>1. ScreensOK(stack) /\ Len(stack) \in 1..Len(stack)
    BY <1>1, TopOK DEF TuiInv
  <2>2. Len(stack) > 1
    BY <1>2, <2>1 DEF ScreensOK, PickersFit, PickerFits, Top
  <2> QED
    BY <1>1, <2>1, <2>2, LastLeft DEF Running
<1> HIDE DEF under
<1>6. ScreenOK(s) /\ s.kind # "PlaylistPicker"
  BY <1>5, MarksCleared DEF ScreenOK
<1> HIDE DEF s
<1>7. ScreensOK([under EXCEPT ![Len(under)] = s])
  BY <1>5, <1>6, LastReplaced
<1>8. ScreensOK(stack')
  BY <1>4, <1>7
<1> QED
  BY <1>1, <1>2, <1>3, <1>8, Settles

(* The rows to be removed are numbers of rows *)
LEMMA OrderIsNumbers ==
  ASSUME IsList(Top.items), NEW rows
  PROVE  DeletionOrder(rows) \in Seq(Nat)
<1> DEFINE all == [k \in DOMAIN Top.items |-> Len(Top.items) - k]
<1>1. Len(Top.items) \in Nat /\ DOMAIN Top.items = 1..Len(Top.items)
  BY IsListFacts
<1>2. all \in Seq(Nat)
  BY <1>1
<1>3. DeletionOrder(rows) = Filtered(all, rows)
  BY DEF DeletionOrder
<1> HIDE DEF all
<1> QED
  BY <1>2, <1>3, FilteredFacts

LEMMA DeleteKeeps ==
  ASSUME TuiInv, DeleteSongs
  PROVE  TuiInv'
<1>1. /\ Ready /\ KeyMode /\ Top.kind = "SongList" /\ Top.of # None
      /\ busy' = [op |-> "remove", target |-> Top.of, todo |-> DeletionOrder(DeletedRows(Top))]
      /\ UNCHANGED <<active_tab, stack, filter_editing, show_help, prompt, serverVars>>
  BY DEF DeleteSongs, KeyMode
<1>2. /\ ScreenOK(Top) /\ ScreensOK(stack') /\ Running' /\ Top' = Top /\ ServerOK'
      /\ prompt' = NoPrompt /\ ~show_help' /\ ~filter_editing'
  BY <1>1, TopOK, ServerKept DEF TuiInv, Ready, KeyMode, Running, Top
<1>3. Top.of \in PlaylistIds /\ IsList(Top.items)
  BY <1>1, <1>2 DEF ScreenOK, ItemsOK
<1>4. DeletionOrder(DeletedRows(Top)) \in Seq(Nat)
  BY <1>3, OrderIsNumbers
<1>5. BusyFits'
  BY <1>1, <1>2, <1>3, <1>4 DEF BusyFits, Idle, StarOps
<1>6. FilterFits' /\ PromptFits'
  BY <1>2 DEF FilterFits, PromptFits
<1>7. active_tab' \in ToSet(TABS)' /\ show_help' \in BOOLEAN /\ filter_editing' \in BOOLEAN
  BY <1>1 DEF TuiInv, ModesOK, ToSet, TABS
<1> QED
  BY <1>2, <1>5, <1>6, <1>7 DEF TuiInv, ModesOK

LEMMA RefreshKeeps ==
  ASSUME TuiInv, refresh_playlist_songs
  PROVE  TuiInv'
<1>1. /\ busy.op = "remove" /\ busy' = Idle /\ Running
      /\ UNCHANGED <<active_tab, filter_editing, show_help, prompt, playlists, starred, settled>>
      /\ touched' \subseteq touched
  BY DEF refresh_playlist_songs, Calling, Steps, Modes
<1>2. /\ prompt' = NoPrompt /\ filter_editing' = FALSE /\ Top.kind = "SongList" /\ Top.of # None
      /\ active_tab' \in ToSet(TABS) /\ show_help' \in BOOLEAN /\ ScreensOK(stack) /\ ScreenOK(Top)
  <2>1. busy # Idle
    BY <1>1 DEF Idle
  <2> QED
    BY <1>1, <2>1, TopOK DEF TuiInv, ModesOK, BusyFits
<1>3. ServerOK'
  BY <1>1 DEF TuiInv, ServerOK, PlaylistsOK
<1>4. PICK rows \in Seq(SongRow) : SetTop(RemovedFrom(rows))
  <2>1. CASE busy.target \in DOMAIN playlists /\ SetTop(RemovedFrom(Rows(playlists[busy.target])))
    <3>1. playlists[busy.target] \in Seq(Songs)
      BY <2>1 DEF TuiInv, ServerOK, PlaylistsOK
    <3> QED
      BY <2>1, <3>1, RowsAre
  <2>2. CASE SetTop(RemovedFrom(<<>>))
    <3>1. <<>> \in Seq(SongRow)
      OBVIOUS
    <3> QED
      BY <2>2, <3>1
  <2> QED
    BY <2>1, <2>2 DEF refresh_playlist_songs
<1> DEFINE s == Refreshed(Top, rows)
           t == clear_marks(s)
<1>5. IsScreen(s) /\ ItemsOK(s) /\ Typing(s) /\ CursorFits(s) /\ s.kind = "SongList"
  BY <1>2, FetchedAgain
<1>6. SetTop(t)
  BY <1>4 DEF RemovedFrom
<1> HIDE DEF s
<1>7. ScreenOK(t) /\ t.kind = "SongList"
  BY <1>5, MarksCleared DEF HasSongRows
<1> HIDE DEF t
<1>8. ScreensOK(stack')
  BY <1>1, <1>2, <1>6, <1>7, TopReplaced
<1> QED
  BY <1>1, <1>2, <1>3, <1>8, Settles

LEMMA DeletePlaylistKeeps ==
  ASSUME TuiInv, DeletePlaylist
  PROVE  TuiInv'
<1>1. Ready /\ ~filter_editing /\ UNCHANGED <<show_help, prompt, busy, starred, touched, settled>>
  BY DEF DeletePlaylist, KeyMode
<1>2. /\ filter_editing = FALSE /\ ScreensOK(stack) /\ active_tab \in ToSet(TABS) /\ show_help' \in BOOLEAN
      /\ busy' = Idle /\ prompt' = NoPrompt /\ ServerOK
  BY <1>1 DEF TuiInv, ModesOK, Ready
<1>3. PICK id, out : /\ playlists' = playlists \/ playlists' = [p \in DOMAIN playlists \ {id} |-> playlists[p]]
                     /\ PlaylistsAfter(out.ok, playlists')
  BY DEF DeletePlaylist
<1>4. PlaylistsOK(playlists')
  BY <1>2, <1>3 DEF ServerOK, PlaylistsOK
<1>5. ScreensOK(stack') /\ active_tab' \in ToSet(TABS) /\ filter_editing' = FALSE
  BY <1>2, <1>3, <1>4, AfterPlaylists
<1>6. ServerOK'
  BY <1>1, <1>2, <1>4 DEF ServerOK, PlaylistsOK
<1> QED
  BY <1>2, <1>5, <1>6, Settles

-----------------------------------------------------------------------------
(* The queue and the stars *)

LEMMA EditQueueKeeps ==
  ASSUME TuiInv, NEW call, NEW arg, NEW place, EditQueue(call, arg, place)
  PROVE  TuiInv'
<1>1. ScreenKey /\ Top.kind = "Queue" /\ UNCHANGED serverVars
  BY DEF EditQueue
<1>2. /\ Ready /\ filter_editing' \in {filter_editing, FALSE} /\ ServerOK' /\ ScreenOK(Top)
      /\ UNCHANGED <<active_tab, show_help, prompt, busy>>
  BY <1>1, ScreenKeyFacts, ServerKept DEF TuiInv
<1>3. CASE UNCHANGED stack
  BY <1>2, <1>3, StackKeeps
<1>4. ASSUME NEW rows \in OrEmpty(Queues), SetTop(Following(Refreshed(Top, rows), place))
      PROVE  TuiInv'
  <2> DEFINE s == Refreshed(Top, rows)
             t == Following(s, place)
  <2>1. rows \in Seq(Songs \cup {NoId})
    <3>1. <<>> \in Seq(Songs \cup {NoId})
      OBVIOUS
    <3> QED
      BY <3>1, TuiAssumption DEF OrEmpty
  <2>2. IsScreen(s) /\ ItemsOK(s) /\ Typing(s) /\ CursorFits(s) /\ s.kind = "Queue"
    BY <1>1, <1>2, <2>1, FetchedAgain
  <2>3. SetTop(t)
    BY <1>4
  <2> HIDE DEF s
  <2>4. ScreenOK(s)
    BY <2>2 DEF ScreenOK, MarksOK, HasSongRows
  <2>5. ScreenOK(t) /\ t.kind = "Queue"
    BY <2>2, <2>4, Followed
  <2> HIDE DEF t
  <2> QED
    BY <1>1, <1>2, <2>3, <2>5, TopKeeps
<1> QED
  BY <1>3, <1>4 DEF EditQueue

LEMMA QueueKeeps ==
  ASSUME TuiInv, QueueStep
  PROVE  TuiInv'
<1>1. PICK call, arg, place : EditQueue(call, arg, place)
  BY DEF QueueStep, DeleteQueueRow, clear_queue, move_queue_item
<1> QED
  BY <1>1, EditQueueKeeps

LEMMA StarRow ==
  ASSUME NEW s, ScreenOK(s), NEW row \in StarTarget(s)
  PROVE  row \in SongRow /\ (s.kind = "Home" \/ (HasSongRows(s) /\ ~Editing(s) /\ s.kind # "Home"))
<1>1. CASE s.kind = "Home"
  <2> DEFINE all == Focused(s).rows
  <2>1. Focused(s).songs /\ s.selected < Len(all) /\ row = all[s.selected + 1]
    <3>1. row \in HomeSong(s)
      BY <1>1 DEF StarTarget, Markable
    <3> QED
      BY <3>1 DEF HomeSong
  <2>2. all \in Seq(SongRow) /\ Len(all) \in Nat
    BY <1>1, <2>1, HomeFacts
  <2>3. s.selected + 1 \in 1..Len(all)
    BY <2>1, <2>2 DEF ScreenOK, IsScreen
  <2> HIDE DEF all
  <2> QED
    BY <1>1, <2>1, <2>2, <2>3
<1>2. CASE s.kind # "Home" /\ Markable(s)
  <2>1. PICK i \in RealIndex(s) : row = s.items[i + 1]
    <3>1. StarTarget(s) = {s.items[i + 1] : i \in RealIndex(s)}
      BY <1>2 DEF StarTarget, Markable
    <3> QED
      BY <3>1
  <2>2. s.items \in Seq(SongRow) /\ IsList(s.items) /\ s.selected \in Nat
    BY <1>2 DEF ScreenOK, ItemsOK, IsScreen, Markable, HasSongRows
  <2>3. i + 1 \in 1..Len(s.items)
    BY <2>2, RealIndexFacts
  <2> QED
    BY <1>2, <2>1, <2>2, <2>3 DEF Markable, HasSongRows
<1> QED
  BY <1>1, <1>2 DEF StarTarget

LEMMA StarKeeps ==
  ASSUME TuiInv, toggle_star
  PROVE  TuiInv'
<1>1. ScreenKey /\ UNCHANGED <<playlists, touched, settled>>
  BY DEF toggle_star
<1>2. /\ Ready /\ filter_editing' \in {filter_editing, FALSE} /\ ServerOK /\ ScreenOK(Top)
      /\ UNCHANGED <<active_tab, show_help, prompt, busy>>
  BY <1>1, ScreenKeyFacts DEF TuiInv
<1>3. PICK row \in StarTarget(Top), out \in Outcomes :
         /\ starred' = IF out.done THEN Starring(row.id, ~row.starred) ELSE starred
         /\ IF ~out.ok THEN UNCHANGED stack
            ELSE SetTop([Top EXCEPT !.items =
                   IF Top.kind = "Home" THEN FlipOnHome(@, row.id, ~row.starred)
                                        ELSE FlipFirst(@, row.id, ~row.starred)])
  BY DEF toggle_star
<1>4. row \in SongRow /\ (Top.kind = "Home" \/ (HasSongRows(Top) /\ ~Editing(Top) /\ Top.kind # "Home"))
  BY <1>2, StarRow
<1>5. row.id \in Songs /\ (~row.starred) \in BOOLEAN
  BY <1>4 DEF SongRow
<1>6. starred' \subseteq Songs
  BY <1>2, <1>3, <1>5 DEF Starring, ServerOK
<1>7. ServerOK'
  BY <1>1, <1>2, <1>6 DEF ServerOK, PlaylistsOK
<1>8. CASE UNCHANGED stack
  BY <1>2, <1>7, <1>8, StackKeeps
<1>9. CASE Top.kind = "Home" /\ ~UNCHANGED stack
  <2> DEFINE s == [Top EXCEPT !.items = FlipOnHome(Top.items, row.id, ~row.starred)]
  <2>1. ScreenOK(s) /\ s.kind = "Home"
    BY <1>2, <1>5, <1>9, HomeFlipped
  <2>2. SetTop(s)
    BY <1>3, <1>9
  <2> HIDE DEF s
  <2> QED
    BY <1>2, <1>7, <1>9, <2>1, <2>2, TopKeeps
<1>10. CASE Top.kind # "Home" /\ ~UNCHANGED stack
  <2> DEFINE on == ~row.starred
             id == row.id
             rows == FlipFirst(Top.items, id, on)
             s == [Top EXCEPT !.items = rows]
  <2>1. Top.items \in Seq(SongRow)
    BY <1>2, <1>4, <1>10 DEF ScreenOK, ItemsOK
  <2>2. /\ rows \in Seq(SongRow) /\ Len(rows) = Len(Top.items) /\ Ids(rows) = Ids(Top.items)
        /\ \A k \in 1..Len(Top.items) : rows[k].id = Top.items[k].id
    <3>1. on \in BOOLEAN
      BY <1>5
    <3> HIDE DEF on, id
    <3> QED
      BY <2>1, <3>1, RowsFlipped, FlipsOnlyStars
  <2>3. SetTop(s)
    BY <1>3, <1>10
  <2> HIDE DEF rows
  <2>4. ScreenOK(s) /\ s.kind = Top.kind /\ s.kind # "PlaylistPicker"
    BY <1>2, <1>4, <1>10, <2>2, ItemsFlipped DEF HasSongRows
  <2> HIDE DEF s
  <2> QED
    BY <1>2, <1>7, <2>3, <2>4, TopKeeps
<1> QED
  BY <1>8, <1>9, <1>10

(* What is marked is songs *)
LEMMA MarkedSongs ==
  ASSUME NEW s, ScreenOK(s), HasMarks(s)
  PROVE  /\ HasSongRows(s) /\ s.items \in Seq(SongRow)
         /\ marked_songs(s) \in Seq(SongRow) /\ Ids(marked_songs(s)) \in Seq(Songs)
<1>1. HasSongRows(s) /\ s.items \in Seq(SongRow)
  BY DEF HasMarks, ScreenOK, ItemsOK
<1>2. marked_songs(s) \in Seq(SongRow)
  BY MarkedListed
<1> QED
  BY <1>1, <1>2, IdsFacts

LEMMA BulkStartKeeps ==
  ASSUME TuiInv, bulk_toggle_star
  PROVE  TuiInv'
<1>1. /\ Ready /\ KeyMode /\ HasMarks(Top)
      /\ \E op \in StarOps : busy' = [op |-> op, target |-> None, todo |-> Ids(marked_songs(Top))]
      /\ UNCHANGED <<active_tab, filter_editing, show_help, prompt, stack, serverVars>>
  BY DEF bulk_toggle_star, KeyMode, Modes, StarOps
<1>2. /\ ScreenOK(Top) /\ ScreensOK(stack') /\ Running' /\ Top' = Top /\ ServerOK'
      /\ prompt' = NoPrompt /\ ~show_help' /\ ~filter_editing'
  BY <1>1, TopOK, ServerKept DEF TuiInv, Ready, KeyMode, Running, Top
<1>3. HasSongRows(Top) /\ Ids(marked_songs(Top)) \in Seq(Songs) /\ ~Editing(Top)
  BY <1>1, <1>2, MarkedSongs DEF KeyMode
<1>4. PICK op \in StarOps : busy' = [op |-> op, target |-> None, todo |-> Ids(marked_songs(Top))]
  BY <1>1
<1>5. op \notin {"none", "add", "remove"}
  BY DEF StarOps
<1> DEFINE todo == Ids(marked_songs(Top))
<1> HIDE DEF todo
<1>6. /\ busy' = [op |-> busy'.op, target |-> busy'.target, todo |-> busy'.todo]
      /\ busy'.op = op /\ busy'.todo = todo
  BY <1>4 DEF todo
<1>7. BusyFits'
  BY <1>2, <1>3, <1>5, <1>6 DEF BusyFits, StarOps, todo
<1>8. FilterFits' /\ PromptFits'
  BY <1>2 DEF FilterFits, PromptFits
<1>9. active_tab' \in ToSet(TABS)' /\ show_help' \in BOOLEAN /\ filter_editing' \in BOOLEAN
  BY <1>1 DEF TuiInv, ModesOK, ToSet, TABS
<1> QED
  BY <1>2, <1>7, <1>8, <1>9 DEF TuiInv, ModesOK

LEMMA SetStarredKeeps ==
  ASSUME TuiInv, set_starred
  PROVE  TuiInv'
<1>1. /\ busy.op \in StarOps /\ busy.todo # <<>> /\ busy' = [busy EXCEPT !.todo = Tail(@)]
      /\ UNCHANGED <<active_tab, filter_editing, show_help, prompt, stack, playlists, touched>>
  BY DEF set_starred, Modes
<1>2. ServerOK /\ busy.op # "none" /\ busy.todo[1] \in Songs
  <2>1. ServerOK /\ busy.todo \in Seq(Songs)
    BY <1>1 DEF TuiInv, ModesOK, BusyFits
  <2>2. busy.todo[1] \in Songs
    BY <1>1, <2>1
  <2> QED
    BY <1>1, <2>1, <2>2 DEF StarOps
<1>3. starred' \subseteq Songs /\ settled' \subseteq Songs
  BY <1>2 DEF set_starred, Starring, ServerOK
<1>4. ServerOK'
  BY <1>1, <1>2, <1>3 DEF ServerOK, PlaylistsOK
<1> QED
  BY <1>1, <1>2, <1>4, CallKeeps

(* The rows of the marked songs are set to one state, and the marks go *)
LEMMA MarkedFlipped ==
  ASSUME NEW s, ScreenOK(s), HasSongRows(s), ~Editing(s), NEW on \in BOOLEAN
  PROVE  LET flipped == [s EXCEPT !.items = FlipAll(s.items, ToSet(Ids(marked_songs(s))), on)]
             t       == clear_marks(flipped)
         IN  /\ ScreenOK(flipped) /\ ScreenOK(t)
             /\ t.kind = s.kind /\ t.of = s.of /\ t.filter = s.filter /\ t.selected = s.selected
             /\ t.items = FlipAll(s.items, ToSet(Ids(marked_songs(s))), on)
             /\ t.items \in Seq(SongRow) /\ Len(t.items) = Len(s.items)
             /\ \A k \in 1..Len(s.items) : t.items[k].id = s.items[k].id
<1> DEFINE ids  == ToSet(Ids(marked_songs(s)))
           rows == FlipAll(s.items, ids, on)
           flipped == [s EXCEPT !.items = rows]
           t    == clear_marks(flipped)
<1>1. s.items \in Seq(SongRow) /\ IsScreen(s)
  BY DEF ScreenOK, ItemsOK
<1> HIDE DEF ids
<1>2. /\ rows \in Seq(SongRow) /\ Len(rows) = Len(s.items) /\ Ids(rows) = Ids(s.items)
      /\ \A k \in 1..Len(s.items) : rows[k].id = s.items[k].id
  BY <1>1, RowsFlipped, FlipsOnlyStars
<1> HIDE DEF rows
<1>3. /\ ScreenOK(flipped) /\ flipped.kind = s.kind /\ flipped.of = s.of /\ flipped.items = rows
      /\ flipped.filter = s.filter /\ flipped.selected = s.selected
  BY <1>1, <1>2, ItemsFlipped
<1> HIDE DEF flipped
<1>4. /\ ScreenOK(t) /\ t.kind = flipped.kind /\ t.items = flipped.items /\ t.of = flipped.of
      /\ t.filter = flipped.filter /\ t.selected = flipped.selected
  BY <1>3, MarksCleared DEF ScreenOK
<1> HIDE DEF t
<1> QED
  BY <1>2, <1>3, <1>4 DEF t, flipped, rows, ids

LEMMA BulkStarredKeeps ==
  ASSUME TuiInv, BulkStarred
  PROVE  TuiInv'
<1>1. /\ busy.op \in StarOps /\ busy # Idle /\ busy' = Idle /\ Running /\ settled' = {}
      /\ UNCHANGED <<active_tab, filter_editing, show_help, prompt, playlists, starred, touched>>
  BY DEF BulkStarred, Modes, StarOps, Idle
<1>2. /\ prompt' = NoPrompt /\ filter_editing' = FALSE /\ HasSongRows(Top) /\ ~Editing(Top)
      /\ active_tab' \in ToSet(TABS) /\ show_help' \in BOOLEAN /\ ScreensOK(stack) /\ ScreenOK(Top)
  BY <1>1, TopOK DEF TuiInv, ModesOK, BusyFits
<1>3. ServerOK'
  BY <1>1 DEF TuiInv, ServerOK, PlaylistsOK
<1> DEFINE on == busy.op = "star"
           ids == ToSet(Ids(marked_songs(Top)))
           t == clear_marks([Top EXCEPT !.items = FlipAll(Top.items, ids, on)])
<1>4. SetTop(t)
  BY DEF BulkStarred
<1>5. on \in BOOLEAN
  OBVIOUS
<1> HIDE DEF on
<1>6. ScreenOK(t) /\ t.kind = Top.kind
  BY <1>2, <1>5, MarkedFlipped
<1>7. t.kind # "PlaylistPicker"
  BY <1>2, <1>6 DEF HasSongRows
<1> HIDE DEF t
<1>8. ScreensOK(stack')
  BY <1>1, <1>2, <1>4, <1>6, <1>7, TopReplaced
<1> QED
  BY <1>1, <1>2, <1>3, <1>8, Settles

-----------------------------------------------------------------------------
(* What happens beside the keys *)

LEMMA Untouched ==
  ASSUME TuiInv, UNCHANGED screenVars, ServerOK'
  PROVE  TuiInv'
<1>1. UNCHANGED <<active_tab, stack, filter_editing, show_help, prompt, busy>>
  BY DEF screenVars
<1>2. ScreensOK(stack') /\ (Running' <=> Running) /\ Top' = Top
  BY <1>1 DEF TuiInv, Running, Top
<1>3. FilterFits' /\ PromptFits' /\ BusyFits'
  BY <1>1, <1>2 DEF TuiInv, ModesOK, FilterFits, PromptFits, BusyFits, Idle
<1>4. active_tab' \in ToSet(TABS)' /\ show_help' \in BOOLEAN /\ filter_editing' \in BOOLEAN
  BY <1>1 DEF TuiInv, ModesOK, ToSet, TABS
<1> QED
  BY <1>2, <1>3, <1>4 DEF TuiInv, ModesOK

LEMMA OtherDeviceKeeps ==
  ASSUME TuiInv, OtherDevice
  PROVE  TuiInv'
<1>1. ServerOK /\ UNCHANGED screenVars
  BY DEF TuiInv, OtherDevice
<1>2. ASSUME NEW song \in Songs, NEW on \in BOOLEAN, starred' = Starring(song, on),
             settled' = settled \ {song}, UNCHANGED <<playlists, touched>>
      PROVE  ServerOK'
  BY <1>1, <1>2 DEF ServerOK, PlaylistsOK, Starring
<1>3. ASSUME NEW id \in DOMAIN playlists, touched' = touched \cup {id}, UNCHANGED <<starred, settled>>,
             PlaylistsOK(playlists')
      PROVE  ServerOK'
  BY <1>1, <1>3 DEF ServerOK, PlaylistsOK
<1>4. ASSUME NEW id \in DOMAIN playlists
      PROVE  /\ \A song \in Songs : PlaylistsOK([playlists EXCEPT ![id] = <<song>> \o playlists[id]])
             /\ \A k \in DOMAIN playlists[id] : PlaylistsOK([playlists EXCEPT ![id] = RemoveAt(playlists[id], k)])
             /\ PlaylistsOK([p \in DOMAIN playlists \ {id} |-> playlists[p]])
  <2>1. PlaylistsOK(playlists) /\ playlists[id] \in Seq(Songs)
    BY <1>1, <1>4 DEF ServerOK, PlaylistsOK
  <2>2. ASSUME NEW song \in Songs
        PROVE  PlaylistsOK([playlists EXCEPT ![id] = <<song>> \o playlists[id]])
    <3>1. <<song>> \o playlists[id] \in Seq(Songs)
      BY <2>1
    <3> QED
      BY <2>1, <3>1, ListWith
  <2>3. ASSUME NEW k \in DOMAIN playlists[id]
        PROVE  PlaylistsOK([playlists EXCEPT ![id] = RemoveAt(playlists[id], k)])
    <3>1. k \in 1..Len(playlists[id])
      BY <2>1
    <3>2. RemoveAt(playlists[id], k) \in Seq(Songs)
      BY <2>1, <3>1, RowRemoved
    <3> QED
      BY <2>1, <3>2, ListWith
  <2>4. PlaylistsOK([p \in DOMAIN playlists \ {id} |-> playlists[p]])
    BY <2>1 DEF PlaylistsOK
  <2> QED
    BY <2>2, <2>3, <2>4
<1>5. ServerOK'
  BY <1>2, <1>3, <1>4 DEF OtherDevice
<1> QED
  BY <1>1, <1>5, Untouched

LEMMA NoScreens == ScreensOK(<<>>)
<1>1. <<>> \in Seq({}) /\ Len(<<>>) = 0
  OBVIOUS
<1>2. IsList(<<>>)
  BY <1>1, Lists
<1> QED
  BY <1>1, <1>2, TuiAssumption DEF ScreensOK, StackOK, PickersFit

LEMMA QuitKeeps ==
  ASSUME TuiInv, Quit
  PROVE  TuiInv'
<1>1. /\ Ready /\ stack' = <<>> /\ active_tab' = "Home" /\ filter_editing' = FALSE
      /\ UNCHANGED <<show_help, prompt, busy, serverVars>>
  BY DEF Quit, KeyMode
<1>2. busy' = Idle /\ prompt' = NoPrompt /\ show_help' \in BOOLEAN /\ ServerOK'
  BY <1>1, ServerKept DEF TuiInv, ModesOK, Ready
<1>3. "Home" \in ToSet(TABS)
  <2>1. TABS[1] = "Home" /\ 1 \in DOMAIN TABS
    BY DEF TABS
  <2> QED
    BY <2>1 DEF ToSet
<1>4. ScreensOK(stack')
  BY <1>1, NoScreens
<1> QED
  BY <1>1, <1>2, <1>3, <1>4, Settles

-----------------------------------------------------------------------------
(* The invariant holds *)

LEMMA InitTui == Init => TuiInv
<1> SUFFICES ASSUME Init
             PROVE  TuiInv
  OBVIOUS
<1>1. ServerOK
  BY TuiAssumption DEF Init, ServerOK, PlaylistsOK
<1>2. "Home" \in ToSet(TABS)
  <2>1. TABS[1] = "Home" /\ 1 \in DOMAIN TABS
    BY DEF TABS
  <2> QED
    BY <2>1 DEF ToSet
<1>3. PICK root \in Roots("Home") : stack = <<root>>
  BY DEF Init
<1>4. ScreenOK(root) /\ root.kind # "PlaylistPicker"
  BY <1>1, <1>2, <1>3, RootsOK
<1>5. ScreensOK(<<root>>)
  BY <1>4, AloneOK
<1>6. FilterFits /\ PromptFits /\ BusyFits
  BY DEF Init, FilterFits, PromptFits, BusyFits, Idle, StarOps
<1> QED
  BY <1>1, <1>2, <1>3, <1>5, <1>6 DEF Init, TuiInv, ModesOK

LEMMA NextTui ==
  ASSUME TuiInv, [Next]_vars
  PROVE  TuiInv'
<1>1. CASE OverlayStep
  BY <1>1, HelpKeeps, PromptsKeep, PromptEditsKeep, SubmitKeeps, SearchEditKeeps, FilterKeeps, SlashKeeps
     DEF OverlayStep
<1>2. CASE BrowseStep
  BY <1>2, SwitchTabKeeps, MoveKeeps, BackKeeps, ExpandKeeps, SortKeeps, InfoKeeps, EnterKeeps, FilterKeeps,
     StartKeeps DEF BrowseStep
<1>3. CASE SongStep
  BY <1>3, SelectionKeeps, PickerKeeps, AddKeeps, PickedKeeps, DeleteKeeps, RemoveKeeps, RefreshKeeps,
     DeletePlaylistKeeps, StarKeeps, BulkStartKeeps, SetStarredKeeps, BulkStarredKeeps DEF SongStep
<1>4. CASE QueueStep
  BY <1>4, QueueKeeps
<1>5. CASE OtherDevice
  BY <1>5, OtherDeviceKeeps
<1>6. CASE Quit
  BY <1>6, QuitKeeps
<1>7. CASE NoScreenChanges \/ UNCHANGED vars
  <2>1. UNCHANGED screenVars /\ UNCHANGED serverVars
    BY <1>7 DEF NoScreenChanges, vars, tuiVars
  <2>2. ServerOK'
    BY <2>1, ServerKept DEF TuiInv
  <2> QED
    BY <2>1, <2>2, Untouched
<1> QED
  BY <1>1, <1>2, <1>3, <1>4, <1>5, <1>6, <1>7 DEF Next, TuiStep, CheckKey, UpdateKey, BackKey

(* Whatever keys are pressed, calls answered, refused or lost, and whatever *)
(* other devices do in between: every screen is one the code can draw and   *)
(* act on, and what takes the keys belongs to the screen on top.            *)
THEOREM TuiInvariant == Spec => []TuiInv
<1>1. TuiInv /\ [Next]_vars => TuiInv'
  BY NextTui
<1> QED
  BY InitTui, <1>1, PTL DEF Spec

(* What plays, or nothing, is what the panels are for *)
PanelsOfWhatPlays == \E now \in Playing \cup {[p \in Panels |-> Nothing]} : current = now

LEMMA PanelsAreOfWhatPlays == Spec => []PanelsOfWhatPlays
<1>1. Init => PanelsOfWhatPlays
  BY DEF Init, BackgroundInit, PanelsOfWhatPlays
<1>2. PanelsOfWhatPlays /\ [Next]_vars => PanelsOfWhatPlays'
  <2> SUFFICES ASSUME PanelsOfWhatPlays, [Next]_vars
               PROVE  PanelsOfWhatPlays'
    OBVIOUS
  <2> QED
    BY StepsOfPanels DEF PanelsOfWhatPlays, panelVars, UpdatePanels, FetchEnds, PanelsRestart
<1> QED
  BY <1>1, <1>2, PTL DEF Spec

(* Every variable of the TUI stays in its range: no stack grows past its    *)
(* bound, no cursor below its first row, and the phases, the jobs and the   *)
(* installed commits are ones there can be.                                 *)
THEOREM TypesOfTui == Spec => []TypeOK
<1>1. UpdateInv /\ PanelsOfWhatPlays => BackgroundTypeOK
  <2> SUFFICES ASSUME UpdateInv, PanelsOfWhatPlays
               PROVE  BackgroundTypeOK
    OBVIOUS
  <2>1. CommitsKnown /\ branch \in 1..MaxHead /\ MaxHead \in Nat
    BY BackgroundAssumption DEF UpdateInv, CommitsKnown
  <2>2. /\ update_state \in [phase : Phases, commit : 0..branch, lines : 0..APPLY_LOG_LINES]
        /\ installed \in [ToSet(Packages) -> 1..branch] /\ built \in 1..branch /\ confirmed \in 1..branch
        /\ 0..branch \subseteq 0..MaxHead /\ 1..branch \subseteq 1..MaxHead
    BY <2>1 DEF CommitsKnown
  <2>3. /\ update_state \in [phase : Phases, commit : 0..MaxHead, lines : 0..APPLY_LOG_LINES]
        /\ installed \in [ToSet(Packages) -> 1..MaxHead] /\ built \in 1..MaxHead /\ confirmed \in 1..MaxHead
    BY <2>2
  <2> QED
    BY <2>1, <2>3 DEF CommitsKnown, BackgroundTypeOK, PanelsOfWhatPlays
<1>2. TuiInv /\ BackgroundTypeOK => TypeOK
  <2> SUFFICES ASSUME TuiInv, BackgroundTypeOK
               PROVE  TypeOK
    OBVIOUS
  <2>1. IsList(stack) /\ Len(stack) <= MaxDepth /\ \A n \in 1..Len(stack) : ScreenOK(stack[n])
    BY DEF TuiInv, ScreensOK, StackOK
  <2>2. \A n \in DOMAIN stack : stack[n].kind \in Kinds /\ stack[n].selected \in Nat
    BY <2>1, IsListFacts DEF ScreenOK, IsScreen
  <2>3. {filter_editing, show_help} \subseteq BOOLEAN
    BY DEF TuiInv, ModesOK
  <2> QED
    BY <2>1, <2>2, <2>3 DEF TuiInv, ModesOK, BusyFits, ServerOK, PlaylistsOK, TypeOK
<1> QED
  BY <1>1, <1>2, TuiInvariant, UpdateInvariant, PanelsAreOfWhatPlays, PTL

LEMMA StackDomain ==
  ASSUME TuiInv
  PROVE  DOMAIN stack = 1..Len(stack) /\ \A n \in DOMAIN stack : ScreenOK(stack[n])
  BY IsListFacts DEF TuiInv, ScreensOK, StackOK

(* No mark outlives its row, on any screen of the stack. *)
THEOREM MarksStayListed == Spec => []MarksAreListed
<1>1. TuiInv => MarksAreListed
  BY StackDomain DEF MarksAreListed, ScreenOK, MarksOK
<1> QED
  BY <1>1, TuiInvariant, PTL

(* A prompt, a filter and a picker belong to the screen they were opened    *)
(* on: Enter in a prompt acts on a playlist the list has, and a picker adds *)
(* songs of the list below it.                                              *)
THEOREM OverlaysStayFit == Spec => []OverlaysFit
<1>1. TuiInv => OverlaysFit
  <2> SUFFICES ASSUME TuiInv
               PROVE  OverlaysFit
    OBVIOUS
  <2>1. prompt # NoPrompt /\ prompt.action = "Rename" => Contains(Top.items, prompt.target)
    <3> SUFFICES ASSUME prompt # NoPrompt, prompt.action = "Rename"
                 PROVE  Contains(Top.items, prompt.target)
      OBVIOUS
    <3>1. Running /\ \E k \in 1..Len(Top.items) : Top.items[k] = prompt.target
      BY DEF TuiInv, ModesOK, PromptFits
    <3>2. DOMAIN Top.items = 1..Len(Top.items)
      BY <3>1, TopOK, IsListFacts DEF TuiInv, ScreenOK, ItemsOK
    <3> QED
      BY <3>1, <3>2 DEF Contains
  <2>2. ASSUME NEW n \in DOMAIN stack, stack[n].kind = "PlaylistPicker"
        PROVE  PickerFits(stack, n)
    BY <2>2, StackDomain DEF TuiInv, ScreensOK, PickersFit
  <2> QED
    BY <2>1, <2>2 DEF TuiInv, ModesOK, FilterFits, PromptFits, PickerFits, OverlaysFit
<1> QED
  BY <1>1, TuiInvariant, PTL

-----------------------------------------------------------------------------
(* What the daemon is sent *)

PlayCalls == {"play_queue", "append_queue", "play_next"}

SendsListed == Running /\ sent'.call \in PlayCalls /\ IsListedIn(Top, sent'.arg)

(* A key that gives the daemon songs gives it songs of the screen on top *)
LEMMA SentListed ==
  ASSUME ScreensOK(stack), Running, NEW call, NEW ids, IsListedIn(Top, ids), Sends(call, ids), call \in PlayCalls
  PROVE  SendsListed
<1>1. PICK ok \in BOOLEAN : sent' = Call(call, ids, ok)
  BY DEF Sends
<1>2. sent'.call = call /\ sent'.arg = ids
  BY <1>1 DEF Call
<1> QED
  BY <1>2 DEF SendsListed

LEMMA OtherCall ==
  ASSUME NEW call, NEW arg, NEW ok, sent' = Call(call, arg, ok), call \notin PlayCalls
  PROVE  sent'.call \notin PlayCalls
  BY DEF Call

LEMMA NoCallSent ==
  ASSUME NoCall
  PROVE  sent'.call \notin PlayCalls
  BY DEF NoCall, Silent, Call, PlayCalls

LEMMA EnterSends ==
  ASSUME TuiInv, activate_selection
  PROVE  SendsListed \/ sent'.call \notin PlayCalls
<1>1. ScreensOK(stack) /\ Running /\ ScreenOK(Top)
  BY TopOK DEF TuiInv, activate_selection, Ready
<1>2. "play_queue" \in PlayCalls /\ "play_at" \notin PlayCalls
  BY DEF PlayCalls
<1>3. CASE PlayMarked
  BY <1>1, <1>2, <1>3, MarkedListed, SentListed DEF PlayMarked
<1>4. CASE PlayFromSelection
  BY <1>1, <1>2, <1>4, FromListed, SentListed DEF PlayFromSelection
<1>5. CASE JumpInQueue
  BY <1>2, <1>5, OtherCall DEF JumpInQueue, Sends
<1>6. CASE NoCall
  BY <1>6, NoCallSent
<1> QED
  BY <1>3, <1>4, <1>5, <1>6 DEF activate_selection, OpenAlbum, OpenAlbums, OpenPlaylist, PickPlaylist

LEMMA SelectionSends ==
  ASSUME TuiInv, append_selection \/ play_next_selection
  PROVE  SendsListed
<1>1. ScreensOK(stack) /\ Running /\ ScreenOK(Top)
  BY ScreenKeyFacts DEF append_selection, play_next_selection
<1>2. "append_queue" \in PlayCalls /\ "play_next" \in PlayCalls
  BY DEF PlayCalls
<1>3. CASE append_selection
  BY <1>1, <1>2, <1>3, MarkedListed, FromListed, SentListed DEF append_selection
<1>4. CASE play_next_selection
  BY <1>1, <1>2, <1>4, MarkedListed, SelectedListed, SentListed DEF play_next_selection
<1> QED
  BY <1>3, <1>4

LEMMA OthersSend ==
  ASSUME \/ OverlayStep
         \/ BrowseStep /\ ~activate_selection
         \/ SongStep /\ ~append_selection /\ ~play_next_selection
         \/ QueueStep
         \/ OtherDevice \/ NoScreenChanges \/ Quit
  PROVE  sent'.call \notin PlayCalls
<1>1. /\ "create_playlist" \notin PlayCalls /\ "rename_playlist" \notin PlayCalls /\ "quit" \notin PlayCalls
      /\ "add_song_to_playlist" \notin PlayCalls /\ "remove_song_from_playlist" \notin PlayCalls
      /\ "delete_playlist" \notin PlayCalls /\ "set_starred" \notin PlayCalls
      /\ "remove_from_queue" \notin PlayCalls /\ "clear_queue" \notin PlayCalls /\ "move_in_queue" \notin PlayCalls
  BY DEF PlayCalls
<1>2. CASE NoCall
  BY <1>2, NoCallSent
<1>3. CASE submit_prompt
  <2>1. ASSUME NEW out, SubmitNew(out) \/ SubmitRename(out) \/ SubmitSaveQueue(out)
        PROVE  sent'.call \notin PlayCalls
    <3>1. NoCall \/ \E call, arg : call \notin PlayCalls /\ sent' = Call(call, arg, out.ok)
      BY <1>1, <2>1 DEF SubmitNew, SubmitRename, SubmitSaveQueue
    <3> QED
      BY <3>1, NoCallSent, OtherCall
  <2> QED
    BY <1>2, <1>3, <2>1 DEF submit_prompt
<1>4. CASE add_song_to_playlist
  BY <1>1, <1>4, OtherCall DEF add_song_to_playlist
<1>5. CASE remove_song_from_playlist
  BY <1>1, <1>5, OtherCall DEF remove_song_from_playlist
<1>6. CASE DeletePlaylist
  BY <1>1, <1>6, OtherCall DEF DeletePlaylist
<1>7. CASE toggle_star
  BY <1>1, <1>7, OtherCall DEF toggle_star
<1>8. CASE set_starred
  BY <1>1, <1>8, OtherCall DEF set_starred
<1>9. CASE QueueStep
  BY <1>1, <1>9, OtherCall DEF QueueStep, DeleteQueueRow, clear_queue, move_queue_item, EditQueue
<1>10. CASE Quit
  BY <1>1, <1>2, <1>10, OtherCall DEF Quit, Sends
<1>11. CASE OverlayStep /\ ~submit_prompt
  BY <1>2, <1>11 DEF OverlayStep, Help, prompt_new_playlist, prompt_rename_playlist,
     prompt_save_queue_as_playlist, Prompt, PromptEdit, PromptCancel, SearchEdit, FilterEdit, Slash
<1>12. CASE BrowseStep /\ ~activate_selection
  BY <1>2, <1>12 DEF BrowseStep, SwitchTab, MoveSelection, Back, expand_home_section, toggle_album_sort,
     show_info, StopFiltering, Start
<1>13. CASE \/ ToggleMark \/ open_playlist_picker \/ Picked \/ DeleteSongs \/ refresh_playlist_songs
             \/ bulk_toggle_star \/ BulkStarred
  BY <1>2, <1>13 DEF ToggleMark, open_playlist_picker, Picked, DeleteSongs, refresh_playlist_songs,
     bulk_toggle_star, BulkStarred
<1>14. CASE OtherDevice \/ NoScreenChanges
  BY <1>2, <1>14 DEF OtherDevice, NoScreenChanges
<1> QED
  BY <1>3, <1>4, <1>5, <1>6, <1>7, <1>8, <1>9, <1>10, <1>11, <1>12, <1>13, <1>14 DEF SongStep

(* The daemon is never sent an empty list, nor a song the screen on top     *)
(* does not list: no mark has outlived its row, no cursor its list.         *)
THEOREM PlaysOnlyWhatIsListed == Spec => PlaysWhatIsListed
<1>1. TuiInv /\ [Next]_vars =>
        [sent'.call \in {"play_queue", "append_queue", "play_next"} =>
           sent'.arg # <<>> /\ ToSet(sent'.arg) \subseteq Listed(Top)]_vars
  <2> SUFFICES ASSUME TuiInv, Next, sent'.call \in PlayCalls
               PROVE  sent'.arg # <<>> /\ ToSet(sent'.arg) \subseteq Listed(Top)
    BY DEF PlayCalls
  <2>1. SendsListed
    BY EnterSends, SelectionSends, OthersSend DEF Next, TuiStep, CheckKey, UpdateKey, BackKey, BrowseStep, SongStep
  <2> QED
    BY <2>1 DEF SendsListed, IsListedIn
<1> QED
  BY <1>1, TuiInvariant, PTL DEF Spec, PlaysWhatIsListed

-----------------------------------------------------------------------------
(* The stars of several songs *)

LEMMA OutcomesAre ==
  ASSUME NEW out \in Outcomes
  PROVE  out.ok \in BOOLEAN /\ out.done \in BOOLEAN /\ (out.ok => out.done)
<1>1. CASE out = [ok |-> TRUE, done |-> TRUE]
  BY <1>1
<1>2. CASE out = [ok |-> FALSE, done |-> FALSE]
  BY <1>2
<1>3. CASE out = [ok |-> FALSE, done |-> TRUE]
  BY <1>3
<1> QED
  BY <1>1, <1>2, <1>3 DEF Outcomes

(* A series of calls that set stars is made for one state, and of the songs *)
(* it has set, and nobody else changed since, the server has that state     *)
StarInv ==
  /\ busy.op \notin StarOps => settled = {}
  /\ busy.op \in StarOps => \A id \in settled : (id \in starred) <=> (busy.op = "star")

(* Nothing else happens to stars while such a series is made *)
LEMMA StarSteps ==
  ASSUME Next, ~set_starred, ~BulkStarred, ~OtherDevice
  PROVE  UNCHANGED settled /\ (busy.op \in StarOps => UNCHANGED <<busy, starred>>)
<1>1. busy.op \in StarOps => busy # Idle /\ busy.op # "add" /\ busy.op # "remove"
  <2>1. Idle.op = "none"
    BY DEF Idle
  <2> QED
    BY <2>1 DEF StarOps
<1>2. CASE OverlayStep
  BY <1>1, <1>2 DEF OverlayStep, Help, prompt_new_playlist, prompt_rename_playlist,
     prompt_save_queue_as_playlist, Prompt, PromptEdit, PromptCancel, submit_prompt, Prompting, SearchEdit,
     FilterEdit, FilterMode, Slash, KeyMode, Ready, serverVars
<1>3. CASE BrowseStep
  <2>1. CASE SwitchTab \/ MoveSelection \/ Back \/ expand_home_section \/ toggle_album_sort \/ show_info
             \/ StopFiltering
    BY <1>1, <2>1 DEF SwitchTab, MoveSelection, Back, expand_home_section, toggle_album_sort,
       show_info, StopFiltering, FilterMode, ScreenKey, KeyMode, Ready, serverVars
  <2>2. CASE activate_selection
    BY <1>1, <2>2 DEF activate_selection, Ready
  <2>3. CASE Start
    BY <1>1, <2>3 DEF Start, serverVars
  <2> QED
    BY <1>3, <2>1, <2>2, <2>3 DEF BrowseStep
<1>4. CASE QueueStep
  BY <1>1, <1>4 DEF QueueStep, DeleteQueueRow, clear_queue, move_queue_item, EditQueue, ScreenKey, KeyMode,
     Ready, serverVars
<1>5. CASE SongStep
  BY <1>1, <1>5 DEF SongStep, ToggleMark, append_selection, play_next_selection, open_playlist_picker,
     add_song_to_playlist, Picked, Calling, Steps, DeleteSongs, remove_song_from_playlist,
     refresh_playlist_songs, DeletePlaylist, toggle_star, bulk_toggle_star, ScreenKey, KeyMode, Ready, serverVars
<1>6. CASE NoScreenChanges \/ UNCHANGED vars
  BY <1>6 DEF NoScreenChanges, screenVars, serverVars, vars, tuiVars
<1>7. CASE Quit
  BY <1>1, <1>7 DEF Quit, KeyMode, Ready, serverVars
<1> QED
  BY <1>2, <1>3, <1>4, <1>5, <1>6, <1>7 DEF Next, TuiStep, CheckKey, UpdateKey, BackKey

LEMMA SetStarredSettles ==
  ASSUME TuiInv, StarInv, set_starred
  PROVE  StarInv'
<1> DEFINE id == busy.todo[1]
<1>1. PICK out \in Outcomes : /\ starred' = IF out.done THEN Starring(id, NewStar(id)) ELSE starred
                              /\ settled' = IF out.ok THEN settled \cup {id} ELSE settled
  BY DEF set_starred
<1>2. busy.op \in StarOps /\ busy' = [busy EXCEPT !.todo = Tail(@)]
      /\ busy = [op |-> busy.op, target |-> busy.target, todo |-> busy.todo]
  BY DEF set_starred, TuiInv, ModesOK, BusyFits
<1>3. busy'.op = busy.op
  BY ONLY <1>2
<1>4. out.ok \in BOOLEAN /\ out.done \in BOOLEAN /\ (out.ok => out.done)
  BY OutcomesAre
<1>5. \A x \in settled : (x \in starred) <=> (busy.op = "star")
  BY <1>2 DEF StarInv
<1> HIDE DEF id
<1>6. \A x \in settled' : (x \in starred') <=> (busy.op = "star")
  BY <1>1, <1>4, <1>5 DEF Starring, NewStar
<1> QED
  BY <1>2, <1>3, <1>6 DEF StarInv

LEMMA NextStar ==
  ASSUME TuiInv, StarInv, [Next]_vars
  PROVE  StarInv'
<1>1. CASE set_starred
  BY <1>1, SetStarredSettles
<1>2. CASE BulkStarred
  BY <1>2 DEF BulkStarred, StarInv, Idle, StarOps
<1>3. CASE OtherDevice
  <2>1. busy' = busy
    BY <1>3 DEF OtherDevice, screenVars
  <2>2. CASE UNCHANGED <<starred, settled>>
    BY <2>1, <2>2 DEF StarInv
  <2>3. CASE \E song \in Songs, on \in BOOLEAN : starred' = Starring(song, on) /\ settled' = settled \ {song}
    BY <2>1, <2>3 DEF StarInv, Starring
  <2> QED
    BY <1>3, <2>2, <2>3 DEF OtherDevice
<1>4. CASE UNCHANGED vars
  BY <1>4 DEF StarInv, vars, tuiVars, screenVars, serverVars
<1>5. CASE Next /\ ~set_starred /\ ~BulkStarred /\ ~OtherDevice
  <2>1. UNCHANGED settled /\ (busy.op \in StarOps => UNCHANGED <<busy, starred>>)
    BY <1>5, StarSteps
  <2> QED
    BY <2>1 DEF StarInv
<1> QED
  BY <1>1, <1>2, <1>3, <1>4, <1>5

(* Of the songs a series of calls has set, and nobody else changed since,   *)
(* the server has the state the series is made for; before it there are     *)
(* none.                                                                    *)
THEOREM StarsAreSettled == Spec => []StarInv
<1>1. Init => StarInv
  BY DEF Init, StarInv, Idle, StarOps
<1>2. TuiInv /\ StarInv /\ [Next]_vars => StarInv'
  BY NextStar
<1> QED
  BY <1>1, <1>2, TuiInvariant, PTL DEF Spec

(* Every row of a marked song is set *)
LEMMA MarkedAgree ==
  ASSUME NEW s, s.items \in Seq(SongRow), NEW on \in BOOLEAN, NEW id \in s.marked,
         NEW k \in 1..Len(s.items), s.items[k].id = id
  PROVE  FlipAll(s.items, ToSet(Ids(marked_songs(s))), on)[k].starred = on
<1> DEFINE marked == {row \in ToSet(s.items) : row.id \in s.marked}
           songs  == Filtered(s.items, marked)
<1>1. marked_songs(s) = songs
  BY DEF marked_songs
<1>2. DOMAIN s.items = 1..Len(s.items) /\ s.items[k] \in SongRow
  OBVIOUS
<1>3. s.items[k] \in marked
  BY <1>2 DEF ToSet
<1> HIDE DEF marked
<1>4. songs \in Seq(SongRow) /\ \E n \in 1..Len(songs) : songs[n] = s.items[k]
  <2>1. \A list \in Seq(SongRow) :
          /\ Filtered(list, marked) \in Seq(SongRow)
          /\ \A m \in 1..Len(list) :
               list[m] \in marked => \E n \in 1..Len(Filtered(list, marked)) : Filtered(list, marked)[n] = list[m]
    BY FilteredFacts
  <2> QED
    BY <1>3, <2>1
<1> HIDE DEF songs
<1>5. id \in ToSet(Ids(songs))
  BY <1>4, IdsFacts
<1> DEFINE ids == ToSet(Ids(songs))
<1> HIDE DEF ids
<1>6. s.items[k].id \in ids
  BY <1>5 DEF ids
<1>7. FlipAll(s.items, ids, on)[k] = [s.items[k] EXCEPT !.starred = on]
  BY <1>2, <1>6 DEF FlipAll
<1>8. FlipAll(s.items, ids, on)[k].starred = on
  BY <1>2, <1>7 DEF SongRow
<1> QED
  BY <1>1, <1>8 DEF ids

LEMMA StarsAgreeAtTheEnd ==
  ASSUME TuiInv, StarInv, BulkStarred, NEW id \in Top.marked
  PROVE  /\ \A row \in ToSet(Top'.items) : row.id = id => row.starred = (busy.op = "star")
         /\ id \in settled => (id \in starred) = (busy.op = "star")
<1> DEFINE on == busy.op = "star"
           ids == ToSet(Ids(marked_songs(Top)))
           rows == FlipAll(Top.items, ids, on)
           t == clear_marks([Top EXCEPT !.items = rows])
<1>1. busy.op \in StarOps /\ busy # Idle /\ Running /\ SetTop(t)
  BY DEF BulkStarred, StarOps, Idle
<1>2. HasSongRows(Top) /\ ~Editing(Top) /\ ScreensOK(stack) /\ ScreenOK(Top)
  BY <1>1, TopOK DEF TuiInv, ModesOK, BusyFits
<1>3. on \in BOOLEAN /\ Top.items \in Seq(SongRow)
  BY <1>2 DEF ScreenOK, ItemsOK
<1>4. id \in settled => (id \in starred) = (busy.op = "star")
  BY <1>1 DEF StarInv
<1> HIDE DEF on
<1>5. /\ ScreenOK(t) /\ t.kind = Top.kind /\ t.items = rows /\ rows \in Seq(SongRow) /\ Len(rows) = Len(Top.items)
      /\ \A k \in 1..Len(Top.items) : rows[k].id = Top.items[k].id
  BY <1>2, <1>3, MarkedFlipped
<1>6. \A k \in 1..Len(Top.items) : Top.items[k].id = id => rows[k].starred = on
  BY <1>3, MarkedAgree
<1>7. t.kind # "PlaylistPicker"
  BY <1>2, <1>5 DEF HasSongRows
<1> HIDE DEF t, rows
<1>8. Top'.items = rows
  BY <1>1, <1>2, <1>5, <1>7, TopReplaced
<1>9. \A row \in ToSet(rows) : row.id = id => row.starred = on
  <2>1. DOMAIN rows = 1..Len(Top.items)
    BY <1>5
  <2> QED
    BY <1>5, <1>6, <2>1 DEF ToSet
<1> QED
  BY <1>4, <1>8, <1>9 DEF on

(* f on several songs, however many calls are refused or lost and whatever  *)
(* another device does between them, ends with every row of a marked song   *)
(* in one state, which is also the server's of each song whose call was     *)
(* taken and which nobody else has changed since.                           *)
THEOREM MarkedStarsEndAgreed == Spec => MarkedStarsAgree
<1>1. TuiInv /\ StarInv /\ [Next]_vars =>
        [busy.op \in StarOps /\ busy' = Idle =>
           \A id \in Top.marked :
             /\ \A row \in ToSet(Top'.items) : row.id = id => row.starred = (busy.op = "star")
             /\ id \in settled => (id \in starred) = (busy.op = "star")]_vars
  <2> SUFFICES ASSUME TuiInv, StarInv, Next, busy.op \in StarOps, busy' = Idle, NEW id \in Top.marked
               PROVE  /\ \A row \in ToSet(Top'.items) : row.id = id => row.starred = (busy.op = "star")
                      /\ id \in settled => (id \in starred) = (busy.op = "star")
    OBVIOUS
  <2>1. busy' # busy /\ busy'.op \notin StarOps
    BY DEF Idle, StarOps
  <2>2. ~set_starred
    <3>1. busy = [op |-> busy.op, target |-> busy.target, todo |-> busy.todo]
      BY DEF TuiInv, ModesOK, BusyFits
    <3>2. [busy EXCEPT !.todo = Tail(@)].op = busy.op
      BY ONLY <3>1
    <3> QED
      BY <2>1, <3>2 DEF set_starred
  <2>3. ~OtherDevice
    BY <2>1 DEF OtherDevice, screenVars
  <2>4. BulkStarred
    BY <2>1, <2>2, <2>3, StarSteps
  <2> QED
    BY <2>4, StarsAgreeAtTheEnd
<1> QED
  BY <1>1, TuiInvariant, StarsAreSettled, PTL DEF Spec, MarkedStarsAgree

-----------------------------------------------------------------------------
(* What a list of a playlist has to do with the playlist *)

OfPlaylist(s) == s.kind = "SongList" /\ s.of # None

(* The playlists can only be at the bottom, and a playlist on top of them   *)
InPlace(screens) ==
  \A n \in 1..Len(screens) : /\ screens[n].kind = "PlaylistList" => n = 1
                             /\ OfPlaylist(screens[n]) => n = 2

(* Songs may have been added at the end since they were listed *)
StartsWith(songs, rows) ==
  Len(rows) <= Len(songs) /\ \A k \in 1..Len(rows) : songs[k] = rows[k].id

InStep(s) == s.of \notin touched => s.of \in DOMAIN playlists /\ StartsWith(playlists[s.of], s.items)

ListsInStep ==
  busy.op # "remove" => \A n \in 1..Len(stack) : OfPlaylist(stack[n]) => InStep(stack[n])

(* Of a removal under way: the rows still to come are chosen ones, from the *)
(* last to the first, and up to the next of them the playlist is as listed  *)
RemovalFits(songs, todo) ==
  /\ \A k \in 1..Len(todo) : todo[k] \in DeletedRows(Top)
  /\ \A j, k \in 1..Len(todo) : j < k => todo[k] < todo[j]
  /\ todo # <<>> => /\ todo[1] < Len(songs)
                    /\ \A j \in 1..(todo[1] + 1) : songs[j] = Top.items[j].id

RemovalInStep ==
  busy.op = "remove" /\ busy.target \notin touched =>
    busy.target \in DOMAIN playlists /\ RemovalFits(playlists[busy.target], busy.todo)

ListsInv == InPlace(stack) /\ ListsInStep /\ RemovalInStep

-----------------------------------------------------------------------------
(* What a step leaves of the screens *)

SameList(s, t) ==
  /\ t.kind = s.kind /\ t.of = s.of
  /\ s.kind = "SongList" => Len(t.items) = Len(s.items) /\ \A k \in 1..Len(s.items) : t.items[k].id = s.items[k].id

Neutral(s) == s.kind # "PlaylistList" /\ ~OfPlaylist(s)

Kept(screens, new) ==
  \A n \in 1..Len(new) : \/ n \in 1..Len(screens) /\ SameList(screens[n], new[n])
                         \/ Neutral(new[n])
                         \/ n = 1 /\ new[n].kind = "PlaylistList"

(* What a step leaves of the playlists nobody else edits *)
Grows(songs, more) == Len(songs) <= Len(more) /\ \A k \in 1..Len(songs) : more[k] = songs[k]

ListsGrow ==
  /\ touched \subseteq touched'
  /\ \A p \in DOMAIN playlists \ touched' : p \in DOMAIN playlists' /\ Grows(playlists[p], playlists'[p])

LEMMA RowsOfList ==
  ASSUME NEW s, ScreenOK(s), s.kind = "SongList"
  PROVE  s.items \in Seq(SongRow) /\ Len(s.items) \in Nat /\ s.of \in PlaylistIds \cup {None}
<1>1. HasSongRows(s)
  BY DEF HasSongRows
<1> QED
  BY <1>1 DEF ScreenOK, ItemsOK

LEMMA SongsOfPlaylist ==
  ASSUME NEW lists, PlaylistsOK(lists), NEW p \in DOMAIN lists
  PROVE  lists[p] \in Seq(Songs) /\ Len(lists[p]) \in Nat
BY DEF PlaylistsOK

LEMMA StillStarts ==
  ASSUME NEW songs \in Seq(Songs), NEW more \in Seq(Songs), Grows(songs, more),
         NEW rows \in Seq(SongRow), NEW new \in Seq(SongRow), StartsWith(songs, rows),
         Len(new) = Len(rows), \A k \in 1..Len(rows) : new[k].id = rows[k].id
  PROVE  StartsWith(more, new)
<1>1. Len(songs) \in Nat /\ Len(more) \in Nat /\ Len(rows) \in Nat /\ Len(new) \in Nat
  OBVIOUS
<1>2. ASSUME NEW k \in 1..Len(new)
      PROVE  more[k] = new[k].id
  <2>1. k \in 1..Len(rows) /\ k \in 1..Len(songs)
    BY <1>1 DEF StartsWith
  <2> QED
    BY <2>1 DEF StartsWith, Grows
<1> QED
  BY <1>1, <1>2 DEF StartsWith, Grows

(* A step that neither begins nor makes a removal *)
LEMMA KeptKeeps ==
  ASSUME TuiInv, TuiInv', ListsInv, busy.op # "remove", busy'.op # "remove", Kept(stack, stack'), ListsGrow
  PROVE  ListsInv'
<1>1. /\ \A n \in 1..Len(stack) : ScreenOK(stack[n])
      /\ \A n \in 1..Len(stack') : ScreenOK(stack'[n])
      /\ PlaylistsOK(playlists) /\ PlaylistsOK(playlists')
  BY DEF TuiInv, ScreensOK, StackOK, ServerOK, PlaylistsOK, ScreenOK, IsScreen, ItemsOK, Typing, MarksOK, CursorFits, CursorShown, OffShow, OnRow
<1>2. InPlace(stack')
  BY DEF ListsInv, InPlace, Kept, SameList, Neutral, OfPlaylist
<1>3. ASSUME NEW n \in 1..Len(stack'), OfPlaylist(stack'[n]), stack'[n].of \notin touched'
      PROVE  stack'[n].of \in DOMAIN playlists' /\ StartsWith(playlists'[stack'[n].of], stack'[n].items)
  <2> DEFINE s == stack[n]
             t == stack'[n]
             p == t.of
  <2>1. n \in 1..Len(stack) /\ SameList(s, t)
    BY <1>3 DEF Kept, Neutral, OfPlaylist
  <2>2. /\ s.kind = "SongList" /\ t.kind = "SongList" /\ s.of = p /\ OfPlaylist(s)
        /\ Len(t.items) = Len(s.items) /\ \A k \in 1..Len(s.items) : t.items[k].id = s.items[k].id
    BY <1>3, <2>1 DEF SameList, OfPlaylist
  <2>3. p \notin touched
    BY <1>3 DEF ListsGrow
  <2>4. p \in DOMAIN playlists /\ StartsWith(playlists[p], s.items)
    BY <2>1, <2>2, <2>3 DEF ListsInv, ListsInStep, InStep
  <2>5. p \in DOMAIN playlists' /\ Grows(playlists[p], playlists'[p])
    BY <1>3, <2>4 DEF ListsGrow
  <2>6. s.items \in Seq(SongRow) /\ t.items \in Seq(SongRow)
    BY <1>1, <2>1, <2>2, RowsOfList
  <2>7. playlists[p] \in Seq(Songs) /\ playlists'[p] \in Seq(Songs)
    BY <1>1, <2>4, <2>5, SongsOfPlaylist
  <2> HIDE DEF s, t
  <2> QED
    BY <2>2, <2>4, <2>5, <2>6, <2>7, StillStarts DEF t
<1>4. ListsInStep'
  BY <1>3 DEF ListsInStep, InStep, OfPlaylist, StartsWith
<1>5. RemovalInStep'
  BY DEF RemovalInStep
<1> QED
  BY <1>2, <1>4, <1>5 DEF ListsInv, InPlace, OfPlaylist

(* A step elsewhere *)
LEMMA ElsewhereKeeps ==
  ASSUME ListsInv, UNCHANGED <<stack, busy>>, touched \subseteq touched',
         \A p \in DOMAIN playlists \ touched' : p \in DOMAIN playlists' /\ playlists'[p] = playlists[p]
  PROVE  ListsInv'
<1>1. InPlace(stack)'
  BY DEF ListsInv, InPlace, OfPlaylist
<1>2. ListsInStep'
  BY DEF ListsInv, ListsInStep, InStep, OfPlaylist, StartsWith
<1>3. Top' = Top /\ DeletedRows(Top)' = DeletedRows(Top)
  BY DEF Top, DeletedRows, RealIndex, visible_indices, Shown, Matches, Name, HasSongRows
<1>4. ASSUME busy.op = "remove", busy.target \notin touched'
      PROVE  busy.target \in DOMAIN playlists' /\ RemovalFits(playlists[busy.target], busy.todo)'
  <2>1. busy.target \in DOMAIN playlists /\ RemovalFits(playlists[busy.target], busy.todo)
    BY <1>4 DEF ListsInv, RemovalInStep
  <2>2. playlists'[busy.target] = playlists[busy.target] /\ busy.target \in DOMAIN playlists' /\ busy' = busy
    BY <1>4, <2>1
  <2> QED
    BY <1>3, <2>1, <2>2 DEF RemovalFits
<1>5. RemovalInStep'
  BY ONLY <1>4, busy' = busy DEF RemovalInStep
<1> QED
  BY <1>1, <1>2, <1>5 DEF ListsInv

-----------------------------------------------------------------------------
(* The ways screens come and go *)

LEMMA OnlyTop ==
  ASSUME ScreensOK(stack), Running, NEW s, SetTop(s)
  PROVE  /\ Len(stack) \in Nat \ {0} /\ Len(stack') = Len(stack)
         /\ \A n \in 1..Len(stack) : stack'[n] = IF n = Len(stack) THEN s ELSE stack[n]
<1> DEFINE len == Len(stack)
           new == [stack EXCEPT ![len] = s]
<1>1. IsList(stack) /\ len \in Nat \ {0} /\ stack = [n \in 1..len |-> stack[n]]
  BY ScreensFacts, IsListFacts DEF Running
<1>2. new = [n \in 1..len |-> IF n = len THEN s ELSE stack[n]]
  BY <1>1
<1>3. Len(new) = len /\ \A n \in 1..len : new[n] = IF n = len THEN s ELSE stack[n]
  <2>1. len \in Nat /\ new = [n \in 1..len |-> new[n]]
    BY <1>1, <1>2
  <2> HIDE DEF new
  <2>2. Len(new) = len
    BY <2>1, FunctionIsList
  <2> QED
    BY <1>2, <2>2
<1>4. stack' = new
  BY DEF SetTop
<1> HIDE DEF new
<1> QED
  BY <1>1, <1>3, <1>4

LEMMA TopKept ==
  ASSUME ScreensOK(stack), Running, NEW s, SetTop(s), SameList(Top, s) \/ Neutral(s)
  PROVE  Kept(stack, stack')
<1> DEFINE len == Len(stack)
<1>1. /\ len \in Nat \ {0} /\ Len(stack') = len
      /\ \A n \in 1..len : stack'[n] = IF n = len THEN s ELSE stack[n]
  BY OnlyTop
<1>2. \A n \in 1..len : n = len \/ SameList(stack[n], stack'[n])
  BY <1>1 DEF SameList
<1>3. SameList(stack[len], stack'[len]) \/ Neutral(stack'[len])
  BY <1>1 DEF Top
<1> QED
  BY <1>1, <1>2, <1>3 DEF Kept

LEMMA StackKept ==
  ASSUME UNCHANGED stack
  PROVE  Kept(stack, stack')
BY DEF Kept, SameList

LEMMA PushedKept ==
  ASSUME ScreensOK(stack), NEW s, stack' = Append(stack, s), Neutral(s)
  PROVE  Kept(stack, stack')
<1> DEFINE new == Append(stack, s)
           len == Len(stack)
<1>1. IsList(stack) /\ len \in Nat
  BY IsListFacts DEF ScreensOK, StackOK
<1>2. Len(new) = len + 1 /\ new[len + 1] = s /\ \A n \in 1..len : new[n] = stack[n]
  BY <1>1, ListAppended
<1>3. stack' = new
  OBVIOUS
<1> HIDE DEF new
<1>4. \A n \in 1..(len + 1) : n = len + 1 \/ n \in 1..len
  BY <1>1
<1> QED
  BY <1>2, <1>3, <1>4 DEF Kept, SameList

LEMMA LeftKept ==
  ASSUME ScreensOK(stack), Running, Len(stack) > 1
  PROVE  Kept(stack, Front(stack))
<1> DEFINE new == Front(stack)
           len == Len(stack)
<1>1. IsList(stack) /\ len \in Nat \ {0}
  BY ScreensFacts DEF Running
<1>2. Len(new) = len - 1 /\ \A n \in 1..(len - 1) : new[n] = stack[n]
  BY <1>1, ListShortened DEF Running
<1> HIDE DEF new
<1>3. \A n \in 1..(len - 1) : n \in 1..len
  BY <1>1
<1> QED
  BY <1>2, <1>3 DEF Kept, SameList, new

LEMMA RootKept ==
  ASSUME NEW root, root.kind # "SongList", stack' = <<root>>
  PROVE  Kept(stack, stack')
<1>1. Len(<<root>>) = 1 /\ <<root>>[1] = root /\ \A n \in 1..1 : n = 1
  OBVIOUS
<1> QED
  BY <1>1 DEF Kept, Neutral, OfPlaylist

LEMMA RootKind ==
  ASSUME NEW tab \in ToSet(TABS), NEW root \in Roots(tab)
  PROVE  root.kind # "SongList" /\ root.filter = NoFilter
<1>1. tab \in {"Home", "Playlists", "Albums", "Artists", "Genres", "Search", "Queue", "Settings"}
  <2>1. PICK n \in 1..8 : tab = TABS[n]
    BY DEF ToSet, TABS
  <2> QED
    BY <2>1 DEF TABS
<1>2. \A kind, items, of : Screen(kind, items, of).kind = kind /\ Screen(kind, items, of).filter = NoFilter
  BY DEF Screen
<1>3. CASE tab = "Home"
  <2>1. PICK lists \in Dashboards : root = Home(lists)
    BY <1>3 DEF Roots
  <2> QED
    BY <2>1, <1>2 DEF Home
<1>4. CASE tab = "Playlists"
  BY <1>2, <1>4 DEF Roots, PlaylistRoots
<1>5. CASE tab = "Albums"
  BY <1>2, <1>5 DEF Roots
<1>6. CASE tab = "Artists"
  BY <1>2, <1>6 DEF Roots
<1>7. CASE tab = "Genres"
  BY <1>2, <1>7 DEF Roots
<1>8. CASE tab = "Search"
  BY <1>2, <1>8 DEF Roots
<1>9. CASE tab = "Queue"
  BY <1>2, <1>9 DEF Roots
<1>10. CASE tab = "Settings"
  BY <1>2, <1>10 DEF Roots
<1> QED
  BY <1>1, <1>3, <1>4, <1>5, <1>6, <1>7, <1>8, <1>9, <1>10

LEMMA TabKept ==
  ASSUME NEW tab \in ToSet(TABS), switch_tab(tab)
  PROVE  Kept(stack, stack')
BY RootKind, RootKept DEF switch_tab

LEMMA NeutralKinds ==
  /\ \A kind, items, of : kind \notin {"PlaylistList", "SongList"} => Neutral(Screen(kind, items, of))
  /\ \A items : Neutral(Screen("SongList", items, None))
  /\ \A s : s.kind \notin {"PlaylistList", "SongList"} => Neutral(s)
BY DEF Neutral, OfPlaylist, Screen

LEMMA PushKept ==
  ASSUME ScreensOK(stack), NEW screens, Push(screens), \A s \in screens : Neutral(s)
  PROVE  Kept(stack, stack')
BY PushedKept, StackKept DEF Push

(* What leaves a list its names leaves it alone *)
LEMMA SameNames ==
  ASSUME NEW s, NEW t, t.kind = s.kind, t.of = s.of, t.items = s.items
  PROVE  SameList(s, t)
BY DEF SameList

-----------------------------------------------------------------------------
(* Keys that leave the playlists alone *)

LEMMA StayKeeps ==
  ASSUME ListsInv, UNCHANGED <<stack, busy, playlists, touched>>
  PROVE  ListsInv'
BY ElsewhereKeeps

LEMMA IdleKeeps ==
  ASSUME TuiInv, TuiInv', ListsInv, busy = Idle, UNCHANGED <<busy, playlists, touched>>, Kept(stack, stack')
  PROVE  ListsInv'
<1>1. busy.op # "remove" /\ busy'.op # "remove"
  BY DEF Idle
<1>2. ASSUME NEW p \in DOMAIN playlists
      PROVE  Grows(playlists[p], playlists'[p])
  <2>1. Len(playlists[p]) \in Nat
    BY SongsOfPlaylist DEF TuiInv, ServerOK
  <2> QED
    BY <2>1 DEF Grows
<1>3. ListsGrow
  BY <1>2 DEF ListsGrow
<1> QED
  BY <1>1, <1>3, KeptKeeps

(* A key that changes the screen on top, and nothing of what it lists *)
LEMMA TopListKeeps ==
  ASSUME TuiInv, TuiInv', ListsInv, Ready, UNCHANGED <<busy, playlists, touched>>,
         NEW s, SetTop(s), SameList(Top, s) \/ Neutral(s)
  PROVE  ListsInv'
<1>1. Kept(stack, stack')
  BY TopKept DEF TuiInv, Ready
<1> QED
  BY <1>1, IdleKeeps DEF Ready

LEMMA SearchTop ==
  ASSUME TuiInv, SearchEdit
  PROVE  \E s : SetTop(s) /\ s.kind = "Search"
<1>1. ScreenOK(Top) /\ Top.kind = "Search"
  BY TopOK DEF SearchEdit, TuiInv, Ready, Editing
<1>2. /\ \A text : [Top EXCEPT !.filter = text].kind = "Search"
      /\ [Top EXCEPT !.of = None].kind = "Search"
      /\ \A rows : [[Top EXCEPT !.of = None] EXCEPT !.items = rows].kind = "Search"
  <2>1. \A s, x : IsScreen(s) /\ s.kind = "Search" =>
          [s EXCEPT !.filter = x].kind = "Search" /\ [s EXCEPT !.of = x].kind = "Search"
                                                  /\ [s EXCEPT !.items = x].kind = "Search"
    BY AsRecord
  <2>2. IsScreen([Top EXCEPT !.of = None])
    <3>1. [Top EXCEPT !.of = None] = [kind |-> Top.kind, items |-> Top.items, of |-> None,
                                      selected |-> Top.selected, filter |-> Top.filter, marked |-> Top.marked]
      BY <1>1, AsRecord DEF ScreenOK
    <3> QED
      BY <1>1, <3>1 DEF ScreenOK, IsScreen
  <2> QED
    BY <1>1, <2>1, <2>2 DEF ScreenOK
<1>3. \A t, x, y : [t EXCEPT !.of = x, !.items = y] = [[t EXCEPT !.of = x] EXCEPT !.items = y]
  OBVIOUS
<1>4. \A rows : [Top EXCEPT !.of = None, !.items = rows].kind = "Search"
  BY <1>2, <1>3
<1> QED
  BY <1>2, <1>4 DEF SearchEdit

LEMMA SearchLists ==
  ASSUME TuiInv, TuiInv', ListsInv, SearchEdit
  PROVE  ListsInv'
<1>1. Ready /\ UNCHANGED <<busy, playlists, touched>>
  BY DEF SearchEdit, UnchangedModes, serverVars
<1>2. PICK s : SetTop(s) /\ s.kind = "Search"
  BY SearchTop
<1>3. Neutral(s)
  BY <1>2, NeutralKinds
<1> QED
  BY <1>1, <1>2, <1>3, TopListKeeps

LEMMA FilterLists ==
  ASSUME TuiInv, TuiInv', ListsInv, FilterEdit
  PROVE  ListsInv'
<1>1. Ready /\ UNCHANGED <<busy, playlists, touched>> /\ Top.kind \in Filterable
  BY DEF FilterEdit, FilterMode, UnchangedModes, serverVars
<1>2. ScreenOK(Top)
  BY <1>1, TopOK DEF TuiInv, Ready
<1>3. PICK filter : SetTop(WithFilter(Top, filter))
  BY DEF FilterEdit
<1> DEFINE s == WithFilter(Top, filter)
<1>4. SameList(Top, s)
  BY <1>1, <1>2, FilterSet, SameNames
<1>5. SetTop(s)
  BY <1>3
<1> HIDE DEF s
<1> QED
  BY <1>1, <1>4, <1>5, TopListKeeps

LEMMA TabLists ==
  ASSUME TuiInv, TuiInv', ListsInv, Slash \/ SwitchTab \/ Start \/ Quit
  PROVE  ListsInv'
<1>1. busy = Idle /\ UNCHANGED <<busy, playlists, touched>>
  <2>1. Start => busy = Idle
    BY DEF Start, TuiInv, ModesOK, BusyFits
  <2> QED
    BY <2>1 DEF Slash, SwitchTab, Start, Quit, KeyMode, Ready, serverVars
<1>2. "Search" \in ToSet(TABS) /\ "Home" \in ToSet(TABS)
  <2>1. TABS[6] = "Search" /\ TABS[1] = "Home" /\ 1 \in DOMAIN TABS /\ 6 \in DOMAIN TABS
    BY DEF TABS
  <2> QED
    BY <2>1 DEF ToSet
<1>3. Kept(stack, stack')
  <2>1. CASE Slash
    BY <1>2, <2>1, TabKept, StackKept DEF Slash
  <2>2. CASE SwitchTab
    BY <2>2, TabKept DEF SwitchTab
  <2>3. CASE Start
    BY <1>2, <2>3, TabKept DEF Start
  <2>4. CASE Quit
    <3>1. stack' = <<>> /\ Len(<<>>) = 0
      BY <2>4 DEF Quit
    <3> QED
      BY <3>1 DEF Kept
  <2> QED
    BY <2>1, <2>2, <2>3, <2>4
<1> QED
  BY <1>1, <1>3, IdleKeeps

LEMMA MoveLists ==
  ASSUME TuiInv, TuiInv', ListsInv, MoveSelection
  PROVE  ListsInv'
<1>1. Ready /\ UNCHANGED <<busy, playlists, touched>>
  BY DEF MoveSelection, UnchangedModes, serverVars
<1>2. ScreenOK(Top)
  BY <1>1, TopOK DEF TuiInv, Ready
<1>3. PICK delta \in {-1, 1} : SetTop(move_selection(Top, delta))
  BY DEF MoveSelection
<1> DEFINE s == move_selection(Top, delta)
<1>4. s.kind = Top.kind /\ s.items = Top.items /\ (Top.kind # "Home" => s.of = Top.of)
  BY <1>2, Moved
<1>5. SetTop(s)
  BY <1>3
<1> HIDE DEF s
<1>6. SameList(Top, s) \/ Neutral(s)
  <2>1. CASE Top.kind = "Home"
    BY <1>4, <2>1, NeutralKinds
  <2>2. CASE Top.kind # "Home"
    BY <1>4, <2>2, SameNames
  <2> QED
    BY <2>1, <2>2
<1> QED
  BY <1>1, <1>5, <1>6, TopListKeeps

LEMMA BackLists ==
  ASSUME TuiInv, TuiInv', ListsInv, Back
  PROVE  ListsInv'
<1>1. Ready /\ UNCHANGED <<busy, playlists, touched>> /\ ScreensOK(stack) /\ Running /\ ScreenOK(Top)
  BY ScreenKeyFacts DEF Back, serverVars, TuiInv
<1>2. CASE Top.kind \in Filterable /\ SetTop(WithFilter(Top, NoFilter))
  <2> DEFINE s == WithFilter(Top, NoFilter)
  <2>1. SameList(Top, s)
    BY <1>1, <1>2, FilterSet, SameNames
  <2>2. SetTop(s)
    BY <1>2
  <2> HIDE DEF s
  <2> QED
    BY <1>1, <2>1, <2>2, TopListKeeps
<1>3. CASE Len(stack) > 1 /\ stack' = Front(stack)
  BY <1>1, <1>3, LeftKept, IdleKeeps DEF Ready
<1> QED
  BY <1>2, <1>3 DEF Back

LEMMA ExpandLists ==
  ASSUME TuiInv, TuiInv', ListsInv, expand_home_section \/ show_info
  PROVE  ListsInv'
<1>1. ScreenKey /\ UNCHANGED <<playlists, touched>>
  BY DEF expand_home_section, show_info, serverVars
<1>2. Ready /\ UNCHANGED busy /\ ScreensOK(stack) /\ busy = Idle
  BY <1>1, ScreenKeyFacts DEF Ready
<1>3. Kept(stack, stack')
  <2>1. CASE push_album_list
    <3>1. \A s \in {Screen("AlbumList", names, None) : names \in Shelves} : Neutral(s)
      BY NeutralKinds
    <3>2. Push({Screen("AlbumList", names, None) : names \in Shelves})
      BY <2>1 DEF push_album_list
    <3> QED
      BY <1>2, <3>1, <3>2, PushKept
  <2>2. CASE push_native_song_list
    <3>1. PICK rows : stack' = Append(stack, Screen("SongList", rows, None))
      BY <2>2 DEF push_native_song_list
    <3>2. Neutral(Screen("SongList", rows, None))
      BY NeutralKinds
    <3> QED
      BY <1>2, <3>1, <3>2, PushedKept
  <2>3. CASE show_info
    <3>1. PICK similar : stack' = Append(stack, Screen("Info", similar, None))
      BY <2>3 DEF show_info
    <3>2. Neutral(Screen("Info", similar, None))
      BY NeutralKinds
    <3> QED
      BY <1>2, <3>1, <3>2, PushedKept
  <2> QED
    BY <2>1, <2>2, <2>3 DEF expand_home_section
<1> QED
  BY <1>1, <1>2, <1>3, IdleKeeps

LEMMA SortLists ==
  ASSUME TuiInv, TuiInv', ListsInv, toggle_album_sort
  PROVE  ListsInv'
<1>1. ScreenKey /\ UNCHANGED <<playlists, touched>>
  BY DEF toggle_album_sort, serverVars
<1>2. Ready /\ UNCHANGED busy
  BY <1>1, ScreenKeyFacts
<1>3. PICK names, of : SetTop(Screen("AlbumList", names, of))
  BY DEF toggle_album_sort
<1> DEFINE s == Screen("AlbumList", names, of)
<1>4. Neutral(s)
  BY NeutralKinds
<1>5. SetTop(s)
  BY <1>3
<1> HIDE DEF s
<1> QED
  BY <1>1, <1>2, <1>4, <1>5, TopListKeeps

LEMMA ClearedLists ==
  ASSUME TuiInv, TuiInv', ListsInv, Ready, UNCHANGED <<busy, playlists, touched>>, SetTop(clear_marks(Top))
  PROVE  ListsInv'
<1> DEFINE s == clear_marks(Top)
<1>1. ScreenOK(Top)
  BY TopOK DEF TuiInv, Ready
<1>2. SameList(Top, s)
  BY <1>1, MarksCleared, SameNames DEF ScreenOK
<1>3. SetTop(s)
  OBVIOUS
<1> HIDE DEF s
<1> QED
  BY <1>2, <1>3, TopListKeeps

LEMMA SelectionLists ==
  ASSUME TuiInv, TuiInv', ListsInv, ToggleMark \/ append_selection \/ play_next_selection
  PROVE  ListsInv'
<1>1. ScreenKey /\ UNCHANGED <<playlists, touched>>
  BY DEF ToggleMark, append_selection, play_next_selection, serverVars
<1>2. Ready /\ UNCHANGED busy /\ ScreenOK(Top)
  BY <1>1, ScreenKeyFacts
<1>3. CASE ToggleMark
  <2> DEFINE s == toggle_mark(Top)
  <2>1. SameList(Top, s)
    BY <1>2, MarkToggled, SameNames
  <2>2. SetTop(s)
    BY <1>3 DEF ToggleMark
  <2> HIDE DEF s
  <2> QED
    BY <1>1, <1>2, <2>1, <2>2, TopListKeeps
<1>4. CASE UNCHANGED stack
  BY <1>1, <1>2, <1>4, StayKeeps
<1>5. CASE SetTop(clear_marks(Top))
  BY <1>1, <1>2, <1>5, ClearedLists
<1> QED
  BY <1>3, <1>4, <1>5 DEF append_selection, play_next_selection

LEMMA PickerLists ==
  ASSUME TuiInv, TuiInv', ListsInv, open_playlist_picker
  PROVE  ListsInv'
<1>1. ScreenKey /\ UNCHANGED <<playlists, touched>>
  BY DEF open_playlist_picker, serverVars
<1>2. Ready /\ UNCHANGED busy /\ ScreensOK(stack) /\ busy = Idle
  BY <1>1, ScreenKeyFacts DEF Ready
<1>3. Kept(stack, stack')
  BY <1>2, NeutralKinds, PushedKept DEF open_playlist_picker
<1> QED
  BY <1>1, <1>2, <1>3, IdleKeeps

LEMMA QueueLists ==
  ASSUME TuiInv, TuiInv', ListsInv, QueueStep
  PROVE  ListsInv'
<1>1. PICK call, arg, place : EditQueue(call, arg, place)
  BY DEF QueueStep, DeleteQueueRow, clear_queue, move_queue_item
<1>2. ScreenKey /\ Top.kind = "Queue" /\ UNCHANGED <<playlists, touched>>
  BY <1>1 DEF EditQueue, serverVars
<1>3. Ready /\ UNCHANGED busy /\ ScreenOK(Top)
  BY <1>2, ScreenKeyFacts
<1>4. CASE UNCHANGED stack
  BY <1>2, <1>3, <1>4, StayKeeps
<1>5. ASSUME NEW rows \in OrEmpty(Queues), SetTop(Following(Refreshed(Top, rows), place))
      PROVE  ListsInv'
  <2> DEFINE r == Refreshed(Top, rows)
             s == Following(r, place)
  <2>1. rows \in Seq(Songs \cup {NoId})
    <3>1. <<>> \in Seq(Songs \cup {NoId})
      OBVIOUS
    <3> QED
      BY <3>1, TuiAssumption DEF OrEmpty
  <2>2. /\ IsScreen(r) /\ ItemsOK(r) /\ Typing(r) /\ CursorFits(r) /\ r.kind = "Queue"
    BY <1>2, <1>3, <2>1, FetchedAgain
  <2>3. SetTop(s)
    BY <1>5
  <2> HIDE DEF r
  <2>4. MarksOK(r)
    BY <2>2 DEF MarksOK, HasSongRows
  <2>5. ScreenOK(s) /\ s.kind = "Queue"
    BY <2>2, <2>4, Followed DEF ScreenOK
  <2> HIDE DEF s
  <2>6. Neutral(s)
    BY <2>5, NeutralKinds
  <2> QED
    BY <1>2, <1>3, <2>3, <2>6, TopListKeeps
<1> QED
  BY <1>1, <1>4, <1>5 DEF EditQueue

(* What leaves every playlist as it is, or longer *)
LEMMA NoneShorter ==
  ASSUME PlaylistsOK(playlists), UNCHANGED touched,
         \A p \in DOMAIN playlists : p \in DOMAIN playlists' /\ playlists'[p] = playlists[p]
  PROVE  ListsGrow
<1>1. ASSUME NEW p \in DOMAIN playlists
      PROVE  p \in DOMAIN playlists' /\ Grows(playlists[p], playlists'[p])
  <2>1. Len(playlists[p]) \in Nat
    BY SongsOfPlaylist
  <2> QED
    BY <2>1 DEF Grows
<1> QED
  BY <1>1 DEF ListsGrow

(* A star changes no row's song *)
LEMMA StarLists ==
  ASSUME TuiInv, TuiInv', ListsInv, toggle_star
  PROVE  ListsInv'
<1>1. ScreenKey /\ UNCHANGED <<playlists, touched>>
  BY DEF toggle_star
<1>2. Ready /\ UNCHANGED busy /\ ScreenOK(Top)
  BY <1>1, ScreenKeyFacts
<1>3. ASSUME NEW rows \in Seq(SongRow), NEW s, SetTop(s), s.kind = Top.kind, s.of = Top.of, s.items = rows,
             HasSongRows(Top), Len(rows) = Len(Top.items), \A k \in 1..Len(Top.items) : rows[k].id = Top.items[k].id
      PROVE  ListsInv'
  <2>1. SameList(Top, s)
    BY <1>3 DEF SameList
  <2> QED
    BY <1>1, <1>2, <1>3, <2>1, TopListKeeps
<1>4. ASSUME toggle_star, ~UNCHANGED stack
      PROVE  ListsInv'
  <2>1. PICK row \in StarTarget(Top), on \in BOOLEAN :
          SetTop([Top EXCEPT !.items = IF Top.kind = "Home" THEN FlipOnHome(@, row.id, on)
                                                            ELSE FlipFirst(@, row.id, on)])
    BY <1>4 DEF toggle_star
  <2>2. CASE Top.kind = "Home"
    <3> DEFINE s == [Top EXCEPT !.items = FlipOnHome(Top.items, row.id, on)]
    <3>1. s.kind = "Home"
      BY <1>2, <2>2, HomeFlipped
    <3>2. SetTop(s)
      BY <2>1, <2>2
    <3> HIDE DEF s
    <3>3. Neutral(s)
      BY <3>1, NeutralKinds
    <3> QED
      BY <1>1, <1>2, <3>2, <3>3, TopListKeeps
  <2>3. CASE Top.kind # "Home"
    <3>1. HasSongRows(Top) /\ ~Editing(Top)
      BY <1>2, <2>1, <2>3, StarRow
    <3>2. Top.items \in Seq(SongRow)
      BY <1>2, <3>1 DEF ScreenOK, ItemsOK
    <3> DEFINE rows == FlipFirst(Top.items, row.id, on)
               s == [Top EXCEPT !.items = rows]
    <3>3. rows = [k \in DOMAIN Top.items |-> rows[k]] /\ OnlyStars(Top.items, rows, on)
      BY <3>2, FlipsOnlyStars
    <3>4. SetTop(s)
      BY <2>1, <2>3
    <3> HIDE DEF rows
    <3>5. /\ rows \in Seq(SongRow) /\ Len(rows) = Len(Top.items) /\ Ids(rows) = Ids(Top.items)
          /\ \A k \in 1..Len(Top.items) : rows[k].id = Top.items[k].id
      BY <3>2, <3>3, RowsFlipped
    <3>6. s.kind = Top.kind /\ s.of = Top.of /\ s.items = rows
      BY <1>2, <3>1, <3>5, ItemsFlipped
    <3> HIDE DEF s
    <3> QED
      BY <1>3, <3>1, <3>4, <3>5, <3>6
  <2> QED
    BY <2>2, <2>3
<1>5. ASSUME UNCHANGED stack
      PROVE  ListsInv'
  BY <1>1, <1>2, <1>5, StayKeeps
<1> QED
  BY <1>4, <1>5

LEMMA BulkStarLists ==
  ASSUME TuiInv, TuiInv', ListsInv, bulk_toggle_star \/ set_starred \/ BulkStarred
  PROVE  ListsInv'
<1>1. UNCHANGED <<playlists, touched>> /\ PlaylistsOK(playlists) /\ ScreensOK(stack) /\ Running
  BY DEF bulk_toggle_star, set_starred, BulkStarred, serverVars, KeyMode, Ready, TuiInv, ServerOK
<1>2. busy.op # "remove" /\ busy'.op # "remove"
  <2>1. CASE bulk_toggle_star
    BY <2>1 DEF bulk_toggle_star, KeyMode, Ready, Idle
  <2>2. CASE set_starred
    <3>1. busy = [op |-> busy.op, target |-> busy.target, todo |-> busy.todo]
      BY DEF TuiInv, ModesOK, BusyFits
    <3>2. busy' = [busy EXCEPT !.todo = Tail(@)] /\ busy.op \in StarOps
      BY <2>2 DEF set_starred
    <3> QED
      BY <3>1, <3>2 DEF StarOps
  <2>3. CASE BulkStarred
    BY <2>3 DEF BulkStarred, StarOps, Idle
  <2> QED
    BY <2>1, <2>2, <2>3
<1>3. ListsGrow
  BY <1>1, NoneShorter
<1>4. Kept(stack, stack')
  <2>1. CASE bulk_toggle_star \/ set_starred
    BY <2>1, StackKept DEF bulk_toggle_star, set_starred
  <2>2. CASE BulkStarred
    <3> DEFINE on == busy.op = "star"
               s  == clear_marks([Top EXCEPT !.items = FlipAll(Top.items, ToSet(Ids(marked_songs(Top))), on)])
    <3>1. SetTop(s)
      BY <2>2 DEF BulkStarred
    <3>2. ScreenOK(Top) /\ HasSongRows(Top) /\ ~Editing(Top) /\ on \in BOOLEAN
      BY <1>1, <2>2, TopOK DEF BulkStarred, TuiInv, ModesOK, BusyFits
    <3> HIDE DEF on
    <3>3. SameList(Top, s)
      BY <3>2, MarkedFlipped DEF SameList
    <3> HIDE DEF s
    <3> QED
      BY <1>1, <3>1, <3>3, TopKept
  <2> QED
    BY <2>1, <2>2
<1> QED
  BY <1>2, <1>3, <1>4, KeptKeeps

(* Enter *)
LEMMA EnterLists ==
  ASSUME TuiInv, TuiInv', ListsInv, activate_selection, ~OpenPlaylist, ~PickPlaylist
  PROVE  ListsInv'
<1>1. Ready /\ ScreensOK(stack) /\ busy = Idle /\ UNCHANGED playlists
  BY DEF activate_selection, TuiInv, Ready
<1>2. UNCHANGED <<busy, touched>>
  BY DEF activate_selection, PlayMarked, PlayFromSelection, OpenAlbum, OpenAlbums, JumpInQueue
<1>3. CASE PlayMarked
  BY <1>1, <1>2, <1>3, ClearedLists DEF PlayMarked
<1>4. CASE UNCHANGED stack
  BY <1>1, <1>2, <1>4, StayKeeps
<1>5. ASSUME NEW screens, Push(screens), \A s \in screens : Neutral(s)
      PROVE  ListsInv'
  BY <1>1, <1>2, <1>5, PushKept, IdleKeeps
<1>6. CASE OpenAlbum
  <2>1. \A s \in {Screen("SongList", rows, None) : rows \in SongLists} : Neutral(s)
    BY NeutralKinds
  <2> QED
    BY <1>5, <1>6, <2>1 DEF OpenAlbum, push_song_list
<1>7. CASE OpenAlbums
  <2>1. \A s \in {Screen("AlbumList", names, None) : names \in Shelves} : Neutral(s)
    BY NeutralKinds
  <2> QED
    BY <1>5, <1>7, <2>1 DEF OpenAlbums, push_album_list
<1> QED
  BY <1>3, <1>4, <1>6, <1>7 DEF activate_selection, PlayFromSelection, JumpInQueue

-----------------------------------------------------------------------------
(* What is done with the playlists *)

LEMMA AfterKept ==
  ASSUME NEW ok, NEW lists, PlaylistsAfter(ok, lists)
  PROVE  Kept(stack, stack')
<1>1. \A root \in PlaylistRoots(lists) : root.kind # "SongList"
  BY DEF PlaylistRoots, Screen
<1> QED
  BY <1>1, RootKept, StackKept DEF PlaylistsAfter

LEMMA SubmitLists ==
  ASSUME TuiInv, TuiInv', ListsInv, submit_prompt
  PROVE  ListsInv'
<1>1. busy = Idle /\ UNCHANGED <<busy, touched>> /\ PlaylistsOK(playlists)
  BY DEF submit_prompt, Prompting, TuiInv, ServerOK
<1>2. \A done, songs : playlists' \in create_playlist(done, songs) =>
        \A p \in DOMAIN playlists : p \in DOMAIN playlists' /\ playlists'[p] = playlists[p]
  BY DEF create_playlist
<1>3. \A p \in DOMAIN playlists : p \in DOMAIN playlists' /\ playlists'[p] = playlists[p]
  BY <1>2 DEF submit_prompt, SubmitNew, SubmitRename, SubmitSaveQueue
<1>4. Kept(stack, stack')
  BY AfterKept, StackKept DEF submit_prompt, SubmitNew, SubmitRename, SubmitSaveQueue
<1>5. ListsGrow
  BY <1>1, <1>3, NoneShorter
<1>6. busy.op # "remove" /\ busy'.op # "remove"
  BY <1>1 DEF Idle
<1> QED
  BY <1>4, <1>5, <1>6, KeptKeeps

LEMMA AddLists ==
  ASSUME TuiInv, TuiInv', ListsInv, add_song_to_playlist
  PROVE  ListsInv'
<1>1. /\ busy.op = "add" /\ busy' = [busy EXCEPT !.todo = Tail(@)]
      /\ UNCHANGED <<stack, touched>>
      /\ playlists' = playlists \/ playlists' = WithSong(busy.target, busy.todo[1])
  BY DEF add_song_to_playlist, Calling, Steps, Modes
<1>2. busy'.op # "remove"
  <2>1. busy = [op |-> busy.op, target |-> busy.target, todo |-> busy.todo]
    BY DEF TuiInv, ModesOK, BusyFits
  <2> QED
    BY <1>1, <2>1
<1>3. ASSUME NEW p \in DOMAIN playlists
      PROVE  p \in DOMAIN playlists' /\ Grows(playlists[p], playlists'[p])
  <2> DEFINE songs == playlists[p]
             song == busy.todo[1]
  <2>1. songs \in Seq(Songs) /\ Len(songs) \in Nat
    BY SongsOfPlaylist DEF TuiInv, ServerOK
  <2>2. CASE playlists'[p] = songs /\ p \in DOMAIN playlists'
    BY <2>1, <2>2 DEF Grows
  <2>3. CASE playlists'[p] = Append(songs, song) /\ p \in DOMAIN playlists'
    <3>1. IsList(songs)
      BY <2>1, Lists
    <3> HIDE DEF songs, song
    <3>2. /\ Len(Append(songs, song)) = Len(songs) + 1
          /\ \A n \in 1..Len(songs) : Append(songs, song)[n] = songs[n]
      BY <3>1, ListAppended
    <3>3. Grows(songs, Append(songs, song))
      BY <2>1, <3>2 DEF Grows
    <3> QED
      BY <2>3, <3>3 DEF songs
  <2> QED
    BY <1>1, <2>2, <2>3 DEF WithSong
<1>4. ListsGrow
  BY <1>1, <1>3 DEF ListsGrow
<1>5. Kept(stack, stack')
  BY <1>1, StackKept
<1> QED
  BY <1>1, <1>2, <1>4, <1>5, KeptKeeps

LEMMA PickLists ==
  ASSUME TuiInv, TuiInv', ListsInv, activate_selection, PickPlaylist
  PROVE  ListsInv'
<1>1. busy = Idle /\ busy'.op = "add" /\ UNCHANGED <<stack, playlists, touched>> /\ PlaylistsOK(playlists)
  BY DEF activate_selection, PickPlaylist, Ready, TuiInv, ServerOK
<1>2. busy.op # "remove" /\ busy'.op # "remove"
  BY <1>1 DEF Idle
<1>3. ListsGrow /\ Kept(stack, stack')
  BY <1>1, NoneShorter, StackKept
<1> QED
  BY <1>2, <1>3, KeptKeeps

LEMMA PickedLists ==
  ASSUME TuiInv, TuiInv', ListsInv, Picked
  PROVE  ListsInv'
<1>1. /\ busy.op = "add" /\ busy' = Idle /\ Running /\ UNCHANGED <<playlists, touched>>
      /\ ScreensOK(stack) /\ Top.kind = "PlaylistPicker" /\ PlaylistsOK(playlists)
  BY DEF Picked, Calling, TuiInv, ModesOK, BusyFits, ServerOK
<1>2. Len(stack) > 1 /\ Len(stack) \in Nat \ {0} /\ IsList(stack)
  <2>1. Len(stack) \in 1..Len(stack) /\ Len(stack) \in Nat \ {0} /\ IsList(stack)
    BY <1>1, ScreensFacts DEF Running
  <2> QED
    BY <1>1, <2>1 DEF ScreensOK, PickersFit, PickerFits, Top
<1> DEFINE under == Front(stack)
           len == Len(under)
           s == clear_marks(under[len])
           new == [under EXCEPT ![len] = s]
<1>3. /\ ScreensOK(under) /\ under # <<>> /\ ScreenOK(under[len]) /\ Kept(stack, under)
      /\ IsList(under) /\ len = Len(stack) - 1 /\ \A n \in 1..len : under[n] = stack[n]
  BY <1>1, <1>2, LastLeft, LeftKept, ListShortened DEF Running
<1>4. stack' = new
  BY DEF Picked
<1> HIDE DEF under
<1>5. SameList(under[len], s)
  BY <1>3, MarksCleared, SameNames DEF ScreenOK
<1> HIDE DEF s
<1>6. len \in Nat /\ under = [n \in 1..len |-> under[n]]
  BY <1>2, <1>3, IsListFacts
<1>7. new = [n \in 1..len |-> IF n = len THEN s ELSE under[n]]
  BY <1>6
<1>8. Len(new) = len /\ \A n \in 1..len : new[n] = IF n = len THEN s ELSE under[n]
  <2>1. new = [n \in 1..len |-> new[n]]
    BY <1>7
  <2> HIDE DEF new
  <2>2. Len(new) = len
    BY <1>6, <2>1, FunctionIsList
  <2> QED
    BY <1>7, <2>2
<1> HIDE DEF new
<1>9. \A n \in 1..len : n \in 1..Len(stack)
  BY <1>2, <1>3
<1>10. \A n \in 1..len : SameList(stack[n], new[n])
  BY <1>3, <1>5, <1>8 DEF SameList
<1>11. Kept(stack, stack')
  BY <1>4, <1>8, <1>9, <1>10 DEF Kept
<1>12. busy.op # "remove" /\ busy'.op # "remove" /\ ListsGrow
  BY <1>1, NoneShorter DEF Idle
<1> QED
  BY <1>11, <1>12, KeptKeeps

LEMMA OtherDeviceLists ==
  ASSUME TuiInv, ListsInv, OtherDevice
  PROVE  ListsInv'
<1>1. UNCHANGED <<stack, busy>> /\ touched \subseteq touched'
  BY DEF OtherDevice, screenVars
<1>2. ASSUME NEW p \in DOMAIN playlists \ touched'
      PROVE  p \in DOMAIN playlists' /\ playlists'[p] = playlists[p]
  <2>1. CASE UNCHANGED playlists
    BY <1>2, <2>1
  <2>2. ASSUME NEW id \in DOMAIN playlists, touched' = touched \cup {id},
               \/ \E songs : playlists' = [playlists EXCEPT ![id] = songs]
               \/ playlists' = [q \in DOMAIN playlists \ {id} |-> playlists[q]]
        PROVE  p \in DOMAIN playlists' /\ playlists'[p] = playlists[p]
    BY <1>2, <2>2
  <2>3. ASSUME NEW id \in DOMAIN playlists, touched' = touched \cup {id},
               \/ \E song \in Songs : playlists' = [playlists EXCEPT ![id] = <<song>> \o @]
               \/ \E k \in DOMAIN playlists[id] : playlists' = [playlists EXCEPT ![id] = RemoveAt(@, k)]
               \/ playlists' = [q \in DOMAIN playlists \ {id} |-> playlists[q]]
        PROVE  p \in DOMAIN playlists' /\ playlists'[p] = playlists[p]
    <3>1. \/ \E songs : playlists' = [playlists EXCEPT ![id] = songs]
          \/ playlists' = [q \in DOMAIN playlists \ {id} |-> playlists[q]]
      BY <2>3
    <3> QED
      BY <2>2, <2>3, <3>1
  <2> QED
    BY <2>1, <2>3 DEF OtherDevice
<1> QED
  BY <1>1, <1>2, ElsewhereKeeps

LEMMA OpenLists ==
  ASSUME TuiInv, TuiInv', ListsInv, activate_selection, OpenPlaylist
  PROVE  ListsInv'
<1>1. /\ busy = Idle /\ Running /\ ScreensOK(stack) /\ PlaylistsOK(playlists)
      /\ UNCHANGED <<busy, playlists>> /\ Top.kind = "PlaylistList"
  BY DEF activate_selection, OpenPlaylist, Ready, TuiInv, ServerOK
<1>2. Len(stack) = 1 /\ IsList(stack)
  <2>1. Len(stack) \in 1..Len(stack) /\ IsList(stack)
    BY <1>1, ScreensFacts DEF Running
  <2> QED
    BY <1>1, <2>1 DEF ListsInv, InPlace, Top
<1>3. PICK id : push_playlist(id)
  BY DEF OpenPlaylist
<1>4. CASE UNCHANGED stack
  <2>1. UNCHANGED touched
    BY <1>3, <1>4 DEF push_playlist
  <2> QED
    BY <1>1, <1>4, <2>1, StayKeeps
<1>5. CASE ~UNCHANGED stack
  <2>1. id \in DOMAIN playlists /\ stack' = Append(stack, Screen("SongList", Rows(playlists[id]), id))
    BY <1>3, <1>5 DEF push_playlist, Push
  <2> DEFINE s == Screen("SongList", Rows(playlists[id]), id)
  <2>2. s.kind = "SongList" /\ s.of = id /\ s.items = Rows(playlists[id])
    BY DEF Screen
  <2>3. stack' = Append(stack, s)
    BY <2>1
  <2> HIDE DEF s
  <2>4. Len(stack') = 2 /\ stack'[2] = s /\ stack'[1] = stack[1]
    <3> DEFINE new == Append(stack, s)
               len == Len(stack)
    <3>1. Len(new) = len + 1 /\ new[len + 1] = s /\ \A n \in 1..len : new[n] = stack[n]
      BY <1>2, ListAppended
    <3>2. stack' = new /\ len = 1
      BY <1>2, <2>3
    <3> HIDE DEF new, len
    <3>3. len + 1 = 2 /\ 1 \in 1..len
      BY <3>2
    <3> QED
      BY <3>1, <3>2, <3>3
  <2>5. stack[1].kind = "PlaylistList" /\ \A n \in 1..2 : n = 1 \/ n = 2
    BY <1>1, <1>2 DEF Top
  <2>6. InPlace(stack')
    BY <2>2, <2>4, <2>5 DEF InPlace, OfPlaylist
  <2>7. StartsWith(playlists[id], Rows(playlists[id]))
    <3>1. playlists[id] \in Seq(Songs)
      BY <1>1, <2>1, SongsOfPlaylist
    <3>2. Rows(playlists[id]) = [k \in 1..Len(playlists[id]) |-> [id |-> playlists[id][k], starred |-> playlists[id][k] \in starred]]
      BY <3>1 DEF Rows
    <3>3. /\ Len(playlists[id]) \in Nat /\ Len(Rows(playlists[id])) = Len(playlists[id])
          /\ \A k \in 1..Len(playlists[id]) : Rows(playlists[id])[k].id = playlists[id][k]
      BY <3>1, <3>2
    <3> QED
      BY <3>3 DEF StartsWith
  <2>8. ListsInStep'
    BY <1>1, <2>1, <2>2, <2>4, <2>5, <2>7 DEF ListsInStep, InStep, OfPlaylist, StartsWith
  <2>9. RemovalInStep'
    BY <1>1 DEF RemovalInStep, Idle
  <2> QED
    BY <2>6, <2>8, <2>9 DEF ListsInv, InPlace, OfPlaylist
<1> QED
  BY <1>4, <1>5

LEMMA DeletePlaylistLists ==
  ASSUME TuiInv, ListsInv, DeletePlaylist
  PROVE  ListsInv'
<1>1. /\ busy = Idle /\ Running /\ ScreensOK(stack) /\ UNCHANGED busy /\ Top.kind = "PlaylistList"
  BY DEF DeletePlaylist, KeyMode, Ready, TuiInv
<1>2. Len(stack) = 1
  <2>1. Len(stack) \in 1..Len(stack)
    BY <1>1, ScreensFacts DEF Running
  <2> QED
    BY <1>1, <2>1 DEF ListsInv, InPlace, Top
<1>3. Len(stack') = 1 /\ stack'[1].kind = "PlaylistList"
  <2>1. CASE UNCHANGED stack
    BY <1>1, <1>2, <2>1 DEF Top
  <2>2. ASSUME NEW lists, NEW root \in PlaylistRoots(lists), stack' = <<root>>
        PROVE  Len(stack') = 1 /\ stack'[1].kind = "PlaylistList"
    BY <2>2 DEF PlaylistRoots, Screen
  <2> QED
    BY <2>1, <2>2 DEF DeletePlaylist, PlaylistsAfter
<1>4. \A n \in 1..1 : n = 1
  OBVIOUS
<1>5. InPlace(stack)' /\ ListsInStep'
  BY <1>3, <1>4 DEF InPlace, ListsInStep, OfPlaylist
<1>6. RemovalInStep'
  BY <1>1 DEF RemovalInStep, Idle
<1> QED
  BY <1>5, <1>6 DEF ListsInv

(* d takes the chosen rows from the last to the first *)
LEMMA OrderDescends ==
  ASSUME IsList(Top.items), NEW rows
  PROVE  LET todo == DeletionOrder(rows)
         IN  /\ \A k \in 1..Len(todo) : todo[k] \in rows
             /\ \A j, k \in 1..Len(todo) : j < k => todo[k] < todo[j]
<1> DEFINE all == [k \in DOMAIN Top.items |-> Len(Top.items) - k]
           todo == DeletionOrder(rows)
           N == Len(Top.items)
<1>1. N \in Nat /\ DOMAIN Top.items = 1..N
  BY IsListFacts
<1>2. all \in Seq(Nat) /\ Len(all) = N /\ \A k \in 1..N : all[k] = N - k
  BY <1>1
<1>3. todo = Filtered(all, rows)
  BY DEF DeletionOrder
<1> HIDE DEF all, todo
<1>4. todo \in Seq(Nat) /\ \A k \in 1..Len(todo) : \E n \in 1..N : todo[k] = all[n] /\ all[n] \in rows
  BY <1>2, <1>3, FilteredFacts
<1>5. PICK at : Picks(all, rows, N, todo, at)
  BY <1>2, <1>3, FilteredPicks
<1>6. ASSUME NEW j \in 1..Len(todo), NEW k \in 1..Len(todo), j < k
      PROVE  todo[k] < todo[j]
  <2>1. at[j] < at[k] /\ at[j] \in 1..N /\ at[k] \in 1..N /\ todo[j] = all[at[j]] /\ todo[k] = all[at[k]]
    BY <1>5, <1>6 DEF Picks
  <2>2. todo[j] = N - at[j] /\ todo[k] = N - at[k]
    BY <1>2, <2>1
  <2> QED
    BY <1>1, <2>1, <2>2
<1> QED
  BY <1>4, <1>6 DEF todo

LEMMA DeletedAreRows ==
  ASSUME NEW s, ScreenOK(s)
  PROVE  DeletedRows(s) \subseteq 0..(Len(s.items) - 1)
<1>1. IsList(s.items) /\ s.selected \in Nat /\ Len(s.items) \in Nat /\ DOMAIN s.items = 1..Len(s.items)
  BY IsListFacts DEF ScreenOK, IsScreen, ItemsOK
<1>2. RealIndex(s) \subseteq 0..(Len(s.items) - 1)
  BY <1>1, RealIndexFacts
<1> QED
  BY <1>1, <1>2 DEF DeletedRows

LEMMA DeleteLists ==
  ASSUME TuiInv, ListsInv, DeleteSongs
  PROVE  ListsInv'
<1>1. /\ busy = Idle /\ Running /\ ScreensOK(stack) /\ PlaylistsOK(playlists) /\ ScreenOK(Top)
      /\ Top.kind = "SongList" /\ Top.of # None
      /\ busy' = [op |-> "remove", target |-> Top.of, todo |-> DeletionOrder(DeletedRows(Top))]
      /\ UNCHANGED <<stack, playlists, touched>>
  BY TopOK DEF DeleteSongs, KeyMode, Ready, TuiInv, ServerOK, serverVars
<1> DEFINE todo == DeletionOrder(DeletedRows(Top))
           rows == Top.items
<1>2. busy'.op = "remove" /\ busy'.target = Top.of /\ busy'.todo = todo
  BY <1>1
<1>3. IsList(rows) /\ rows \in Seq(SongRow) /\ Len(rows) \in Nat
  BY <1>1, RowsOfList, Lists
<1>4. /\ \A k \in 1..Len(todo) : todo[k] \in DeletedRows(Top)
      /\ \A j, k \in 1..Len(todo) : j < k => todo[k] < todo[j]
      /\ todo \in Seq(Nat)
  BY <1>3, OrderDescends, OrderIsNumbers
<1> HIDE DEF todo
<1>5. InPlace(stack)' /\ ListsInStep'
  BY <1>1, <1>2 DEF ListsInv, InPlace, OfPlaylist, ListsInStep
<1>6. Top' = Top /\ DeletedRows(Top)' = DeletedRows(Top)
  BY <1>1 DEF Top, DeletedRows, RealIndex, visible_indices, Shown, Matches, Name, HasSongRows
<1>7. ASSUME Top.of \notin touched
      PROVE  Top.of \in DOMAIN playlists /\ RemovalFits(playlists[Top.of], todo)
  <2>1. Len(stack) \in 1..Len(stack)
    BY <1>1, ScreensFacts DEF Running
  <2>2. Top.of \in DOMAIN playlists /\ StartsWith(playlists[Top.of], rows)
    BY <1>1, <1>7, <2>1 DEF ListsInv, ListsInStep, InStep, OfPlaylist, Top, Idle
  <2>3. Len(playlists[Top.of]) \in Nat
    BY <1>1, <2>2, SongsOfPlaylist
  <2>4. ASSUME todo # <<>>
        PROVE  /\ todo[1] < Len(playlists[Top.of])
               /\ \A j \in 1..(todo[1] + 1) : playlists[Top.of][j] = rows[j].id
    <3>1. 1 \in 1..Len(todo)
      BY <1>4, <2>4
    <3>2. todo[1] \in 0..(Len(rows) - 1)
      BY <1>1, <1>4, <3>1, DeletedAreRows
    <3> DEFINE songs == playlists[Top.of]
               i == todo[1]
    <3>3. /\ i \in 0..(Len(rows) - 1) /\ Len(rows) \in Nat /\ Len(songs) \in Nat /\ Len(rows) <= Len(songs)
          /\ \A k \in 1..Len(rows) : songs[k] = rows[k].id
      BY <1>3, <2>2, <2>3, <3>2 DEF StartsWith
    <3> HIDE DEF songs, i
    <3>4. i < Len(songs) /\ \A j \in 1..(i + 1) : j \in 1..Len(rows)
      BY <3>3
    <3> QED
      BY <3>3, <3>4 DEF songs, i
  <2> QED
    BY <1>4, <2>2, <2>4 DEF RemovalFits
<1>8. RemovalInStep'
  BY <1>1, <1>2, <1>6, <1>7 DEF RemovalInStep, RemovalFits
<1> QED
  BY <1>5, <1>8 DEF ListsInv

-----------------------------------------------------------------------------
(* A removal *)

LEMMA WithoutRow ==
  ASSUME NEW S, NEW list \in Seq(S), NEW i \in 1..Len(list)
  PROVE  /\ RemoveAt(list, i) \in Seq(S) /\ Len(RemoveAt(list, i)) = Len(list) - 1
         /\ \A j \in 1..(Len(list) - 1) : RemoveAt(list, i)[j] = IF j < i THEN list[j] ELSE list[j + 1]
<1> DEFINE front == SubSeq(list, 1, i - 1)
           back  == SubSeq(list, i + 1, Len(list))
           N == Len(list)
<1>0. N \in Nat \ {0} /\ i \in 1..N
  OBVIOUS
<1>1. front \in Seq(S) /\ Len(front) = i - 1 /\ \A j \in 1..(i - 1) : front[j] = list[j]
  <2>1. 1 \in Int /\ i - 1 \in Int /\ \A k \in 1..(i - 1) : list[k] \in S
    OBVIOUS
  <2>2. /\ front \in Seq(S) /\ Len(front) = IF 1 <= i - 1 THEN (i - 1) - 1 + 1 ELSE 0
        /\ \A j \in 1..((i - 1) - 1 + 1) : front[j] = list[1 + j - 1]
    BY <2>1, SubSeqProperties
  <2> HIDE DEF front
  <2>3. \A j \in 1..(i - 1) : j \in 1..((i - 1) - 1 + 1) /\ 1 + j - 1 = j
    BY <1>0
  <2> QED
    BY <1>0, <2>2, <2>3
<1>2. back \in Seq(S) /\ Len(back) = N - i /\ \A j \in 1..(N - i) : back[j] = list[i + j]
  <2>1. i + 1 \in Int /\ N \in Int /\ \A k \in (i + 1)..N : list[k] \in S
    OBVIOUS
  <2>2. /\ back \in Seq(S) /\ Len(back) = IF i + 1 <= N THEN N - (i + 1) + 1 ELSE 0
        /\ \A j \in 1..(N - (i + 1) + 1) : back[j] = list[(i + 1) + j - 1]
    BY <2>1, SubSeqProperties
  <2> HIDE DEF back, N
  <2>3. \A j \in 1..(N - i) : j \in 1..(N - (i + 1) + 1) /\ (i + 1) + j - 1 = i + j
    BY <1>0
  <2> QED
    BY <1>0, <2>2, <2>3
<1>3. RemoveAt(list, i) = front \o back
  BY DEF RemoveAt
<1> HIDE DEF front, back, N
<1>4. /\ front \o back \in Seq(S) /\ Len(front \o back) = (i - 1) + (N - i)
      /\ \A j \in 1..((i - 1) + (N - i)) :
           (front \o back)[j] = IF j <= i - 1 THEN front[j] ELSE back[j - (i - 1)]
  <2>1. /\ front \o back \in Seq(S) /\ Len(front \o back) = Len(front) + Len(back)
        /\ \A j \in 1..(Len(front) + Len(back)) :
             (front \o back)[j] = IF j <= Len(front) THEN front[j] ELSE back[j - Len(front)]
    BY <1>1, <1>2, ConcatProperties
  <2>2. Len(front) = i - 1 /\ Len(back) = N - i
    BY <1>1, <1>2
  <2> QED
    BY <2>1, <2>2
<1>5. (i - 1) + (N - i) = N - 1
  BY <1>0
<1>6. ASSUME NEW j \in 1..(N - 1)
      PROVE  (front \o back)[j] = IF j < i THEN list[j] ELSE list[j + 1]
  <2>1. CASE j < i
    <3>1. j \in 1..(i - 1) /\ j \in 1..((i - 1) + (N - i))
      BY <1>0, <2>1
    <3> QED
      BY <1>1, <1>4, <2>1, <3>1
  <2>2. CASE ~(j < i)
    <3>1. /\ j - (i - 1) \in 1..(N - i) /\ j \in 1..((i - 1) + (N - i)) /\ ~(j <= i - 1)
          /\ i + (j - (i - 1)) = j + 1
      BY <1>0, <2>2
    <3> QED
      BY <1>2, <1>4, <2>2, <3>1
  <2> QED
    BY <2>1, <2>2
<1> QED
  BY <1>3, <1>4, <1>5, <1>6 DEF N

(* The copies of a song are not fewer when another one is taken out *)
LEMMA CopiesAre ==
  ASSUME NEW S, NEW songs \in Seq(S), NEW song
  PROVE  /\ IsFiniteSet({k \in DOMAIN songs : songs[k] = song}) /\ Copies(songs, song) \in Nat
         /\ Copies(songs, song) = Cardinality({k \in 1..Len(songs) : songs[k] = song})
<1> DEFINE places == {k \in 1..Len(songs) : songs[k] = song}
<1>1. Len(songs) \in Nat /\ DOMAIN songs = 1..Len(songs)
  OBVIOUS
<1>2. IsFiniteSet(1..Len(songs))
  BY <1>1, FS_Interval
<1>3. IsFiniteSet(places)
  BY <1>2, FS_Subset
<1>4. Cardinality(places) \in Nat
  BY <1>3, FS_CardinalityType
<1> QED
  BY <1>1, <1>3, <1>4 DEF Copies

LEMMA OtherCopiesStay ==
  ASSUME NEW S, NEW songs \in Seq(S), NEW i \in 1..Len(songs), NEW song, songs[i] # song
  PROVE  Copies(songs, song) <= Copies(RemoveAt(songs, i), song)
<1> DEFINE N == Len(songs)
           less == RemoveAt(songs, i)
           before == {k \in 1..N : songs[k] = song}
           after == {k \in 1..Len(less) : less[k] = song}
           f == [k \in before |-> IF k < i THEN k ELSE k - 1]
<1>1. /\ N \in Nat /\ less \in Seq(S) /\ Len(less) = N - 1
      /\ \A j \in 1..(N - 1) : less[j] = IF j < i THEN songs[j] ELSE songs[j + 1]
  BY WithoutRow
<1> HIDE DEF less
<1>2. IsFiniteSet(after) /\ Copies(songs, song) = Cardinality(before) /\ Copies(less, song) = Cardinality(after)
  <2>1. Copies(songs, song) = Cardinality(before)
    BY CopiesAre
  <2>2. less \in Seq(S)
    BY <1>1
  <2>3. /\ IsFiniteSet({k \in DOMAIN less : less[k] = song})
        /\ Copies(less, song) = Cardinality({k \in 1..Len(less) : less[k] = song})
    BY <2>2, CopiesAre
  <2>4. DOMAIN less = 1..Len(less)
    BY <2>2
  <2> QED
    BY <2>1, <2>3, <2>4
<1>3. \A k \in before : k \in 1..N /\ k # i /\ songs[k] = song
  OBVIOUS
<1>4. \A k \in before : f[k] = IF k < i THEN k ELSE k - 1
  OBVIOUS
<1>5. ASSUME NEW k \in before
      PROVE  f[k] \in after
  <2>1. CASE k < i
    <3>1. k \in 1..(N - 1) /\ less[k] = song
      BY <1>1, <1>3, <2>1
    <3> QED
      BY <1>1, <1>4, <2>1, <3>1
  <2>2. CASE ~(k < i)
    <3>1. k - 1 \in 1..(N - 1) /\ ~(k - 1 < i) /\ (k - 1) + 1 = k
      BY <1>1, <1>3, <2>2
    <3>2. less[k - 1] = song
      BY <1>1, <1>3, <3>1
    <3> QED
      BY <1>1, <1>4, <2>2, <3>1, <3>2
  <2> QED
    BY <2>1, <2>2
<1>6. \A a, b \in before : f[a] = f[b] => a = b
  BY <1>1, <1>3, <1>4
<1>7. f \in [before -> after]
  BY <1>5
<1> HIDE DEF f, before, after
<1>8. f \in Injection(before, after)
  BY <1>6, <1>7 DEF Injection, IsInjective
<1> QED
  BY <1>2, <1>8, FS_Injection DEF less

(* What one removal leaves of the playlist and of the rows still to come: *)
(* these are further up, where nothing has moved                          *)
LEMMA RemovalGoesOn ==
  ASSUME NEW songs \in Seq(Songs), NEW todo \in Seq(Nat), todo # <<>>, RemovalFits(songs, todo),
         NEW new, new = songs \/ new = RemoveAt(songs, todo[1] + 1)
  PROVE  RemovalFits(new, Tail(todo))
<1> DEFINE rest == Tail(todo)
<1>1. /\ Len(todo) \in Nat \ {0} /\ rest \in Seq(Nat) /\ Len(rest) = Len(todo) - 1
      /\ \A k \in 1..Len(rest) : k + 1 \in 1..Len(todo) /\ rest[k] = todo[k + 1]
      /\ 1 \in 1..Len(todo) /\ todo[1] \in Nat
  OBVIOUS
<1>2. /\ \A k \in 1..Len(todo) : todo[k] \in DeletedRows(Top)
      /\ \A j, k \in 1..Len(todo) : j < k => todo[k] < todo[j]
      /\ todo[1] < Len(songs) /\ Len(songs) \in Nat
      /\ \A j \in 1..(todo[1] + 1) : songs[j] = Top.items[j].id
  BY DEF RemovalFits
<1>3. new \in Seq(Songs) /\ Len(new) \in Nat /\ Len(songs) - 1 <= Len(new)
      /\ \A j \in 1..todo[1] : new[j] = songs[j]
  <2>1. CASE new = songs
    BY <1>2, <2>1
  <2>2. CASE new = RemoveAt(songs, todo[1] + 1)
    <3> DEFINE i == todo[1] + 1
    <3>1. i \in 1..Len(songs)
      BY <1>1, <1>2
    <3> HIDE DEF i
    <3>2. /\ RemoveAt(songs, i) \in Seq(Songs) /\ Len(RemoveAt(songs, i)) = Len(songs) - 1
          /\ \A j \in 1..(Len(songs) - 1) : RemoveAt(songs, i)[j] = IF j < i THEN songs[j] ELSE songs[j + 1]
      BY <3>1, WithoutRow
    <3>3. new = RemoveAt(songs, i)
      BY <2>2 DEF i
    <3>4. \A j \in 1..todo[1] : j < i /\ j \in 1..(Len(songs) - 1)
      BY <1>1, <1>2 DEF i
    <3> QED
      BY <1>2, <3>2, <3>3, <3>4
  <2> QED
    BY <2>1, <2>2
<1> HIDE DEF rest
<1>4. \A k \in 1..Len(rest) : rest[k] \in DeletedRows(Top)
  BY <1>1, <1>2
<1>5. \A j, k \in 1..Len(rest) : j < k => rest[k] < rest[j]
  <2> SUFFICES ASSUME NEW j \in 1..Len(rest), NEW k \in 1..Len(rest), j < k
               PROVE  rest[k] < rest[j]
    OBVIOUS
  <2>1. j + 1 \in 1..Len(todo) /\ k + 1 \in 1..Len(todo) /\ j + 1 < k + 1
    BY <1>1
  <2> QED
    BY <1>1, <1>2, <2>1
<1>6. ASSUME rest # <<>>
      PROVE  rest[1] < Len(new) /\ \A j \in 1..(rest[1] + 1) : new[j] = Top.items[j].id
  <2>1. 1 \in 1..Len(rest) /\ 1 + 1 = 2
    BY <1>1, <1>6
  <2>2. rest[1] = todo[2] /\ 2 \in 1..Len(todo) /\ rest[1] \in Nat
    BY <1>1, <2>1
  <2>3. rest[1] < todo[1]
    BY <1>1, <1>2, <2>2
  <2>4. \A j \in 1..(rest[1] + 1) : j \in 1..todo[1] /\ j \in 1..(todo[1] + 1)
    BY <1>1, <2>2, <2>3
  <2> QED
    BY <1>1, <1>2, <1>3, <2>2, <2>3, <2>4
<1> QED
  BY <1>4, <1>5, <1>6 DEF RemovalFits, rest

LEMMA RemoveLists ==
  ASSUME TuiInv, TuiInv', ListsInv, remove_song_from_playlist
  PROVE  ListsInv'
<1> DEFINE p == busy.target
           i == busy.todo[1]
<1>1. /\ busy.op = "remove" /\ busy.todo # <<>> /\ busy' = [busy EXCEPT !.todo = Tail(@)]
      /\ UNCHANGED <<stack, touched>>
      /\ playlists' = playlists \/ playlists' = WithoutIndex(p, i)
  BY DEF remove_song_from_playlist, Calling, Steps, Modes
<1>2. PlaylistsOK(playlists) /\ busy.todo \in Seq(Nat) /\ busy = [op |-> busy.op, target |-> busy.target, todo |-> busy.todo]
  BY <1>1 DEF TuiInv, ModesOK, BusyFits, ServerOK
<1>3. busy'.op = "remove" /\ busy'.target = p /\ busy'.todo = Tail(busy.todo)
  BY <1>1, <1>2
<1>4. InPlace(stack)' /\ ListsInStep'
  BY <1>1, <1>3 DEF ListsInv, InPlace, OfPlaylist, ListsInStep
<1>5. Top' = Top /\ DeletedRows(Top)' = DeletedRows(Top)
  BY <1>1 DEF Top, DeletedRows, RealIndex, visible_indices, Shown, Matches, Name, HasSongRows
<1>6. ASSUME p \notin touched
      PROVE  p \in DOMAIN playlists' /\ RemovalFits(playlists'[p], Tail(busy.todo))
  <2>1. p \in DOMAIN playlists /\ RemovalFits(playlists[p], busy.todo)
    BY <1>1, <1>6 DEF ListsInv, RemovalInStep
  <2>2. playlists[p] \in Seq(Songs)
    BY <1>2, <2>1, SongsOfPlaylist
  <2>3. p \in DOMAIN playlists' /\ (playlists'[p] = playlists[p] \/ playlists'[p] = RemoveAt(playlists[p], i + 1))
    <3> DEFINE less == RemoveAt(playlists[p], i + 1)
    <3>1. CASE playlists' = playlists
      BY <2>1, <3>1
    <3>2. CASE playlists' = [playlists EXCEPT ![p] = less]
      <4> HIDE DEF less
      <4>1. DOMAIN playlists' = DOMAIN playlists /\ playlists'[p] = less
        BY <2>1, <3>2
      <4> QED
        BY <2>1, <4>1 DEF less
    <3> QED
      BY <1>1, <3>1, <3>2 DEF WithoutIndex
  <2> DEFINE songs == playlists[p]
             new == playlists'[p]
             todo == busy.todo
  <2>4. songs \in Seq(Songs) /\ todo \in Seq(Nat) /\ todo # <<>> /\ RemovalFits(songs, todo)
        /\ (new = songs \/ new = RemoveAt(songs, todo[1] + 1))
    BY <1>1, <1>2, <2>1, <2>2, <2>3
  <2> HIDE DEF songs, new, todo
  <2>5. RemovalFits(new, Tail(todo))
    BY <2>4, RemovalGoesOn
  <2> QED
    BY <2>3, <2>5 DEF new, todo
<1>7. RemovalInStep'
  BY <1>1, <1>3, <1>5, <1>6 DEF RemovalInStep, RemovalFits
<1> QED
  BY <1>4, <1>7 DEF ListsInv

(* A list fetched again is what the playlist has *)
LEMMA RefreshLists ==
  ASSUME TuiInv, TuiInv', ListsInv, refresh_playlist_songs
  PROVE  ListsInv'
<1> DEFINE p == busy.target
           len == Len(stack)
<1>1. busy.op = "remove" /\ busy' = Idle /\ Running /\ UNCHANGED playlists
  BY DEF refresh_playlist_songs, Calling
<1>2. /\ ScreensOK(stack) /\ ScreenOK(Top) /\ PlaylistsOK(playlists)
      /\ Top.kind = "SongList" /\ Top.of # None /\ Top.of = p
  <2>1. busy # Idle
    BY <1>1 DEF Idle
  <2> QED
    BY <1>1, <2>1, TopOK DEF TuiInv, ModesOK, BusyFits, ServerOK
<1>3. len \in 1..len /\ len = 2 /\ OfPlaylist(Top)
  <2>1. len \in 1..len
    BY <1>1, <1>2, ScreensFacts DEF Running
  <2> QED
    BY <1>2, <2>1 DEF ListsInv, InPlace, OfPlaylist, Top
<1>4. PICK rows \in Seq(SongRow) :
         /\ SetTop(RemovedFrom(rows)) /\ touched \ {p} \subseteq touched'
         /\ p \notin touched' => p \in DOMAIN playlists /\ StartsWith(playlists[p], rows)
  <2>1. CASE p \in DOMAIN playlists /\ SetTop(RemovedFrom(Rows(playlists[p]))) /\ touched' = touched \ {p}
    <3> DEFINE songs == playlists[p]
    <3>1. songs \in Seq(Songs)
      BY <1>2, <2>1, SongsOfPlaylist
    <3> HIDE DEF songs
    <3>2. Rows(songs) \in Seq(SongRow)
      BY <3>1, RowsAre
    <3>3. Len(Rows(songs)) = Len(songs) /\ \A k \in 1..Len(songs) : Rows(songs)[k].id = songs[k]
      BY <3>1 DEF Rows
    <3>4. StartsWith(songs, Rows(songs))
      BY <3>1, <3>3 DEF StartsWith
    <3> QED
      BY <2>1, <3>2, <3>4 DEF songs
  <2>2. CASE SetTop(RemovedFrom(<<>>)) /\ UNCHANGED touched
    <3>1. <<>> \in Seq(SongRow)
      OBVIOUS
    <3>2. p \notin touched => p \in DOMAIN playlists
      BY <1>1 DEF ListsInv, RemovalInStep
    <3>3. ASSUME p \in DOMAIN playlists
          PROVE  StartsWith(playlists[p], <<>>)
      <4>1. Len(playlists[p]) \in Nat
        BY <1>2, <3>3, SongsOfPlaylist
      <4> QED
        BY <4>1 DEF StartsWith
    <3> QED
      BY <2>2, <3>1, <3>2, <3>3
  <2> QED
    BY <2>1, <2>2 DEF refresh_playlist_songs
<1> DEFINE s == Refreshed(Top, rows)
           t == clear_marks(s)
<1>5. /\ IsScreen(s) /\ ItemsOK(s) /\ Typing(s) /\ CursorFits(s)
      /\ s.kind = "SongList" /\ s.items = rows /\ s.of = p
  BY <1>2, FetchedAgain
<1>6. SetTop(t)
  BY <1>4 DEF RemovedFrom
<1> HIDE DEF s
<1>7. ScreenOK(t) /\ t.kind = "SongList" /\ t.items = rows /\ t.of = p
  BY <1>5, MarksCleared DEF HasSongRows
<1> HIDE DEF t
<1>8. Len(stack') = len /\ \A n \in 1..len : stack'[n] = IF n = len THEN t ELSE stack[n]
  BY <1>1, <1>2, <1>6, OnlyTop
<1>9. InPlace(stack')
  BY <1>2, <1>3, <1>7, <1>8 DEF ListsInv, InPlace, OfPlaylist
<1>10. \A n \in 1..Len(stack') : OfPlaylist(stack'[n]) => stack'[n] = t
  BY <1>3, <1>8, <1>9 DEF InPlace
<1>11. t.of \notin touched' => t.of \in DOMAIN playlists' /\ StartsWith(playlists'[t.of], t.items)
  BY <1>1, <1>4, <1>7
<1>12. ListsInStep'
  BY <1>10, <1>11 DEF ListsInStep, InStep, OfPlaylist, StartsWith
<1>13. RemovalInStep'
  BY <1>1 DEF RemovalInStep, Idle
<1> QED
  BY <1>9, <1>12, <1>13 DEF ListsInv, InPlace, OfPlaylist

-----------------------------------------------------------------------------
(* The invariant holds *)

LEMMA InitLists == Init => ListsInv
<1> SUFFICES ASSUME Init
             PROVE  ListsInv
  OBVIOUS
<1>1. "Home" \in ToSet(TABS)
  <2>1. TABS[1] = "Home" /\ 1 \in DOMAIN TABS
    BY DEF TABS
  <2> QED
    BY <2>1 DEF ToSet
<1>2. PICK root \in Roots("Home") : stack = <<root>>
  BY DEF Init
<1>3. root.kind # "SongList"
  BY <1>1, <1>2, RootKind
<1>4. Len(stack) = 1 /\ stack[1] = root /\ \A n \in 1..1 : n = 1
  BY <1>2
<1> QED
  BY <1>3, <1>4 DEF Init, Idle, ListsInv, InPlace, ListsInStep, RemovalInStep, OfPlaylist

LEMMA NextLists ==
  ASSUME TuiInv, ListsInv, [Next]_vars
  PROVE  ListsInv'
<1>1. TuiInv'
  BY NextTui
<1>2. CASE UNCHANGED <<stack, busy, playlists, touched>>
  BY <1>2, StayKeeps
<1>3. CASE OverlayStep
  <2>1. CASE Help \/ prompt_new_playlist \/ prompt_rename_playlist \/ prompt_save_queue_as_playlist
             \/ PromptEdit \/ PromptCancel
    BY <1>2, <2>1 DEF Help, prompt_new_playlist, prompt_rename_playlist, prompt_save_queue_as_playlist,
       Prompt, PromptEdit, PromptCancel, serverVars
  <2> QED
    BY <1>1, <1>3, <2>1, SubmitLists, SearchLists, FilterLists, TabLists DEF OverlayStep
<1>4. CASE BrowseStep
  <2>1. CASE StopFiltering
    BY <1>2, <2>1 DEF StopFiltering, UnchangedModes, serverVars
  <2>2. CASE activate_selection
    BY <1>1, <2>2, EnterLists, OpenLists, PickLists
  <2> QED
    BY <1>1, <1>4, <2>1, <2>2, TabLists, MoveLists, BackLists, ExpandLists, SortLists DEF BrowseStep
<1>5. CASE SongStep
  BY <1>1, <1>5, SelectionLists, PickerLists, AddLists, PickedLists, DeleteLists, RemoveLists, RefreshLists,
     DeletePlaylistLists, StarLists, BulkStarLists DEF SongStep
<1>6. CASE QueueStep
  BY <1>1, <1>6, QueueLists
<1>7. CASE OtherDevice
  BY <1>7, OtherDeviceLists
<1>8. CASE Quit
  BY <1>1, <1>8, TabLists
<1>9. CASE NoScreenChanges \/ UNCHANGED vars
  BY <1>2, <1>9 DEF NoScreenChanges, vars, tuiVars, screenVars, serverVars
<1> QED
  BY <1>3, <1>4, <1>5, <1>6, <1>7, <1>8, <1>9 DEF Next, TuiStep, CheckKey, UpdateKey, BackKey

(* The song list of a playlist nobody else has edited begins as the         *)
(* playlist does, and while rows of it are being removed, the ones still to *)
(* come stand where they were listed: app.rs 1728-1746 removes from the     *)
(* highest index down, and fetches the list again before any other key.     *)
THEOREM ListsStayInStep == Spec => []ListsInv
<1>1. TuiInv /\ ListsInv /\ [Next]_vars => ListsInv'
  BY NextLists
<1> QED
  BY InitLists, <1>1, TuiInvariant, PTL DEF Spec

-----------------------------------------------------------------------------
(* Only chosen songs are removed *)

LEMMA OnlyRemovals ==
  ASSUME Next, Calling("remove"), busy' # busy
  PROVE  remove_song_from_playlist \/ refresh_playlist_songs
<1>1. busy # Idle /\ Running /\ busy.op # "add"
  BY DEF Calling, Idle
<1>2. CASE OverlayStep
  BY <1>1, <1>2 DEF OverlayStep, Help, prompt_new_playlist, prompt_rename_playlist,
     prompt_save_queue_as_playlist, Prompt, PromptEdit, PromptCancel, submit_prompt, Prompting, SearchEdit,
     FilterEdit, FilterMode, Slash, KeyMode, Ready
<1>3. CASE BrowseStep
  BY <1>1, <1>3 DEF BrowseStep, SwitchTab, MoveSelection, Back, expand_home_section, toggle_album_sort,
     show_info, activate_selection, StopFiltering, FilterMode, Start, ScreenKey, KeyMode, Ready
<1>4. CASE QueueStep
  BY <1>1, <1>4 DEF QueueStep, DeleteQueueRow, clear_queue, move_queue_item, EditQueue, ScreenKey, KeyMode, Ready
<1>5. CASE SongStep
  BY <1>1, <1>5 DEF SongStep, ToggleMark, append_selection, play_next_selection, open_playlist_picker,
     add_song_to_playlist, Picked, Calling, DeleteSongs, DeletePlaylist, toggle_star, bulk_toggle_star,
     set_starred, BulkStarred, StarOps, ScreenKey, KeyMode, Ready
<1>6. CASE OtherDevice \/ NoScreenChanges
  BY <1>6 DEF OtherDevice, NoScreenChanges, screenVars
<1>7. CASE Quit
  BY <1>1, <1>7 DEF Quit, KeyMode, Ready
<1> QED
  BY <1>2, <1>3, <1>4, <1>5, <1>6, <1>7 DEF Next, TuiStep, CheckKey, UpdateKey, BackKey

LEMMA ChosenAre ==
  ASSUME NEW s, NEW i \in DeletedRows(s), ScreenOK(s)
  PROVE  s.items[i + 1].id \in ChosenSongs(s)
<1>1. IsList(s.items) /\ Len(s.items) \in Nat /\ DOMAIN s.items = 1..Len(s.items)
  BY IsListFacts DEF ScreenOK, ItemsOK
<1>2. CASE s.marked = {}
  <2>1. i = visible_indices(s)[s.selected + 1]
    BY <1>2 DEF DeletedRows, RealIndex
  <2> QED
    BY <1>2, <2>1 DEF ChosenSongs
<1>3. CASE s.marked # {}
  <2>1. PICK n \in DOMAIN s.items : s.items[n].id \in s.marked /\ i = n - 1
    BY <1>3 DEF DeletedRows
  <2>2. i + 1 = n
    BY <1>1, <2>1
  <2> QED
    BY <1>3, <2>1, <2>2 DEF ChosenSongs
<1> QED
  BY <1>2, <1>3

(* Fewer copies of a song are left than there were *)
Fewer(id, song) == Copies(playlists'[id], song) < Copies(playlists[id], song)

LEMMA RemovesChosen ==
  ASSUME TuiInv, ListsInv, remove_song_from_playlist, busy.target \notin touched,
         NEW id \in DOMAIN playlists, NEW song, Fewer(id, song)
  PROVE  id = busy.target /\ song \in ChosenSongs(Top)
<1> DEFINE p == busy.target
           i == busy.todo[1]
<1>1. /\ busy.op = "remove" /\ busy.todo # <<>> /\ Running
      /\ playlists' = playlists \/ playlists' = WithoutIndex(p, i)
  BY DEF remove_song_from_playlist, Calling
<1>2. PlaylistsOK(playlists) /\ busy.todo \in Seq(Nat) /\ ScreenOK(Top)
  BY <1>1, TopOK DEF TuiInv, ModesOK, BusyFits, ServerOK
<1>3. p \in DOMAIN playlists /\ RemovalFits(playlists[p], busy.todo)
  BY <1>1 DEF ListsInv, RemovalInStep
<1>4. \A q \in DOMAIN playlists : playlists[q] \in Seq(Songs) /\ Copies(playlists[q], song) \in Nat
  <2> TAKE q \in DOMAIN playlists
  <2> DEFINE songs == playlists[q]
  <2>1. songs \in Seq(Songs)
    BY <1>2, SongsOfPlaylist
  <2> HIDE DEF songs
  <2>2. Copies(songs, song) \in Nat
    BY <2>1, CopiesAre
  <2> QED
    BY <2>1, <2>2 DEF songs
<1>5. 1 \in 1..Len(busy.todo) /\ i \in Nat
  BY <1>1, <1>2
<1>6. i \in DeletedRows(Top) /\ i < Len(playlists[p]) /\ playlists[p][i + 1] = Top.items[i + 1].id
  <2>1. i + 1 \in 1..(i + 1)
    BY <1>5
  <2> QED
    BY <1>1, <1>3, <1>5, <2>1 DEF RemovalFits
<1> DEFINE songs == playlists[p]
           less == RemoveAt(songs, i + 1)
<1>7. playlists'[id] # playlists[id]
  BY <1>4 DEF Fewer
<1>8. playlists' = [playlists EXCEPT ![p] = less]
  BY <1>1, <1>7 DEF WithoutIndex
<1>9. id = p /\ playlists'[p] = less
  <2> HIDE DEF less
  <2> QED
    BY <1>3, <1>7, <1>8
<1>10. song = songs[i + 1]
  <2>1. songs \in Seq(Songs) /\ i + 1 \in 1..Len(songs)
    BY <1>3, <1>4, <1>5, <1>6
  <2> DEFINE at == i + 1
  <2>2. at \in 1..Len(songs)
    BY <2>1
  <2>3. Copies(less, song) < Copies(songs, song)
    BY <1>9 DEF Fewer
  <2>4. less = RemoveAt(songs, at)
    OBVIOUS
  <2> HIDE DEF songs, less, at
  <2>5. songs[at] # song => Copies(songs, song) <= Copies(RemoveAt(songs, at), song)
    BY <2>1, <2>2, OtherCopiesStay
  <2>6. Copies(songs, song) \in Nat /\ Copies(less, song) \in Nat
    <3>1. less \in Seq(Songs)
      BY <2>1, <2>2, <2>4, WithoutRow
    <3> QED
      BY <2>1, <3>1, CopiesAre
  <2>7. songs[at] = song
    BY <2>3, <2>4, <2>5, <2>6
  <2> QED
    BY <2>7 DEF at
<1>11. song = Top.items[i + 1].id
  BY <1>6, <1>10
<1> QED
  BY <1>2, <1>6, <1>9, <1>11, ChosenAre

(* Whichever calls fail, no song leaves a playlist nobody else edits but    *)
(* those the user chose.                                                    *)
THEOREM OnlyChosenAreRemoved == Spec => OnlyChosenRemoved
<1>1. TuiInv /\ ListsInv /\ [Next]_vars =>
        [Calling("remove") /\ busy' # busy /\ busy.target \notin touched =>
           \A id \in DOMAIN playlists \cap DOMAIN playlists' : \A song \in Songs :
              Copies(playlists'[id], song) < Copies(playlists[id], song) =>
                 id = busy.target /\ song \in ChosenSongs(Top)]_vars
  <2> SUFFICES ASSUME TuiInv, ListsInv, Next, Calling("remove"), busy' # busy, busy.target \notin touched,
                      NEW id \in DOMAIN playlists \cap DOMAIN playlists', NEW song \in Songs,
                      Copies(playlists'[id], song) < Copies(playlists[id], song)
               PROVE  id = busy.target /\ song \in ChosenSongs(Top)
    OBVIOUS
  <2>1. id \in DOMAIN playlists /\ Fewer(id, song)
    BY DEF Fewer
  <2>2. CASE remove_song_from_playlist
    BY <2>1, <2>2, RemovesChosen
  <2>3. CASE refresh_playlist_songs
    <3>1. playlists' = playlists
      BY <2>3 DEF refresh_playlist_songs
    <3>2. playlists[id] \in Seq(Songs)
      BY <2>1, SongsOfPlaylist DEF TuiInv, ServerOK
    <3>3. Copies(playlists[id], song) \in Nat
      BY <3>2, CopiesAre
    <3> QED
      BY <2>1, <3>1, <3>3 DEF Fewer
  <2> QED
    BY <2>2, <2>3, OnlyRemovals
<1> QED
  BY <1>1, TuiInvariant, ListsStayInStep, PTL DEF Spec, OnlyChosenRemoved

-----------------------------------------------------------------------------
(* The cursors *)

(* Only a filter, on a list that can be fetched again, hides the row of a   *)
(* cursor                                                                   *)
LEMMA FitsShown ==
  ASSUME NEW s, ScreenOK(s), s.selected = 0 \/ s.filter = NoFilter \/ s.kind \notin {"Queue", "SongList"}
  PROVE  CursorShown(s)
<1>1. CursorShown(s) \/ OffShow(s)
  BY DEF ScreenOK, CursorFits
<1>2. CASE s.selected = 0 /\ s.kind \in {"Queue", "SongList"}
  <2>1. Len(visible_indices(s)) \in Nat
    BY VisibleFacts DEF ScreenOK, ItemsOK
  <2> QED
    BY <1>2, <2>1 DEF CursorShown, OnRow, Filterable
<1> QED
  BY <1>1, <1>2 DEF OffShow

(* A row that is hidden is hidden by a filter, and is a row of the list *)
LEMMA HiddenFacts ==
  ASSUME NEW s, ScreenOK(s), ~CursorShown(s)
  PROVE  s.filter # NoFilter /\ s.selected < Len(s.items)
<1>1. OffShow(s)
  BY DEF ScreenOK, CursorFits
<1>2. s.filter # NoFilter /\ (s.selected < Len(s.items) \/ s.selected = 0)
  BY <1>1 DEF OffShow, OnRow
<1>3. s.selected # 0
  BY FitsShown
<1> QED
  BY <1>2, <1>3

(* A change of a screen that hides no cursor *)
StaysShown(s, t) == CursorShown(s) => CursorShown(t)

LEMMA SameCursor ==
  ASSUME NEW s, ScreenOK(s), NEW t, ScreenOK(t), t.kind = s.kind, t.filter = s.filter, t.of = s.of,
         t.selected = s.selected, Len(t.items) = Len(s.items),
         \A k \in 1..Len(s.items) : Name(s, s.items[k]) = Name(t, t.items[k])
  PROVE  StaysShown(s, t)
<1>1. Len(s.items) \in Nat
  BY IsListFacts DEF ScreenOK, ItemsOK
<1>2. visible_indices(t) = visible_indices(s)
  BY <1>1, VisibleSame
<1>3. CASE s.kind \in {"Queue", "SongList"}
  BY <1>2, <1>3 DEF StaysShown, CursorShown, OnRow, Filterable
<1>4. CASE s.kind \notin {"Queue", "SongList"}
  BY <1>4, FitsShown DEF StaysShown
<1> QED
  BY <1>3, <1>4

(* The same rows, whatever their marks *)
LEMMA SameItems ==
  ASSUME NEW s, ScreenOK(s), NEW t, ScreenOK(t), t.kind = s.kind, t.filter = s.filter, t.of = s.of,
         t.selected = s.selected, t.items = s.items
  PROVE  StaysShown(s, t)
<1>1. \A k \in 1..Len(s.items) : Name(s, s.items[k]) = Name(t, t.items[k])
  BY DEF Name, HasSongRows
<1> QED
  BY <1>1, SameCursor

(* The same songs, whatever their stars *)
LEMMA SameSongs ==
  ASSUME NEW s, ScreenOK(s), NEW t, ScreenOK(t), t.kind = s.kind, t.filter = s.filter, t.of = s.of,
         t.selected = s.selected, HasSongRows(s), Len(t.items) = Len(s.items),
         \A k \in 1..Len(s.items) : t.items[k].id = s.items[k].id
  PROVE  StaysShown(s, t)
<1>1. \A k \in 1..Len(s.items) : Name(s, s.items[k]) = Name(t, t.items[k])
  BY DEF Name, HasSongRows
<1> QED
  BY <1>1, SameCursor

-----------------------------------------------------------------------------
(* The cursors of all screens *)

CursorsStay ==
  \A n \in 1..Len(stack') : \/ CursorShown(stack'[n])
                            \/ n \in 1..Len(stack) /\ ~CursorShown(stack[n])
                            \/ n = Len(stack') /\ Refetched

LEMMA ScreensAfter ==
  ASSUME TuiInv'
  PROVE  IsList(stack') /\ \A n \in 1..Len(stack') : ScreenOK(stack'[n])
  BY DEF TuiInv, ScreensOK, StackOK, IsList, ScreenOK, IsScreen, ItemsOK, Typing, MarksOK, CursorFits,
     CursorShown, OffShow, OnRow

LEMMA StackStays ==
  ASSUME UNCHANGED stack
  PROVE  CursorsStay
  BY DEF CursorsStay

LEMMA TopStays ==
  ASSUME ScreensOK(stack), Running, NEW s, SetTop(s), StaysShown(Top, s) \/ Refetched
  PROVE  CursorsStay
<1>1. /\ Len(stack) \in Nat \ {0} /\ Len(stack') = Len(stack)
      /\ \A n \in 1..Len(stack) : stack'[n] = IF n = Len(stack) THEN s ELSE stack[n]
  BY OnlyTop
<1> QED
  BY <1>1 DEF CursorsStay, StaysShown, Top

(* The screen on top is one no row can be hidden on *)
LEMMA TopShown ==
  ASSUME ScreensOK(stack), Running, TuiInv', NEW s, SetTop(s),
         s.selected = 0 \/ s.filter = NoFilter \/ s.kind \notin {"Queue", "SongList"}
  PROVE  CursorsStay
<1>1. /\ Len(stack) \in Nat \ {0} /\ Len(stack') = Len(stack)
      /\ \A n \in 1..Len(stack) : stack'[n] = IF n = Len(stack) THEN s ELSE stack[n]
  BY OnlyTop
<1>2. ScreenOK(s)
  BY <1>1, ScreensAfter
<1> QED
  BY <1>2, FitsShown, TopStays DEF StaysShown

LEMMA PushStays ==
  ASSUME ScreensOK(stack), TuiInv', NEW s, s.filter = NoFilter, stack' = Append(stack, s)
  PROVE  CursorsStay
<1> DEFINE new == Append(stack, s)
           len == Len(stack)
<1>1. IsList(stack) /\ len \in Nat
  BY IsListFacts DEF ScreensOK, StackOK
<1>2. Len(new) = len + 1 /\ new[len + 1] = s /\ \A n \in 1..len : new[n] = stack[n]
  BY <1>1, ListAppended
<1>3. stack' = new
  OBVIOUS
<1> HIDE DEF new
<1>4. ScreenOK(s)
  BY <1>1, <1>2, <1>3, ScreensAfter
<1>5. CursorShown(s)
  BY <1>4, FitsShown
<1>6. \A n \in 1..(len + 1) : n = len + 1 \/ n \in 1..len
  BY <1>1
<1> QED
  BY <1>2, <1>3, <1>5, <1>6 DEF CursorsStay

LEMMA LeftStays ==
  ASSUME ScreensOK(stack), Running, stack' = Front(stack)
  PROVE  CursorsStay
<1> DEFINE new == Front(stack)
           len == Len(stack)
<1>1. IsList(stack) /\ len \in Nat \ {0}
  BY ScreensFacts DEF Running
<1>2. Len(new) = len - 1 /\ \A n \in 1..(len - 1) : new[n] = stack[n]
  BY <1>1, ListShortened DEF Running
<1>3. stack' = new
  OBVIOUS
<1> HIDE DEF new
<1>4. \A n \in 1..(len - 1) : n \in 1..len
  BY <1>1
<1> QED
  BY <1>2, <1>3, <1>4 DEF CursorsStay

LEMMA RootStays ==
  ASSUME TuiInv', NEW root, root.filter = NoFilter, stack' = <<root>>
  PROVE  CursorsStay
<1>1. Len(<<root>>) = 1 /\ <<root>>[1] = root /\ \A n \in 1..1 : n = 1
  OBVIOUS
<1>2. ScreenOK(root)
  BY <1>1, ScreensAfter
<1>3. CursorShown(root)
  BY <1>2, FitsShown
<1> QED
  BY <1>1, <1>3 DEF CursorsStay

LEMMA NewUnfiltered == \A kind, items, of : Screen(kind, items, of).filter = NoFilter
  BY DEF Screen

LEMMA TabStays ==
  ASSUME TuiInv', NEW tab \in ToSet(TABS), switch_tab(tab)
  PROVE  CursorsStay
BY RootKind, RootStays DEF switch_tab

-----------------------------------------------------------------------------
(* What each key does to the cursors *)

LEMMA TabsStay ==
  ASSUME TuiInv, TuiInv', Slash \/ SwitchTab \/ Start \/ Quit
  PROVE  CursorsStay
<1>1. "Search" \in ToSet(TABS) /\ "Home" \in ToSet(TABS)
  <2>1. TABS[6] = "Search" /\ TABS[1] = "Home" /\ 1 \in DOMAIN TABS /\ 6 \in DOMAIN TABS
    BY DEF TABS
  <2> QED
    BY <2>1 DEF ToSet
<1>2. CASE Slash
  BY <1>1, <1>2, TabStays, StackStays DEF Slash
<1>3. CASE SwitchTab
  BY <1>3, TabStays DEF SwitchTab
<1>4. CASE Start
  BY <1>1, <1>4, TabStays DEF Start
<1>5. CASE Quit
  <2>1. stack' = <<>> /\ Len(<<>>) = 0
    BY <1>5 DEF Quit
  <2> QED
    BY <2>1 DEF CursorsStay
<1> QED
  BY <1>2, <1>3, <1>4, <1>5

LEMMA AfterStays ==
  ASSUME TuiInv', NEW ok, NEW lists, PlaylistsAfter(ok, lists)
  PROVE  CursorsStay
<1>1. \A root \in PlaylistRoots(lists) : root.filter = NoFilter
  BY NewUnfiltered DEF PlaylistRoots
<1> QED
  BY <1>1, RootStays, StackStays DEF PlaylistsAfter

LEMMA SubmitStays ==
  ASSUME TuiInv', submit_prompt \/ DeletePlaylist
  PROVE  CursorsStay
BY AfterStays, StackStays DEF submit_prompt, SubmitNew, SubmitRename, SubmitSaveQueue, DeletePlaylist

LEMMA FilterStays ==
  ASSUME TuiInv, TuiInv', SearchEdit \/ FilterEdit
  PROVE  CursorsStay
<1>1. ScreensOK(stack) /\ Running /\ ScreenOK(Top)
  <2>1. Ready
    BY DEF SearchEdit, FilterEdit, FilterMode
  <2> QED
    BY <2>1, TopOK DEF Ready, TuiInv
<1>2. CASE SearchEdit
  <2>1. PICK s : SetTop(s) /\ s.kind = "Search"
    BY <1>2, SearchTop
  <2> QED
    BY <1>1, <2>1, TopShown
<1>3. CASE FilterEdit
  <2>1. PICK filter : SetTop(WithFilter(Top, filter))
    BY <1>3 DEF FilterEdit
  <2> DEFINE s == WithFilter(Top, filter)
  <2>2. s.selected = 0
    BY <1>1, <1>3, FilterSet DEF FilterEdit, FilterMode
  <2>3. SetTop(s)
    BY <2>1
  <2> HIDE DEF s
  <2> QED
    BY <1>1, <2>2, <2>3, TopShown
<1> QED
  BY <1>2, <1>3

LEMMA MoveStays ==
  ASSUME TuiInv, TuiInv', MoveSelection
  PROVE  CursorsStay
<1>1. ScreensOK(stack) /\ Running /\ ScreenOK(Top)
  BY TopOK DEF MoveSelection, Ready, TuiInv
<1>2. PICK delta \in {-1, 1} : SetTop(move_selection(Top, delta))
  BY DEF MoveSelection
<1> DEFINE s == move_selection(Top, delta)
           len == Len(visible_indices(Top))
           n == (Top.selected + delta) % len
           t == [Top EXCEPT !.selected = n]
<1>3. SetTop(s) /\ s.kind = Top.kind
  BY <1>1, <1>2, Moved
<1>4. CASE Top.kind \notin {"Queue", "SongList"}
  <2> HIDE DEF s
  <2> QED
    BY <1>1, <1>3, <1>4, TopShown
<1>5. CASE Top.kind \in {"Queue", "SongList"} /\ visible_indices(Top) = <<>>
  <2>1. s = Top
    BY <1>5 DEF move_selection, move_in_list
  <2> QED
    BY <1>1, <1>3, <2>1, TopStays DEF StaysShown
<1>6. CASE Top.kind \in {"Queue", "SongList"} /\ visible_indices(Top) # <<>>
  <2>1. s = t
    BY <1>6 DEF move_selection, move_in_list, Wrap
  <2>2. len \in Nat \ {0}
    <3>1. visible_indices(Top) \in Seq(0..(Len(Top.items) - 1))
      BY <1>1, VisibleFacts DEF ScreenOK, ItemsOK
    <3> QED
      BY <1>6, <3>1
  <2>3. n \in 0..(len - 1)
    <3>1. Top.selected + delta \in Int
      BY <1>1 DEF ScreenOK, IsScreen
    <3> HIDE DEF len
    <3> QED
      BY <2>2, <3>1, Remainder
  <2> HIDE DEF n
  <2>4. t.kind = Top.kind /\ t.selected = n /\ visible_indices(t) = visible_indices(Top)
    <3>1. n \in Nat
      BY <2>2, <2>3
    <3> QED
      BY <1>1, <3>1, CursorSet
  <2>5. CursorShown(t)
    BY <1>6, <2>2, <2>3, <2>4 DEF CursorShown, OnRow, Filterable
  <2> HIDE DEF s, t
  <2> QED
    BY <1>1, <1>3, <2>1, <2>5, TopStays DEF StaysShown
<1> QED
  BY <1>4, <1>5, <1>6

LEMMA BackStays ==
  ASSUME TuiInv, TuiInv', Back
  PROVE  CursorsStay
<1>1. ScreensOK(stack) /\ Running /\ ScreenOK(Top)
  BY ScreenKeyFacts DEF Back, TuiInv, Ready
<1>2. CASE Top.kind \in Filterable /\ SetTop(WithFilter(Top, NoFilter))
  <2> DEFINE s == WithFilter(Top, NoFilter)
  <2>1. s.selected = 0 /\ SetTop(s)
    BY <1>1, <1>2, FilterSet
  <2> HIDE DEF s
  <2> QED
    BY <1>1, <2>1, TopShown
<1>3. CASE stack' = Front(stack)
  BY <1>1, <1>3, LeftStays
<1> QED
  BY <1>2, <1>3 DEF Back

LEMMA PushesStay ==
  ASSUME TuiInv', ScreensOK(stack), NEW screens, Push(screens), \A s \in screens : s.filter = NoFilter
  PROVE  CursorsStay
BY PushStays, StackStays DEF Push

LEMMA OpensStay ==
  ASSUME TuiInv, TuiInv', expand_home_section \/ show_info \/ toggle_album_sort \/ open_playlist_picker
  PROVE  CursorsStay
<1>1. ScreenKey
  BY DEF expand_home_section, show_info, toggle_album_sort, open_playlist_picker
<1>2. ScreensOK(stack) /\ Running
  BY <1>1, ScreenKeyFacts DEF Ready
<1>3. CASE push_album_list
  <2>1. \A s \in {Screen("AlbumList", names, None) : names \in Shelves} : s.filter = NoFilter
    BY NewUnfiltered
  <2>2. Push({Screen("AlbumList", names, None) : names \in Shelves})
    BY <1>3 DEF push_album_list
  <2> QED
    BY <1>2, <2>1, <2>2, PushesStay
<1>4. ASSUME NEW s, s.filter = NoFilter, stack' = Append(stack, s)
      PROVE  CursorsStay
  BY <1>2, <1>4, PushStays
<1>5. CASE push_native_song_list \/ show_info \/ open_playlist_picker
  <2>1. PICK kind, items, of : stack' = Append(stack, Screen(kind, items, of))
    BY <1>5 DEF push_native_song_list, show_info, open_playlist_picker
  <2> QED
    BY <1>4, <2>1, NewUnfiltered
<1>6. CASE toggle_album_sort
  <2>1. PICK names, of : SetTop(Screen("AlbumList", names, of))
    BY <1>6 DEF toggle_album_sort
  <2> DEFINE s == Screen("AlbumList", names, of)
  <2>2. s.filter = NoFilter /\ SetTop(s)
    BY <2>1, NewUnfiltered
  <2> HIDE DEF s
  <2> QED
    BY <1>2, <2>2, TopShown
<1> QED
  BY <1>3, <1>5, <1>6 DEF expand_home_section

(* The marks go *)
LEMMA ClearedStay ==
  ASSUME ScreensOK(stack), Running, SetTop(clear_marks(Top))
  PROVE  CursorsStay
<1> DEFINE s == clear_marks(Top)
<1>1. ScreenOK(Top)
  BY TopOK
<1>2. StaysShown(Top, s)
  <2>1. /\ ScreenOK(s) /\ s.kind = Top.kind /\ s.items = Top.items /\ s.of = Top.of
        /\ s.filter = Top.filter /\ s.selected = Top.selected
    BY <1>1, MarksCleared DEF ScreenOK
  <2> HIDE DEF s
  <2> QED
    BY <1>1, <2>1, SameItems
<1>3. SetTop(s)
  OBVIOUS
<1> HIDE DEF s
<1> QED
  BY <1>2, <1>3, TopStays

LEMMA SelectionStays ==
  ASSUME TuiInv, ToggleMark \/ append_selection \/ play_next_selection
  PROVE  CursorsStay
<1>1. ScreenKey
  BY DEF ToggleMark, append_selection, play_next_selection
<1>2. ScreensOK(stack) /\ Running /\ ScreenOK(Top)
  BY <1>1, ScreenKeyFacts DEF Ready
<1>3. CASE ToggleMark
  <2> DEFINE s == toggle_mark(Top)
  <2>1. /\ ScreenOK(s) /\ s.kind = Top.kind /\ s.items = Top.items /\ s.of = Top.of
        /\ s.filter = Top.filter /\ s.selected = Top.selected
    BY <1>2, MarkToggled
  <2>2. SetTop(s)
    BY <1>3 DEF ToggleMark
  <2> HIDE DEF s
  <2>3. StaysShown(Top, s)
    BY <1>2, <2>1, SameItems
  <2> QED
    BY <1>2, <2>2, <2>3, TopStays
<1>4. CASE UNCHANGED stack
  BY <1>4, StackStays
<1>5. CASE SetTop(clear_marks(Top))
  BY <1>2, <1>5, ClearedStay
<1> QED
  BY <1>3, <1>4, <1>5 DEF append_selection, play_next_selection

LEMMA EnterStays ==
  ASSUME TuiInv, TuiInv', activate_selection
  PROVE  CursorsStay
<1>1. ScreensOK(stack) /\ Running
  BY DEF activate_selection, TuiInv, Ready
<1>2. CASE PlayMarked
  BY <1>1, <1>2, ClearedStay DEF PlayMarked
<1>3. CASE UNCHANGED stack
  BY <1>3, StackStays
<1>4. CASE OpenAlbum
  <2>1. \A s \in {Screen("SongList", rows, None) : rows \in SongLists} : s.filter = NoFilter
    BY NewUnfiltered
  <2> QED
    BY <1>1, <1>4, <2>1, PushesStay DEF OpenAlbum, push_song_list
<1>5. CASE OpenAlbums
  <2>1. \A s \in {Screen("AlbumList", names, None) : names \in Shelves} : s.filter = NoFilter
    BY NewUnfiltered
  <2> QED
    BY <1>1, <1>5, <2>1, PushesStay DEF OpenAlbums, push_album_list
<1>6. CASE OpenPlaylist
  <2>1. PICK id : push_playlist(id)
    BY <1>6 DEF OpenPlaylist
  <2>2. \A s \in {Screen("SongList", Rows(playlists[p]), p) : p \in DOMAIN playlists \cap {id}} :
           s.filter = NoFilter
    BY NewUnfiltered
  <2> QED
    BY <1>1, <2>1, <2>2, PushesStay DEF push_playlist
<1> QED
  BY <1>2, <1>3, <1>4, <1>5, <1>6 DEF activate_selection, PlayFromSelection, JumpInQueue, PickPlaylist

(* The picker leaves, and marks below it *)
LEMMA PickedStays ==
  ASSUME TuiInv, Picked
  PROVE  CursorsStay
<1>1. busy.op = "add" /\ Running /\ ScreensOK(stack) /\ Top.kind = "PlaylistPicker"
  BY DEF Picked, Calling, TuiInv, ModesOK, BusyFits
<1>2. Len(stack) > 1 /\ Len(stack) \in Nat \ {0} /\ IsList(stack)
  <2>1. Len(stack) \in 1..Len(stack) /\ Len(stack) \in Nat \ {0} /\ IsList(stack)
    BY <1>1, ScreensFacts DEF Running
  <2> QED
    BY <1>1, <2>1 DEF ScreensOK, PickersFit, PickerFits, Top
<1> DEFINE under == Front(stack)
           len == Len(under)
           s == clear_marks(under[len])
           new == [under EXCEPT ![len] = s]
<1>3. /\ under # <<>> /\ ScreenOK(under[len])
      /\ IsList(under) /\ len = Len(stack) - 1 /\ \A n \in 1..len : under[n] = stack[n]
  BY <1>1, <1>2, LastLeft, ListShortened DEF Running
<1>4. stack' = new
  BY DEF Picked
<1> HIDE DEF under
<1>5. StaysShown(under[len], s)
  <2>1. /\ ScreenOK(s) /\ s.kind = under[len].kind /\ s.items = under[len].items /\ s.of = under[len].of
        /\ s.filter = under[len].filter /\ s.selected = under[len].selected
    BY <1>3, MarksCleared DEF ScreenOK
  <2> HIDE DEF s
  <2> QED
    BY <1>3, <2>1, SameItems
<1> HIDE DEF s
<1>6. len \in Nat /\ under = [n \in 1..len |-> under[n]]
  BY <1>2, <1>3, IsListFacts
<1>7. new = [n \in 1..len |-> IF n = len THEN s ELSE under[n]]
  BY <1>6
<1>8. Len(new) = len /\ \A n \in 1..len : new[n] = IF n = len THEN s ELSE under[n]
  <2>1. new = [n \in 1..len |-> new[n]]
    BY <1>7
  <2> HIDE DEF new
  <2>2. Len(new) = len
    BY <1>6, <2>1, FunctionIsList
  <2> QED
    BY <1>7, <2>2
<1> HIDE DEF new
<1>9. \A n \in 1..len : n \in 1..Len(stack)
  BY <1>2, <1>3
<1> QED
  BY <1>3, <1>4, <1>5, <1>8, <1>9 DEF CursorsStay, StaysShown

LEMMA StarStays ==
  ASSUME TuiInv, TuiInv', toggle_star
  PROVE  CursorsStay
<1>1. ScreenKey
  BY DEF toggle_star
<1>2. ScreensOK(stack) /\ Running /\ ScreenOK(Top)
  BY <1>1, ScreenKeyFacts DEF Ready
<1>3. CASE ~UNCHANGED stack
  <2>1. PICK row \in StarTarget(Top), on \in BOOLEAN :
          SetTop([Top EXCEPT !.items = IF Top.kind = "Home" THEN FlipOnHome(@, row.id, on)
                                                            ELSE FlipFirst(@, row.id, on)])
    BY <1>3 DEF toggle_star
  <2>2. CASE Top.kind = "Home"
    <3> DEFINE s == [Top EXCEPT !.items = FlipOnHome(Top.items, row.id, on)]
    <3>1. s.kind = "Home"
      BY <1>2, <2>2, HomeFlipped
    <3>2. SetTop(s)
      BY <2>1, <2>2
    <3> HIDE DEF s
    <3> QED
      BY <1>2, <3>1, <3>2, TopShown
  <2>3. CASE Top.kind # "Home"
    <3>1. HasSongRows(Top) /\ ~Editing(Top)
      BY <1>2, <2>1, <2>3, StarRow
    <3>2. Top.items \in Seq(SongRow)
      BY <1>2, <3>1 DEF ScreenOK, ItemsOK
    <3> DEFINE rows == FlipFirst(Top.items, row.id, on)
               s == [Top EXCEPT !.items = rows]
    <3>3. rows = [k \in DOMAIN Top.items |-> rows[k]] /\ OnlyStars(Top.items, rows, on)
      BY <3>2, FlipsOnlyStars
    <3>4. SetTop(s)
      BY <2>1, <2>3
    <3> HIDE DEF rows
    <3>5. /\ rows \in Seq(SongRow) /\ Len(rows) = Len(Top.items) /\ Ids(rows) = Ids(Top.items)
          /\ \A k \in 1..Len(Top.items) : rows[k].id = Top.items[k].id
      BY <3>2, <3>3, RowsFlipped
    <3>6. /\ ScreenOK(s) /\ s.kind = Top.kind /\ s.of = Top.of /\ s.items = rows
          /\ s.filter = Top.filter /\ s.selected = Top.selected
      BY <1>2, <3>1, <3>5, ItemsFlipped
    <3> HIDE DEF s
    <3>7. StaysShown(Top, s)
      BY <1>2, <3>1, <3>5, <3>6, SameSongs
    <3> QED
      BY <1>2, <3>4, <3>7, TopStays
  <2> QED
    BY <2>2, <2>3
<1> QED
  BY <1>3, StackStays

LEMMA BulkStarStays ==
  ASSUME TuiInv, BulkStarred
  PROVE  CursorsStay
<1> DEFINE on == busy.op = "star"
           s  == clear_marks([Top EXCEPT !.items = FlipAll(Top.items, ToSet(Ids(marked_songs(Top))), on)])
<1>1. SetTop(s) /\ Running /\ ScreensOK(stack)
  BY DEF BulkStarred, TuiInv
<1>2. ScreenOK(Top) /\ HasSongRows(Top) /\ ~Editing(Top) /\ on \in BOOLEAN
  BY <1>1, TopOK DEF BulkStarred, TuiInv, ModesOK, BusyFits
<1> HIDE DEF on
<1>3. /\ ScreenOK(s) /\ s.kind = Top.kind /\ s.of = Top.of /\ s.filter = Top.filter /\ s.selected = Top.selected
      /\ Len(s.items) = Len(Top.items) /\ \A k \in 1..Len(Top.items) : s.items[k].id = Top.items[k].id
  BY <1>2, MarkedFlipped
<1> HIDE DEF s
<1>4. StaysShown(Top, s)
  BY <1>2, <1>3, SameSongs
<1> QED
  BY <1>1, <1>4, TopStays

(* The rows are fetched again, or the call failed and they are not *)
LEMMA RefetchStays ==
  ASSUME TuiInv, refresh_playlist_songs \/ QueueStep
  PROVE  CursorsStay
<1>1. CASE refresh_playlist_songs
  <2>1. Refetched /\ Running /\ ScreensOK(stack)
    BY <1>1 DEF refresh_playlist_songs, Refetched, Calling, TuiInv
  <2>2. PICK rows : SetTop(RemovedFrom(rows))
    BY <1>1 DEF refresh_playlist_songs
  <2> DEFINE s == RemovedFrom(rows)
  <2>3. SetTop(s)
    BY <2>2
  <2> HIDE DEF s
  <2> QED
    BY <2>1, <2>3, TopStays
<1>2. CASE QueueStep
  <2>0. PICK call \in {"remove_from_queue", "clear_queue", "move_in_queue"} :
          \E arg, place : EditQueue(call, arg, place)
    BY <1>2 DEF QueueStep, DeleteQueueRow, clear_queue, move_queue_item
  <2>1. PICK arg, place : EditQueue(call, arg, place)
    BY <2>0
  <2>2. ScreensOK(stack) /\ Running
    BY <2>1, ScreenKeyFacts DEF EditQueue, Ready
  <2>3. ASSUME NEW rows, sent' = Call(call, arg, TRUE), SetTop(Following(Refreshed(Top, rows), place))
        PROVE  CursorsStay
    <3>1. Refetched
      BY <2>3 DEF Refetched, Call
    <3> DEFINE s == Following(Refreshed(Top, rows), place)
    <3>2. SetTop(s)
      BY <2>3
    <3> HIDE DEF s
    <3> QED
      BY <2>2, <3>1, <3>2, TopStays
  <2> QED
    BY <2>1, <2>3, StackStays DEF EditQueue
<1> QED
  BY <1>1, <1>2

LEMMA NextCursors ==
  ASSUME TuiInv, TuiInv', Next
  PROVE  CursorsStay
<1>1. CASE OverlayStep
  <2>1. CASE Help \/ prompt_new_playlist \/ prompt_rename_playlist \/ prompt_save_queue_as_playlist
             \/ PromptEdit \/ PromptCancel
    BY <2>1, StackStays DEF Help, prompt_new_playlist, prompt_rename_playlist,
       prompt_save_queue_as_playlist, Prompt, PromptEdit, PromptCancel
  <2> QED
    BY <1>1, <2>1, SubmitStays, FilterStays, TabsStay DEF OverlayStep
<1>2. CASE BrowseStep
  BY <1>2, TabsStay, MoveStays, BackStays, OpensStay, EnterStays, StackStays DEF BrowseStep, StopFiltering
<1>3. CASE SongStep
  <2>1. CASE add_song_to_playlist \/ DeleteSongs \/ remove_song_from_playlist \/ bulk_toggle_star \/ set_starred
    BY <2>1, StackStays DEF add_song_to_playlist, DeleteSongs, remove_song_from_playlist, bulk_toggle_star,
       set_starred
  <2> QED
    BY <1>3, <2>1, SelectionStays, OpensStay, PickedStays, RefetchStays, SubmitStays, StarStays, BulkStarStays
       DEF SongStep
<1>4. CASE QueueStep
  BY <1>4, RefetchStays
<1>5. CASE OtherDevice \/ NoScreenChanges
  BY <1>5, StackStays DEF OtherDevice, NoScreenChanges, screenVars
<1>6. CASE Quit
  BY <1>6, TabsStay
<1> QED
  BY <1>1, <1>2, <1>3, <1>4, <1>5, <1>6 DEF Next, TuiStep, CheckKey, UpdateKey, BackKey

(* Whatever is typed, moved over, opened, left, marked or starred, every    *)
(* cursor stays on a row that is shown: only a list fetched again under a   *)
(* filter takes it off, and it is then still on a row of the whole list.    *)
THEOREM CursorsLostOnlyByRefetch == Spec => CursorLostOnlyByRefetch
<1>1. TuiInv /\ TuiInv' /\ [Next]_vars =>
        [\A n \in DOMAIN stack' : ~CursorShown(stack'[n]) =>
           /\ stack'[n].filter # NoFilter /\ stack'[n].selected < Len(stack'[n].items)
           /\ \/ n \in DOMAIN stack /\ ~CursorShown(stack[n])
              \/ n = Len(stack') /\ Refetched]_vars
  <2> SUFFICES ASSUME TuiInv, TuiInv', Next, NEW n \in DOMAIN stack', ~CursorShown(stack'[n])
               PROVE  /\ stack'[n].filter # NoFilter /\ stack'[n].selected < Len(stack'[n].items)
                      /\ \/ n \in DOMAIN stack /\ ~CursorShown(stack[n])
                         \/ n = Len(stack') /\ Refetched
    OBVIOUS
  <2>1. DOMAIN stack = 1..Len(stack) /\ DOMAIN stack' = 1..Len(stack')
    BY ScreensAfter, IsListFacts DEF TuiInv, ScreensOK, StackOK
  <2>2. ScreenOK(stack'[n])
    BY <2>1, ScreensAfter
  <2>3. CursorsStay
    BY NextCursors
  <2>4. stack'[n].filter # NoFilter /\ stack'[n].selected < Len(stack'[n].items)
    BY <2>2, HiddenFacts
  <2>5. (n \in DOMAIN stack /\ ~CursorShown(stack[n])) \/ (n = Len(stack') /\ Refetched)
    BY <2>1, <2>3 DEF CursorsStay
  <2> QED
    BY <2>4, <2>5
<1> QED
  BY <1>1, TuiInvariant, PTL DEF Spec, CursorLostOnlyByRefetch

=============================================================================
