----------------------------- MODULE Background -----------------------------
(***************************************************************************)
(* What the TUI runs beside its event loop (tui/src/app.rs 955-1075,       *)
(* tui/src/update_check.rs, tui/src/art.rs): the fetches of album art and  *)
(* lyrics of the current song, and the check for and installation of an    *)
(* update.  The tasks only meet the event loop in channels, which it       *)
(* drains at the head of each turn (Tick).                                 *)
(*                                                                         *)
(* A commit is its number on the branch; the log of an installation is     *)
(* its number of lines; art and lyrics are told by what they were fetched  *)
(* for.                                                                    *)
(***************************************************************************)
EXTENDS Integers, SequencesExt

CONSTANTS
  Playing,           (* what may be playing: [art, lyrics], each an id or Nothing *)
  Nothing,           (* no art url, no song id                                    *)
  APPLY_LOG_LINES,   (* lines of build output kept on screen                      *)
  MaxHead,           (* bound: commits on the branch                              *)
  MaxEvents,         (* bound: update events not yet drained                      *)
  MaxJobs            (* bound: checks, and installations, in flight               *)

ASSUME BackgroundAssumption ==
  /\ APPLY_LOG_LINES \in Nat /\ MaxHead \in Nat \ {0}
  /\ MaxEvents \in Nat /\ MaxJobs \in Nat

VARIABLES
  update_state,   (* [phase, commit, lines]                                    *)
  checks,         (* checks in flight                                          *)
  applies,        (* installations in flight: the packages to do and the       *)
                  (* commit cloned for the first of them, 0 before its clone   *)
  update_rx,      (* update events on their way to the loop                    *)
  branch,         (* the head of the branch                                    *)
  installed,      (* the commit each package is installed from                 *)
  built,          (* the commit the running TUI was built from                 *)
  confirmed,      (* history: the commit the last u u asked for                *)
  current,        (* per panel, the id shown or being fetched                  *)
  shown,          (* per panel, what the content on show was fetched for       *)
  fetching,       (* <<panel, id>> of the fetches in flight                    *)
  arrived         (* <<panel, id>> of the fetches done and not drained         *)

updateVars == <<update_state, checks, applies, update_rx, branch, installed, built, confirmed>>
panelVars == <<current, shown, fetching, arrived>>
backgroundVars == <<updateVars, panelVars>>

Panels == {"art", "lyrics"}

Packages == <<"maraetai-daemon", "maraetai-tui">>

Phases == {"Idle", "Checking", "UpToDate", "Available", "ConfirmApply",
           "Applying", "Applied", "Failed"}

Phase(phase) == [phase |-> phase, commit |-> 0, lines |-> 0]
With(phase, commit) == [Phase(phase) EXCEPT !.commit = commit]

BackgroundInit ==
  /\ update_state = Phase("Idle")
  /\ checks = 0 /\ applies = <<>> /\ update_rx = <<>>
  /\ branch = 1 /\ built = 1 /\ confirmed = 1
  /\ installed = [p \in ToSet(Packages) |-> 1]
  /\ current = [p \in Panels |-> Nothing]
  /\ shown = [p \in Panels |-> Nothing]
  /\ fetching = {} /\ arrived = {}

-----------------------------------------------------------------------------
(* Checking for an update and installing it *)

StartCheck ==
  /\ checks < MaxJobs
  /\ update_state' = Phase("Checking")
  /\ checks' = checks + 1
  /\ UNCHANGED <<applies, update_rx, branch, installed, built, confirmed>>

(* Slip: a check may be asked for while one is in flight *)
check_for_update_again == update_state.phase # "Applying" /\ StartCheck

(* c on Settings: not while a check or an installation is in flight *)
check_for_update == update_state.phase \notin {"Checking", "Applying"} /\ StartCheck

(* u: the first press asks for a second, the second installs *)
request_apply_update ==
  /\ \/ /\ update_state.phase = "Available"
        /\ update_state' = [update_state EXCEPT !.phase = "ConfirmApply"]
        /\ UNCHANGED <<applies, confirmed>>
     \/ /\ update_state.phase = "ConfirmApply"
        /\ Len(applies) < MaxJobs
        /\ update_state' = Phase("Applying")
        /\ applies' = Append(applies, [todo |-> Packages, cloned |-> 0])
        /\ confirmed' = update_state.commit
  /\ UNCHANGED <<checks, update_rx, branch, installed, built>>

(* Esc: a confirmation asked for is taken back before anything else *)
BackOut ==
  /\ update_state.phase = "ConfirmApply"
  /\ update_state' = [update_state EXCEPT !.phase = "Available"]
  /\ UNCHANGED <<checks, applies, update_rx, branch, installed, built, confirmed>>

(* Slip: the log grows with every line of the build *)
After_unbounded(state, event) ==
  CASE event.kind = "ApplyProgress" -> [state EXCEPT !.lines = @ + 1]
    [] event.kind = "Newer"     -> With("Available", event.commit)
    [] event.kind = "Same"      -> Phase("UpToDate")
    [] event.kind = "ApplyDone" -> Phase("Applied")
    [] event.kind = "Failed"    -> Phase("Failed")

(* One event taken up by the event loop, then all that have come *)
After(state, event) ==
  CASE event.kind = "ApplyProgress" ->
         IF state.phase = "Applying" /\ state.lines < APPLY_LOG_LINES
         THEN [state EXCEPT !.lines = @ + 1] ELSE state
    [] event.kind = "Newer"     -> With("Available", event.commit)
    [] event.kind = "Same"      -> Phase("UpToDate")
    [] event.kind = "ApplyDone" -> Phase("Applied")
    [] event.kind = "Failed"    -> Phase("Failed")

AfterAll(state, events) ==
  LET after[n \in 0..Len(events)] ==
        IF n = 0 THEN state ELSE After(after[n - 1], events[n])
  IN  after[Len(events)]

poll_update_events ==
  /\ update_state' = AfterAll(update_state, update_rx)
  /\ update_rx' = <<>>
  /\ UNCHANGED <<checks, applies, branch, installed, built, confirmed>>

-----------------------------------------------------------------------------
(* The tasks of the update checker *)

Send(kind, commit) ==
  /\ Len(update_rx) < MaxEvents
  /\ update_rx' = Append(update_rx, [kind |-> kind, commit |-> commit])

(* A build without git, which is never told of an update, is left out *)
is_update_available(commit) == commit # built

CheckDone ==
  /\ checks > 0
  /\ checks' = checks - 1
  /\ \/ Send(IF is_update_available(branch) THEN "Newer" ELSE "Same", branch)
     \/ Send("Failed", 0)
  /\ UNCHANGED <<update_state, applies, branch, installed, built, confirmed>>

(* cargo clones what the branch is at by then *)
InstallStarts(t) ==
  /\ applies[t].cloned = 0
  /\ applies' = [applies EXCEPT ![t].cloned = branch]
  /\ Send("ApplyProgress", 0)
  /\ UNCHANGED <<update_state, checks, branch, installed, built, confirmed>>

InstallEnds(t) ==
  LET package == applies[t].todo[1]
      rest    == Tail(applies[t].todo)
  IN  /\ applies[t].cloned # 0
      /\ installed' = [installed EXCEPT ![package] = applies[t].cloned]
      /\ IF rest = <<>>
         THEN applies' = RemoveAt(applies, t) /\ Send("ApplyDone", 0)
         ELSE /\ applies' = [applies EXCEPT ![t] = [todo |-> rest, cloned |-> 0]]
              /\ UNCHANGED update_rx
      /\ UNCHANGED <<update_state, checks, branch, built, confirmed>>

(* Slip: a package that fails is passed over *)
InstallFails_passed(t) ==
  LET rest == Tail(applies[t].todo)
  IN  /\ IF rest = <<>>
         THEN applies' = RemoveAt(applies, t) /\ Send("ApplyDone", 0)
         ELSE /\ applies' = [applies EXCEPT ![t] = [todo |-> rest, cloned |-> 0]]
              /\ UNCHANGED update_rx
      /\ UNCHANGED <<update_state, checks, branch, installed, built, confirmed>>

(* cargo fails: nothing of this package, nor of the next, is installed *)
InstallFails(t) ==
  /\ applies' = RemoveAt(applies, t)
  /\ Send("Failed", 0)
  /\ UNCHANGED <<update_state, checks, branch, installed, built, confirmed>>

NewCommit ==
  /\ branch < MaxHead
  /\ branch' = branch + 1
  /\ UNCHANGED <<update_state, checks, applies, update_rx, installed, built, confirmed>>

UpdateTask ==
  \/ CheckDone
  \/ \E t \in DOMAIN applies : InstallStarts(t) \/ InstallEnds(t) \/ InstallFails(t)
  \/ NewCommit

(* The process ends and its tasks with it; a cargo that is building may go  *)
(* on to install its package.  The next process runs what is installed.     *)
UpdateRestart ==
  /\ update_state' = Phase("Idle")
  /\ checks' = 0 /\ applies' = <<>> /\ update_rx' = <<>>
  /\ installed' \in {installed} \cup
        {[installed EXCEPT ![applies[t].todo[1]] = applies[t].cloned] :
           t \in {u \in DOMAIN applies : applies[u].cloned # 0}}
  /\ built' = installed'["maraetai-tui"]
  /\ UNCHANGED <<branch, confirmed>>

-----------------------------------------------------------------------------
(* The panels *)

(* Slip: whatever arrives is put on show *)
Drained_any(panel, id, before) ==
  LET ids == {a[2] : a \in {b \in arrived : b[1] = panel}}
  IN  IF ids = {} THEN before ELSE CHOOSE any \in ids : TRUE

(* A fetch that arrives is kept only if it is of the current id *)
Drained(panel, id, before) ==
  IF id # Nothing /\ <<panel, id>> \in arrived THEN id ELSE before

(* What is on show once id is current and the channel is drained *)
ShownFor(panel, id) ==
  Drained(panel, id, IF id = current[panel] THEN shown[panel] ELSE Nothing)

NewFetches(now) == {<<p, now[p]>> : p \in {q \in Panels : now[q] \notin {current[q], Nothing}}}

(* update_art and update_lyrics: a change of what plays starts a fetch *)
UpdatePanels(now) ==
  /\ current' = now
  /\ shown' = [p \in Panels |-> ShownFor(p, now[p])]
  /\ fetching' = fetching \cup NewFetches(now)
  /\ arrived' = {}

(* A fetch of art that fails never arrives; one of lyrics always does, with *)
(* no lines if need be                                                      *)
FetchEnds ==
  \E fetch \in fetching :
    /\ fetching' = fetching \ {fetch}
    /\ arrived' \in {arrived \cup {fetch}} \cup IF fetch[1] = "art" THEN {arrived} ELSE {}
    /\ UNCHANGED <<current, shown>>

PanelsRestart ==
  /\ current' = [p \in Panels |-> Nothing] /\ shown' = [p \in Panels |-> Nothing]
  /\ fetching' = {} /\ arrived' = {}

-----------------------------------------------------------------------------

(* The head of a turn of the event loop *)
Tick == poll_update_events /\ \E now \in Playing : UpdatePanels(now)

Task ==
  \/ UpdateTask /\ UNCHANGED panelVars
  \/ FetchEnds /\ UNCHANGED updateVars

BackgroundRestart == UpdateRestart /\ PanelsRestart

-----------------------------------------------------------------------------
(* Properties *)

BackgroundTypeOK ==
  /\ update_state \in [phase : Phases, commit : 0..MaxHead, lines : 0..APPLY_LOG_LINES]
  /\ checks \in 0..MaxJobs /\ Len(applies) <= MaxJobs /\ Len(update_rx) <= MaxEvents
  /\ branch \in 1..MaxHead /\ built \in 1..MaxHead /\ confirmed \in 1..MaxHead
  /\ installed \in [ToSet(Packages) -> 1..MaxHead]
  /\ \E now \in Playing \cup {[p \in Panels |-> Nothing]} : current = now

Queued(kinds) == Cardinality({n \in DOMAIN update_rx : update_rx[n].kind \in kinds})

(* The phase on show tells what is in flight: a check, an installation or   *)
(* neither, never two of them, and none that has ended unseen.  (app.rs     *)
(* 1034-1075: ignored if a check or an apply is already in flight.)         *)
JobMatchesState ==
  LET jobs == checks + Len(applies) + Queued({"Newer", "Same", "Failed", "ApplyDone"})
  IN  /\ jobs = IF update_state.phase \in {"Checking", "Applying"} THEN 1 ELSE 0
      /\ checks > 0 => update_state.phase = "Checking"
      /\ applies # <<>> => update_state.phase = "Applying"

(* Applied is only shown when both packages are installed from a commit at  *)
(* least as new as the one the user confirmed, whatever was pushed, failed  *)
(* or restarted meanwhile.  (update_check.rs 97-145.)                       *)
AppliedMeansBoth ==
  update_state.phase = "Applied" => \A p \in ToSet(Packages) : installed[p] >= confirmed

(* Art and lyrics on show are those of what plays now, however late the     *)
(* fetch of a song skipped past arrives.  (app.rs 964-970, 994-998.)        *)
PanelShowsCurrent == \A p \in Panels : shown[p] \in {Nothing, current[p]}
=============================================================================
