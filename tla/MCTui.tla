------------------------------- MODULE MCTui --------------------------------
(***************************************************************************)
(* A small instance of Tui for TLC.  Each behaviour keeps to one part of   *)
(* the TUI, its focus: the tabs it visits and what else it does there.     *)
(* The parts share no state but the stack, which a change of tab replaces. *)
(***************************************************************************)
EXTENDS Tui

CONSTANTS s1, s2, p1, p2, x1, x2

VARIABLE focus

MCVars == <<vars, focus>>

TwoSongs == {s1, s2}

(* One filter, which hides the first of everything *)
OneFilter == [text \in {"filter"} |-> {s2, p2, x2}]

NoSongOrSome == {[art |-> Nothing, lyrics |-> Nothing], [art |-> "a", lyrics |-> "l1"],
                 [art |-> "b", lyrics |-> "l2"]}

SmallTracklists == {<<s1, s2>>, <<s2, s1, s2>>}

SmallShelves == {<<x1, x2>>}

SmallDashboards == {<< <<>>, <<x1>>, <<s1, s2>>, <<s2>> >>, << <<s1>>, <<>>, <<s1>>, <<>> >>}

SmallQueues == {<<s1, NoId>>, <<s1, s2, s1>>}

SmallPlaylists == {(p1 :> <<s1, s1, s2>>), (p1 :> <<s2, s1>>) @@ (p2 :> <<>>)}

Focuses ==
  {{"Home", "stars"}, {"Playlists", "lists"}, {"Playlists", "songs", "deep"}, {"Albums", "deep"},
   {"Artists", "deep"}, {"Genres", "deep"}, {"Search", "stars"}, {"Queue", "lists", "help"},
   {"Settings", "updates"}, {"Settings", "panels"}}

MCInit ==
  /\ Init
  /\ focus \in Focuses
  /\ Cardinality(DOMAIN playlists) = IF "lists" \in focus THEN 2 ELSE 1

MCNext ==
  /\ Next
  /\ UNCHANGED focus
  /\ active_tab' \in focus
  /\ Len(stack') > 2 => "deep" \in focus
  /\ show_help' => "help" \in focus
  /\ starred' # starred => "stars" \in focus
  /\ playlists' # playlists =>
       IF DOMAIN playlists' = DOMAIN playlists THEN "songs" \in focus ELSE "lists" \in focus
  /\ playlists' # playlists /\ busy' = busy => "lists" \in focus \/ touched' # touched
  /\ updateVars' # updateVars => "updates" \in focus
  /\ panelVars' # panelVars => "panels" \in focus

MCSpec == MCInit /\ [][MCNext]_MCVars

WithoutSent == <<screenVars, serverVars, backgroundVars, focus>>
=============================================================================
