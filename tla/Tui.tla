--------------------------------- MODULE Tui ---------------------------------
(***************************************************************************)
(* The TUI's event loop (tui/src/app.rs): one action per key, in the mode  *)
(* the keys before it have led to, with what the handler calls and the     *)
(* change of the screens it makes; the music server and the daemon answer  *)
(* or fail.  A key that makes a series of calls is a series of steps, as   *)
(* other devices use the same server in between.                           *)
(***************************************************************************)
EXTENDS Screens, Background

CONSTANTS
  PlaylistIds,    (* the playlists there can be                               *)
  NoId,           (* a queued track without a song id                         *)
  Tracklists,     (* song lists the server can answer with                    *)
  Shelves,        (* lists of albums, of artists, of genres                   *)
  Dashboards,     (* <<favourites, albums, on repeat, for you>> for Home      *)
  Queues,         (* queues the daemon can answer with                        *)
  FirstPlaylists, (* what the playlists are at first                          *)
  HOME_PREVIEW_ROWS,
  MaxDepth,       (* bound: screens on the stack                              *)
  MaxPlaylist     (* bound: songs in a playlist                               *)

IsList(list) == list \in Seq(ToSet(list))

ASSUME TuiAssumption ==
  /\ IsFiniteSet(PlaylistIds)
  /\ Tracklists \subseteq Seq(Songs)
  /\ Queues \subseteq Seq(Songs \cup {NoId})
  /\ \A names \in Shelves : IsList(names)
  /\ \A lists \in Dashboards : /\ lists = [n \in 1..4 |-> lists[n]] /\ IsList(lists[2])
                               /\ \A n \in {1, 3, 4} : lists[n] \in Seq(Songs)
  /\ \A first \in FirstPlaylists : /\ DOMAIN first \subseteq PlaylistIds
                                   /\ first \in [DOMAIN first -> Seq(Songs)]
  /\ HOME_PREVIEW_ROWS \in Nat /\ MaxDepth \in Nat \ {0} /\ MaxPlaylist \in Nat

VARIABLES
  active_tab, stack, filter_editing, show_help,
  prompt,         (* the prompt on show: [action, target, blank]              *)
  busy,           (* the calls a key has still to make: [op, target, todo]    *)
  sent,           (* output: the last call made, [call, arg, ok]              *)
  playlists,      (* server: the songs of each playlist                       *)
  starred,        (* server: the songs starred                                *)
  touched,        (* history: playlists changed elsewhere since fetched       *)
  settled         (* history: songs whose star a series of calls has set, and *)
                  (* nobody else changed since                                *)

screenVars == <<active_tab, stack, filter_editing, show_help, prompt, busy>>
serverVars == <<playlists, starred, touched, settled>>
tuiVars == <<screenVars, sent, serverVars>>
vars == <<tuiVars, backgroundVars>>

TABS == <<"Home", "Playlists", "Albums", "Artists", "Genres", "Search", "Queue", "Settings">>

Idle == [op |-> "none", target |-> None, todo |-> <<>>]

NoPrompt == [action |-> "none", target |-> None, blank |-> TRUE]

Call(call, arg, ok) == [call |-> call, arg |-> arg, ok |-> ok]

Silent == Call("none", None, TRUE)

Top == stack[Len(stack)]

(* A call that changes the server is done and answered, refused, or done    *)
(* with its answer lost                                                     *)
Outcomes == {[ok |-> TRUE, done |-> TRUE], [ok |-> FALSE, done |-> FALSE],
             [ok |-> FALSE, done |-> TRUE]}

-----------------------------------------------------------------------------
(* The mode a key is pressed in *)

Running == stack # <<>>

(* Slip: a prompt takes no key away from the screen under it *)
Ready_prompted == Running /\ ~show_help /\ busy = Idle

(* No overlay takes the key *)
Ready == Running /\ ~show_help /\ prompt = NoPrompt /\ busy = Idle

(* A character is not taken by a query or a filter being typed either *)
KeyMode == Ready /\ ~Editing(Top) /\ ~filter_editing

FilterMode == Ready /\ filter_editing /\ Top.kind \in Filterable

-----------------------------------------------------------------------------
(* Changes of the screens *)

Rows(songs) == [k \in DOMAIN songs |-> [id |-> songs[k], starred |-> songs[k] \in starred]]

Preview(songs) == SubSeq(songs, 1, IF Len(songs) < HOME_PREVIEW_ROWS THEN Len(songs) ELSE HOME_PREVIEW_ROWS)

Home(lists) ==
  Screen("Home",
         [n \in 1..4 |-> IF n = 2 THEN Section(FALSE, Preview(lists[n]))
                                  ELSE Section(TRUE, Rows(Preview(lists[n])))],
         0)

(* A fetch that fails leaves an empty screen on a tab *)
OrEmpty(lists) == lists \cup {<<>>}

SongLists == {Rows(songs) : songs \in Tracklists}

PlaylistRoots(lists) ==
  {Screen("PlaylistList", names, None) : names \in {<<>>, SetToSeq(DOMAIN lists)}}

(* The screens a tab can open with *)
Roots(tab) ==
  CASE tab = "Home"      -> {Home(lists) : lists \in Dashboards}
    [] tab = "Playlists" -> PlaylistRoots(playlists)
    [] tab = "Albums"    -> {Screen("AlbumList", names, "Alphabetical") : names \in OrEmpty(Shelves)}
    [] tab = "Artists"   -> {Screen("ArtistList", names, None) : names \in OrEmpty(Shelves)}
    [] tab = "Genres"    -> {Screen("GenreList", names, None) : names \in OrEmpty(Shelves)}
    [] tab = "Search"    -> {Screen("Search", <<>>, "editing")}
    [] tab = "Queue"     -> {Screen("Queue", rows, None) : rows \in OrEmpty(Queues)}
    [] tab = "Settings"  -> {Screen("Settings", <<>>, None)}

switch_tab(tab) ==
  /\ active_tab' = tab
  /\ \E root \in Roots(tab) : stack' = <<root>>
  /\ filter_editing' = FALSE

SetTop(screen) == stack' = [stack EXCEPT ![Len(stack)] = screen]

(* A screen opened on top, if what it is to show could be fetched *)
Push(screens) ==
  /\ Len(stack) < MaxDepth
  /\ \/ \E screen \in screens : stack' = Append(stack, screen)
     \/ UNCHANGED stack

push_album_list == Push({Screen("AlbumList", names, None) : names \in Shelves})

push_song_list == Push({Screen("SongList", rows, None) : rows \in SongLists})

push_playlist(id) ==
  /\ Push({Screen("SongList", Rows(playlists[p]), p) : p \in DOMAIN playlists \cap {id}})
  /\ touched' = IF stack' # stack THEN touched \ {id} ELSE touched

(* The list an expanded section of Home shows, empty if it cannot be had *)
push_native_song_list ==
  /\ Len(stack) < MaxDepth
  /\ \E rows \in OrEmpty(SongLists) : stack' = Append(stack, Screen("SongList", rows, None))

(* A call to the daemon: it is accepted or fails, and nothing else changes *)
Sends(call, arg) == \E ok \in BOOLEAN : sent' = Call(call, arg, ok)

NoCall == sent' = Silent

UnchangedModes == UNCHANGED <<active_tab, show_help, prompt, busy>>

(* A key that at most changes the screens *)
ScreenKey == KeyMode /\ UNCHANGED <<active_tab, filter_editing, show_help, prompt, busy>>

-----------------------------------------------------------------------------
(* Overlays: the help, the prompts, the query and the filter *)

Help ==
  /\ \/ KeyMode /\ show_help' = TRUE
     \/ Running /\ show_help /\ show_help' = FALSE
  /\ NoCall /\ UNCHANGED <<active_tab, stack, filter_editing, prompt, busy, serverVars>>

Prompt(action, target, blank) ==
  /\ prompt' = [action |-> action, target |-> target, blank |-> blank]
  /\ NoCall
  /\ UNCHANGED <<active_tab, stack, filter_editing, show_help, busy, serverVars>>

prompt_new_playlist == KeyMode /\ Top.kind = "PlaylistList" /\ Prompt("New", None, TRUE)

prompt_rename_playlist ==
  /\ KeyMode /\ Top.kind = "PlaylistList"
  /\ \E i \in RealIndex(Top) : Prompt("Rename", Top.items[i + 1], FALSE)

prompt_save_queue_as_playlist == KeyMode /\ Top.kind = "Queue" /\ Prompt("SaveQueue", None, TRUE)

Prompting == Running /\ ~show_help /\ prompt # NoPrompt /\ busy = Idle

(* Typing makes the text one that can be submitted, erasing may undo that *)
PromptEdit ==
  /\ Prompting
  /\ prompt' = [prompt EXCEPT !.blank = ~@]
  /\ NoCall /\ UNCHANGED <<active_tab, stack, filter_editing, show_help, busy, serverVars>>

PromptCancel ==
  /\ Prompting
  /\ prompt' = NoPrompt
  /\ NoCall /\ UNCHANGED <<active_tab, stack, filter_editing, show_help, busy, serverVars>>

(* Back to the playlists as they are by now, if the call succeeded *)
PlaylistsAfter(ok, lists) ==
  \/ /\ ok
     /\ active_tab' = "Playlists"
     /\ \E root \in PlaylistRoots(lists) : stack' = <<root>>
     /\ filter_editing' = FALSE
  \/ ~ok /\ UNCHANGED <<active_tab, stack, filter_editing>>

create_playlist(done, songs) ==
  IF done THEN {[p \in DOMAIN playlists \cup {id} |-> IF p = id THEN songs ELSE playlists[p]] :
                  id \in PlaylistIds \ DOMAIN playlists}
          ELSE {playlists}

(* Enter in a prompt.  A new name changes nothing that is modelled of a     *)
(* playlist; the queue is saved without the tracks that have no id.         *)
SubmitNew(out) ==
  /\ prompt.action = "New"
  /\ playlists' \in create_playlist(out.done, <<>>)
  /\ PlaylistsAfter(out.ok, playlists')
  /\ sent' = Call("create_playlist", <<>>, out.ok)

SubmitRename(out) ==
  /\ prompt.action = "Rename"
  /\ UNCHANGED playlists
  /\ PlaylistsAfter(out.ok, playlists)
  /\ sent' = Call("rename_playlist", prompt.target, out.ok)

SubmitSaveQueue(out) ==
  LET ids == Filtered(Top.items, ToSet(Top.items) \ {NoId})
  IN  /\ prompt.action = "SaveQueue"
      /\ IF ids = <<>> THEN NoCall /\ UNCHANGED playlists
         ELSE /\ Len(ids) <= MaxPlaylist
              /\ playlists' \in create_playlist(out.done, ids)
              /\ sent' = Call("create_playlist", ids, out.ok)
      /\ UNCHANGED <<active_tab, stack, filter_editing>>

submit_prompt ==
  /\ Prompting
  /\ prompt' = NoPrompt
  /\ \/ /\ prompt.blank
        /\ NoCall /\ UNCHANGED <<playlists, active_tab, stack, filter_editing>>
     \/ /\ ~prompt.blank
        /\ \E out \in Outcomes : SubmitNew(out) \/ SubmitRename(out) \/ SubmitSaveQueue(out)
  /\ UNCHANGED <<show_help, busy, starred, touched, settled>>

(* A query is typed, left or run; with no text there is nothing to run *)
SearchEdit ==
  /\ Ready /\ Editing(Top)
  /\ \/ \E text \in DOMAIN Matching \cup {NoFilter} : SetTop([Top EXCEPT !.filter = text])
     \/ SetTop([Top EXCEPT !.of = None])
     \/ /\ Top.filter # NoFilter
        /\ \E rows \in SongLists : SetTop([Top EXCEPT !.of = None, !.items = rows])
  /\ NoCall /\ UNCHANGED <<filter_editing, serverVars>> /\ UnchangedModes

(* Each key typed into a filter, and Esc that clears it *)
FilterEdit ==
  /\ FilterMode
  /\ \/ /\ \E text \in DOMAIN Matching \cup {NoFilter} : SetTop(WithFilter(Top, text))
        /\ UNCHANGED filter_editing
     \/ /\ SetTop(WithFilter(Top, NoFilter))
        /\ filter_editing' = FALSE
  /\ NoCall /\ UNCHANGED serverVars /\ UnchangedModes

(* / filters a list that can be, and else starts a search, except over a    *)
(* screen that was pushed on another                                        *)
Slash ==
  /\ KeyMode
  /\ \/ /\ Top.kind \in Filterable
        /\ filter_editing' = TRUE
        /\ UNCHANGED <<active_tab, stack>>
     \/ /\ Top.kind \notin Filterable \cup {"PlaylistPicker", "Info"}
        /\ switch_tab("Search")
  /\ NoCall /\ UNCHANGED <<show_help, prompt, busy, serverVars>>

-----------------------------------------------------------------------------
(* Moving about *)

SwitchTab ==
  /\ KeyMode
  /\ \E tab \in ToSet(TABS) : switch_tab(tab)
  /\ NoCall /\ UNCHANGED <<show_help, prompt, busy, serverVars>>

(* Arrows are taken by no query and no filter *)
MoveSelection ==
  /\ Ready
  /\ \E delta \in {-1, 1} : SetTop(move_selection(Top, delta))
  /\ NoCall /\ UNCHANGED <<filter_editing, serverVars>> /\ UnchangedModes

(* Esc: a filter is cleared first, then the screen left *)
Back ==
  /\ ScreenKey
  /\ update_state.phase # "ConfirmApply"
  /\ IF Top.kind \in Filterable /\ Top.filter # NoFilter
     THEN SetTop(WithFilter(Top, NoFilter))
     ELSE Len(stack) > 1 /\ stack' = Front(stack)
  /\ NoCall /\ UNCHANGED serverVars

expand_home_section ==
  /\ ScreenKey /\ Top.kind = "Home"
  /\ IF Focused(Top).songs THEN push_native_song_list ELSE push_album_list
  /\ NoCall /\ UNCHANGED serverVars

toggle_album_sort ==
  /\ ScreenKey /\ Top.kind = "AlbumList" /\ Top.of # None
  /\ \E names \in OrEmpty(Shelves) :
       SetTop(Screen("AlbumList", names, IF Top.of = "Newest" THEN "Alphabetical" ELSE "Newest"))
  /\ NoCall /\ UNCHANGED serverVars

(* Only an artist has similar artists *)
show_info ==
  /\ ScreenKey /\ Top.kind \in {"ArtistList", "AlbumList"} /\ RealIndex(Top) # {}
  /\ Len(stack) < MaxDepth
  /\ \E similar \in IF Top.kind = "ArtistList" THEN OrEmpty(Shelves) ELSE {<<>>} :
       stack' = Append(stack, Screen("Info", similar, None))
  /\ NoCall /\ UNCHANGED serverVars

-----------------------------------------------------------------------------
(* Enter *)

PlayMarked ==
  /\ HasMarks(Top)
  /\ Sends("play_queue", Ids(marked_songs(Top)))
  /\ SetTop(clear_marks(Top))
  /\ UNCHANGED <<busy, touched>>

PlayFromSelection ==
  /\ ~HasMarks(Top)
  /\ \E rows \in FromSelection(Top) : Sends("play_queue", Ids(rows))
  /\ UNCHANGED <<stack, busy, touched>>

OpenAlbum ==
  /\ \/ Top.kind = "AlbumList" /\ RealIndex(Top) # {}
     \/ Top.kind = "Home" /\ ~Focused(Top).songs /\ Top.selected < Len(Focused(Top).rows)
  /\ push_song_list
  /\ NoCall /\ UNCHANGED <<busy, touched>>

OpenAlbums ==
  /\ \/ Top.kind \in {"ArtistList", "GenreList"} /\ RealIndex(Top) # {}
     \/ Top.kind = "Info" /\ Top.selected < Len(Top.items)
  /\ push_album_list
  /\ NoCall /\ UNCHANGED <<busy, touched>>

OpenPlaylist ==
  /\ Top.kind = "PlaylistList"
  /\ \E i \in RealIndex(Top) : push_playlist(Top.items[i + 1])
  /\ NoCall /\ UNCHANGED busy

JumpInQueue ==
  /\ Top.kind = "Queue"
  /\ \E i \in RealIndex(Top) : Sends("play_at", i)
  /\ UNCHANGED <<stack, busy, touched>>

(* The picked playlist is given its songs one call at a time *)
PickPlaylist ==
  /\ Top.kind = "PlaylistPicker" /\ Top.selected < Len(Top.items)
  /\ busy' = [op |-> "add", target |-> Top.items[Top.selected + 1], todo |-> Top.of]
  /\ NoCall /\ UNCHANGED <<stack, touched>>

activate_selection ==
  /\ Ready /\ ~Editing(Top)
  /\ \/ PlayMarked \/ PlayFromSelection \/ OpenAlbum \/ OpenAlbums
     \/ OpenPlaylist \/ JumpInQueue \/ PickPlaylist
  /\ filter_editing' = FALSE
  /\ UNCHANGED <<active_tab, show_help, prompt, playlists, starred, settled>>

(* Enter ends the typing of a filter that leaves nothing to activate *)
StopFiltering ==
  /\ FilterMode /\ RealIndex(Top) = {} /\ ~HasMarks(Top)
  /\ filter_editing' = FALSE
  /\ NoCall /\ UNCHANGED <<stack, serverVars>> /\ UnchangedModes

-----------------------------------------------------------------------------
(* Marks and what is done with a selection *)

ToggleMark ==
  /\ ScreenKey /\ Markable(Top) /\ RealIndex(Top) # {}
  /\ SetTop(toggle_mark(Top))
  /\ NoCall /\ UNCHANGED serverVars

(* a and A: marked songs first, else this row and the rest, or this row *)
append_selection ==
  /\ ScreenKey /\ UNCHANGED serverVars
  /\ \/ /\ HasMarks(Top)
        /\ Sends("append_queue", Ids(marked_songs(Top)))
        /\ SetTop(clear_marks(Top))
     \/ /\ ~HasMarks(Top)
        /\ \E rows \in FromSelection(Top) : Sends("append_queue", Ids(rows))
        /\ UNCHANGED stack

play_next_selection ==
  /\ ScreenKey /\ UNCHANGED serverVars
  /\ \/ /\ HasMarks(Top)
        /\ Sends("play_next", Ids(marked_songs(Top)))
        /\ SetTop(clear_marks(Top))
     \/ /\ ~HasMarks(Top) /\ Top.kind # "Queue"
        /\ \E id \in selected_song_id(Top) : Sends("play_next", <<id>>)
        /\ UNCHANGED stack

Chosen == IF HasMarks(Top) THEN {Ids(marked_songs(Top))} ELSE {<<id>> : id \in selected_song_id(Top)}

open_playlist_picker ==
  /\ ScreenKey /\ Len(stack) < MaxDepth /\ DOMAIN playlists # {}
  /\ \E ids \in Chosen :
       stack' = Append(stack, Screen("PlaylistPicker", SetToSeq(DOMAIN playlists), ids))
  /\ NoCall /\ UNCHANGED serverVars

-----------------------------------------------------------------------------
(* A key that makes one call after the other *)

Calling(op) == Running /\ busy.op = op

Modes == <<active_tab, filter_editing, show_help, prompt>>

Steps == UNCHANGED <<Modes, starred, settled>>

(* A playlist as its server has it after one song is added, if it knows     *)
(* that song, or removed                                                    *)
WithSong(id, song) ==
  IF id \in DOMAIN playlists /\ song \in Songs
  THEN [playlists EXCEPT ![id] = Append(@, song)] ELSE playlists

WithoutIndex(id, i) ==
  IF id \in DOMAIN playlists /\ i < Len(playlists[id])
  THEN [playlists EXCEPT ![id] = RemoveAt(@, i + 1)] ELSE playlists

add_song_to_playlist ==
  /\ Calling("add") /\ busy.todo # <<>>
  /\ busy.target \in DOMAIN playlists => Len(playlists[busy.target]) < MaxPlaylist
  /\ \E out \in Outcomes :
       /\ playlists' = IF out.done THEN WithSong(busy.target, busy.todo[1]) ELSE playlists
       /\ sent' = Call("add_song_to_playlist", busy.target, out.ok)
  /\ busy' = [busy EXCEPT !.todo = Tail(@)]
  /\ Steps /\ UNCHANGED <<stack, touched>>

(* The picker leaves, and so do the marks that brought it *)
Picked ==
  /\ Calling("add") /\ busy.todo = <<>>
  /\ busy' = Idle
  /\ LET under == Front(stack)
     IN  stack' = [under EXCEPT ![Len(under)] = clear_marks(@)]
  /\ NoCall /\ Steps /\ UNCHANGED <<playlists, touched>>

(* The rows d removes: the marked ones, on show or not, or that of the cursor *)
DeletedRows(s) ==
  IF s.marked = {} THEN RealIndex(s)
  ELSE {k - 1 : k \in {n \in DOMAIN s.items : s.items[n].id \in s.marked}}

(* Slip: lowest index first *)
DeletionOrder_ascending(rows) == Filtered([k \in DOMAIN Top.items |-> k - 1], rows)

(* Highest index first: a removal shifts none that is still to come *)
DeletionOrder(rows) == Filtered([k \in DOMAIN Top.items |-> Len(Top.items) - k], rows)

DeleteSongs ==
  /\ KeyMode /\ Top.kind = "SongList" /\ Top.of # None /\ DeletedRows(Top) # {}
  /\ busy' = [op |-> "remove", target |-> Top.of, todo |-> DeletionOrder(DeletedRows(Top))]
  /\ NoCall /\ UNCHANGED <<active_tab, stack, filter_editing, show_help, prompt, serverVars>>

remove_song_from_playlist ==
  /\ Calling("remove") /\ busy.todo # <<>>
  /\ \E out \in Outcomes :
       /\ playlists' = IF out.done THEN WithoutIndex(busy.target, busy.todo[1]) ELSE playlists
       /\ sent' = Call("remove_song_from_playlist", busy.todo[1], out.ok)
  /\ busy' = [busy EXCEPT !.todo = Tail(@)]
  /\ Steps /\ UNCHANGED <<stack, touched>>

(* Slip: the marks stay when the rows are gone *)
RemovedFrom_marked(rows) == Refreshed(Top, rows)

RemovedFrom(rows) == clear_marks(Refreshed(Top, rows))

(* Then the playlist is fetched again: a failure shows it empty *)
refresh_playlist_songs ==
  /\ Calling("remove") /\ busy.todo = <<>>
  /\ busy' = Idle
  /\ \/ /\ busy.target \in DOMAIN playlists
        /\ SetTop(RemovedFrom(Rows(playlists[busy.target])))
        /\ touched' = touched \ {busy.target}
     \/ SetTop(RemovedFrom(<<>>)) /\ UNCHANGED touched
  /\ NoCall /\ Steps /\ UNCHANGED playlists

DeletePlaylist ==
  /\ KeyMode /\ Top.kind = "PlaylistList"
  /\ \E i \in RealIndex(Top), out \in Outcomes :
       LET id == Top.items[i + 1]
       IN  /\ playlists' = IF out.done THEN [p \in DOMAIN playlists \ {id} |-> playlists[p]] ELSE playlists
           /\ PlaylistsAfter(out.ok, playlists')
           /\ sent' = Call("delete_playlist", id, out.ok)
  /\ UNCHANGED <<show_help, prompt, busy, starred, touched, settled>>

-----------------------------------------------------------------------------
(* The queue *)

(* The cursor follows a track to its new place, if that is on show *)
Following(s, place) ==
  LET shown_at == {n \in DOMAIN visible_indices(s) : visible_indices(s)[n] \in place}
  IN  IF shown_at = {} THEN s ELSE [s EXCEPT !.selected = (CHOOSE n \in shown_at : TRUE) - 1]

(* A call that edits the daemon's queue; if it is accepted the rows are     *)
(* fetched again, the cursor put at the place of the track it was to follow *)
EditQueue(call, arg, place) ==
  /\ ScreenKey /\ Top.kind = "Queue" /\ UNCHANGED serverVars
  /\ \/ /\ sent' = Call(call, arg, TRUE)
        /\ \E rows \in OrEmpty(Queues) : SetTop(Following(Refreshed(Top, rows), place))
     \/ /\ sent' = Call(call, arg, FALSE)
        /\ UNCHANGED stack

DeleteQueueRow ==
  \E i \in IF Running THEN RealIndex(Top) ELSE {} : EditQueue("remove_from_queue", i, {})

clear_queue == EditQueue("clear_queue", None, {})

move_queue_item ==
  \E delta \in {-1, 1} : \E i \in IF Running THEN RealIndex(Top) ELSE {} :
    /\ i + delta \in 0..(Len(Top.items) - 1)
    /\ EditQueue("move_in_queue", <<i, i + delta>>, {i + delta})

-----------------------------------------------------------------------------
(* Stars *)

(* The row f stars or unstars *)
StarTarget(s) ==
  CASE s.kind = "Home" -> HomeSong(s)
    [] Markable(s)     -> {s.items[i + 1] : i \in RealIndex(s)}
    [] OTHER           -> {}

Starring(id, on) == IF on THEN starred \cup {id} ELSE starred \ {id}

toggle_star ==
  /\ ScreenKey /\ ~HasMarks(Top)
  /\ \E row \in StarTarget(Top), out \in Outcomes :
       LET new_starred == ~row.starred
       IN  /\ starred' = IF out.done THEN Starring(row.id, new_starred) ELSE starred
           /\ sent' = Call("set_starred", [id |-> row.id, on |-> new_starred], out.ok)
           /\ IF ~out.ok THEN UNCHANGED stack
              ELSE SetTop([Top EXCEPT !.items =
                     IF Top.kind = "Home" THEN FlipOnHome(@, row.id, new_starred)
                                          ELSE FlipFirst(@, row.id, new_starred)])
  /\ UNCHANGED <<playlists, touched, settled>>

(* Marked songs are all starred, unless all are: then all are unstarred.    *)
(* One call is made for each marked row.                                    *)
bulk_toggle_star ==
  /\ KeyMode /\ HasMarks(Top)
  /\ LET songs == marked_songs(Top)
     IN  busy' = [op     |-> IF \E k \in DOMAIN songs : ~songs[k].starred THEN "star" ELSE "unstar",
                  target |-> None, todo |-> Ids(songs)]
  /\ NoCall /\ UNCHANGED <<Modes, stack, serverVars>>

StarOps == {"star", "unstar"}

(* Slip: each song is toggled on its own *)
NewStar_each(id) == \E row \in ToSet(Top.items) : row.id = id /\ ~row.starred

(* One state for all of the songs *)
NewStar(id) == busy.op = "star"

set_starred ==
  /\ Running /\ busy.op \in StarOps /\ busy.todo # <<>>
  /\ \E id \in {busy.todo[1]}, out \in Outcomes :
       /\ starred' = IF out.done THEN Starring(id, NewStar(id)) ELSE starred
       /\ settled' = IF out.ok THEN settled \cup {id} ELSE settled
       /\ sent' = Call("set_starred", [id |-> id, on |-> NewStar(id)], out.ok)
  /\ busy' = [busy EXCEPT !.todo = Tail(@)]
  /\ UNCHANGED <<Modes, stack, playlists, touched>>

(* A call that failed does not keep the glyph from changing *)
BulkStarred ==
  /\ Running /\ busy.op \in StarOps /\ busy.todo = <<>>
  /\ busy' = Idle /\ settled' = {}
  /\ SetTop(clear_marks([Top EXCEPT !.items =
       FlipAll(@, ToSet(Ids(marked_songs(Top))), busy.op = "star")]))
  /\ NoCall /\ UNCHANGED <<Modes, playlists, starred, touched>>

-----------------------------------------------------------------------------
(* The process and its surroundings *)

NoScreenChanges == NoCall /\ UNCHANGED <<screenVars, serverVars>>

CheckKey ==
  /\ KeyMode /\ Top.kind = "Settings" /\ check_for_update
  /\ NoScreenChanges /\ UNCHANGED panelVars

UpdateKey == KeyMode /\ request_apply_update /\ NoScreenChanges /\ UNCHANGED panelVars

BackKey == KeyMode /\ BackOut /\ NoScreenChanges /\ UNCHANGED panelVars

(* q, and Q which asks the daemon to quit too *)
Quit ==
  /\ KeyMode
  /\ NoCall \/ Sends("quit", None)
  /\ stack' = <<>> /\ active_tab' = "Home" /\ filter_editing' = FALSE
  /\ UNCHANGED <<show_help, prompt, busy, serverVars>>
  /\ BackgroundRestart

Start ==
  /\ ~Running
  /\ switch_tab("Home")
  /\ NoCall /\ UNCHANGED <<show_help, prompt, busy, serverVars>>

(* Another client of the same user: it edits a playlist or stars a song *)
OtherDevice ==
  /\ \/ \E id \in DOMAIN playlists :
          /\ \/ /\ Len(playlists[id]) < MaxPlaylist
                /\ \E song \in Songs : playlists' = [playlists EXCEPT ![id] = <<song>> \o @]
             \/ \E k \in DOMAIN playlists[id] : playlists' = [playlists EXCEPT ![id] = RemoveAt(@, k)]
             \/ playlists' = [p \in DOMAIN playlists \ {id} |-> playlists[p]]
          /\ touched' = touched \cup {id}
          /\ UNCHANGED <<starred, settled>>
     \/ /\ \E song \in Songs, on \in BOOLEAN :
             starred' = Starring(song, on) /\ settled' = settled \ {song}
        /\ UNCHANGED <<playlists, touched>>
  /\ NoCall /\ UNCHANGED screenVars

OverlayStep ==
  \/ Help \/ prompt_new_playlist \/ prompt_rename_playlist \/ prompt_save_queue_as_playlist
  \/ PromptEdit \/ PromptCancel \/ submit_prompt
  \/ SearchEdit \/ FilterEdit \/ Slash

BrowseStep ==
  \/ SwitchTab \/ MoveSelection \/ Back \/ expand_home_section \/ toggle_album_sort
  \/ show_info \/ activate_selection \/ StopFiltering \/ Start

SongStep ==
  \/ ToggleMark \/ append_selection \/ play_next_selection \/ open_playlist_picker
  \/ add_song_to_playlist \/ Picked
  \/ DeleteSongs \/ remove_song_from_playlist \/ refresh_playlist_songs \/ DeletePlaylist
  \/ toggle_star \/ bulk_toggle_star \/ set_starred \/ BulkStarred

QueueStep == DeleteQueueRow \/ clear_queue \/ move_queue_item

TuiStep == OverlayStep \/ BrowseStep \/ SongStep \/ QueueStep

Turn == Running /\ busy = Idle /\ Tick

Init ==
  /\ active_tab = "Home" /\ filter_editing = FALSE /\ show_help = FALSE
  /\ prompt = NoPrompt /\ busy = Idle /\ sent = Silent
  /\ playlists \in FirstPlaylists /\ starred = {} /\ touched = {} /\ settled = {}
  /\ \E root \in Roots("Home") : stack = <<root>>
  /\ BackgroundInit

Next ==
  \/ (TuiStep \/ OtherDevice) /\ UNCHANGED backgroundVars
  \/ CheckKey \/ UpdateKey \/ BackKey \/ Quit
  \/ (Turn \/ Task) /\ NoScreenChanges

Spec == Init /\ [][Next]_vars

-----------------------------------------------------------------------------
(* Properties *)

Kinds == Filterable \cup {"Search", "Home", "PlaylistPicker", "Info", "Settings"}

TypeOK ==
  /\ active_tab \in ToSet(TABS)
  /\ Len(stack) <= MaxDepth
  /\ \A n \in DOMAIN stack : stack[n].kind \in Kinds /\ stack[n].selected \in Nat
  /\ {filter_editing, show_help} \subseteq BOOLEAN
  /\ busy.op \in {"none", "add", "remove"} \cup StarOps
  /\ DOMAIN playlists \subseteq PlaylistIds /\ touched \subseteq PlaylistIds
  /\ starred \subseteq Songs /\ settled \subseteq Songs
  /\ BackgroundTypeOK

OnRow(s, n) == s.selected < n \/ (n = 0 /\ s.selected = 0)

(* The cursor of a screen is on a row of what it shows.  Home opens with it *)
(* on a first section that may be empty; without similar artists an Info    *)
(* screen only has a scroll.                                                *)
CursorShown(s) ==
  CASE s.kind = "Home"     -> s.selected < Len(Focused(s).rows) \/ (s.of = 0 /\ s.selected = 0)
    [] s.kind \in Filterable -> OnRow(s, Len(visible_indices(s)))
    [] s.kind = "Settings" -> TRUE
    [] s.kind = "Info" /\ s.items = <<>> -> TRUE
    [] OTHER               -> OnRow(s, Len(s.items))

(* What the comment on visible_indices says: "`selected` is always a        *)
(* *position within this list*", the list of the visible rows.  (app.rs     *)
(* 1318-1324; it is not after refresh_queue or refresh_playlist_songs.)     *)
SelectedIsPosition ==
  \A n \in DOMAIN stack : stack[n].kind \in Filterable => CursorShown(stack[n])

(* The rows of the screen on top were just fetched again *)
Refetched ==
  \/ Calling("remove") /\ busy' = Idle
  \/ sent'.ok /\ sent'.call \in {"remove_from_queue", "clear_queue", "move_in_queue"}

(* On every screen of the stack, also one a screen was opened over, the     *)
(* cursor is on a row that is shown, whatever was typed, removed, opened    *)
(* or left meanwhile.  The one thing that takes it off is that the rows are *)
(* fetched again under a filter; it is then still on a row of the whole     *)
(* list.  (app.rs 596-622, 1366-1420, 1834-1858, 2130-2148.)                *)
CursorLostOnlyByRefetch ==
  [][\A n \in DOMAIN stack' : ~CursorShown(stack'[n]) =>
       /\ stack'[n].filter # NoFilter /\ stack'[n].selected < Len(stack'[n].items)
       /\ \/ n \in DOMAIN stack /\ ~CursorShown(stack[n])
          \/ n = Len(stack') /\ Refetched]_vars

(* Marks are of rows the list has, on every screen of the stack: none is    *)
(* left behind for a later action.  (app.rs 275-281, 1637-1644.)            *)
MarksAreListed ==
  \A n \in DOMAIN stack : HasSongRows(stack[n]) => stack[n].marked \subseteq ToSet(Ids(stack[n].items))

(* The ids of the songs a screen lists *)
Listed(s) ==
  CASE HasSongRows(s)    -> ToSet(Ids(s.items))
    [] s.kind = "Home"   -> UNION {ToSet(Ids(s.items[n].rows)) : n \in {m \in DOMAIN s.items : s.items[m].songs}}
    [] s.kind = "Queue"  -> ToSet(s.items)
    [] OTHER             -> {}

(* What takes the keys belongs to the screen it was opened on: a prompt for *)
(* a playlist to the list that has it, one for the queue to the queue, a    *)
(* filter to a list, a picker, with its playlists and the songs it is to    *)
(* add, to the list of these songs.  (app.rs 1261-1304, 1664-1708.)         *)
OverlaysFit ==
  /\ filter_editing => Top.kind \in Filterable
  /\ prompt # NoPrompt =>
       /\ Top.kind = IF prompt.action = "SaveQueue" THEN "Queue" ELSE "PlaylistList"
       /\ prompt.action = "Rename" => Contains(Top.items, prompt.target)
  /\ \A n \in DOMAIN stack : stack[n].kind = "PlaylistPicker" =>
       /\ n = Len(stack) /\ n > 1
       /\ stack[n].items # <<>> /\ stack[n].of # <<>>
       /\ ToSet(stack[n].of) \subseteq Listed(stack[n - 1])

(* The songs marked, or under the cursor *)
ChosenSongs(s) ==
  IF s.marked # {} THEN s.marked ELSE {s.items[visible_indices(s)[s.selected + 1] + 1].id}

Copies(songs, song) == Cardinality({k \in DOMAIN songs : songs[k] = song})

(* d takes no song out of a playlist but those the user marked, or the one  *)
(* under the cursor, whichever calls fail, as long as nobody else edits the *)
(* playlist: rows are removed by index.  (app.rs 1728-1746.)                *)
OnlyChosenRemoved ==
  [][Calling("remove") /\ busy' # busy /\ busy.target \notin touched =>
       \A id \in DOMAIN playlists \cap DOMAIN playlists' : \A song \in Songs :
          Copies(playlists'[id], song) < Copies(playlists[id], song) =>
             id = busy.target /\ song \in ChosenSongs(Top)]_vars

(* The daemon is never sent an empty list, nor a song the screen does not   *)
(* list: no mark outlives its row, no cursor its list.  (app.rs 1422-1436,  *)
(* 1907-1973.)                                                              *)
PlaysWhatIsListed ==
  [][sent'.call \in {"play_queue", "append_queue", "play_next"} =>
       sent'.arg # <<>> /\ ToSet(sent'.arg) \subseteq Listed(Top)]_vars

(* f on several songs sets them all to one state: when the last call is     *)
(* answered every row of a marked song shows it, and of a song whose call   *)
(* was taken the server has it so, unless another device has changed it     *)
(* since.  (app.rs 2022-2047.)                                              *)
MarkedStarsAgree ==
  [][busy.op \in StarOps /\ busy' = Idle =>
       \A id \in Top.marked :
         /\ \A row \in ToSet(Top'.items) : row.id = id => row.starred = (busy.op = "star")
         /\ id \in settled => (id \in starred) = (busy.op = "star")]_vars

(* What the comment on toggle_star says: f toggles "the selected song,      *)
(* optimistically updating the local copy so the star glyph flips           *)
(* immediately".  (app.rs 1975-1977; the copy is found by its id.)          *)
SelectedStarFlips ==
  [][sent'.call = "set_starred" /\ sent'.ok /\ busy = Idle =>
       \A row \in StarTarget(Top') : row.starred = sent'.arg.on]_vars
=============================================================================
