------------------------------- MODULE Screens -------------------------------
(***************************************************************************)
(* The screens of the TUI (tui/src/app.rs) and the pure operations on one  *)
(* screen: the filtered view, the cursor, the marks and what they select.  *)
(*                                                                         *)
(* A screen is a record.  Its items are                                    *)
(*   rows [id, starred]   of a SongList or a Search,                       *)
(*   sections [songs, rows] of Home, whose `of` is the focused section,    *)
(*   names                of every other screen (albums, artists, genres,  *)
(*                        playlists, queued songs, similar artists).       *)
(* `selected` is 0-based, and for an Info screen without similar artists   *)
(* it is the scroll.  `of` tells a SongList's playlist, an AlbumList's     *)
(* sort, whether a Search is being edited, the songs a PlaylistPicker is   *)
(* to add.  A Search keeps its query in `filter`: it has no other filter.  *)
(***************************************************************************)
EXTENDS Integers, FiniteSets, SequencesExt, Filtering

CONSTANTS
  Songs,          (* the songs of the library                                 *)
  Matching,       (* the names a filter text is a part of, per text           *)
  MaxScroll       (* bound: lines an Info screen is scrolled                  *)

None == "none"

NoFilter == "no filter"

Screen(kind, items, of) ==
  [kind |-> kind, items |-> items, of |-> of,
   selected |-> 0, filter |-> NoFilter, marked |-> {}]

Filterable == {"AlbumList", "SongList", "ArtistList", "PlaylistList", "GenreList", "Queue"}

Editing(s) == s.kind = "Search" /\ s.of = "editing"

(* Screens whose rows v can mark: a Search only once its query is in *)
Markable(s) == s.kind \in {"SongList", "Search"} /\ ~Editing(s)

HasSongRows(s) == s.kind \in {"SongList", "Search"}

Name(s, item) == IF HasSongRows(s) THEN item.id ELSE item

Matches(s, item) == s.filter = NoFilter \/ Name(s, item) \in Matching[s.filter]

(* The 0-based indices of the items on show, in order *)
Shown(s) ==
  {i \in 0..(Len(s.items) - 1) : \/ s.kind = "Search"
                                 \/ s.kind \in Filterable /\ Matches(s, s.items[i + 1])}

visible_indices(s) == Filtered([k \in 1..Len(s.items) |-> k - 1], Shown(s))

(* The raw index under the cursor, if the cursor is on a visible row *)
RealIndex(s) ==
  LET visible == visible_indices(s)
  IN  IF s.selected < Len(visible) THEN {visible[s.selected + 1]} ELSE {}

-----------------------------------------------------------------------------
(* The Home dashboard *)

Section(songs, rows) == [songs |-> songs, rows |-> rows]

(* Every row of every section, in order, as a section and a row in it *)
RowsOf(sections, n) == [k \in DOMAIN sections[n].rows |-> <<n - 1, k - 1>>]

FlatRows(sections) ==
  RowsOf(sections, 1) \o RowsOf(sections, 2) \o RowsOf(sections, 3) \o RowsOf(sections, 4)

home_move_selection(s, delta) ==
  LET flat == FlatRows(s.items)
      here == {k \in DOMAIN flat : flat[k] = <<s.of, s.selected>>}
      current == IF here = {} THEN 0 ELSE (CHOOSE k \in here : TRUE) - 1
      next == flat[((current + delta) % Len(flat)) + 1]
  IN  IF flat = <<>> THEN s ELSE [s EXCEPT !.of = next[1], !.selected = next[2]]

(* The section in focus, and the song under Home's cursor, if there is one *)
Focused(s) == s.items[s.of + 1]

HomeSong(s) ==
  IF Focused(s).songs /\ s.selected < Len(Focused(s).rows)
  THEN {Focused(s).rows[s.selected + 1]} ELSE {}

-----------------------------------------------------------------------------
(* The cursor *)

Wrap(s, delta, n) == [s EXCEPT !.selected = (@ + delta) % n]

move_in_list(s, delta) ==
  IF visible_indices(s) = <<>> THEN s ELSE Wrap(s, delta, Len(visible_indices(s)))

move_selection(s, delta) ==
  CASE s.kind = "Search"         -> IF Editing(s) \/ s.items = <<>> THEN s
                                    ELSE Wrap(s, delta, Len(s.items))
    [] s.kind = "Home"           -> home_move_selection(s, delta)
    [] s.kind = "PlaylistPicker" -> IF s.items = <<>> THEN s
                                    ELSE Wrap(s, delta, Len(s.items))
    [] s.kind = "Info"           -> IF s.items # <<>> THEN Wrap(s, delta, Len(s.items))
                                    ELSE [s EXCEPT !.selected =
                                            IF @ + delta \in 0..MaxScroll THEN @ + delta ELSE @]
    [] s.kind = "Settings"       -> s
    [] OTHER                     -> move_in_list(s, delta)

(* Slip: the place in the old list is kept *)
Refreshed_unclamped(s, items) == [s EXCEPT !.items = items]

(* refresh_queue and refresh_playlist_songs: the cursor keeps its place if  *)
(* the new list is long enough                                              *)
Refreshed(s, items) ==
  [s EXCEPT !.items = items,
            !.selected = IF @ < Len(items) THEN @ ELSE IF items = <<>> THEN 0 ELSE Len(items) - 1]

(* apply_filter_key: each edit of the text brings the cursor to the top *)
WithFilter(s, filter) == [s EXCEPT !.filter = filter, !.selected = 0]

-----------------------------------------------------------------------------
(* Marks and selections *)

HasMarks(s) == HasSongRows(s) /\ s.marked # {}

marked_songs(s) == Filtered(s.items, {row \in ToSet(s.items) : row.id \in s.marked})

clear_marks(s) == IF HasSongRows(s) THEN [s EXCEPT !.marked = {}] ELSE s

toggle_mark(s) ==
  IF Markable(s) /\ RealIndex(s) # {}
  THEN LET id == s.items[(CHOOSE i \in RealIndex(s) : TRUE) + 1].id
       IN  [s EXCEPT !.marked = IF id \in @ THEN @ \ {id} ELSE @ \cup {id}]
  ELSE s

(* The song whose row the cursor is on, as a set of at most one id *)
selected_song_id(s) ==
  CASE s.kind = "Home"  -> {row.id : row \in HomeSong(s)}
    [] Markable(s)      -> {s.items[i + 1].id : i \in RealIndex(s)}
    [] s.kind = "Queue" -> {s.items[i + 1] : i \in RealIndex(s)}
    [] OTHER            -> {}

Ids(rows) == [k \in DOMAIN rows |-> rows[k].id]

(* Slip: the row itself is left out *)
From_after(rows, i) == SubSeq(rows, i + 2, Len(rows))

From(rows, i) == SubSeq(rows, i + 1, Len(rows))

(* This row and the rest of its list: what Enter plays and a appends *)
FromSelection(s) ==
  CASE s.kind = "Home" -> IF Focused(s).songs /\ Focused(s).rows # <<>>
                          THEN {From(Focused(s).rows, s.selected)} ELSE {}
    [] Markable(s)     -> {From(s.items, i) : i \in RealIndex(s)}
    [] OTHER           -> {}

-----------------------------------------------------------------------------
(* Stars *)

(* iter_mut().find(|s| s.id == id): the first row of that song *)
FlipFirst(rows, id, starred) ==
  LET first == SelectInSeq(rows, LAMBDA row : row.id = id)
  IN  [k \in DOMAIN rows |-> IF k = first THEN [rows[k] EXCEPT !.starred = starred] ELSE rows[k]]

(* On Home the first row of the first song section that has it *)
FlipOnHome(sections, id, starred) ==
  LET Has(n)  == sections[n].songs /\ \E k \in DOMAIN sections[n].rows : sections[n].rows[k].id = id
      first   == CHOOSE n \in DOMAIN sections : Has(n) /\ \A m \in 1..(n - 1) : ~Has(m)
  IN  IF \E n \in DOMAIN sections : Has(n)
      THEN [sections EXCEPT ![first].rows = FlipFirst(@, id, starred)]
      ELSE sections

FlipAll(rows, ids, starred) ==
  [k \in DOMAIN rows |-> IF rows[k].id \in ids THEN [rows[k] EXCEPT !.starred = starred] ELSE rows[k]]
=============================================================================
