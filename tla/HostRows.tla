------------------------------ MODULE HostRows ------------------------------
(***************************************************************************)
(* The rows of the host browser: folding, searching, moving, scrolling and *)
(* what a reload of the inventory leaves of all that                       *)
(* (tui/features/host_browser/search.rs, input.rs, mouse.rs).              *)
(*                                                                         *)
(* A tree is the sequence of its lines as they are shown when nothing is   *)
(* folded: a folder, its entries, the folders in it. Folders carry the     *)
(* number that finalize_folder gave them, entries their index. How well an *)
(* entry matches a query only matters in being found or not.               *)
(***************************************************************************)
EXTENDS Integers, Sequences, FiniteSets, SequencesExt, Lists

CONSTANTS
    Trees,          \* the trees a reload may bring
    Queries,        \* what can be searched for
    Strict, Fuzzy,  \* for each query, the names that contain it, and those that have its letters
    Heights         \* the heights the list may be drawn with

ASSUME HeightsAssumption == Heights \subseteq Nat \ {0}

\* A tree is a list, and finalize_folder numbers its folders one after the other.
ASSUME TreesAssumption ==
    \A t \in Trees :
        /\ t \in Seq(Range(t))
        /\ \A a, b \in {ln \in Range(t) : ln.folder} : a.id = b.id => a = b

VARIABLES
    rowTree,   \* hosts and host_tree_root
    folded,    \* collapsed_folders
    query,     \* search_query
    rows,      \* visible_host_rows
    chosen,    \* selected_host_row, counted from 1
    top,       \* host_scroll_offset: the rows above the list
    height,    \* host_list_area.height, as the last frame was drawn
    drawn      \* the frame shows this state

rowsVars == <<rowTree, folded, query, rows, chosen, top, height, drawn>>

-----------------------------------------------------------------------------
PathTo(ln) == Append(ln.at, ln.name)
FolderLines(t) == {ln \in Range(t) : ln.folder}

\* HostRowKey: what a row is known by from one tree to the next.
KeyOf(ln) ==
    IF ln.folder THEN [file |-> ln.file, names |-> PathTo(ln)]
    ELSE [file |-> "", names |-> <<ln.name>>]

\* compute_match_scores: fuzzy matches count when there is no strict one.
Found(t, q) ==
    LET named(names) == {ln \in Range(t) : ~ln.folder /\ ~ln.hidden /\ ln.name \in names}
    IN  IF named(Strict[q]) # {} THEN named(Strict[q]) ELSE named(Fuzzy[q])

\* rebuild_visible_host_rows
Unfolded(t, closed) ==
    Filtered(t, {ln \in Range(t) :
        /\ ~ln.hidden
        /\ \A f \in FolderLines(t) : IsPrefix(PathTo(f), ln.at) => f.id \notin closed})

Matching(t, q) ==
    Filtered(t, {ln \in Range(t) :
        \/ ln \in Found(t, q)
        \/ ln.folder /\ \E found \in Found(t, q) : IsPrefix(PathTo(ln), found.at)})

Shown(t, closed, q) == IF q = "" THEN Unfolded(t, closed) ELSE Matching(t, q)

\* folder_key_by_id and folder_id_from_key
KeysOf(t, ids) == {KeyOf(ln) : ln \in {f \in FolderLines(t) : f.id \in ids}}
IdsOf(t, keys) == {ln.id : ln \in {f \in FolderLines(t) : KeyOf(f) \in keys}}

\* selected_row_key
SelectedKey == IF chosen \in DOMAIN rows THEN {KeyOf(rows[chosen])} ELSE {}

\* repair_selection_after_rebuild: the row that is preferred, or the first.
Repaired(rs, preferred) ==
    LET same == {k \in DOMAIN rs : KeyOf(rs[k]) \in preferred}
    IN  IF same = {} THEN 1 ELSE CHOOSE k \in same : \A j \in same : k <= j

\* update_filtered_hosts_with_preferred, all but the scrolling
Refilter(preferred) ==
    /\ rows' = Shown(rowTree', folded', query')
    /\ chosen' = Repaired(rows', preferred)

-----------------------------------------------------------------------------
(* A frame: update_host_scroll keeps the selected row in the list *)

DrawRows(h) ==
    /\ drawn' = TRUE /\ height' = h
    /\ top' = IF rows = <<>> THEN top
              ELSE IF chosen <= top THEN chosen - 1
              ELSE IF chosen > top + h THEN chosen - h ELSE top
    /\ UNCHANGED <<rowTree, folded, query, rows, chosen>>

\* Every key and every click is handled on a frame that shows the state: the loop draws between
\* two events.
Handled == drawn /\ drawn' = FALSE /\ UNCHANGED <<rowTree, height>>

Select(k) == chosen' = k /\ UNCHANGED <<folded, query, rows, top>>

RowUp == Handled /\ chosen > 1 /\ Select(chosen - 1)
RowDown == Handled /\ chosen < Len(rows) /\ Select(chosen + 1)

Page == IF height > 10 THEN height ELSE 10
PageUp == Handled /\ rows # <<>> /\ Select(IF chosen > Page THEN chosen - Page ELSE 1)
PageDown ==
    Handled /\ rows # <<>> /\ Select(IF chosen + Page < Len(rows) THEN chosen + Page ELSE Len(rows))
ToFirst == Handled /\ rows # <<>> /\ Select(1)
ToLast == Handled /\ rows # <<>> /\ Select(Len(rows))

-----------------------------------------------------------------------------
(* Folding *)

\* set_folder_expanded: nothing while a search is on.
SetFolded(ln, fold) ==
    /\ query = "" /\ UNCHANGED query
    /\ folded' = IF fold THEN folded \cup {ln.id} ELSE folded \ {ln.id}
    /\ Refilter({KeyOf(ln)})
    /\ top' = IF rows' = <<>> THEN 0 ELSE top

OnFolder(k) == k \in DOMAIN rows /\ rows[k].folder

FoldRow == Handled /\ OnFolder(chosen) /\ SetFolded(rows[chosen], TRUE)
UnfoldRow == Handled /\ OnFolder(chosen) /\ SetFolded(rows[chosen], FALSE)
ToggleRow == Handled /\ OnFolder(chosen) /\ SetFolded(rows[chosen], rows[chosen].id \notin folded)

\* The key c: everything is folded, or unfolded if nothing open is in sight.
FoldAll ==
    /\ Handled /\ query = "" /\ UNCHANGED query
    /\ folded' = IF \E k \in DOMAIN rows : rows[k].folder /\ rows[k].id \notin folded
                 THEN {ln.id : ln \in FolderLines(rowTree)} ELSE {}
    /\ Refilter(SelectedKey) /\ top' = 0

\* A click selects the row under the pointer, and folds or unfolds a folder.
ClickRow(r) ==
    LET k == top + r
    IN  /\ Handled /\ r <= height /\ k \in DOMAIN rows
        /\ IF rows[k].folder /\ query = "" THEN SetFolded(rows[k], rows[k].id \notin folded)
           ELSE Select(k)

\* set_host_scroll_from_scrollbar_row: the selected row keeps its place in the list.
DragBar(r) ==
    LET most == Len(rows) - height
        rounded == (r * most + (height - 1) \div 2) \div (height - 1)
        to == IF height = 1 THEN 0 ELSE IF rounded > most THEN most ELSE rounded
        place == IF chosen - 1 - top > height - 1 THEN height - 1 ELSE chosen - 1 - top
        row == to + place + 1
    IN  /\ Handled /\ r < height /\ most > 0
        /\ top' = to
        /\ chosen' = IF row > Len(rows) THEN Len(rows) ELSE row
        /\ UNCHANGED <<folded, query, rows>>

-----------------------------------------------------------------------------
(* Searching, and a reload *)

\* The query is typed, shortened or cleared.
Search(q) ==
    /\ Handled /\ q # query /\ query' = q
    /\ UNCHANGED folded
    /\ Refilter(SelectedKey) /\ top' = 0

\* reload_inventory_tree_from_path, when the tree can be loaded
ReloadRows_ById(t) ==
    /\ rowTree' = t /\ drawn' = FALSE
    /\ folded' = folded
    /\ UNCHANGED <<query, height>>
    /\ Refilter(SelectedKey)
    /\ top' = IF rows' = <<>> THEN 0 ELSE IF top > Len(rows') - 1 THEN Len(rows') - 1 ELSE top

ReloadRows(t) ==
    /\ rowTree' = t /\ drawn' = FALSE
    /\ folded' = IdsOf(t, KeysOf(rowTree, folded))
    /\ UNCHANGED <<query, height>>
    /\ Refilter(SelectedKey)
    /\ top' = IF rows' = <<>> THEN 0 ELSE IF top > Len(rows') - 1 THEN Len(rows') - 1 ELSE top

-----------------------------------------------------------------------------
\* load_app_state_init, with host_tree_uncollapsed on or off
RowsInit ==
    /\ rowTree \in Trees
    /\ folded \in {{}, {ln.id : ln \in FolderLines(rowTree)}}
    /\ query = "" /\ rows = Shown(rowTree, folded, query)
    /\ chosen = 1 /\ top = 0 /\ height = 0 /\ drawn = FALSE

RowsNext ==
    \/ \E h \in Heights : DrawRows(h)
    \/ RowUp \/ RowDown \/ PageUp \/ PageDown \/ ToFirst \/ ToLast
    \/ FoldRow \/ UnfoldRow \/ ToggleRow \/ FoldAll
    \/ \E h \in Heights : \E r \in 1..h : ClickRow(r) \/ DragBar(r - 1)
    \/ \E q \in Queries \cup {""} : Search(q)
    \/ \E t \in Trees : ReloadRows(t)

RowsSpec == RowsInit /\ [][RowsNext]_rowsVars

-----------------------------------------------------------------------------
(* Properties *)

\* What is folded, of the folders of both trees.
FoldedOf(t, closed, other) == KeysOf(t, closed) \cap KeysOf(other, {ln.id : ln \in FolderLines(other)})

\* A reload that renumbers the folders, by another program or by the user's own edit, folds and
\* unfolds no folder that is still there, and the selected row stays selected while it is shown
\* (host_browser/search.rs, restore_collapsed_folders and repair_selection_after_rebuild).
ReloadKeepsPlace ==
    [][rowTree' # rowTree =>
        /\ FoldedOf(rowTree', folded', rowTree) = FoldedOf(rowTree, folded, rowTree')
        /\ \A key \in SelectedKey :
              (\E k \in DOMAIN rows' : KeyOf(rows'[k]) = key) => KeyOf(rows'[chosen']) = key
      ]_rowsVars

\* The selected row is in the list that is drawn, and the rows are those of the tree.
SelectedRowDrawn ==
    /\ rows = Shown(rowTree, folded, query)
    /\ (drawn /\ rows # <<>>) => chosen \in (top + 1)..(top + height)
=============================================================================
