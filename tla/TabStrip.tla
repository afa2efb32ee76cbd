------------------------------ MODULE TabStrip ------------------------------
(***************************************************************************)
(* The tab bar of the session manager: which part of a strip of tabs wider *)
(* than the bar is shown, what a click on a column hits, and how every     *)
(* change of the tabs or of the selection scrolls the strip                *)
(* (tui/features/terminal_tabs/scroll.rs, input.rs, mouse.rs).             *)
(*                                                                         *)
(* A tab is its display width: its title, a blank, the close mark and a    *)
(* blank. Tabs are numbered from 1, columns and offsets from 0.            *)
(***************************************************************************)
EXTENDS Integers, Sequences, SequencesExt

CONSTANTS
    TabWidths,  \* widths a tab may have
    BarWidths,  \* widths the terminal may leave for the bar
    MaxStrip    \* bound: tabs open at once

ASSUME TabWidthsAssumption == TabWidths \subseteq Nat \ 0..2
ASSUME BarWidthsAssumption == BarWidths \subseteq Nat
ASSUME MaxStripAssumption == MaxStrip \in Nat

VARIABLES
    strip,      \* the widths of the tabs, from left to right
    current,    \* selected_tab
    offset,     \* tab_scroll_offset
    barWidth,   \* tab_bar_area.width, as the last frame was drawn
    grabbed,    \* dragging_tab, 0 for none
    editing,    \* for each tab, whether it edits an entry: its title follows the Name field
    drift       \* what has changed since ensure_tab_visible last scrolled the strip

stripVars == <<strip, current, offset, barWidth, grabbed, editing, drift>>

\* A tab selected by push_host_tab, a title typed, a marker clicked, a bar resized.
Changes == {"push", "title", "scroll", "width"}

-----------------------------------------------------------------------------
(* Geometry: ws is a strip, w the width of the bar.                        *)

Least(S) == CHOOSE x \in S : \A y \in S : x <= y
Greatest(S) == CHOOSE x \in S : \A y \in S : x >= y

\* tab_start_offset for every tab, and total_tab_width behind the last.
StartsOf(ws) ==
    LET start[k \in 1..(Len(ws) + 1)] == IF k = 1 THEN 0 ELSE start[k - 1] + ws[k - 1]
    IN  start

\* final_right_tab_scroll_offset: the first tab from which the rest fits beside the left marker.
FinalRight(ws, starts, w) ==
    LET total == starts[Len(ws) + 1]
        fitting == {s \in {starts[i] : i \in DOMAIN ws} : s >= total - (w - 1)}
    IN  IF total <= w THEN 0 ELSE Least(fitting \cup {starts[Len(ws)]})

\* tab_bar_viewport_metrics of a strip that is not empty: the offset a raw one snaps to, the
\* offsets of the tabs hidden on either side, the markers that tell of them, and the columns
\* left for tabs.
Metrics(ws, raw, w) ==
    LET starts == StartsOf(ws)
        final == FinalRight(ws, starts, w)
        offsets == {starts[i] : i \in DOMAIN ws}
        o == Greatest({s \in offsets : s <= raw /\ s <= final})
        earlier == {s \in offsets : s < o}
        later == {s \in offsets : s > o /\ s <= final}
        left == IF earlier = {} THEN 0 ELSE 1
        right == IF later = {} THEN 0 ELSE 1
    IN  [offset |-> o, earlier |-> earlier, later |-> later, left |-> left, right |-> right,
         room |-> IF w <= left + right THEN 0 ELSE w - left - right]

\* normalize_tab_scroll_offset
Normalize(ws, raw, w) == IF ws = <<>> \/ w = 0 THEN 0 ELSE Metrics(ws, raw, w).offset

\* Where ensure_tab_visible's loop stops stepping to the right.
Settled_IgnoresMarkers(m, start, tabWidth) ==
    \/ start + tabWidth <= m.offset + m.room + m.left + m.right
    \/ m.later = {}

Settled(m, start, tabWidth) ==
    \/ m.room = 0
    \/ tabWidth >= m.room
    \/ start + tabWidth <= m.offset + m.room
    \/ m.later = {}

\* ensure_tab_visible: to the tab at once when it is hidden on the left, else one tab at a
\* time to the right.
Following(ws, sel, from, w) ==
    IF ws = <<>> THEN 0
    ELSE IF w = 0 THEN from
    ELSE LET m == Metrics(ws, from, w)
             start == StartsOf(ws)[sel]
             stops == {s \in {m.offset} \cup m.later : Settled(Metrics(ws, s, w), start, ws[sel])}
         IN  IF start < m.offset THEN start ELSE Least(stops)

\* tab_bar_hit_test: what a click on a column of the bar hits.
HitTest(ws, raw, w, column) ==
    LET m == Metrics(ws, raw, w)
        starts == StartsOf(ws)
        local == column - m.left
        Under(i) == starts[i] - m.offset <= local /\ local < starts[i + 1] - m.offset
        OnClose(i) == local = starts[i + 1] - m.offset - 2
    IN  CASE m.left = 1 /\ column = 0 -> [on |-> "earlier", tab |-> 0]
          [] m.right = 1 /\ column = w - 1 /\ column >= m.left -> [on |-> "later", tab |-> 0]
          [] OTHER ->
                IF local < m.room /\ \E i \in DOMAIN ws : Under(i)
                THEN LET i == CHOOSE j \in DOMAIN ws : Under(j)
                     IN  [on |-> IF OnClose(i) THEN "close" ELSE "title", tab |-> i]
                ELSE [on |-> "nothing", tab |-> 0]

-----------------------------------------------------------------------------
(* The tabs change *)

Ensure(ws, sel, from) ==
    /\ offset' = Following(ws, sel, from, barWidth)
    /\ drift' = IF barWidth > 0 THEN {} ELSE drift

\* move_tab keeps the selected tab selected.
Moved(from, to) ==
    /\ strip' = InsertAt(RemoveAt(strip, from), to, strip[from])
    /\ editing' = InsertAt(RemoveAt(editing, from), to, editing[from])
    /\ current' = CASE current = from -> to
                    [] from < current /\ to >= current -> current - 1
                    [] from > current /\ to <= current -> current + 1
                    [] OTHER -> current
    /\ Ensure(strip', current', offset)

\* push_host_tab selects the new tab and leaves the strip where it is.
PushTab(w) ==
    /\ Len(strip) < MaxStrip
    /\ strip' = Append(strip, w) /\ editing' = Append(editing, FALSE)
    /\ current' = Len(strip) + 1
    /\ drift' = drift \cup {"push"}
    /\ UNCHANGED <<offset, barWidth, grabbed>>

\* open_or_focus_editor_tab, with a new editor, of an entry or for a new one, or one that is open.
OpenEditorTab(w, edit) ==
    /\ Len(strip) < MaxStrip
    /\ strip' = Append(strip, w) /\ editing' = Append(editing, edit)
    /\ current' = Len(strip) + 1
    /\ Ensure(strip', current', offset)
    /\ UNCHANGED <<barWidth, grabbed>>

\* HostTab::title: typing or pasting in the Name field of the selected tab's entry changes its
\* width; nothing follows.
RetitleTab(w) ==
    /\ strip # <<>> /\ editing[current]
    /\ strip[current] # w
    /\ strip' = [strip EXCEPT ![current] = w]
    /\ drift' = drift \cup {"title"}
    /\ UNCHANGED <<current, offset, barWidth, grabbed, editing>>

FocusTab(i) ==
    /\ current' = i
    /\ Ensure(strip, i, offset)
    /\ UNCHANGED <<strip, barWidth, grabbed, editing>>

\* Alt and an arrow, or the wheel over the bar.
StepLeft == current > 1 /\ FocusTab(current - 1)
StepRight == current < Len(strip) /\ FocusTab(current + 1)

\* Control and an arrow.
MoveLeft == current > 1 /\ Moved(current, current - 1) /\ UNCHANGED <<barWidth, grabbed>>
MoveRight ==
    current < Len(strip) /\ Moved(current, current + 1) /\ UNCHANGED <<barWidth, grabbed>>

\* close_current_tab; emptied is the offset that is left when the last tab is closed.
CloseStripTab(i, emptied) ==
    LET left == RemoveAt(strip, i)
        sel == IF i > Len(left) /\ i > 1 THEN i - 1 ELSE i
    IN  /\ strip' = left /\ editing' = RemoveAt(editing, i)
        /\ current' = IF left = <<>> THEN 1 ELSE sel
        /\ grabbed' = 0
        /\ IF left = <<>> THEN offset' = emptied /\ UNCHANGED drift ELSE Ensure(left, sel, offset)
        /\ UNCHANGED barWidth

CloseCurrent == strip # <<>> /\ CloseStripTab(current, offset)

-----------------------------------------------------------------------------
(* The mouse over the bar *)

\* What the columns of the bar hold.
Hits == IF strip = <<>> THEN {}
        ELSE {HitTest(strip, offset, barWidth, c) : c \in 0..(barWidth - 1)}

\* A click on a marker scrolls by a tab and follows nothing.
ScrollTo(marker) ==
    /\ LET m == Metrics(strip, offset, barWidth)
       IN  offset' = IF marker = "earlier" THEN Greatest(m.earlier) ELSE Least(m.later)
    /\ drift' = drift \cup {"scroll"}
    /\ UNCHANGED <<strip, current, barWidth, editing>>

ClickMarker(hit) ==
    /\ hit.on \in {"earlier", "later"}
    /\ ScrollTo(hit.on)
    /\ grabbed' = 0

\* The close mark selects its tab and closes it.
ClickMark(hit) ==
    /\ hit.on = "close"
    /\ CloseStripTab(hit.tab, 0)

ClickTitle(hit) ==
    /\ hit.on = "title"
    /\ current' = hit.tab
    /\ grabbed' = hit.tab
    /\ Ensure(strip, hit.tab, offset)
    /\ UNCHANGED <<strip, barWidth, editing>>

\* Beside the tabs: the drag ends and the strip follows the selection.
ClickBlank(hit) ==
    /\ hit.on = "nothing"
    /\ grabbed' = 0
    /\ Ensure(strip, current, offset)
    /\ UNCHANGED <<strip, current, barWidth, editing>>

\* Dragging a title over another tab moves it there; over a marker it scrolls.
DragOver(hit) ==
    /\ grabbed # 0
    /\ \/ /\ hit.on \in {"title", "close"}
          /\ hit.tab # grabbed /\ grabbed <= Len(strip)
          /\ Moved(grabbed, hit.tab)
          /\ grabbed' = hit.tab
          /\ UNCHANGED barWidth
       \/ /\ hit.on \in {"earlier", "later"}
          /\ ScrollTo(hit.on)
          /\ UNCHANGED grabbed

Release ==
    /\ grabbed # 0 /\ strip # <<>>
    /\ grabbed' = 0
    /\ Ensure(strip, current, offset)
    /\ UNCHANGED <<strip, current, barWidth, editing>>

\* A frame: the bar takes the width the layout leaves for it, and the offset is snapped.
DrawBar(w) ==
    /\ barWidth' = w
    /\ offset' = Normalize(strip, offset, w)
    /\ drift' = IF w = barWidth THEN drift ELSE drift \cup {"width"}
    /\ UNCHANGED <<strip, current, grabbed, editing>>

-----------------------------------------------------------------------------

StripInit ==
    /\ strip = <<>> /\ current = 1 /\ offset = 0
    /\ barWidth = 0 /\ grabbed = 0 /\ editing = <<>> /\ drift = {"width"}

StripNext ==
    \/ \E w \in TabWidths : \/ PushTab(w) \/ RetitleTab(w)
                            \/ \E edit \in BOOLEAN : OpenEditorTab(w, edit)
    \/ \E i \in DOMAIN strip : FocusTab(i)
    \/ StepLeft \/ StepRight \/ MoveLeft \/ MoveRight \/ CloseCurrent
    \/ \E hit \in Hits : ClickMarker(hit) \/ ClickMark(hit) \/ ClickTitle(hit) \/ ClickBlank(hit)
                        \/ DragOver(hit)
    \/ Release
    \/ \E w \in BarWidths : DrawBar(w)

StripSpec == StripInit /\ [][StripNext]_stripVars

StripTypeOK ==
    /\ strip \in Seq(TabWidths) /\ Len(strip) <= MaxStrip
    /\ current \in Nat \ {0} /\ (strip # <<>> => current <= Len(strip))
    /\ offset \in Nat /\ barWidth \in BarWidths \cup {0}
    /\ grabbed \in 0..MaxStrip /\ drift \subseteq Changes
    /\ editing \in Seq(BOOLEAN) /\ Len(editing) = Len(strip)

\* The selected tab lies whole between the markers, or is as wide as the bar between them.
CurrentShown ==
    (strip # <<>> /\ strip[current] < barWidth - 2) =>
        /\ offset <= StartsOf(strip)[current]
        /\ StartsOf(strip)[current + 1] <= offset + Metrics(strip, offset, barWidth).room

\* The strip that has followed the selection shows the selected tab, however tabs were opened,
\* closed, moved, dragged and chosen (ensure_tab_visible and its callers). Until it follows
\* again it may not: after a tab that push_host_tab has opened and selected (launch.rs:353, against
\* terminal_tabs/input.rs:436, "Keep selected tab visible after focus/selection moves"), a title
\* typed in an editor, a marker clicked, and a bar of another width.
SelectedTabShown == drift = {} => CurrentShown
=============================================================================
