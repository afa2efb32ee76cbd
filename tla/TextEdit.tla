------------------------------ MODULE TextEdit ------------------------------
(***************************************************************************)
(* A line of text with a cursor and a selection, as every form of the      *)
(* session manager edits one (tui/text_edit.rs, and the copies of its mouse *)
(* handling in the states of the forms), and the buffer of a password,     *)
(* which has a cursor only (auth/secret.rs).                               *)
(*                                                                         *)
(* Positions count characters, from 0. A selection is a pair of positions  *)
(* in the order they were chosen, or none.                                 *)
(***************************************************************************)
EXTENDS Integers, Sequences

CONSTANTS
    Chars,    \* the characters that are typed
    MaxText   \* bound: the length of a text

ASSUME MaxTextAssumption == MaxText \in Nat

VARIABLES
    line,     \* the text, its cursor, its selection
    anchor,   \* drag_anchor: where the mouse button went down, if it is held
    secret    \* whether it is the buffer of a password

textVars == <<line, anchor, secret>>

Line == [text : Seq(Chars), cursor : Nat, sel : SUBSET (Nat \X Nat)]
Keys == {"left", "right", "home", "end", "all", "back", "delete"}

-----------------------------------------------------------------------------
(* text_edit.rs *)

Upto(f, n) == SubSeq(f.text, 1, n)
From(f, n) == SubSeq(f.text, n + 1, Len(f.text))
Lower(a, b) == IF a < b THEN a ELSE b

\* normalized_selection
Normalized(f) ==
    LET len == Len(f.text)
        Ordered(a, b) == IF a < b THEN <<a, b>> ELSE <<b, a>>
    IN  {p \in {Ordered(Lower(s[1], len), Lower(s[2], len)) : s \in f.sel} : p[1] # p[2]}

At(f, n) == [f EXCEPT !.cursor = n, !.sel = {}]

\* delete_selection
DeleteSelection(f) ==
    IF Normalized(f) = {} THEN [f EXCEPT !.sel = {}]
    ELSE LET p == CHOOSE q \in Normalized(f) : TRUE
         IN  [text |-> Upto(f, p[1]) \o From(f, p[2]), cursor |-> p[1], sel |-> {}]

Clamped(f) == Lower(f.cursor, Len(f.text))

MoveCursorLeft_FromCursor(f) == At(f, IF Clamped(f) > 0 THEN Clamped(f) - 1 ELSE 0)
MoveCursorLeft(f) ==
    IF Normalized(f) # {} THEN At(f, (CHOOSE p \in Normalized(f) : TRUE)[1])
    ELSE At(f, IF Clamped(f) > 0 THEN Clamped(f) - 1 ELSE 0)

MoveCursorRight(f) ==
    IF Normalized(f) # {} THEN At(f, (CHOOSE p \in Normalized(f) : TRUE)[2])
    ELSE At(f, Lower(Clamped(f) + 1, Len(f.text)))

SelectAll(f) ==
    IF f.text = <<>> THEN At(f, 0)
    ELSE [f EXCEPT !.cursor = Len(f.text), !.sel = {<<0, Len(f.text)>>}]

InsertChar(f, ch) ==
    LET g == DeleteSelection(f)
        n == Clamped(g)
    IN  [text |-> Upto(g, n) \o <<ch>> \o From(g, n), cursor |-> n + 1, sel |-> {}]

Backspace(f) ==
    IF Normalized(f) # {} THEN DeleteSelection(f)
    ELSE IF Clamped(f) = 0 THEN At(f, 0)
    ELSE [text |-> Upto(f, Clamped(f) - 1) \o From(f, Clamped(f)),
          cursor |-> Clamped(f) - 1, sel |-> {}]

DeleteChar(f) ==
    IF Normalized(f) # {} THEN DeleteSelection(f)
    ELSE IF Clamped(f) = Len(f.text) THEN At(f, Clamped(f))
    ELSE [text |-> Upto(f, Clamped(f)) \o From(f, Clamped(f) + 1),
          cursor |-> Clamped(f), sel |-> {}]

\* SensitiveBuffer and its cursor: Control-a goes to the end.
PasswordKey(f, key) ==
    LET len == Len(f.text)
    IN  CASE key = "left" -> At(f, IF f.cursor > 0 THEN f.cursor - 1 ELSE 0)
          [] key = "right" -> At(f, Lower(f.cursor + 1, len))
          [] key = "home" -> At(f, 0)
          [] key \in {"end", "all"} -> At(f, len)
          [] key = "back" /\ f.cursor > 0 ->
                [f EXCEPT !.text = Upto(f, f.cursor - 1) \o From(f, f.cursor), !.cursor = @ - 1]
          [] key = "delete" /\ f.cursor < len ->
                [f EXCEPT !.text = Upto(f, f.cursor) \o From(f, f.cursor + 1)]
          [] OTHER -> f

\* What a key makes of the line.
Pressed(f, key) ==
    IF secret THEN PasswordKey(f, key)
    ELSE CASE key = "left" -> MoveCursorLeft(f)
           [] key = "right" -> MoveCursorRight(f)
           [] key = "home" -> At(f, 0)
           [] key = "end" -> At(f, Len(f.text))
           [] key = "all" -> SelectAll(f)
           [] key = "back" -> Backspace(f)
           [] key = "delete" -> DeleteChar(f)

-----------------------------------------------------------------------------
(* Handlers *)

\* Every key lets go of the mouse's selection first.
Press(key) ==
    /\ line' = Pressed(line, key)
    /\ anchor' = {}
    /\ UNCHANGED secret

\* A character typed, or one of a paste.
TypeChar(ch) ==
    /\ Len(DeleteSelection(line).text) < MaxText
    /\ line' = InsertChar(line, ch)
    /\ anchor' = {}
    /\ UNCHANGED secret

\* begin_mouse_selection; a click on a password goes to its end.
MouseDown(column) ==
    /\ line' = At(line, IF secret THEN Len(line.text) ELSE Lower(column, Len(line.text)))
    /\ anchor' = IF secret THEN {} ELSE {Lower(column, Len(line.text))}
    /\ UNCHANGED secret

\* extend_mouse_selection
MouseDrag(column) ==
    /\ \E a \in anchor :
          LET c == Lower(column, Len(line.text))
          IN  line' = [line EXCEPT !.cursor = c, !.sel = IF c = a THEN {} ELSE {<<a, c>>}]
    /\ UNCHANGED <<anchor, secret>>

\* finish_mouse_selection
MouseUp ==
    /\ anchor # {}
    /\ anchor' = {}
    /\ UNCHANGED <<line, secret>>

TextInit ==
    /\ line = [text |-> <<>>, cursor |-> 0, sel |-> {}]
    /\ anchor = {} /\ secret \in BOOLEAN

TextNext ==
    \/ \E key \in Keys : Press(key)
    \/ \E ch \in Chars : TypeChar(ch)
    \/ \E column \in 0..(MaxText + 1) : MouseDown(column) \/ MouseDrag(column)
    \/ MouseUp

TextSpec == TextInit /\ [][TextNext]_textVars

TextTypeOK ==
    /\ line \in Line /\ Len(line.text) <= MaxText
    /\ anchor \subseteq 0..MaxText
    /\ secret \in BOOLEAN

-----------------------------------------------------------------------------
(* The reference: the text before, in and behind the selection, which is   *)
(* empty at a mere cursor.                                                 *)

Zipper(f) ==
    LET p == IF Normalized(f) = {} THEN <<f.cursor, f.cursor>>
             ELSE CHOOSE q \in Normalized(f) : TRUE
    IN  [before |-> Upto(f, p[1]), chosen |-> SubSeq(f.text, p[1] + 1, p[2]),
         behind |-> From(f, p[2])]

Split(before, chosen, behind) == [before |-> before, chosen |-> chosen, behind |-> behind]
ButLast(s) == SubSeq(s, 1, Len(s) - 1)

Expected(z, key) ==
    LET all == z.before \o z.chosen \o z.behind
        step == IF z.chosen = <<>> THEN 1 ELSE 0
    IN  CASE key = "home" -> Split(<<>>, <<>>, all)
          [] key = "end" -> Split(all, <<>>, <<>>)
          [] key = "all" -> IF secret THEN Split(all, <<>>, <<>>) ELSE Split(<<>>, all, <<>>)
          [] key = "left" ->
                LET n == Len(z.before) - step
                IN  IF n < 0 THEN z ELSE Split(SubSeq(all, 1, n), <<>>, SubSeq(all, n + 1, Len(all)))
          [] key = "right" ->
                LET n == Lower(Len(z.before \o z.chosen) + step, Len(all))
                IN  Split(SubSeq(all, 1, n), <<>>, SubSeq(all, n + 1, Len(all)))
          [] key \in {"back", "delete"} /\ z.chosen # <<>> -> Split(z.before, <<>>, z.behind)
          [] key = "back" /\ z.chosen = <<>> -> Split(ButLast(z.before), <<>>, z.behind)
          [] key = "delete" /\ z.chosen = <<>> ->
                Split(z.before, <<>>, IF z.behind = <<>> THEN <<>> ELSE Tail(z.behind))

\* Cursor arithmetic and clamping do what the keys promise: every edit takes the text before,
\* in and behind the selection where the reference does, after any keys, pastes and dragging.
EditsLikeReference ==
    /\ \A key \in Keys : Zipper(Pressed(line, key)) = Expected(Zipper(line), key)
    /\ \A ch \in Chars :
          Zipper(InsertChar(line, ch)) =
              Split(Zipper(line).before \o <<ch>>, <<>>, Zipper(line).behind)
=============================================================================
