------------------------- MODULE TextfieldViewsModel -------------------------
(***************************************************************************)
(* views::TextfieldViewsModel: the text of a text field, its selection, an *)
(* input method's composition, and the history of edits that Undo and Redo *)
(* walk along.  An edit keeps no text but the one it took out and the one  *)
(* it put in, and grows when the next edit is merged into it.              *)
(*                                                                         *)
(* The methods call one another, so each is an operator from the model's   *)
(* state to the state it leaves; an action is a method called from outside.*)
(*                                                                         *)
(* A text is a sequence of characters, a position the number of characters *)
(* before it; every position is one that the cursor can have.              *)
(***************************************************************************)
EXTENDS Integers, Sequences, FiniteSets

CONSTANTS MaxLength, MaxEdits, MaxCalls   \* bounds

ASSUME TextfieldAssumption == {MaxLength, MaxEdits, MaxCalls} \subseteq Nat

\* text, selection and composition are RenderText's; edits and current are
\* edit_history_ and current_edit_, 0 for end(); selection.end is the cursor.
VARIABLES
  model,
  thrown,  \* string16 threw out_of_range, which nobody catches: the program ends
  calls    \* how many methods were called

None == [start |-> 0, end |-> 0]   \* no composition

\* An empty field, or one whose text was set and history cleared.
Init ==
  /\ \E length \in 0 .. MaxLength :
       model = [text |-> [i \in 1 .. length |-> i], selection |-> None, composition |-> None,
                edits |-> <<>>, current |-> 0]
  /\ thrown = FALSE
  /\ calls = 0

----------------------------------------------------------------------------
(* Ranges and texts.                                                       *)

Least(a, b) == IF a <= b THEN a ELSE b

GetMin(range) == Least(range.start, range.end)
GetMax(range) == range.start + range.end - GetMin(range)
Length(range) == GetMax(range) - GetMin(range)
IsReversed(range) == range.start > range.end
IsEmpty(range) == range.start = range.end

Substr(text, from, length) == SubSeq(text, from + 1, from + length)

\* Nothing is erased or inserted anywhere (see ModifyText).
Erase(text, from, length) ==
  IF length = 0 THEN text
  ELSE SubSeq(text, 1, from) \o SubSeq(text, from + length + 1, Len(text))

InsertInto(text, at, new) ==
  IF new = <<>> THEN text
  ELSE SubSeq(text, 1, at) \o new \o SubSeq(text, at + 1, Len(text))

HasComposition(m) == ~IsEmpty(m.composition)
HasSelection(m) == ~IsEmpty(m.selection)
SelectedText(m) == Substr(m.text, GetMin(m.selection), Length(m.selection))
Cursor(m) == m.selection.end

\* Mutant: takes every position.
SelectRangeAnywhere(m, start, end) ==
  [m EXCEPT !.selection = [start |-> start, end |-> end]]

\* RenderText keeps the selection in the text.
SelectRange(m, start, end) ==
  [m EXCEPT !.selection = [start |-> Least(start, Len(m.text)), end |-> Least(end, Len(m.text))]]

SetCursorPosition(m, position) == SelectRange(m, position, position)

----------------------------------------------------------------------------
(* Edits.                                                                  *)

\* InsertEdit.
InsertEdit(merge, text, at) ==
  [type |-> "insert", merge |-> merge, backward |-> FALSE,
   old_cursor |-> at, old_text |-> <<>>, old_start |-> at,
   new_cursor |-> at + Len(text), new_text |-> text, new_start |-> at]

\* DeleteEdit.
DeleteEdit(merge, text, start, backward) ==
  [type |-> "delete", merge |-> merge, backward |-> backward,
   old_cursor |-> IF backward THEN start + Len(text) ELSE start,
   old_text |-> text, old_start |-> start,
   new_cursor |-> start, new_text |-> <<>>, new_start |-> start]

\* ReplaceEdit: the selection, and what comes in its place.
ReplaceEdit(m, merge, old_cursor, new_cursor, text, start) ==
  [type |-> "replace", merge |-> merge, backward |-> IsReversed(m.selection),
   old_cursor |-> old_cursor,
   old_text |-> SelectedText(m), old_start |-> GetMin(m.selection),
   new_cursor |-> new_cursor, new_text |-> text, new_start |-> start]

\* What becomes of a text when an edit is done, and when it is undone.
Redone(edit, text) ==
  InsertInto(Erase(text, edit.old_start, Len(edit.old_text)), edit.new_start, edit.new_text)

Undone(edit, text) ==
  InsertInto(Erase(text, edit.new_start, Len(edit.new_text)), edit.old_start, edit.old_text)

OldEnd(edit) == edit.old_start + Len(edit.old_text)
NewEnd(edit) == edit.new_start + Len(edit.new_text)

\* Mutant: inserts need not be continuous.
MergesApart(last, edit) ==
  /\ last.merge = "mergeable" /\ edit.merge = "mergeable"
  /\ \/ last.type = "insert" /\ edit.type = "insert"
     \/ /\ last.type = "replace" /\ edit.type # "delete"
        /\ NewEnd(last) = edit.old_start /\ edit.old_start = edit.new_start
     \/ /\ last.type = "delete" /\ edit.type = "delete"
        /\ last.backward = edit.backward
        /\ last.old_start = IF edit.backward THEN OldEnd(edit) ELSE edit.old_start

\* DoMerge of the three kinds of edits: when, and to what.
Merges(last, edit) ==
  /\ last.merge = "mergeable" /\ edit.merge = "mergeable"
  /\ \/ /\ last.type = "insert" /\ edit.type = "insert"
        /\ NewEnd(last) = edit.new_start
     \/ /\ last.type = "replace" /\ edit.type # "delete"
        /\ NewEnd(last) = edit.old_start /\ edit.old_start = edit.new_start
     \/ /\ last.type = "delete" /\ edit.type = "delete"
        /\ last.backward = edit.backward
        /\ last.old_start = IF edit.backward THEN OldEnd(edit) ELSE edit.old_start

Merged(last, edit) ==
  IF last.backward /\ last.type = "delete"
  THEN [last EXCEPT !.old_start = edit.old_start, !.old_text = edit.old_text \o @,
                    !.new_cursor = edit.new_cursor]
  ELSE [last EXCEPT !.old_text = @ \o edit.old_text, !.new_text = @ \o edit.new_text,
                    !.new_cursor = IF last.type = "delete" THEN @ ELSE edit.new_cursor]

\* MergeReplace: edit replaces the whole text, the one before last is undone.
MergesReplace(last, edit) == last.type # "delete" /\ edit.merge = "with_previous"

\* Mutant: the text that was replaced, with last still done.
MergedReplaceAsIs(last, edit) ==
  [last EXCEPT !.old_text = edit.old_text, !.old_start = edit.old_start,
               !.backward = FALSE,
               !.new_text = edit.new_text, !.new_start = edit.new_start,
               !.merge = "not"]

MergedReplace(last, edit) ==
  [last EXCEPT !.old_text = Undone(last, edit.old_text), !.old_start = edit.old_start,
               !.backward = FALSE,
               !.new_text = edit.new_text, !.new_start = edit.new_start,
               !.merge = "not"]

----------------------------------------------------------------------------
(* The history.                                                            *)

\* AddOrMergeEditHistory, after ClearRedoHistory.
AddOrMerge(m, edit) ==
  LET done == SubSeq(m.edits, 1, m.current)
      With(last) == [m EXCEPT !.edits = [done EXCEPT ![m.current] = last]]
      last == m.edits[m.current]
  IN CASE m.current > 0 /\ MergesReplace(last, edit) -> With(MergedReplace(last, edit))
       [] m.current > 0 /\ ~MergesReplace(last, edit) /\ Merges(last, edit) -> With(Merged(last, edit))
       [] OTHER -> [m EXCEPT !.edits = Append(done, edit), !.current = @ + 1]

\* ModifyText, for an edit that is redone or undone.
ModifyText(m, text, cursor) ==
  SetCursorPosition([m EXCEPT !.text = text, !.composition = None], cursor)

ExecuteAndRecord(m, edit) ==
  ModifyText(AddOrMerge(m, edit), Redone(edit, m.text), edit.new_cursor)

ExecuteAndRecordDelete(m, range, merge) ==
  ExecuteAndRecord(m, DeleteEdit(merge, Substr(m.text, GetMin(range), Length(range)),
                                 GetMin(range), IsReversed(range)))

ExecuteAndRecordInsert(m, text, merge) ==
  ExecuteAndRecord(m, InsertEdit(merge, text, Cursor(m)))

ExecuteAndRecordReplace(m, merge, old_cursor, new_cursor, text, start) ==
  ExecuteAndRecord(m, ReplaceEdit(m, merge, old_cursor, new_cursor, text, start))

DeleteSelection(m) == ExecuteAndRecordDelete(m, m.selection, "not")

----------------------------------------------------------------------------
(* Composition.                                                            *)

CancelComposition(m) ==
  IF HasComposition(m)
  THEN SetCursorPosition([m EXCEPT !.text = Erase(m.text, GetMin(m.composition), Length(m.composition)),
                                   !.composition = None],
                         m.composition.start)
  ELSE m

\* The text is there already, the history is told of it.
ConfirmComposition(m) ==
  IF HasComposition(m)
  THEN LET text == Substr(m.text, GetMin(m.composition), Length(m.composition))
       IN [SetCursorPosition(AddOrMerge(m, InsertEdit("not", text, m.composition.start)),
                             m.composition.end)
           EXCEPT !.composition = None]
  ELSE m

\* text: what the input method has so far; [start, end): what it selects of it.
SetComposition(m, text, start, end) ==
  LET clean == IF HasComposition(m) THEN CancelComposition(m)
               ELSE IF HasSelection(m) THEN DeleteSelection(m) ELSE m
      at == Cursor(clean)
  IN IF text = <<>> THEN clean
     ELSE SelectRange([clean EXCEPT !.text = InsertInto(@, at, text),
                                    !.composition = [start |-> at, end |-> at + Len(text)]],
                      at + Least(start, Len(text)), at + Least(end, Len(text)))

----------------------------------------------------------------------------
(* The methods.                                                            *)

CanUndo(m) == m.current > 0
CanRedo(m) == m.current < Len(m.edits)

\* The edit undone is committed.
UndoIn(m) ==
  LET clean == CancelComposition(m)
      edit == m.edits[m.current]
  IN ModifyText([clean EXCEPT !.edits[m.current].merge = "not", !.current = @ - 1],
                Undone(edit, clean.text), edit.old_cursor)

RedoIn(m) ==
  LET clean == CancelComposition(m)
      edit == m.edits[m.current + 1]
  IN ModifyText([clean EXCEPT !.current = @ + 1], Redone(edit, clean.text), edit.new_cursor)

InsertTextInternal(m, text, merge) ==
  LET clean == CancelComposition(m)
      start == GetMin(m.selection)
  IN IF ~HasComposition(m) /\ HasSelection(m)
     THEN ExecuteAndRecordReplace(m, merge, Cursor(m), start + Len(text), text, start)
     ELSE ExecuteAndRecordInsert(clean, text, merge)

\* Without a selection the next character is replaced.
ReplaceTextInternal(m, text, merge) ==
  LET selected == IF HasComposition(m) THEN CancelComposition(m)
                  ELSE IF HasSelection(m) THEN m
                  ELSE SelectRange(m, Least(Cursor(m) + 1, Len(m.text)), Cursor(m))
  IN InsertTextInternal(selected, text, merge)

\* Backspace and Delete: a composition, the selection or the character between
\* the cursor and there.
DeleteTo(m, there) ==
  IF HasComposition(m) THEN CancelComposition(m)
  ELSE IF HasSelection(m) THEN DeleteSelection(m)
  ELSE IF there \in 0 .. Len(m.text)
  THEN ExecuteAndRecordDelete(m, [start |-> Cursor(m), end |-> there], "mergeable")
  ELSE m

\* The composition confirmed is not remembered; without one the edit is merged.
SetTextIn(m, text) ==
  LET confirmed == ConfirmComposition(m)
      clean == IF HasComposition(m) THEN UndoIn(confirmed) ELSE m
      cursor == Cursor(clean)
      all == SelectRange(clean, 0, Len(clean.text))
      replaced == ExecuteAndRecordReplace(
                    all, IF HasComposition(m) THEN "not" ELSE "with_previous",
                    cursor, Least(cursor, Len(text)), text, 0)
      result == IF confirmed.text # text THEN replaced ELSE confirmed
  IN SetCursorPosition(result, Cursor(result))

AppendIn(m, text) ==
  LET confirmed == ConfirmComposition(m)
      save == Cursor(confirmed)
      end == SetCursorPosition(confirmed, Len(confirmed.text))
  IN SetCursorPosition(InsertTextInternal(end, text, "not"), save)

----------------------------------------------------------------------------
(* What the text field calls.                                              *)

Positions == 0 .. Len(model.text)

\* The code never looks at a character: each call brings new ones, so that each
\* keeps its place or is seen to have lost it.
New(length) == [i \in 1 .. length |-> MaxLength * (calls + 1) + i]

\* MoveCursor, MoveCursorTo, SelectRange, SelectAll, SelectWord, ClearSelection,
\* SelectSelectionModel: all of them confirm the composition.
Select ==
  \E start, end \in Positions : model' = SelectRange(ConfirmComposition(model), start, end)

InsertText == \E length \in 0 .. 1 : model' = InsertTextInternal(model, New(length), "not")
InsertChar == model' = InsertTextInternal(model, New(1), "mergeable")
ReplaceText == model' = ReplaceTextInternal(model, New(1), "not")
ReplaceChar == model' = ReplaceTextInternal(model, New(1), "mergeable")

Backspace == model' = DeleteTo(model, Cursor(model) - 1)
Delete == model' = DeleteTo(model, Cursor(model) + 1)

SetText ==
  \/ \E length \in 0 .. MaxLength : model' = SetTextIn(model, New(length))
  \/ model' = SetTextIn(model, model.text)
AppendText == model' = AppendIn(model, New(1))

Undo == CanUndo(model) /\ model' = UndoIn(model)
Redo == CanRedo(model) /\ model' = RedoIn(model)

\* The selection is turned round: undoing the cut moves the cursor to the end of
\* a selection that was made forward.
Cut ==
  /\ ~HasComposition(model) /\ HasSelection(model)
  /\ model' = DeleteSelection(SelectRange(model, model.selection.end, model.selection.start))

\* OnPerformDrop: the place without what is selected before it, in a text that
\* may have a composition.
DropPosition(place) ==
  place - (Least(GetMax(model.selection), place) - Least(GetMin(model.selection), place))

\* The selection is dragged within the field, or another text once a controller
\* put that in its place or the selection changed on the way.  A composition is
\* cancelled, and with it the selection, but position is not told.
DeleteSelectionAndInsertTextAt ==
  \E text \in {SelectedText(model), New(1)} \ {<<>>} : \E place \in Positions :
    LET clean == CancelComposition(model)
        position == DropPosition(place)
        end == position + Len(text)
    IN \/ /\ position <= Len(clean.text) - Length(clean.selection)
          /\ model' = ExecuteAndRecordReplace(clean, "not", Cursor(clean), end, text, position)
          /\ UNCHANGED thrown
       \* The edit is recorded, then ModifyText cannot insert.
       \/ /\ position > Len(clean.text) - Length(clean.selection)
          /\ model' = AddOrMerge(clean, ReplaceEdit(clean, "not", Cursor(clean), end, text, position))
          /\ thrown' = TRUE

SetCompositionText ==
  \E length \in 0 .. MaxLength : \E end \in 0 .. length : \E start \in 0 .. end :
    model' = SetComposition(model, New(length), start, end)

ConfirmCompositionText == HasComposition(model) /\ model' = ConfirmComposition(model)
CancelCompositionText == HasComposition(model) /\ model' = CancelComposition(model)

ClearEditHistory == model' = [model EXCEPT !.edits = <<>>, !.current = 0]

vars == <<model, thrown, calls>>

Bounded == Len(model.text) <= MaxLength /\ Len(model.edits) <= MaxEdits /\ calls <= MaxCalls

Next ==
  /\ ~thrown
  /\ \/ /\ \/ Select \/ InsertText \/ InsertChar \/ ReplaceText \/ ReplaceChar
           \/ Backspace \/ Delete \/ SetText \/ AppendText \/ Undo \/ Redo \/ Cut
           \/ SetCompositionText \/ ConfirmCompositionText \/ CancelCompositionText
           \/ ClearEditHistory
        /\ UNCHANGED thrown
     \/ DeleteSelectionAndInsertTextAt
  /\ model' # model /\ calls' = calls + 1
  /\ Bounded'

Spec == Init /\ [][Next]_vars

----------------------------------------------------------------------------

\* Types; the selection, where the cursor is, and the composition lie in the text,
\* whatever position an edit brings (RenderText::SelectRange and MoveCursorTo).
TypeOK ==
  /\ Len(model.text) <= MaxLength /\ thrown \in BOOLEAN
  /\ model.selection \in [start : Positions, end : Positions]
  /\ model.composition \in [start : Positions, end : Positions]
  /\ ~IsReversed(model.composition)
  /\ model.current \in 0 .. Len(model.edits)
  /\ \A i \in DOMAIN model.edits :
       /\ model.edits[i].type \in {"insert", "delete", "replace"}
       /\ model.edits[i].merge \in {"not", "mergeable", "with_previous"}

----------------------------------------------------------------------------
(* The texts that undoing and redoing go through.                          *)

\* The text without the composition, of which the history knows nothing yet.
OwnText(m) == CancelComposition(m).text

TextsOf(m) ==
  LET back[k \in 0 .. m.current] ==
        IF k = m.current THEN OwnText(m) ELSE Undone(m.edits[k + 1], back[k + 1])
      forth[k \in m.current .. Len(m.edits)] ==
        IF k = m.current THEN OwnText(m) ELSE Redone(m.edits[k], forth[k - 1])
  IN [k \in 1 .. Len(m.edits) + 1 |-> IF k <= m.current THEN back[k - 1] ELSE forth[k - 1]]

Finds(text, start, part) ==
  part # <<>> => start + Len(part) <= Len(text) /\ Substr(text, start, Len(part)) = part

\* Every edit finds in the text what it is to take out: undoing, the text it put
\* in; redoing, the text it took out.  Edit::Undo and Redo cut by position and
\* length and never look (textfield_views_model.cc:46).  The edit of a drop that threw
\* does not, and the program has ended.
EditsFit ==
  ~thrown => LET texts == TextsOf(model) IN
  \A i \in DOMAIN model.edits :
    LET edit == model.edits[i] IN
      /\ Finds(texts[i + 1], edit.new_start, edit.new_text)
      /\ Finds(texts[i], edit.old_start, edit.old_text)

\* A selection that is dropped gets in at the position that was given for it, when
\* it is in a composition too: "Deletes the selected text (if any) and insert text
\* at given position", "even if the selection is in composition text"
\* (textfield_views_model.h:191-200).
DropsInsert == [][HasSelection(model) => ~thrown']_vars
=============================================================================
