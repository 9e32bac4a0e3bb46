------------------------ MODULE MCTextfieldViewsModel ------------------------
(* TextfieldViewsModel for TLC, and what it implements.                    *)
EXTENDS TextfieldViewsModel

Abstract == INSTANCE UndoHistory WITH texts <- TextsOf(model), at <- model.current + 1

\* Undo and Redo go back and forth among the texts that the field has had,
\* whatever edits were merged, replaced, confirmed or cancelled on the way; only
\* of the drop that throws, where the program ends, nothing is promised.
ImplementsUndoHistory ==
  Abstract!Init /\ [][thrown' \/ Abstract!Next]_(Abstract!vars)
=============================================================================
