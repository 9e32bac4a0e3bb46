----------------------------- MODULE UndoHistory -----------------------------
(***************************************************************************)
(* What the edit history of views::TextfieldViewsModel promises to who     *)
(* undoes and redoes: the texts that the field has had are kept in a row,  *)
(* one of them is the text it has, and going back and forth among them     *)
(* changes none.  A change of the text forgets what could be redone and    *)
(* nothing else; it is a new step back, or becomes a part of the last one. *)
(***************************************************************************)
EXTENDS Naturals, Sequences

VARIABLES texts, at

vars == <<texts, at>>

Kept(n) == SubSeq(texts', 1, n) = SubSeq(texts, 1, n)

Init == Len(texts) = 1 /\ at = 1

\* One new step or several.
Change ==
  /\ at' > at
  /\ Len(texts') = at'
  /\ Kept(at)

\* The text before the last step is still what undoing it will bring back.
Merge ==
  /\ at > 1
  /\ at' = at
  /\ Len(texts') = at
  /\ Kept(at - 1)

Undo == at > 1 /\ at' = at - 1 /\ UNCHANGED texts

Redo == at < Len(texts) /\ at' = at + 1 /\ UNCHANGED texts

Forget == at' = 1 /\ texts' = <<texts[at]>>

Next == Change \/ Merge \/ Undo \/ Redo \/ Forget

Spec == Init /\ [][Next]_vars
=============================================================================
