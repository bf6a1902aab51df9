----------------------------- MODULE UndoPromise -----------------------------
(***************************************************************************)
(* What undo and redo promise whoever edits the line: a linear history of  *)
(* what was shown, text and cursor.  Undo shows exactly what there was     *)
(* before the last change, redo exactly what undo took away, and a new     *)
(* change forgets what was undone (the comment on UndoHistory,             *)
(* src/src/editable_line.rs:59-75).  Edits, groups, coalescing and the     *)
(* commands of the reader do not appear: LineEditor implements this module *)
(* (property UndoPromised there).                                          *)
(***************************************************************************)
EXTENDS Integers, Sequences, SequencesExt

VARIABLE shown     \* a record of what is shown now, the past and the future

Init == shown = [now |-> [text |-> <<>>, position |-> 0], past |-> <<>>, future |-> <<>>]

(* A change that can be undone by itself, from s to t. *)
Change(s, t) ==
  /\ t.past = Append(s.past, s.now)
  /\ t.future = <<>>

(* A change that becomes part of the last one: a character that joins the  *)
(* word before it, an edit of the same group, another match of a search.   *)
Extend(s, t) ==
  /\ s.past # <<>>
  /\ s.future = <<>>
  /\ t.past = s.past
  /\ t.future = <<>>

Undo(s, t) ==
  /\ s.past # <<>>
  /\ t = [now |-> Last(s.past), past |-> Front(s.past), future |-> <<s.now>> \o s.future]

(* The cursor may have moved since the undo: a second undo puts it where   *)
(* it was when the change was made.                                        *)
Redo(s, t) ==
  /\ s.future # <<>>
  /\ t.now = Head(s.future)
  /\ t.future = Tail(s.future)
  /\ Len(t.past) = Len(s.past) + 1
  /\ Front(t.past) = s.past
  /\ Last(t.past).text = s.now.text

MoveCursor(s, t) ==
  /\ t.now.text = s.now.text
  /\ t.now.position \in 0..Len(s.now.text)
  /\ t.past = s.past
  /\ t.future = s.future

Step(s, t) == Change(s, t) \/ Extend(s, t) \/ Undo(s, t) \/ Redo(s, t) \/ MoveCursor(s, t)

Next == \E s \in {shown}, t \in {shown'} : Step(s, t)

Spec == Init /\ [][Next]_shown
=============================================================================
