---------------------------- MODULE EditableLine ----------------------------
(***************************************************************************)
(* The line being edited and its undo history (src/src/editable_line.rs),  *)
(* as operators from a line to a line: the reader performs several of them *)
(* in one command (LineEditor).                                            *)
(*                                                                         *)
(* A text is a sequence of characters.  A range [start, end) of the code   *)
(* is kept as it is, from 0; the characters in it are start+1 .. end of    *)
(* the sequence.  Highlighting, spliced along with the text, is left out.  *)
(***************************************************************************)
EXTENDS Thinning, Integers, Sequences, SequencesExt

CONSTANTS
  Chars,     \* the characters there are
  Space      \* the one with which a new undo entry begins

Text == Seq(Chars)
None == -1

Slice(text, range) == SubSeq(text, range.start + 1, range.end)

(* An edit; `group` and `undone` (the cursor before it was undone) may be  *)
(* None.                                                                   *)
Edit(start, end, new) ==
  [start |-> start, end |-> end, old |-> <<>>, new |-> new,
   before |-> 0, undone |-> None, group |-> None]

EmptyLine ==
  [text |-> <<>>, position |-> 0, edits |-> <<>>, applied |-> 0,
   may_coalesce |-> FALSE, try_coalesce |-> FALSE,
   group_level |-> None, group_id |-> 0]

Apply(text, edit) ==
  SubSeq(text, 1, edit.start) \o edit.new \o SubSeq(text, edit.end + 1, Len(text))

InverseEdit(edit) ==
  [edit EXCEPT !.end = edit.start + Len(edit.new), !.new = edit.old]

CursorAfter(edit) ==
  LET least(a, b) == IF a <= b THEN a ELSE b
      removed == IF edit.before > edit.start
                 THEN least(edit.end - edit.start, edit.before - edit.start)
                 ELSE 0
      cursor == edit.before + Len(edit.new)
  IN IF cursor > removed THEN cursor - removed ELSE 0

-----------------------------------------------------------------------------
SetPosition(line, position) == [line EXCEPT !.position = position]

(* A character typed where the last insertion ended joins it, but a space  *)
(* begins a new entry unless the edits are being grouped.                  *)
WantToCoalesce(line, new) ==
  /\ line.may_coalesce
  /\ Len(new) = 1
  /\ new[1] = Space => line.try_coalesce
  /\ LET last == Last(line.edits) IN
       /\ last.start = last.end
       /\ CursorAfter(last) = line.position

Coalesced(line, edit) ==
  [line EXCEPT !.text = Apply(line.text, edit),
               !.position = @ + Len(edit.new),
               !.edits[Len(line.edits)].new = @ \o edit.new]

Pushed(line, edit) ==
  LET entry == [edit EXCEPT
                  !.group = IF line.group_level = None THEN None ELSE line.group_id,
                  !.before = line.position,
                  !.old = Slice(line.text, edit)]
  IN [line EXCEPT
        !.edits = Append(SubSeq(@, 1, line.applied), entry),
        !.applied = @ + 1,
        !.text = Apply(@, edit),
        !.position = CursorAfter(entry),
        !.may_coalesce = /\ edit.start = edit.end
                         /\ line.try_coalesce \/ Len(edit.new) = 1]

PushEdit(line, edit, allow_coalesce) ==
  IF allow_coalesce /\ edit.start = edit.end /\ WantToCoalesce(line, edit.new)
  THEN Coalesced(line, edit)
  ELSE IF edit.start = edit.end /\ edit.new = <<>> THEN line
  ELSE Pushed(line, edit)

-----------------------------------------------------------------------------
BeginGroup(line) ==
  IF line.group_level # None THEN line
  ELSE [line EXCEPT !.group_level = 1, !.may_coalesce = FALSE,
                    !.try_coalesce = TRUE, !.group_id = @ + 1]

EndGroup(line) ==
  IF line.group_level = None THEN line
  ELSE IF line.group_level > 1 THEN [line EXCEPT !.group_level = @ - 1]
  ELSE [line EXCEPT !.group_level = None, !.try_coalesce = FALSE,
                    !.may_coalesce = FALSE]

SameGroup(e, f) == e.group # None /\ e.group = f.group

(* The entries that undo() takes back at once, when k entries are applied, *)
(* are FirstOfGroup(k) .. k; those of redo() are k+1 .. LastOfGroup(k+1).  *)
FirstOfGroup(edits, k) ==
  CHOOSE i \in 1..k :
    /\ \A j \in i..(k - 1) : SameGroup(edits[j], edits[j + 1])
    /\ i > 1 => ~SameGroup(edits[i - 1], edits[i])

LastOfGroup(edits, k) ==
  CHOOSE i \in k..Len(edits) :
    /\ \A j \in k..(i - 1) : SameGroup(edits[j], edits[j + 1])
    /\ i < Len(edits) => ~SameGroup(edits[i], edits[i + 1])

(* The text that entries i .. j leave when they are taken back, and when   *)
(* they are applied.                                                       *)
Revert(text, edits, i, j) ==
  LET before[k \in i..(j + 1)] ==
        IF k > j THEN text ELSE Apply(before[k + 1], InverseEdit(edits[k]))
  IN before[i]

Replay(text, edits, i, j) ==
  LET after[k \in (i - 1)..j] ==
        IF k < i THEN text ELSE Apply(after[k - 1], edits[k])
  IN after[j]

TakenBack(line) ==
  LET first == FirstOfGroup(line.edits, line.applied) IN
  [line EXCEPT !.text = Revert(@, line.edits, first, line.applied),
               !.position = line.edits[first].before,
               !.edits[line.applied].undone = line.position,
               !.applied = first - 1]

(* Mutant: a character typed after an undo may join the entry undone. *)
UndoAndJoin(line) == EndGroup(IF line.applied = 0 THEN line ELSE TakenBack(line))

Undo(line) ==
  LET undone == IF line.applied = 0 THEN line ELSE TakenBack(line)
  IN [EndGroup(undone) EXCEPT !.may_coalesce = FALSE]

(* The cursor goes where each entry says it was before its undo, if it     *)
(* says so.                                                                *)
DoneAgain(line) ==
  LET first == line.applied + 1
      last == LastOfGroup(line.edits, first)
      said == {i \in first..last : line.edits[i].undone # None}
  IN [line EXCEPT !.text = Replay(@, line.edits, first, last),
                  !.position = IF said = {} THEN @
                               ELSE line.edits[CHOOSE i \in said : \A j \in said : j <= i].undone,
                  !.applied = last]

Redo(line) ==
  EndGroup(IF line.applied = Len(line.edits) THEN line ELSE DoneAgain(line))

-----------------------------------------------------------------------------
(* What is shown, what undo() would bring back, and what redo() would.     *)
Shown(text, position) == [text |-> text, position |-> position]

Now(line) == Shown(line.text, line.position)

(* What an entry made its text of, and what it made. *)
Before(line, i) ==
  Shown(Revert(line.text, line.edits, i, line.applied), line.edits[i].before)
After(line, i) ==
  Shown(Replay(line.text, line.edits, line.applied + 1, i), line.edits[i].undone)

(* The entries that undo() would stop at, and those that redo() would. *)
FirstOnes(line) ==
  {i \in 1..line.applied : i > 1 => ~SameGroup(line.edits[i - 1], line.edits[i])}
LastOnes(line) ==
  {i \in (line.applied + 1)..Len(line.edits) :
     i < Len(line.edits) => ~SameGroup(line.edits[i], line.edits[i + 1])}

Past(line) == Kept([i \in 1..line.applied |-> Before(line, i)], FirstOnes(line))
Future(line) ==
  Kept([i \in (line.applied + 1)..Len(line.edits) |-> After(line, i)], LastOnes(line))
=============================================================================
