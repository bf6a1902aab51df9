------------------------------ MODULE LineEditor ------------------------------
(***************************************************************************)
(* The reader's editing of the command line (src/src/reader.rs): typing,   *)
(* undo and redo, undo groups and the search through the history, one      *)
(* action per command of handle_readline_command() or per event of         *)
(* handle_char_event(), with what happens before and after it there.  The  *)
(* line has no newline.  The pager, its search field and vi's cursor are   *)
(* left out; suggestions and the kill ring are in CommandLine.             *)
(***************************************************************************)
EXTENDS ReaderHistorySearch, FiniteSets

CONSTANTS
  Keys,       \* the characters that are typed
  Pastes,     \* the texts that arrive at once
  Scripted,   \* the texts that a key binding's script may set
  Recorded,   \* the history, the most recent item first
  LastUsed,   \* when each text of it was last recorded
  Elsewhere,  \* the texts of it that another shell uses, or deletes, meanwhile
  MaxLine,    \* bound: the longest line that is typed
  MaxEdits,   \* bound: entries of the undo history
  MaxGroups,  \* bound: undo groups begun
  Clicks,     \* bound: the places where a click puts the cursor
  MaxUnsaved  \* bound: deleted texts that no rewrite has left out yet

ASSUME EditorAssumption ==
  /\ Keys \subseteq Chars
  /\ Pastes \cup Scripted \subseteq Text
  /\ Recorded \in Seq(Text)
  /\ \A i \in DOMAIN Recorded : LastUsed[Recorded[i]] \in Nat

VARIABLES
  line,       \* the EditableLine
  search,     \* the ReaderHistorySearch
  transient,  \* command_line_transient_edit = HistorySearch
  history,
  deleted_items, \* the texts to be left out of the history when it is rewritten
  panic,      \* an assertion of the search has failed
  searched,   \* history variable: what was shown when the search began
  strayed,    \* history variable: the search was not left to itself
  surfaced    \* history variable: a deletion put items the search has not
              \* reached before its place

editorVars ==
  <<line, search, transient, history, deleted_items, panic, searched, strayed, surfaced>>
ghosts == <<searched, strayed, surfaced>>

EditorInit ==
  /\ line = EmptyLine
  /\ search = NoSearch
  /\ transient = FALSE
  /\ history = Recorded
  /\ deleted_items = {}
  /\ panic = FALSE
  /\ searched = Now(EmptyLine) /\ strayed = FALSE /\ surfaced = FALSE

(* The bounds; what a search shows may be longer. *)
FewEdits(l) == Len(l.edits) <= MaxEdits

Bounded(l) ==
  /\ FewEdits(l)
  /\ Len(l.text) <= MaxLine \/ Len(l.text) <= Len(line.text)

Replace(l, start, end, new) == PushEdit(l, Edit(start, end, new), FALSE)

-----------------------------------------------------------------------------
SearchEnds ==
  /\ search' = NoSearch
  /\ transient' = FALSE
  /\ searched' = Now(EmptyLine) /\ strayed' = FALSE /\ surfaced' = FALSE

(* A command, or a character, that edits or moves ends a search.           *)
Editing(l) ==
  /\ ~panic
  /\ Bounded(l)
  /\ line' = l
  /\ SearchEnds
  /\ UNCHANGED <<history, deleted_items, panic>>

CursorCommand ==
  \E p \in 0..Len(line.text) : Editing(SetPosition(line, p))

BackwardDeleteChar ==
  /\ line.position > 0
  /\ Editing(Replace(line, line.position - 1, line.position, <<>>))

UndoCommand == Editing(Undo(line))
RedoCommand == Editing(Redo(line))
EndUndoGroup == Editing(EndGroup(line))
BeginUndoGroup ==
  /\ line.group_id < MaxGroups
  /\ Editing(BeginGroup(line))

(* clear_transient_edit(): back to what was searched for. *)
ClearTransient(l) == IF transient THEN Undo(l) ELSE l
Cancel == Editing(ClearTransient(line))

-----------------------------------------------------------------------------
(* Text that is typed.  A single character comes as an event and ends the  *)
(* search; what is followed by more input is inserted before that, and the *)
(* search goes on.                                                         *)
Insert(new) ==
  PushEdit(line, Edit(line.position, line.position, new), ~Active(search))

InsertChar(c) == Editing(Insert(<<c>>))

InsertBurst(new) ==
  /\ ~panic
  /\ Bounded(Insert(new))
  /\ line' = Insert(new)
  /\ transient' = FALSE
  /\ strayed' = (strayed \/ Active(search))
  /\ UNCHANGED <<search, history, deleted_items, panic, searched, surfaced>>

(* A click puts the cursor somewhere and is not a command. *)
ClickAt ==
  /\ ~panic
  /\ \E p \in Clicks \cap (0..Len(line.text)) : line' = SetPosition(line, p)
  /\ strayed' = (strayed \/ Active(search))
  /\ UNCHANGED <<search, transient, history, deleted_items, panic, searched, surfaced>>

(* A script of a key binding sets line and cursor with `commandline`.      *)
ScriptSets(text) ==
  \E p \in 0..Len(text) :
    /\ Now(line) # Shown(text, p)
    /\ Editing(SetPosition(Replace(line, 0, Len(line.text), text), p))

-----------------------------------------------------------------------------
(* update_command_line_from_history_search(): the match shown before makes *)
(* room for the one the search is at.                                      *)
Placed(l, s) ==
  IF s.mode = "token"
  THEN LET r == TokenExtent(l.text, l.position)
       IN Replace(l, r.start, r.end, CurrentResult(s))
  ELSE LET whole_line == Replace(l, 0, Len(l.text), CurrentResult(s))
       IN IF s.mode = "prefix" /\ SearchString(s) # <<>>
          THEN SetPosition(whole_line, Len(SearchString(s)))
          ELSE whole_line

(* Mutant: the match shown before is not taken back. *)
ShowMatchOver(s) ==
  /\ line' = IF AtPresent(s) THEN line ELSE Placed(line, s)
  /\ transient' = ~AtPresent(s)
  /\ FewEdits(line')

ShowMatch(s) ==
  LET l == IF transient THEN Undo(line) ELSE line IN
  /\ line' = IF AtPresent(s) THEN l ELSE Placed(l, s)
  /\ transient' = ~AtPresent(s)
  /\ FewEdits(line')

(* A search command: a new search unless one of that mode, or one that is  *)
(* not at the line itself, is under way.                                   *)
Starts(mode) == AtPresent(search) /\ mode # search.mode

Started(mode) ==
  IF ~Starts(mode) THEN search
  ELSE IF mode = "token"
  THEN LET r == TokenExtent(line.text, line.position)
       IN StartSearch(Slice(line.text, r), mode, r.start, {})
  ELSE StartSearch(line.text, mode, 0, {})

Searching ==
  /\ ~panic
  /\ UNCHANGED panic

(* What a command that moves to s, in a search that began at `start`,      *)
(* leaves: nothing if the search finds nothing and was not on before.      *)
MoveTo(mode, start, s) ==
  IF s.match_index = start.match_index /\ ~Active(search)
  THEN UNCHANGED <<line, search, transient, ghosts>>
  ELSE /\ IF s.match_index = start.match_index THEN UNCHANGED <<line, transient>> ELSE ShowMatch(s)
       /\ search' = s
       /\ searched' = IF Starts(mode) THEN Now(line) ELSE searched
       /\ strayed' = IF Starts(mode) THEN line.group_level # None ELSE strayed
       /\ surfaced' = (surfaced /\ ~Starts(mode))

HistorySearchBackward(mode) ==
  /\ Searching
  /\ MoveTo(mode, Started(mode), MoveBackwards(Started(mode), history))
  /\ UNCHANGED <<history, deleted_items>>

HistorySearchForward(mode) ==
  /\ Searching
  /\ MoveTo(mode, Started(mode), MoveForwards(Started(mode)))
  /\ UNCHANGED <<history, deleted_items>>

BeginningOfHistory ==
  /\ Active(search)
  /\ Searching
  /\ search' = GoToOldest(search)
  /\ ShowMatch(search')
  /\ UNCHANGED <<history, deleted_items, ghosts>>

EndOfHistory ==
  /\ Active(search)
  /\ Searching
  /\ search' = GoToPresent(search)
  /\ ShowMatch(search')
  /\ UNCHANGED <<history, deleted_items, ghosts>>

(* Once the file is rewritten without the texts `gone`, the history has each *)
(* text at its most recent place only, in the order of time.                 *)
Rewritten(gone) ==
  LET left == {i \in DOMAIN history : history[i] \notin gone}
      latest == {i \in left : \A j \in left : j < i => history[j] # history[i]}
      MoreRecent(i, j) ==
        \/ LastUsed[history[i]] > LastUsed[history[j]]
        \/ LastUsed[history[i]] = LastUsed[history[j]] /\ i < j
  IN {[n \in DOMAIN order |-> history[order[n]]] :
        order \in {o \in [1..Cardinality(latest) -> latest] :
                     \A m, n \in DOMAIN o : m < n => MoreRecent(o[m], o[n])}}

(* History::remove() and save(), for a history all of which was recorded     *)
(* before this shell started: the rewrite merges what the file has by then,  *)
(* where an item that another shell has used again is too recent to be       *)
(* shown; or it fails, nothing changes, and a later one leaves out the text. *)
RemoveAndSave(text) ==
  \/ \E others \in SUBSET Elsewhere :
       /\ history' \in Rewritten(deleted_items \cup {text} \cup others)
       /\ deleted_items' = {}
  \/ /\ deleted_items' = deleted_items \cup {text}
     /\ Cardinality(deleted_items') <= MaxUnsaved
     /\ UNCHANGED history

(* In `after` there is something before a place that was not there or before *)
(* it in `before`.                                                           *)
Surfaces(place, before, after) ==
  \E n \in DOMAIN after :
    n < place /\ \A i \in DOMAIN before : i <= place => before[i] # after[n]

(* The match shown is deleted from the history, wherever it occurs there,    *)
(* and the search moves on.                                                  *)
DeleteFromHistory ==
  /\ ~AtPresent(search)
  /\ MayDelete(search)
  /\ Searching
  /\ RemoveAndSave(CurrentResult(search))
  /\ search' = HandleDeletion(search, history')
  /\ ShowMatch(search')
  /\ surfaced' = (surfaced \/ Surfaces(search.current_index, history, history'))
  /\ UNCHANGED <<searched, strayed>>

DeletePanics ==
  /\ ~AtPresent(search)
  /\ ~MayDelete(search)
  /\ ~panic
  /\ panic' = TRUE
  /\ RemoveAndSave(CurrentResult(search))
  /\ UNCHANGED <<line, search, transient, ghosts>>

-----------------------------------------------------------------------------
EditorNext ==
  \/ CursorCommand \/ BackwardDeleteChar
  \/ UndoCommand \/ RedoCommand \/ BeginUndoGroup \/ EndUndoGroup
  \/ \E c \in Keys : InsertChar(c)
  \/ \E new \in Pastes : InsertBurst(new)
  \/ ClickAt
  \/ \E text \in Scripted : ScriptSets(text)
  \/ \E mode \in SearchModes : HistorySearchBackward(mode)
  \/ \E mode \in SearchModes : HistorySearchForward(mode)
  \/ BeginningOfHistory \/ EndOfHistory \/ Cancel
  \/ DeleteFromHistory \/ DeletePanics

EditorSpec == EditorInit /\ [][EditorNext]_editorVars

-----------------------------------------------------------------------------
(* The cursor is in the line, the applied edits are among those kept, and  *)
(* each match a search may show is one it found (the assertions of         *)
(* set_position() and push_edit(), editable_line.rs).                      *)
EditorTypeOK ==
  /\ line.position \in 0..Len(line.text)
  /\ line.applied \in 0..Len(line.edits)
  /\ line.group_level \in {None, 1}
  /\ Active(search) => search.match_index + 1 \in DOMAIN search.matches
  /\ panic \in BOOLEAN

(* Undo and redo show exactly what was shown, however edits are coalesced, *)
(* grouped or made by a search that takes back its own.                    *)
Promise == INSTANCE UndoPromise
             WITH shown <- [now |-> Now(line), past |-> Past(line), future |-> Future(line)]
UndoPromised == Promise!Spec

(* While a search is on, the line shows the match it is at in the place of *)
(* what was searched for, and cancelling it brings back line and cursor as *)
(* they were ("Go back to the search string by simply undoing the          *)
(* history-search edit", reader.rs:2464), if nothing but the search's      *)
(* commands came between and no undo group was open.                       *)
Expected ==
  IF AtPresent(search) THEN searched.text
  ELSE IF search.mode = "token"
  THEN Apply(searched.text,
             [start |-> search.offset,
              end |-> search.offset + Len(SearchString(search)),
              new |-> CurrentResult(search)])
  ELSE CurrentResult(search)

SearchTakesBack ==
  [][/\ (Active(search) /\ ~strayed)' => line'.text = Expected'
     /\ Cancel /\ Active(search) /\ ~strayed => Now(line)' = searched]_editorVars

(* A search passes over nothing: whatever the items between the line and   *)
(* the search's place have to offer was offered, or is on the screen, also *)
(* when matches are deleted under way, unless the rewritten history has    *)
(* items from beyond the search's place before it.                         *)
SearchMissesNothing ==
  Active(search) /\ ~surfaced =>
    \A i \in 1..Len(history) :
      i <= search.current_index /\ MatchesSearch(search, history[i]) =>
        \A n \in DOMAIN Offers(search, history[i]) :
          Offers(search, history[i])[n] \in search.skips

(* An assertion of the search never fails (history.rs:1878).               *)
NoSearchPanic == ~panic

(* The state is of its types, a search at one of its matches, and nothing of*)
(* the history was passed over.                                            *)
SearchConsistent == EditorTypeOK /\ SearchMissesNothing
=============================================================================
