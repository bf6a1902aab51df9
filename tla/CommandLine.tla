----------------------------- MODULE CommandLine -----------------------------
(***************************************************************************)
(* The command line as the reader shows it (src/src/reader.rs): the        *)
(* autosuggestion, which a background thread computes while the user goes  *)
(* on, and the kill ring (src/src/kill.rs).                                *)
(*                                                                         *)
(* handle_char_event() brings the autosuggestion up to date (Update) and   *)
(* then waits for an event; results of the background arrive while it      *)
(* waits (Serve).  Characters followed by more input are inserted at once  *)
(* (Burst) and the next event is taken without another Update.             *)
(*                                                                         *)
(* The line is one line without white space, the cursor is not vi's, the   *)
(* suggestion keeps the case.  The undo history and the search through the *)
(* history are LineEditor's; that the debounced thread may be abandoned is *)
(* Debounce's, here it never takes too long.                               *)
(***************************************************************************)
EXTENDS EditableLine

CONSTANTS
  Bursts,       \* the texts that arrive at once
  History,      \* the items of the history
  Completions,  \* what completions offer once they have been loaded
  MaxLen,       \* bound: the longest line that is typed
  MaxResults,   \* bound: results in the main thread queue
  MaxRing,      \* bound: entries of the kill ring
  Uses,         \* bound: a behaviour uses the "suggestions" or the "ring",
  Given         \* on this line, without typing

ASSUME CommandLineAssumption ==
  /\ Given \in Seq(Chars)
  /\ Bursts \cup History \cup Completions \subseteq Seq(Chars)
  /\ {MaxLen, MaxResults, MaxRing} \subseteq Nat

VARIABLES
  text, position,   \* command_line
  suggestion,       \* autosuggestion: its text and search_string_range.end;
                    \* `back` is history: it was restored on the line in flight
  saved,            \* saved_autosuggestion
  suppress,         \* suppress_autosuggestion
  ok,               \* conf.autosuggest_ok
  in_flight,        \* in_flight_autosuggest_request
  phase,            \* where handle_char_event() is
  next,             \* the request waiting for the thread, if any
  computing,        \* the requests being computed
  results,          \* main thread queue
  loaded,           \* the completions have been loaded
  known,            \* the items of the history
  ring, kill_item,  \* KILL_RING and the item the last kill made
  last_cmd, yank_len,
  overtaken,        \* history variable: the line in flight when the line changed last
  whole,            \* history variable: the line before the kills in a row, if any
  clicked,          \* history variable: the cursor was moved by a click since the yank
  uses

suggesting == <<suggestion, saved, suppress>>
requests == <<next, computing, results, loaded>>
killing == <<ring, kill_item, yank_len, whole, clicked>>
vars == <<text, position, suggesting, ok, in_flight, phase, requests, known,
          killing, last_cmd, overtaken, uses>>

Nothing == [text |-> <<>>, end |-> 0, whole |-> FALSE, back |-> FALSE]
Other == "other"
Killing == {"kill-line", "kill-whole-line", "kill-word", "backward-kill-word"}
Yanking == {"yank", "yank-pop"}

Init ==
  /\ uses \in Uses
  /\ text = IF uses = "ring" THEN Given ELSE <<>>
  /\ position = Len(text)
  /\ suggestion = Nothing /\ saved = Nothing
  /\ suppress = FALSE
  /\ ok = (uses = "suggestions")
  /\ in_flight = <<>>
  /\ phase = "update"
  /\ next = {} /\ computing = {} /\ results = <<>>
  /\ loaded = FALSE
  /\ known = History
  /\ ring = <<>> /\ kill_item = <<>>
  /\ last_cmd = Other /\ yank_len = 0
  /\ overtaken = <<>> /\ whole = {} /\ clicked = FALSE

-----------------------------------------------------------------------------
(* The autosuggestion still applies to the line as edited at its end. *)
Remaining(edit) == SubSeq(suggestion.text, edit.start + 1, Len(suggestion.text))

Preserves(edit) ==
  /\ suggestion # Nothing
  /\ edit.end = suggestion.end
  /\ edit.start <= Len(suggestion.text)
  /\ IsPrefix(edit.new, Remaining(edit))
  /\ Len(edit.new) # Len(Remaining(edit))

(* Something else is typed at its end: it is kept for the case that this   *)
(* is erased again at once.                                                *)
Diverges(edit) ==
  /\ ~Preserves(edit)
  /\ suggestion # Nothing
  /\ edit.start = edit.end /\ edit.start = suggestion.end
  /\ edit.new # <<>>

Restores(edit) ==
  /\ ~Preserves(edit) /\ ~Diverges(edit)
  /\ saved # Nothing
  /\ ok
  /\ edit.new = <<>>
  /\ edit.start = saved.end
  /\ edit.start # edit.end

(* Every change of the command line cancels what is being computed. *)
Cancelled(reqs) == {[r EXCEPT !.cancelled = TRUE] : r \in reqs}

CommandLineChanged ==
  /\ next' = Cancelled(next)
  /\ computing' = Cancelled(computing)
  /\ overtaken' = in_flight

(* push_edit_internal(); `before` is suppress_autosuggestion before it. *)
PushEditOf(edit, before) ==
  /\ text' = Apply(text, edit)
  /\ position' = CursorAfter([edit EXCEPT !.before = position])
  /\ suggestion' =
       IF Preserves(edit)
       THEN [suggestion EXCEPT !.end = @ - (edit.end - edit.start) + Len(edit.new)]
       ELSE IF Restores(edit) THEN [saved EXCEPT !.back = (Apply(text, edit) = in_flight)]
       ELSE Nothing
  /\ saved' = IF Diverges(edit) THEN suggestion ELSE Nothing
  /\ suppress' = (before /\ ~Restores(edit))
  /\ CommandLineChanged

InsertString(new) == PushEditOf(Edit(position, position, new), FALSE)

-----------------------------------------------------------------------------
CanAutosuggest == ok /\ ~suppress /\ text # <<>>

IsAtAutosuggestion == suggestion # Nothing /\ position = suggestion.end
IsAtLine == suggestion # Nothing /\ Len(text) = suggestion.end

(* perform(): the request takes the place of one that waits. *)
Perform ==
  /\ next' = {[line |-> text, cancelled |-> FALSE]}
  /\ UNCHANGED computing

(* Mutant: a request in flight is not told by its line. *)
AnythingInFlight(flying) == flying # <<>>

AlreadyInFlight(flying) == flying = text

(* update_autosuggestion(), with what in_flight_autosuggest_request is. *)
UpdateAutosuggestion(flying) ==
  IF ~CanAutosuggest
  THEN /\ in_flight' = <<>> /\ suggestion' = Nothing
       /\ overtaken' = <<>>
       /\ UNCHANGED <<next, computing>>
  ELSE IF IsAtLine \/ AlreadyInFlight(flying)
  THEN /\ in_flight' = flying
       /\ UNCHANGED <<suggestion, next, computing, overtaken>>
  ELSE /\ in_flight' = text /\ suggestion' = Nothing
       /\ overtaken' = <<>>
       /\ Perform

Update ==
  /\ phase = "update"
  /\ phase' = "read"
  /\ UpdateAutosuggestion(in_flight)
  /\ UNCHANGED <<text, position, saved, suppress, ok, results, loaded, known,
                 killing, last_cmd, uses>>

-----------------------------------------------------------------------------
(* The background. *)
background == <<text, position, suggesting, ok, in_flight, phase, loaded, known,
                killing, last_cmd, overtaken, uses>>

Start ==
  /\ next # {}
  /\ computing = {}
  /\ computing' = next
  /\ next' = {}
  /\ UNCHANGED <<results, background>>

Found(line, found, is_whole, needs_load) ==
  [line |-> line, text |-> found, whole |-> is_whole, needs_load |-> needs_load]

Extending(line, items) == {item \in items : IsPrefix(line, item)}

(* What the performer finds: an item of the history before completions;    *)
(* nothing, not even the line it was for, when it was cancelled, unless    *)
(* that happened during the completions.                                   *)
Answers(r) ==
  IF r.cancelled
  THEN {Found(<<>>, <<>>, FALSE, FALSE), Found(r.line, <<>>, FALSE, ~loaded)}
  ELSE IF Extending(r.line, known) # {}
  THEN {Found(r.line, item, TRUE, FALSE) : item \in Extending(r.line, known)}
  ELSE IF ~loaded \/ Extending(r.line, Completions) = {}
  THEN {Found(r.line, <<>>, FALSE, ~loaded)}
  ELSE {Found(r.line, item, FALSE, FALSE) : item \in Extending(r.line, Completions)}

Compute ==
  \E r \in computing :
    /\ Len(results) < MaxResults
    /\ computing' = {}
    /\ \E answer \in Answers(r) : results' = Append(results, answer)
    /\ UNCHANGED <<next, background>>

(* Mutant: a result for another line is taken. *)
TakenThoughStale(r) == r.text # <<>> /\ CanAutosuggest

Taken(r) == r.line = text /\ r.text # <<>> /\ CanAutosuggest

(* autosuggest_completed() *)
Serve ==
  /\ phase \in {"read", "more"}
  /\ results # <<>>
  /\ results' = Tail(results)
  /\ LET r == Head(results)
         flying == IF r.line = in_flight THEN <<>> ELSE in_flight
     IN IF r.line = text /\ r.needs_load /\ ~loaded
        THEN /\ loaded' = TRUE
             /\ UpdateAutosuggestion(flying)
        ELSE /\ in_flight' = flying
             /\ suggestion' = IF Taken(r)
                              THEN [text |-> r.text, end |-> Len(r.line), whole |-> r.whole,
                                    back |-> FALSE]
                              ELSE suggestion
             /\ UNCHANGED <<next, computing, loaded, overtaken>>
  /\ UNCHANGED <<text, position, saved, suppress, ok, phase, known, killing,
                 last_cmd, uses>>

-----------------------------------------------------------------------------
(* The events.  Those of a command forget the length of the last yank      *)
(* unless they come right after it.                                        *)
Event ==
  /\ phase \in {"read", "more"}
  /\ phase' = "update"
  /\ UNCHANGED <<results, loaded, uses>>

YankLen == IF last_cmd \in Yanking THEN yank_len ELSE 0

Command(cmd) == Event /\ last_cmd' = cmd

Plain ==
  /\ Command(Other)
  /\ yank_len' = 0 /\ whole' = {} /\ clicked' = FALSE
  /\ UNCHANGED <<ring, kill_item>>

SameLine == UNCHANGED <<text, in_flight, next, computing, overtaken>>

TypeChar(c) ==
  /\ Plain
  /\ Len(text) < MaxLen
  /\ InsertString(<<c>>)
  /\ UNCHANGED <<ok, in_flight, known>>

Burst(new) ==
  /\ phase \in {"read", "more"}
  /\ phase' = "more"
  /\ Len(text) + Len(new) <= MaxLen
  /\ InsertString(new)
  /\ last_cmd' = Other
  /\ yank_len' = 0 /\ whole' = {} /\ clicked' = FALSE
  /\ UNCHANGED <<results, loaded, uses, ring, kill_item, ok, in_flight, known>>

MoveCursor(p) ==
  /\ Plain
  /\ position' = p
  /\ SameLine
  /\ UNCHANGED <<suggesting, ok, known>>

(* A click is no command. *)
Click(p) ==
  /\ Event
  /\ position' = p
  /\ clicked' = TRUE /\ whole' = {}
  /\ SameLine
  /\ UNCHANGED <<suggesting, ok, known, ring, kill_item, yank_len, last_cmd>>

(* delete-char and backward-delete-char *)
DeleteChar(start) ==
  /\ Plain
  /\ start \in {position - 1, position} /\ start \in 0..(Len(text) - 1)
  /\ PushEditOf(Edit(start, start + 1, <<>>), TRUE)
  /\ UNCHANGED <<ok, in_flight, known>>

(* undo and redo bring some line back. *)
UndoOrRedo(new) ==
  /\ Plain
  /\ new # text
  /\ text' = new
  /\ position' \in 0..Len(new)
  /\ suggestion' = Nothing /\ saved' = Nothing /\ suppress' = FALSE
  /\ CommandLineChanged
  /\ UNCHANGED <<ok, in_flight, known>>

-----------------------------------------------------------------------------
(* The commands that move forwards take the suggestion instead when the    *)
(* cursor is at it: all of it or what comes next.                          *)
AcceptAll ==
  /\ Plain
  /\ IsAtLine
  /\ PushEditOf(Edit(0, suggestion.end, suggestion.text), suppress)
  /\ UNCHANGED <<ok, in_flight, known>>

AcceptNext ==
  /\ Plain
  /\ IsAtAutosuggestion /\ IsAtLine
  /\ \E last \in suggestion.end..Len(suggestion.text) :
       /\ last = suggestion.end => last = Len(suggestion.text)
       /\ PushEditOf(Edit(suggestion.end, suggestion.end,
                          SubSeq(suggestion.text, suggestion.end + 1, last)), suppress)
  /\ UNCHANGED <<ok, in_flight, known>>

SuppressAutosuggestion ==
  /\ Plain
  /\ suppress' = TRUE /\ suggestion' = Nothing
  /\ SameLine
  /\ UNCHANGED <<position, saved, ok, known>>

(* What is suggested is deleted from the history, if it is a whole item. *)
HistoryDelete ==
  /\ Plain
  /\ IsAtAutosuggestion
  /\ suggestion.whole
  /\ known' = known \ {suggestion.text}
  /\ suggestion' = Nothing
  /\ SameLine
  /\ UNCHANGED <<position, saved, suppress, ok>>

(* execute and cancel-commandline begin another line. *)
Execute ==
  /\ Plain
  /\ text # <<>>
  /\ text' = <<>> /\ position' = 0
  /\ suggestion' = Nothing /\ saved' = Nothing
  /\ CommandLineChanged
  /\ UNCHANGED <<suppress, ok, in_flight, known>>

(* reader_set_autosuggestion_enabled() *)
SetAutosuggestionEnabled ==
  /\ Plain
  /\ ok' = ~ok
  /\ SameLine
  /\ UNCHANGED <<position, suggesting, known>>

-----------------------------------------------------------------------------
(* The kill ring.  Kills in a row by the same command make one entry.      *)
(* Mutant: what was killed backwards is put behind the rest.               *)
JoinedBehind(killed, prepend) == kill_item \o killed

Joined(killed, prepend) == IF prepend THEN killed \o kill_item ELSE kill_item \o killed

Kill(cmd, range, prepend, before) ==
  LET newv == last_cmd # cmd
      item == IF newv THEN Slice(text, range) ELSE Joined(Slice(text, range), prepend)
  IN /\ Command(cmd)
     /\ PushEditOf(Edit(range.start, range.end, <<>>), before)
     /\ kill_item' = item
     /\ ring' = <<item>> \o (IF newv THEN ring ELSE RemoveFirst(ring, kill_item))
     /\ Len(ring') <= MaxRing
     /\ yank_len' = 0 /\ clicked' = FALSE
     /\ whole' = IF newv THEN {text} ELSE whole
     /\ UNCHANGED <<ok, in_flight, known>>

NothingToKill(cmd) ==
  /\ Command(cmd)
  /\ yank_len' = 0 /\ clicked' = FALSE
  /\ whole' = IF last_cmd = cmd THEN whole ELSE {}
  /\ SameLine
  /\ UNCHANGED <<position, suggesting, ok, known, ring, kill_item>>

KillLine ==
  IF position = Len(text) THEN NothingToKill("kill-line")
  ELSE Kill("kill-line", [start |-> position, end |-> Len(text)], FALSE, suppress)

KillWholeLine ==
  IF text = <<>> THEN NothingToKill("kill-whole-line")
  ELSE Kill("kill-whole-line", [start |-> 0, end |-> Len(text)], FALSE, suppress)

(* The other kills hold autosuggestions back: of a word, a token, the      *)
(* line, forwards or backwards.                                            *)
KillWord ==
  IF position = Len(text) THEN NothingToKill("kill-word")
  ELSE \E end \in (position + 1)..Len(text) :
         Kill("kill-word", [start |-> position, end |-> end], FALSE, TRUE)

BackwardKillWord ==
  IF position = 0 THEN NothingToKill("backward-kill-word")
  ELSE \E start \in 0..(position - 1) :
         Kill("backward-kill-word", [start |-> start, end |-> position], TRUE, TRUE)

(* Mutant: the oldest entry. *)
YankedOldest == IF ring = <<>> THEN <<>> ELSE Last(ring)

Yanked == IF ring = <<>> THEN <<>> ELSE Head(ring)

Yank ==
  /\ Command("yank")
  /\ InsertString(Yanked)
  /\ Len(text') <= Len(Given) + 1
  /\ yank_len' = Len(Yanked)
  /\ whole' = {} /\ clicked' = FALSE
  /\ UNCHANGED <<ring, kill_item, ok, in_flight, known>>

Rotated(entries) == Tail(entries) \o <<Head(entries)>>

(* The text yanked last makes room for the next entry of the ring.  The    *)
(* cursor may have been moved to where there is not as much before it: the *)
(* subtraction overflows and fish panics.                                  *)
YankPop ==
  /\ YankLen # 0
  /\ position >= YankLen
  /\ Command("yank-pop")
  /\ ring' = Rotated(ring)
  /\ PushEditOf(Edit(position - YankLen, position, Head(ring')), TRUE)
  /\ Len(text') <= Len(Given) + 1
  /\ yank_len' = Len(Head(ring'))
  /\ UNCHANGED <<kill_item, whole, clicked, ok, in_flight, known>>

YankPopPanics ==
  /\ phase = "read"
  /\ YankLen # 0
  /\ position < YankLen
  /\ phase' = "panicked"
  /\ UNCHANGED <<text, position, suggesting, ok, in_flight, requests, known,
                 killing, last_cmd, overtaken, uses>>

-----------------------------------------------------------------------------
Lines == UNION {[1..n -> Chars] : n \in 0..MaxLen}

KillRing ==
  \/ \E p \in 0..Len(text) : Click(p)
  \/ KillLine \/ KillWholeLine \/ KillWord \/ BackwardKillWord
  \/ Yank \/ YankPop \/ YankPopPanics

Suggesting ==
  \/ \E c \in Chars : TypeChar(c)
  \/ \E new \in Bursts : Burst(new)
  \/ \E start \in 0..Len(text) : DeleteChar(start)
  \/ \E new \in Lines : UndoOrRedo(new)
  \/ AcceptAll \/ AcceptNext \/ SuppressAutosuggestion
  \/ HistoryDelete \/ Execute \/ SetAutosuggestionEnabled

Reader ==
  \/ \E p \in 0..Len(text) : MoveCursor(p)
  \/ uses = "suggestions" /\ Suggesting
  \/ uses = "ring" /\ KillRing

Next == Update \/ Start \/ Compute \/ Serve \/ Reader

(* The reader comes round its loop and serves the main thread queue while  *)
(* it waits; the thread runs what it is given.                             *)
Fairness ==
  /\ WF_vars(Update) /\ WF_vars(Start) /\ WF_vars(Compute) /\ WF_vars(Serve)

Spec == Init /\ [][Next]_vars /\ Fairness

-----------------------------------------------------------------------------
Suggestions == [text : Text, end : Nat, whole : BOOLEAN, back : BOOLEAN]
Requests == [line : Text, cancelled : BOOLEAN]
Results == [line : Text, text : Text, whole : BOOLEAN, needs_load : BOOLEAN]

TypeOK ==
  /\ text \in Text /\ position \in 0..Len(text)
  /\ suggestion \in Suggestions /\ saved \in Suggestions
  /\ {suppress, ok, loaded, clicked} \subseteq BOOLEAN
  /\ in_flight \in Text
  /\ phase \in {"update", "read", "more", "panicked"}
  /\ next \subseteq Requests /\ \A r, s \in next : r = s
  /\ computing \subseteq Requests /\ \A r, s \in computing : r = s
  /\ results \in Seq(Results)
  /\ known \subseteq History
  /\ ring \in Seq(Text) /\ kill_item \in Text /\ yank_len \in Nat
  /\ whole \subseteq Text
  /\ uses = "ring" => suggestion = Nothing /\ in_flight = <<>>

(* Whatever was shown, kept aside and brought back continues the line up   *)
(* to where it says (the assertion of try_apply_edit_to_autosuggestion(),  *)
(* reader.rs:1804).                                                        *)
SuggestionFits ==
  \A s \in {suggestion, saved} \ {Nothing} :
    s.end <= Len(text) /\ IsPrefix(SubSeq(text, 1, s.end), s.text)

(* When a command finds the cursor at the suggestion, it is one for all of *)
(* the line: accept_autosuggestion() asserts it (reader.rs:4967), but its  *)
(* callers have only looked at the cursor.  A suggestion that is restored  *)
(* on a line shorter than what was typed over it, and which is in flight   *)
(* already, is the exception: update_autosuggestion() leaves it there.     *)
AcceptIsAtLine ==
  phase \in {"read", "more"} /\ IsAtAutosuggestion /\ ~suggestion.back => IsAtLine

(* When the user stops, the line gets the suggestion there is for it, if   *)
(* it may have one and its request was not overtaken by changes that led   *)
(* back to this line.                                                      *)
Settled ==
  \/ phase \in {"more", "panicked"}
  \/ phase = "read" /\ \/ IsAtLine
                       \/ ~CanAutosuggest
                       \/ Extending(text, known \union Completions) = {}
                       \/ overtaken = text

Settles == []<><<Reader>>_vars \/ <>[]Settled

(* Kills in a row and a yank leave the line as it was. *)
YankBringsBack ==
  [][Yank /\ whole # {} /\ last_cmd \in Killing => text' \in whole]_vars

(* What yank-pop is going to replace is what was yanked, unless a click    *)
(* moved the cursor.                                                       *)
YankPopTakesYank ==
  YankLen # 0 /\ ~clicked =>
    /\ position >= YankLen
    /\ SubSeq(text, position - YankLen + 1, position) = Head(ring)

(* The state is of its types, and neither assertion of the reader about    *)
(* autosuggestions fails.                                                  *)
SuggestionsConsistent == TypeOK /\ SuggestionFits /\ AcceptIsAtLine
=============================================================================
