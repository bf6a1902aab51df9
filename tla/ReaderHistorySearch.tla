------------------------- MODULE ReaderHistorySearch -------------------------
(***************************************************************************)
(* The reader's search through the history: src/src/reader_history_search.rs *)
(* and the HistorySearch of src/src/history.rs it drives, as operators     *)
(* from a search to a search.                                              *)
(*                                                                         *)
(* A history is a sequence of texts, the most recent first; the index 0 is *)
(* the line being edited.  Case is left out.  Of match_index and matches   *)
(* the first match is the searched text itself, so that matches[1] here is *)
(* matches[0] there; match_index is kept as it is.                         *)
(***************************************************************************)
EXTENDS EditableLine

Inactive == "inactive"
SearchModes == {"line", "prefix", "token"}

NoSearch ==
  [mode |-> Inactive, matches |-> <<>>, skips |-> {}, match_index |-> 0,
   offset |-> 0, current_index |-> 0]

Active(search) == search.mode # Inactive
AtPresent(search) == search.match_index = 0
SearchString(search) == search.matches[1]
CurrentResult(search) == search.matches[search.match_index + 1]

(* Beginning a new search; `suggestion` is skipped, it is on the screen.   *)
StartSearch(text, mode, offset, suggestion) ==
  [mode |-> mode, matches |-> <<text>>, skips |-> {text} \cup suggestion,
   match_index |-> 0, offset |-> offset, current_index |-> 0]

(* The words of a text, with where they begin. *)
Words(text) ==
  {r \in [start : 0..Len(text), end : 0..Len(text)] :
     /\ r.start < r.end
     /\ \A i \in (r.start + 1)..r.end : text[i] # Space
     /\ r.start > 0 => text[r.start] = Space
     /\ r.end < Len(text) => text[r.end + 1] = Space}

(* The word the cursor is in or beside, else the empty one at the cursor.  *)
TokenExtent(text, position) ==
  IF \E r \in Words(text) : r.start <= position /\ position <= r.end
  THEN CHOOSE r \in Words(text) : r.start <= position /\ position <= r.end
  ELSE [start |-> position, end |-> position]

HasText(text, part) ==
  \E i \in 0..(Len(text) - Len(part)) : SubSeq(text, i + 1, i + Len(part)) = part

MatchesSearch(search, item) ==
  IF search.mode = "prefix" THEN IsPrefix(SearchString(search), item)
  ELSE HasText(item, SearchString(search))

(* What an item of the history offers: itself, or its words that match,    *)
(* the last one first.                                                     *)
MatchingWords(search, item) ==
  {r \in Words(item) : HasText(Slice(item, r), SearchString(search))}

Offers(search, item) ==
  IF search.mode # "token" THEN <<item>>
  ELSE LET words == MatchingWords(search, item)
           starts == {r.start + 1 : r \in words}
           count == Cardinality(starts)
       IN [n \in 1..count |->
             Slice(item, CHOOSE r \in words : KeptOf(r.start + 1, starts) = count + 1 - n)]

(* Those that are not skipped and do not repeat one before are new matches. *)
FirstOffered(search, offers) ==
  {n \in DOMAIN offers :
     offers[n] \notin search.skips /\ \A m \in 1..(n - 1) : offers[m] # offers[n]}

AppendMatches(search, item) ==
  LET offers == Offers(search, item) IN
  [search EXCEPT !.skips = @ \cup {offers[n] : n \in DOMAIN offers},
                 !.matches = @ \o Kept(offers, FirstOffered(search, offers))]

-----------------------------------------------------------------------------
MoveForwards(search) ==
  [search EXCEPT !.match_index = IF @ > 0 THEN @ - 1 ELSE @]

(* The older items that match and bring something new. *)
Fruitful(search, history) ==
  {i \in (search.current_index + 1)..Len(history) :
     /\ MatchesSearch(search, history[i])
     /\ \E n \in DOMAIN Offers(search, history[i]) :
          Offers(search, history[i])[n] \notin search.skips}

(* First through the matches found before, then on through the history;    *)
(* the items passed over have nothing to offer that is not in `skips`.     *)
MoveBackwards(search, history) ==
  IF search.match_index + 1 < Len(search.matches)
  THEN [search EXCEPT !.match_index = @ + 1]
  ELSE IF Fruitful(search, history) = {}
  THEN [search EXCEPT !.current_index = Len(history) + 1]
  ELSE LET i == CHOOSE i \in Fruitful(search, history) :
                  \A j \in Fruitful(search, history) : i <= j
       IN [AppendMatches(search, history[i]) EXCEPT
             !.current_index = i, !.match_index = @ + 1]

GoToOldest(search) ==
  IF search.matches = <<>> THEN search
  ELSE [search EXCEPT !.match_index = Len(search.matches) - 1]

GoToPresent(search) == [search EXCEPT !.match_index = 0]

(* The deleted match goes, and the search steps back by one item, for the  *)
(* history has lost one; it asserts that it is past the line itself.       *)
MayDelete(search) == search.current_index # 0

(* Mutant: the search does not step back. *)
HandleDeletionInPlace(search, history) ==
  MoveBackwards([search EXCEPT !.matches = RemoveAt(@, search.match_index + 1),
                               !.match_index = @ - 1], history)

HandleDeletion(search, history) ==
  MoveBackwards([search EXCEPT !.matches = RemoveAt(@, search.match_index + 1),
                               !.match_index = @ - 1,
                               !.current_index = @ - 1], history)
=============================================================================
