SPECIFICATION Spec
CONSTANTS
  Space = " "
  Chars = {"a", "b"}
  Bursts <- PastedTexts
  History <- HistoryItems
  Completions <- LoadedCompletions
  MaxLen = 2
  MaxRing = 2
  Given <- GivenLine
  MaxResults = 1
  Uses = {"suggestions", "ring"}
INVARIANTS
  SuggestionsConsistent
  YankPopTakesYank
PROPERTIES
  Settles
  YankBringsBack
CHECK_DEADLOCK FALSE
