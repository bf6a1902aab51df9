SPECIFICATION EditorSpec
CONSTANTS
  Space = " "
  Chars = {"a", "b", " "}
  Keys = {"a"}
  Pastes <- PastedTexts
  Scripted <- ScriptedTexts
  Recorded <- HistoryItems
  LastUsed <- Times
  Elsewhere <- OthersTexts
  MaxLine = 2
  MaxEdits = 2
  MaxGroups = 1
  Clicks = {0}
  MaxUnsaved = 1
INVARIANTS
  SearchConsistent
PROPERTIES
  UndoPromised
  SearchTakesBack
CHECK_DEADLOCK FALSE
