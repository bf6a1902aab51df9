SPECIFICATION EditorSpec
CONSTANTS
  Space = " "
  Chars = {"a", "b", " "}
  Keys = {"a"}
  Pastes <- PastedTexts
  Scripted <- ScriptedTexts
  Recorded <- HistoryItems
  LastUsed <- Times
  Elsewhere <- OthersTexts
  MaxLine = 2
  MaxEdits = 2
  MaxGroups = 1
  Clicks = {0}
  MaxUnsaved = 1
INVARIANT NoSearchPanic
CHECK_DEADLOCK FALSE
