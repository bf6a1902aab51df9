---------------------------- MODULE MCCommandLine ----------------------------
EXTENDS CommandLine

HistoryItems == {<<"a", "b">>}
LoadedCompletions == {<<"b", "a">>}
GivenLine == <<"a", "b">>
PastedTexts == {<<"b">>}
=============================================================================
