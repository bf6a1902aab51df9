---------------------------- MODULE MCLineEditor ----------------------------
EXTENDS LineEditor

HistoryItems == <<<<"a", " ", "b">>, <<"b">>, <<"a", " ", "b">>, <<"a">>>>
Times == HistoryItems[1] :> 2 @@ HistoryItems[2] :> 1 @@ HistoryItems[4] :> 3
OthersTexts == {HistoryItems[1]}
PastedTexts == {<<"a", "a">>}
ScriptedTexts == {<<>>}
=============================================================================
