------------------------ MODULE MCUniversalVariables ------------------------
(***************************************************************************)
(* The instance of UniversalVariables: without a file at the start, or     *)
(* with one that holds one variable, and then also with a later version.   *)
(***************************************************************************)
EXTENDS UniversalVariables

CONSTANTS u, v, s1, s2

MCVars == {u, v}
Old == [x \in MCVars |-> IF x = u THEN 1 ELSE Unset]
MCStarts == {[table |-> Empty, newer |-> {}],
             [table |-> Old, newer |-> {}], [table |-> Old, newer |-> {s2}]}
=============================================================================
