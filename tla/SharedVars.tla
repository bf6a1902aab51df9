----------------------------- MODULE SharedVars -----------------------------
(***************************************************************************)
(* What the universal variables of src/src/env_universal_common.rs promise *)
(* to the shells that share them (the saving strategy in the comment of    *)
(* sync(), lines 187-213): there is one file of variables; every shell has *)
(* a view of it; its own changes stay in the view until they are committed *)
(* on top of whatever the file holds by then.  No lock, inode, descriptor  *)
(* or temporary file appears here: UniversalVariables implements this      *)
(* module (property SharedFile there).                                     *)
(*                                                                         *)
(* Outside the promise are shells that gave up locking: from then on a     *)
(* commit may put back what its shell read before (lines 207-213).  And a  *)
(* shell that is mistaken about the file, until it has read it again.      *)
(***************************************************************************)
CONSTANTS Shells, Vars, Values, Unset

VARIABLES
  file,       \* the variables of the file
  view,       \* the variables each shell sees
  pending,    \* the names each shell has changed and not committed
  exclusive,  \* does every shell still lock the file?
  mistaken    \* the shells that see something else than the file had for them

vars == <<file, view, pending, exclusive, mistaken>>

Table == [Vars -> Values \cup {Unset}]
Empty == [v \in Vars |-> Unset]

(* `table` with the entries of `top` for the names of `names`. *)
Overlay(table, top, names) == [v \in Vars |-> IF v \in names THEN top[v] ELSE table[v]]

Init ==
  /\ file \in Table
  /\ view = [s \in Shells |-> file]
  /\ pending = [s \in Shells |-> {}]
  /\ exclusive = TRUE /\ mistaken = {}

Change(s, v, x) ==
  /\ view' = [view EXCEPT ![s][v] = x]
  /\ pending' = [pending EXCEPT ![s] = @ \cup {v}]
  /\ UNCHANGED <<file, exclusive, mistaken>>

(* The shell takes over the changes of the others and keeps its own. *)
Refresh(s) ==
  /\ view' = [view EXCEPT ![s] = Overlay(file, @, pending[s])]
  /\ mistaken' = mistaken \ {s}
  /\ UNCHANGED <<file, pending, exclusive>>

(* It fails to, or what it sees was of another file: its own changes stay. *)
Misread(s, wrong) ==
  /\ view' = [view EXCEPT ![s] = Overlay(wrong, @, pending[s])]
  /\ mistaken' = mistaken \cup {s}
  /\ UNCHANGED <<file, pending, exclusive>>

Deceive(some) == mistaken' = mistaken \cup some /\ UNCHANGED <<file, view, pending, exclusive>>

Commit(s) ==
  /\ file' = Overlay(file, view[s], pending[s])
  /\ view' = [view EXCEPT ![s] = file']
  /\ pending' = [pending EXCEPT ![s] = {}]
  /\ mistaken' = mistaken \ {s}
  /\ UNCHANGED exclusive

GiveUpLocking == exclusive' = FALSE /\ UNCHANGED <<file, view, pending, mistaken>>

CommitStale(s) ==
  /\ ~exclusive \/ s \in mistaken
  /\ file' = view[s]
  /\ pending' = [pending EXCEPT ![s] = {}]
  /\ mistaken' = mistaken \ {s}
  /\ UNCHANGED <<view, exclusive>>

(* A shell is killed; another one starts in its place. *)
Crash(s) ==
  /\ view' = [view EXCEPT ![s] = Empty]
  /\ pending' = [pending EXCEPT ![s] = {}]
  /\ mistaken' = mistaken \ {s}
  /\ UNCHANGED <<file, exclusive>>

Next ==
  \/ \E s \in Shells : \/ Refresh(s) \/ Commit(s) \/ CommitStale(s) \/ Crash(s)
                       \/ \E v \in Vars, x \in Values \cup {Unset} : Change(s, v, x)
                       \/ \E wrong \in Table : Misread(s, wrong)
  \/ \E some \in SUBSET Shells : Deceive(some)
  \/ GiveUpLocking

Spec == Init /\ [][Next]_vars
=============================================================================
