---------------------------- MODULE Environment ----------------------------
(***************************************************************************)
(* The stack of variable scopes of src/src/env/environment_impl.rs         *)
(* (EnvScopedImpl, EnvStackImpl) and the cached array of what commands     *)
(* inherit.                                                                *)
(*                                                                         *)
(* Every operation runs under ENV_LOCK, so each is one step.  A chain of   *)
(* EnvNodes is a sequence, its innermost node last; the chain in use is on *)
(* top of the chains of the callers.  Path variables, electric variables   *)
(* and snapshots are left out.                                             *)
(***************************************************************************)
EXTENDS Naturals, Sequences, FiniteSets, SequencesExt

CONSTANTS
  Keys, Values,
  NoVar, NoArray,
  MaxDepth,      \* bound: local scopes at a time
  MaxGen,        \* bound: export generations of nodes
  MaxUvarGen,    \* bound: export generations of the universal variables
  MaxArrays,     \* bound: times the array is made
  MaxChanges     \* bound: variables set and erased

ASSUME EnvironmentAssumption ==
  /\ NoVar \notin Values /\ NoArray \notin [Keys -> Values \cup {NoVar}]
  /\ IsFiniteSet(Keys)
  /\ {MaxDepth, MaxUvarGen} \subseteq Nat \ {0} /\ {MaxGen, MaxArrays, MaxChanges} \subseteq Nat

VARIABLES
  globals,      \* the global node
  chains,       \* shadowed_locals, and locals on top
  uvars, uvar_gen,
  next_gen,     \* the last export generation given to a node
  export_array, export_array_generations, arrays,
  changes,
  unveiled      \* history: the array stopped to be right without a new generation

env_nodes == <<globals, chains, next_gen>>
universal == <<uvars, uvar_gen>>
cache == <<export_array, export_array_generations, arrays>>
vars == <<env_nodes, universal, cache, changes, unveiled>>

Vars == [val : Values, exports : BOOLEAN]
Tables == [Keys -> Vars \cup {[val |-> NoVar, exports |-> FALSE]}]
Unset == [val |-> NoVar, exports |-> FALSE]
NoVars == [k \in Keys |-> Unset]
Nodes == [env : Tables, new_scope : BOOLEAN, export_gen : 0..MaxGen]
Node(new_scope) == [env |-> NoVars, new_scope |-> new_scope, export_gen |-> 0]

Has(table, k) == table[k] # Unset
locals == Last(chains)
Scopes == {"local", "function", "global", "universal", "none"}
Modes == {"export", "unexport", "inherit"}

TypeOK ==
  /\ globals \in Nodes
  /\ chains \in Seq(Seq(Nodes)) /\ chains # <<>> /\ \A i \in DOMAIN chains : chains[i] # <<>>
  /\ uvars \in Tables /\ uvar_gen \in 1..MaxUvarGen
  /\ next_gen \in 0..MaxGen
  /\ export_array \in [Keys -> Values \cup {NoVar}] \cup {NoArray}
  /\ export_array_generations \in Seq(Nat)
  /\ arrays \in 0..MaxArrays /\ unveiled \in BOOLEAN /\ changes \in 0..MaxChanges

Init ==
  /\ globals = Node(FALSE) /\ chains = <<<<Node(FALSE)>>>>
  /\ uvars = NoVars /\ uvar_gen = 1
  /\ next_gen = 0
  /\ export_array = NoArray /\ export_array_generations = <<>> /\ arrays = 0
  /\ changes = 0 /\ unveiled = FALSE

-----------------------------------------------------------------------------
(* The innermost local node with the key, 0 if there is none. *)
FindInChain(chain, k) == SelectLastInSeq(chain, LAMBDA n : Has(n.env, k))

TryGetLocalIn(k, chain) ==
  LET i == FindInChain(chain, k) IN IF i = 0 THEN Unset ELSE chain[i].env[k]
TryGetLocal(k) == TryGetLocalIn(k, locals)

Or(a, b) == IF a = Unset THEN b ELSE a

(* getf() of a chain, a global node and universal variables: in the scope   *)
(* asked for or in all of them from the inside out.  The scope of the       *)
(* function is the outermost node of the chain.                             *)
GetfIn(k, scope, chain, global, universals) ==
  CASE scope = "local" -> TryGetLocalIn(k, chain)
    [] scope = "function" -> Head(chain).env[k]
    [] scope = "global" -> global.env[k]
    [] scope = "universal" -> universals[k]
    [] scope = "none" -> Or(TryGetLocalIn(k, chain), Or(global.env[k], universals[k]))

Getf(k, scope) == GetfIn(k, scope, locals, globals, uvars)

(* find_variable(): universal variables are not looked at. *)
FindVariable(k) == Or(TryGetLocal(k), globals.env[k])

-----------------------------------------------------------------------------
(* The changes of what commands inherit that take no new generation:        *)
(* hiding an exported variable by one that is not exported while a third    *)
(* hides both, removing one that hides, taking the export away from a       *)
(* universal variable, and leaving a scope that hides an exported variable  *)
(* without a generation of its own, as it was there first.                  *)
OuterExports(k, at) ==
  at # 0 /\ (globals.env[k].exports \/ \E j \in 1..(at - 1) : locals[j].env[k].exports)
HidesSilently(chain) ==
  \E k \in Keys, i \in DOMAIN chain :
    /\ Has(chain[i].env, k) /\ ~chain[i].env[k].exports /\ chain[i].export_gen = 0
    /\ globals.env[k].exports \/ \E j \in 1..i : chain[j].env[k].exports
Unveil(yes) == unveiled' = (unveiled \/ yes)

(* Mutant: what an inner scope does not export stays. *)
OverlayExports(table, node) ==
  [k \in Keys |-> IF node.env[k].exports THEN node.env[k] ELSE table[k]]

(* get_exported(): a node overwrites or erases what outer ones export. *)
Overlay(table, node) ==
  [k \in Keys |-> CASE ~Has(node.env, k) -> table[k]
                    [] node.env[k].exports -> node.env[k]
                    [] OTHER -> Unset]

(* What the global node and the first i nodes of a chain export. *)
Overlaid(global, chain) ==
  LET table[i \in 0..Len(chain)] ==
        IF i = 0 THEN Overlay(NoVars, global) ELSE Overlay(table[i - 1], chain[i])
  IN table

(* create_export_array(): universal variables only where nothing else is. *)
Inherited(table, universals) ==
  [k \in Keys |-> Or(table[k], IF universals[k].exports THEN universals[k] ELSE Unset).val]
Exported == Inherited(Overlaid(globals, locals)[Len(locals)], uvars)

(* enumerate_generations(): of the nodes that have one, from the inside out. *)
Own(node) == IF node.export_gen > 0 THEN <<node.export_gen>> ELSE <<>>
InnerGenerations(chain) ==
  LET gens[i \in 0..Len(chain)] == IF i = 0 THEN <<>> ELSE Own(chain[i]) \o gens[i - 1]
  IN gens
Generations == <<uvar_gen>> \o Own(globals) \o InnerGenerations(locals)[Len(locals)]

NeedsRegeneration == export_array = NoArray \/ export_array_generations # Generations

(* export_array().  The generations of the new array are added to those of  *)
(* the one before, which are not taken away.                                *)
ExportArray ==
  /\ NeedsRegeneration /\ arrays < MaxArrays
  /\ arrays' = arrays + 1
  /\ export_array' = Exported
  /\ export_array_generations' = export_array_generations \o Generations
  /\ unveiled' = \E i \in DOMAIN chains : HidesSilently(chains[i])
  /\ UNCHANGED <<env_nodes, universal, changes>>

-----------------------------------------------------------------------------
Resolved(old, mode) ==
  CASE mode = "export" -> TRUE [] mode = "unexport" -> FALSE [] mode = "inherit" -> old.exports

Write(node, k, var, changed) ==
  [node EXCEPT !.env[k] = var, !.export_gen = IF changed THEN next_gen' ELSE @]

(* changed_exported(): n generations are taken. *)
NextGenerations(n) == next_gen' = next_gen + n /\ next_gen' <= MaxGen

(* Node `at` of the chain in use, 0 for the global one. *)
NodeAt(at) == IF at = 0 THEN globals ELSE locals[at]
Replace(at, node) ==
  IF at = 0 THEN globals' = node /\ UNCHANGED chains
  ELSE chains' = [chains EXCEPT ![Len(chains)][at] = node] /\ UNCHANGED globals

(* Mutant: what a new variable hides is forgotten. *)
SetInNodePlainly(k, at, v, mode) ==
  LET node == NodeAt(at)
      exports == Resolved(node.env[k], mode)
      written == Write(node, k, [val |-> v, exports |-> exports], exports)
  IN /\ NextGenerations(IF exports THEN 1 ELSE 0)
     /\ Replace(at, written)
     /\ UNCHANGED <<universal, cache>>
     /\ Unveil(FALSE)

(* set_in_node(): the node changes its generation if the variable is        *)
(* exported or the one seen before was, which it now hides.                 *)
SetInNode(k, at, v, mode) ==
  LET node == NodeAt(at)
      exports == Resolved(node.env[k], mode)
      changed == exports \/ FindVariable(k).exports
      written == Write(node, k, [val |-> v, exports |-> exports], changed)
  IN /\ NextGenerations(IF changed THEN 1 ELSE 0)
     /\ Replace(at, written)
     /\ UNCHANGED <<universal, cache>>
     /\ Unveil(/\ ~changed
               /\ node.env[k].exports \/ (~Has(node.env, k) /\ OuterExports(k, at)))

(* set_universal() and EnvUniversal::set(): only a new value that is        *)
(* exported counts.                                                         *)
SetUniversal(k, v, mode) ==
  LET var == [val |-> v, exports |-> Resolved(uvars[k], mode)]
  IN /\ uvars' = [uvars EXCEPT ![k] = var]
     /\ uvar_gen' = uvar_gen + (IF var # uvars[k] /\ var.exports THEN 1 ELSE 0)
     /\ uvar_gen' <= MaxUvarGen
     /\ UNCHANGED <<env_nodes, cache>>
     /\ Unveil(uvars[k].exports /\ ~var.exports)

(* resolve_unspecified_scope(): the function if there is one. *)
UnspecifiedScope == IF Head(locals).new_scope THEN <<"local", 1>> ELSE <<"global", 0>>

(* Mutant: a variable of an outer block is not found. *)
PlaceOfOwn(k, scope) ==
  CASE scope = "local" -> <<"local", Len(locals)>>
    [] scope = "function" -> <<"local", 1>>
    [] scope = "global" -> <<"global", 0>>
    [] scope = "universal" -> <<"universal", 0>>
    [] scope = "none" ->
         CASE Has(Last(locals).env, k) -> <<"local", Len(locals)>>
           [] Has(globals.env, k) /\ ~Has(Last(locals).env, k) -> <<"global", 0>>
           [] Has(uvars, k) /\ Getf(k, "none") = uvars[k] -> <<"universal", 0>>
           [] OTHER -> UnspecifiedScope

(* Where set() puts a variable: in the scope asked for, else where there is *)
(* one, else in the default scope.                                          *)
Place(k, scope) ==
  CASE scope = "local" -> <<"local", Len(locals)>>
    [] scope = "function" -> <<"local", 1>>
    [] scope = "global" -> <<"global", 0>>
    [] scope = "universal" -> <<"universal", 0>>
    [] scope = "none" ->
         CASE TryGetLocal(k) # Unset -> <<"local", FindInChain(locals, k)>>
           [] TryGetLocal(k) = Unset /\ Has(globals.env, k) -> <<"global", 0>>
           [] FindVariable(k) = Unset /\ Has(uvars, k) -> <<"universal", 0>>
           [] OTHER -> UnspecifiedScope

(* set() *)
Set(k, scope, mode, v) ==
  LET place == Place(k, scope)
  IN \/ place[1] = "universal" /\ SetUniversal(k, v, mode)
     \/ place[1] # "universal" /\ SetInNode(k, place[2], v, mode)

-----------------------------------------------------------------------------
(* remove_from_chain(): a new generation only if the variable was exported. *)
RemoveFromNode(k, at) ==
  LET node == NodeAt(at)
      changed == node.env[k].exports
      written == Write(node, k, Unset, changed)
  IN /\ NextGenerations(IF changed THEN 1 ELSE 0)
     /\ Replace(at, written)
     /\ UNCHANGED <<universal, cache>>
     /\ Unveil(~changed /\ OuterExports(k, at))

RemoveUniversal(k) ==
  /\ uvars' = [uvars EXCEPT ![k] = Unset]
  /\ uvar_gen' = uvar_gen + (IF uvars[k].exports THEN 1 ELSE 0)
  /\ uvar_gen' <= MaxUvarGen
  /\ UNCHANGED <<env_nodes, cache>>
  /\ Unveil(FALSE)

Erase(k, scope) ==
  LET at == FindInChain(locals, k)
  IN \/ scope \in {"local", "none"} /\ at # 0 /\ RemoveFromNode(k, at)
     \/ scope = "function" /\ Has(Head(locals).env, k) /\ RemoveFromNode(k, 1)
     \/ scope = "global" /\ Has(globals.env, k) /\ RemoveFromNode(k, 0)
     \/ scope = "none" /\ at = 0 /\ Has(globals.env, k) /\ RemoveFromNode(k, 0)
     \/ /\ scope = "universal" \/ (scope = "none" /\ FindVariable(k) = Unset)
        /\ Has(uvars, k) /\ RemoveUniversal(k)

(* Mutant: outer scopes overwrite inner ones. *)
PassedFromOuter(k) ==
  LET i == SelectInSeq(locals, LAMBDA n : n.env[k].exports)
  IN IF i = 0 THEN Unset ELSE locals[i].env[k]

(* The exported local variable that push_shadowing() hands to a function:   *)
(* the innermost of its name.                                               *)
Passed(k) ==
  LET i == SelectLastInSeq(locals, LAMBDA n : n.env[k].exports)
  IN IF i = 0 THEN Unset ELSE locals[i].env[k]

ExportedLocals == {p \in (DOMAIN locals) \X Keys : locals[p[1]].env[p[2]].exports}
Depth == FoldLeft(LAMBDA d, c : d + Len(c), 0, chains)

(* A function is called: push_shadowing() takes a generation for each       *)
(* variable it comes across that is exported.                               *)
PushShadowing ==
  /\ Depth < MaxDepth
  /\ NextGenerations(Cardinality(ExportedLocals))
  /\ chains' = Append(chains, <<[env |-> [k \in Keys |-> Passed(k)], new_scope |-> TRUE,
                                 export_gen |-> IF ExportedLocals = {} THEN 0 ELSE next_gen']>>)
  /\ UNCHANGED <<globals, universal, cache, changes>>
  /\ Unveil(FALSE)

(* A block begins. *)
PushNonshadowing ==
  /\ Depth < MaxDepth
  /\ chains' = [chains EXCEPT ![Len(chains)] = Append(@, Node(FALSE))]
  /\ UNCHANGED <<globals, next_gen, universal, cache, changes>>
  /\ Unveil(FALSE)

(* A block ends, or a function returns. *)
Pop ==
  /\ \/ /\ Len(locals) > 1
        /\ chains' = [chains EXCEPT ![Len(chains)] = Front(@)]
     \/ /\ Len(locals) = 1 /\ Len(chains) > 1
        /\ chains' = Front(chains)
  /\ UNCHANGED <<globals, next_gen, universal, cache, changes>>
  /\ Unveil(FALSE)

(* Another shell changes a universal variable and it is synchronised:       *)
(* generate_callbacks_and_update_exports().                                 *)
Acquire(k, var) ==
  /\ var # uvars[k]
  /\ uvars' = [uvars EXCEPT ![k] = var]
  /\ uvar_gen' = uvar_gen + (IF (Has(uvars, k) /\ var # Unset) \/ var.exports # uvars[k].exports
                             THEN 1 ELSE 0)
  /\ uvar_gen' <= MaxUvarGen
  /\ UNCHANGED <<env_nodes, cache>>
  /\ Unveil(FALSE)

Next ==
  \/ /\ changes < MaxChanges /\ changes' = changes + 1
     /\ \E k \in Keys :
       \/ \E scope \in Scopes :
            \/ \E mode \in Modes, v \in Values : Set(k, scope, mode, v)
            \/ Erase(k, scope)
       \/ \E v \in Values, exports \in BOOLEAN : Acquire(k, [val |-> v, exports |-> exports])
       \/ Acquire(k, Unset)
  \/ PushShadowing \/ PushNonshadowing \/ Pop \/ ExportArray

Spec == Init /\ [][Next]_vars

-----------------------------------------------------------------------------
(* The array that a command is given is the one that would be made now: a   *)
(* change of what is exported, by popping a scope, hiding a variable or in  *)
(* another shell, takes a new generation; but for what Unveil() is about,   *)
(* and for the first array only, as the next ones keep old generations.     *)
ArrayFresh ==
  arrays = 1 /\ ~unveiled /\ ~NeedsRegeneration => export_array = Exported

(* Commands inherit what the shell itself sees: a variable that is exported *)
(* has the value that is looked up, and one that is seen and not exported   *)
(* is not inherited, unless a universal one is ("a longstanding bug").      *)
ExportedIsSeen ==
  \A k \in Keys :
    LET var == Getf(k, "none")
    IN IF var.exports THEN Exported[k] = var.val
       ELSE Exported[k] = NoVar \/ (uvars[k].exports /\ Exported[k] = uvars[k].val)

(* What is set is seen: a variable written to the place that set() chooses *)
(* for a scope, or without one, is what a lookup there finds.               *)
SetIsSeen ==
  \A k \in Keys, scope \in Scopes :
    LET at == Place(k, scope)
        new == [val |-> NoVar, exports |-> TRUE]
    IN GetfIn(k, scope,
              IF at[1] = "local" THEN [locals EXCEPT ![at[2]].env[k] = new] ELSE locals,
              IF at[1] = "global" THEN [globals EXCEPT !.env[k] = new] ELSE globals,
              IF at[1] = "universal" THEN [uvars EXCEPT ![k] = new] ELSE uvars) = new

(* A call passes the exported variables on: commands run by the function    *)
(* inherit what they did before, as long as no local variable that is not   *)
(* exported stands before one that is.                                      *)
CallKeepsExports ==
  [][/\ Len(chains') > Len(chains)
     /\ \A k \in Keys : TryGetLocal(k) # Unset => TryGetLocal(k).exports
     => Exported' = Exported]_vars

(* The state is of its types, with a scope on every stack, and what is set *)
(* is what is found.                                                       *)
LookupsConsistent == TypeOK /\ SetIsSeen
=============================================================================
