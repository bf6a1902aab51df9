-------------------------- MODULE EnvironmentProofs --------------------------
(***************************************************************************)
(* Proofs about Environment, for any names, values, depth of scopes and    *)
(* bounds: that lookup and setting agree, that commands inherit what the   *)
(* shell sees, that a call passes it on, and that a cached array whose     *)
(* generations match is the one that would be made.                        *)
(***************************************************************************)
EXTENDS Environment, FiniteSetTheorems, SequenceTheorems, TLAPS

Chain == Seq(Nodes)
Variable == Vars \cup {Unset}

-----------------------------------------------------------------------------
(* Numbers, and the innermost node of a chain.                               *)

LEMMA LeastNatural ==
  ASSUME NEW S \in SUBSET Nat, S # {}
  PROVE  \E x \in S : \A y \in S : x <= y
  <1>1. IsWellFoundedOn(OpToRel(<, Nat), Nat)
    BY NatLessThanWellFounded
  <1>2. PICK x \in S : \A y \in S : ~ (<<y, x>> \in OpToRel(<, Nat))
    BY <1>1, WFMin
  <1>3. \A y \in S : ~ (y < x)
    BY <1>2 DEF OpToRel
  <1> QED  BY <1>3

(* Of some of the places of a chain one is the innermost. *)
LEMMA Innermost ==
  ASSUME NEW n \in Nat, NEW S \in SUBSET (1..n), S # {}
  PROVE  Max(S) \in S /\ \A j \in S : Max(S) >= j
  <1> DEFINE Outside == {n - i : i \in S}
  <1>1. Outside \in SUBSET Nat /\ Outside # {}
    <2>1. PICK i : i \in S
      OBVIOUS
    <2>2. n - i \in Outside
      BY <2>1
    <2>3. \A j \in S : n - j \in Nat
      OBVIOUS
    <2> QED  BY <2>2, <2>3
  <1>2. PICK d \in Outside : \A e \in Outside : d <= e
    <2> HIDE DEF Outside
    <2> QED  BY <1>1, LeastNatural
  <1>3. PICK i \in S : d = n - i
    BY <1>2
  <1>4. ASSUME NEW j \in S  PROVE  i >= j
    <2>1. n - j \in Outside
      OBVIOUS
    <2>2. n - i <= n - j
      BY <1>2, <1>3, <2>1
    <2> QED  BY <2>2
  <1> QED  BY <1>3, <1>4 DEF Max

(* FindInChain() is the innermost node with the key. *)
LEMMA FindInAny ==
  ASSUME NEW chain, Len(chain) \in Nat, NEW k
  PROVE  \/ /\ FindInChain(chain, k) = 0
            /\ \A j \in 1..Len(chain) : ~Has(chain[j].env, k)
         \/ /\ FindInChain(chain, k) \in 1..Len(chain)
            /\ Has(chain[FindInChain(chain, k)].env, k)
            /\ \A j \in 1..Len(chain) :
                 j > FindInChain(chain, k) => ~Has(chain[j].env, k)
  <1> DEFINE With == {i \in 1..Len(chain) : Has(chain[i].env, k)}
  <1>1. Len(chain) \in Nat /\ With \in SUBSET (1..Len(chain))
    OBVIOUS
  <1>2. FindInChain(chain, k) = IF With # {} THEN Max(With) ELSE 0
    BY DEF FindInChain, SelectLastInSeq
  <1>3. With # {} => Max(With) \in With /\ \A j \in With : Max(With) >= j
    <2> HIDE DEF With
    <2> QED  BY <1>1, Innermost
  <1>4. CASE With = {}
    BY <1>2, <1>4
  <1>5. CASE With # {}
    <2>1. FindInChain(chain, k) \in With /\ \A j \in With : FindInChain(chain, k) >= j
      BY <1>2, <1>3, <1>5
    <2>2. FindInChain(chain, k) \in 1..Len(chain) /\ Has(chain[FindInChain(chain, k)].env, k)
      BY <2>1
    <2>3. ASSUME NEW j \in 1..Len(chain), j > FindInChain(chain, k)
          PROVE  ~Has(chain[j].env, k)
      <3> SUFFICES ASSUME Has(chain[j].env, k)  PROVE FALSE
        OBVIOUS
      <3>1. j \in With
        OBVIOUS
      <3> HIDE DEF With
      <3> QED  BY <1>1, <2>1, <2>2, <2>3, <3>1
    <2> QED  BY <2>2, <2>3
  <1> QED  BY <1>4, <1>5

LEMMA FindInChainLemma ==
  ASSUME NEW chain \in Chain, NEW k
  PROVE  \/ /\ FindInChain(chain, k) = 0
            /\ \A j \in 1..Len(chain) : ~Has(chain[j].env, k)
         \/ /\ FindInChain(chain, k) \in 1..Len(chain)
            /\ Has(chain[FindInChain(chain, k)].env, k)
            /\ \A j \in 1..Len(chain) :
                 j > FindInChain(chain, k) => ~Has(chain[j].env, k)
  <1>1. Len(chain) \in Nat
    BY DEF Chain
  <1> QED  BY <1>1, FindInAny

-----------------------------------------------------------------------------
(* The recursive functions: that they exist, and what they are.             *)

LEMMA OverlaidSteps ==
  ASSUME NEW global, NEW chain \in Chain
  PROVE  Overlaid(global, chain) =
           [i \in 0..Len(chain) |->
              IF i = 0 THEN Overlay(NoVars, global)
              ELSE Overlay(Overlaid(global, chain)[i - 1], chain[i])]
  <1> DEFINE Steps(f, n) ==
               f = [i \in 0..n |-> IF i = 0 THEN Overlay(NoVars, global)
                                   ELSE Overlay(f[i - 1], chain[i])]
             Missing == {n \in Nat : ~ \E f : Steps(f, n)}
  <1>1. Missing = {}
    <2> SUFFICES ASSUME Missing # {}  PROVE FALSE
      OBVIOUS
    <2>1. PICK n \in Missing : \A m \in Missing : n <= m
      <3>1. Missing \in SUBSET Nat
        OBVIOUS
      <3> HIDE DEF Missing
      <3> QED  BY <3>1, LeastNatural
    <2>2. n # 0
      <3> DEFINE b == [i \in 0..0 |-> Overlay(NoVars, global)]
      <3>1. \A i \in 0..0 : b[i] = IF i = 0 THEN Overlay(NoVars, global) ELSE Overlay(b[i - 1], chain[i])
        OBVIOUS
      <3>2. b = [i \in 0..0 |-> b[i]]
        OBVIOUS
      <3>3. Steps(b, 0)
        <4> HIDE DEF b
        <4> QED  BY <3>1, <3>2
      <3> QED  BY <3>3, <2>1
    <2>3. n \in Nat /\ n - 1 \in Nat /\ n - 1 \notin Missing
      <3>1. n \in Nat
        OBVIOUS
      <3> HIDE DEF Missing
      <3> QED  BY <2>1, <2>2, <3>1
    <2>4. PICK f : Steps(f, n - 1)
      BY <2>3
    <2> DEFINE g == [i \in 0..n |-> IF i < n THEN f[i] ELSE Overlay(f[n - 1], chain[n])]
    <2>5. ASSUME NEW i \in 0..n
          PROVE  g[i] = IF i = 0 THEN Overlay(NoVars, global) ELSE Overlay(g[i - 1], chain[i])
      <3>1. CASE i < n
        <4>1. i \in 0..(n - 1) /\ (i # 0 => i - 1 \in 0..n /\ i - 1 < n)
          BY <3>1, <2>3
        <4>2. g[i] = f[i] /\ (i # 0 => g[i - 1] = f[i - 1])
          BY <4>1, <3>1
        <4>3. f[i] = IF i = 0 THEN Overlay(NoVars, global) ELSE Overlay(f[i - 1], chain[i])
          BY <4>1, <2>4
        <4> QED  BY <4>2, <4>3
      <3>2. CASE i = n
        <4>1. g[i] = Overlay(f[n - 1], chain[n]) /\ g[n - 1] = f[n - 1]
          BY <3>2, <2>3
        <4> QED  BY <4>1, <3>2, <2>2
      <3> QED  BY <3>1, <3>2
    <2>6. Steps(g, n)
      <3>1. g = [i \in 0..n |-> g[i]]
        OBVIOUS
      <3> HIDE DEF g
      <3> QED  BY <2>5, <3>1
    <2> QED  BY <2>6, <2>1
  <1>2. Len(chain) \in Nat
    BY DEF Chain
  <1>3. \E f : Steps(f, Len(chain))
    BY <1>1, <1>2
  <1>4. Overlaid(global, chain) = CHOOSE f : Steps(f, Len(chain))
    BY DEF Overlaid
  <1>5. Steps(Overlaid(global, chain), Len(chain))
    <2> HIDE DEF Steps
    <2> QED  BY <1>3, <1>4
  <1> QED  BY <1>5

LEMMA InnerGenerationsSteps ==
  ASSUME NEW chain \in Chain
  PROVE  InnerGenerations(chain) =
           [i \in 0..Len(chain) |->
              IF i = 0 THEN <<>> ELSE Own(chain[i]) \o InnerGenerations(chain)[i - 1]]
  <1> DEFINE Steps(f, n) ==
               f = [i \in 0..n |-> IF i = 0 THEN <<>> ELSE Own(chain[i]) \o f[i - 1]]
             Missing == {n \in Nat : ~ \E f : Steps(f, n)}
  <1>1. Missing = {}
    <2> SUFFICES ASSUME Missing # {}  PROVE FALSE
      OBVIOUS
    <2>1. PICK n \in Missing : \A m \in Missing : n <= m
      <3>1. Missing \in SUBSET Nat
        OBVIOUS
      <3> HIDE DEF Missing
      <3> QED  BY <3>1, LeastNatural
    <2>2. n # 0
      <3> DEFINE b == [i \in 0..0 |-> <<>>]
      <3>1. \A i \in 0..0 : b[i] = IF i = 0 THEN <<>> ELSE Own(chain[i]) \o b[i - 1]
        OBVIOUS
      <3>2. b = [i \in 0..0 |-> b[i]]
        OBVIOUS
      <3>3. Steps(b, 0)
        <4> HIDE DEF b
        <4> QED  BY <3>1, <3>2
      <3> QED  BY <3>3, <2>1
    <2>3. n \in Nat /\ n - 1 \in Nat /\ n - 1 \notin Missing
      <3>1. n \in Nat
        OBVIOUS
      <3> HIDE DEF Missing
      <3> QED  BY <2>1, <2>2, <3>1
    <2>4. PICK f : Steps(f, n - 1)
      BY <2>3
    <2> DEFINE g == [i \in 0..n |-> IF i < n THEN f[i] ELSE Own(chain[n]) \o f[n - 1]]
    <2>5. ASSUME NEW i \in 0..n
          PROVE  g[i] = IF i = 0 THEN <<>> ELSE Own(chain[i]) \o g[i - 1]
      <3>1. CASE i < n
        <4>1. i \in 0..(n - 1) /\ (i # 0 => i - 1 \in 0..n /\ i - 1 < n)
          BY <3>1, <2>3
        <4>2. g[i] = f[i] /\ (i # 0 => g[i - 1] = f[i - 1])
          BY <4>1, <3>1
        <4>3. f[i] = IF i = 0 THEN <<>> ELSE Own(chain[i]) \o f[i - 1]
          BY <4>1, <2>4
        <4> QED  BY <4>2, <4>3
      <3>2. CASE i = n
        <4>1. g[i] = Own(chain[n]) \o f[n - 1] /\ g[n - 1] = f[n - 1]
          BY <3>2, <2>3
        <4> QED  BY <4>1, <3>2, <2>2
      <3> QED  BY <3>1, <3>2
    <2>6. Steps(g, n)
      <3>1. g = [i \in 0..n |-> g[i]]
        OBVIOUS
      <3> HIDE DEF g
      <3> QED  BY <2>5, <3>1
    <2> QED  BY <2>6, <2>1
  <1>2. Len(chain) \in Nat
    BY DEF Chain
  <1>3. \E f : Steps(f, Len(chain))
    BY <1>1, <1>2
  <1>4. InnerGenerations(chain) = CHOOSE f : Steps(f, Len(chain))
    BY DEF InnerGenerations
  <1>5. Steps(InnerGenerations(chain), Len(chain))
    <2> HIDE DEF Steps
    <2> QED  BY <1>3, <1>4
  <1> QED  BY <1>5

-----------------------------------------------------------------------------
(* What is exported: the innermost node with the key decides.               *)

Shown(node, k) == IF node.env[k].exports THEN node.env[k] ELSE Unset

LEMMA VariableTypes ==
  ASSUME NEW table \in Tables, NEW k \in Keys
  PROVE  /\ table[k] \in Variable /\ table[k].exports \in BOOLEAN
         /\ Has(table, k) <=> table[k] \in Vars
         /\ table[k].exports => Has(table, k)
         /\ Has(table, k) => table[k].val \in Values
         /\ table[k].val \in Values \cup {NoVar} /\ Unset.exports = FALSE /\ Unset.val = NoVar
  <1>1. table[k] \in Variable
    BY DEF Tables, Variable, Unset
  <1>2. Unset \notin Vars /\ Unset.exports = FALSE /\ Unset.val = NoVar
    BY EnvironmentAssumption DEF Vars, Unset
  <1>3. \A var \in Vars : var.exports \in BOOLEAN /\ var.val \in Values
    BY DEF Vars
  <1> QED  BY <1>1, <1>2, <1>3 DEF Variable, Has

LEMMA NodeTypes ==
  ASSUME NEW node \in Nodes
  PROVE  node.env \in Tables /\ node.export_gen \in Nat /\ node.new_scope \in BOOLEAN
  BY EnvironmentAssumption DEF Nodes

LEMMA ChainTypes ==
  ASSUME NEW chain \in Chain
  PROVE  Len(chain) \in Nat /\ DOMAIN chain = 1..Len(chain)
         /\ \A i \in 1..Len(chain) : chain[i] \in Nodes
  BY DEF Chain

LEMMA OverlayAt ==
  ASSUME NEW table, NEW node \in Nodes, NEW k \in Keys
  PROVE  Overlay(table, node)[k] = IF Has(node.env, k) THEN Shown(node, k) ELSE table[k]
  <1>1. node.env[k].exports \in BOOLEAN
    BY NodeTypes, VariableTypes
  <1>2. Overlay(table, node)[k] = CASE ~Has(node.env, k) -> table[k]
                                   [] node.env[k].exports -> node.env[k]
                                   [] OTHER -> Unset
    BY DEF Overlay
  <1>3. CASE ~Has(node.env, k)
    <2>1. ~ node.env[k].exports
      BY <1>3, NodeTypes, VariableTypes
    <2> QED  BY <1>2, <1>3, <2>1
  <1>4. CASE Has(node.env, k)
    BY <1>1, <1>2, <1>4 DEF Shown
  <1> QED  BY <1>3, <1>4

LEMMA OverlaidShows ==
  ASSUME NEW global \in Nodes, NEW chain \in Chain, NEW k \in Keys, NEW n \in 0..Len(chain)
  PROVE  /\ (\A j \in 1..n : ~Has(chain[j].env, k))
              => Overlaid(global, chain)[n][k] = Shown(global, k)
         /\ \A j \in 1..n :
              Has(chain[j].env, k) /\ (\A m \in 1..n : m > j => ~Has(chain[m].env, k))
                => Overlaid(global, chain)[n][k] = Shown(chain[j], k)
  <1> DEFINE T(i) == Overlaid(global, chain)[i][k]
             Shows(i) ==
               /\ (\A j \in 1..i : ~Has(chain[j].env, k)) => T(i) = Shown(global, k)
               /\ \A j \in 1..i :
                    Has(chain[j].env, k) /\ (\A m \in 1..i : m > j => ~Has(chain[m].env, k))
                      => T(i) = Shown(chain[j], k)
             Wrong == {i \in 0..Len(chain) : ~Shows(i)}
  <1>1. Len(chain) \in Nat /\ \A i \in 1..Len(chain) : chain[i] \in Nodes
    BY ChainTypes
  <1>2. T(0) = Shown(global, k)
    <2>1. Overlaid(global, chain)[0] = Overlay(NoVars, global)
      BY OverlaidSteps, <1>1
    <2>2. T(0) = IF Has(global.env, k) THEN Shown(global, k) ELSE NoVars[k]
      BY <2>1, OverlayAt
    <2>3. ~Has(global.env, k) => Shown(global, k) = Unset
      BY NodeTypes, VariableTypes DEF Shown
    <2> QED  BY <2>2, <2>3 DEF NoVars
  <1>3. ASSUME NEW i \in 1..Len(chain)
        PROVE  T(i) = IF Has(chain[i].env, k) THEN Shown(chain[i], k) ELSE T(i - 1)
    <2>1. i \in 0..Len(chain) /\ i # 0 /\ chain[i] \in Nodes
      BY <1>1
    <2>2. Overlaid(global, chain)[i] = Overlay(Overlaid(global, chain)[i - 1], chain[i])
      BY OverlaidSteps, <1>1, <2>1
    <2> QED  BY <2>1, <2>2, OverlayAt
  <1>4. Wrong = {}
    <2> SUFFICES ASSUME Wrong # {}  PROVE FALSE
      OBVIOUS
    <2>1. PICK i \in Wrong : \A j \in Wrong : i <= j
      <3>1. Wrong \in SUBSET Nat
        BY <1>1
      <3> HIDE DEF Wrong
      <3> QED  BY <3>1, LeastNatural
    <2>2. i \in 0..Len(chain) /\ ~Shows(i)
      OBVIOUS
    <2> HIDE DEF T
    <2>3. CASE i = 0
      <3>1. Shows(0)
        BY <1>2
      <3> QED  BY <3>1, <2>2, <2>3
    <2>4. CASE i # 0
      <3>1. i \in 1..Len(chain) /\ i - 1 \in 0..Len(chain) /\ i - 1 < i
        BY <1>1, <2>2, <2>4
      <3>2. Shows(i - 1)
        <4>1. i - 1 \notin Wrong
          <5> HIDE DEF Wrong
          <5> QED  BY <2>1, <2>2, <3>1
        <4> QED  BY <3>1, <4>1
      <3>3. (\A j \in 1..i : ~Has(chain[j].env, k)) => T(i) = Shown(global, k)
        <4>1. (\A j \in 1..i : ~Has(chain[j].env, k)) => \A j \in 1..(i - 1) : ~Has(chain[j].env, k)
          BY <3>1
        <4>2. i \in 1..i
          BY <3>1
        <4> QED  BY <4>1, <4>2, <3>2, <3>1, <1>3
      <3>4. ASSUME NEW j \in 1..i, Has(chain[j].env, k),
                   \A m \in 1..i : m > j => ~Has(chain[m].env, k)
            PROVE  T(i) = Shown(chain[j], k)
        <4>1. CASE j = i
          BY <4>1, <3>1, <3>4, <1>3
        <4>2. CASE j # i
          <5>1. j \in 1..(i - 1) /\ i > j /\ i \in 1..i
            BY <4>2, <3>1
          <5>2. T(i) = T(i - 1)
            BY <5>1, <3>1, <3>4, <1>3
          <5>3. \A m \in 1..(i - 1) : m \in 1..i
            BY <3>1
          <5>4. T(i - 1) = Shown(chain[j], k)
            BY <5>1, <5>3, <3>2, <3>4
          <5> QED  BY <5>2, <5>4
        <4> QED  BY <4>1, <4>2
      <3> QED  BY <3>3, <3>4, <2>2
    <2> QED  BY <2>3, <2>4
  <1>5. Shows(n)
    BY <1>4
  <1> QED  BY <1>5

(* What the whole chain shows of a variable. *)
LEMMA ChainShows ==
  ASSUME NEW global \in Nodes, NEW chain \in Chain, NEW k \in Keys
  PROVE  Overlaid(global, chain)[Len(chain)][k] =
           IF FindInChain(chain, k) = 0 THEN Shown(global, k)
           ELSE Shown(chain[FindInChain(chain, k)], k)
  <1>1. Len(chain) \in Nat /\ Len(chain) \in 0..Len(chain)
    BY ChainTypes
  <1> QED  BY <1>1, OverlaidShows, FindInChainLemma

-----------------------------------------------------------------------------
(* The generations: which ones are compared.                                *)

Recorded(generations) == {generations[n] : n \in 2..Len(generations)}
GensTo(global, chain, i) ==
  ({global.export_gen} \cup {chain[j].export_gen : j \in 1..i}) \ {0}

LEMMA RangeConcat ==
  ASSUME NEW s \in Seq(Nat), NEW t \in Seq(Nat)
  PROVE  s \o t \in Seq(Nat) /\ Range(s \o t) = Range(s) \cup Range(t)
  <1>1. /\ Len(s) \in Nat /\ Len(t) \in Nat /\ Len(s \o t) = Len(s) + Len(t)
        /\ s \o t \in Seq(Nat)
        /\ \A i \in 1..(Len(s) + Len(t)) :
             (s \o t)[i] = IF i <= Len(s) THEN s[i] ELSE t[i - Len(s)]
    OBVIOUS
  <1>2. DOMAIN s = 1..Len(s) /\ DOMAIN t = 1..Len(t) /\ DOMAIN (s \o t) = 1..(Len(s) + Len(t))
    BY <1>1
  <1>3. \A i \in 1..Len(s) : i \in 1..(Len(s) + Len(t)) /\ (s \o t)[i] = s[i]
    BY <1>1
  <1>4. \A i \in 1..Len(t) : Len(s) + i \in 1..(Len(s) + Len(t)) /\ (s \o t)[Len(s) + i] = t[i]
    BY <1>1
  <1>5. \A i \in 1..(Len(s) + Len(t)) : i \in 1..Len(s) \/ i - Len(s) \in 1..Len(t)
    BY <1>1
  <1> DEFINE u == s \o t
  <1>6. DOMAIN u = 1..(Len(s) + Len(t)) /\ u \in Seq(Nat)
    BY <1>1, <1>2
  <1>7. ASSUME NEW x \in Range(u)  PROVE  x \in Range(s) \cup Range(t)
    <2>1. PICK i \in 1..(Len(s) + Len(t)) : x = u[i]
      BY <1>6 DEF Range
    <2>2. CASE i \in 1..Len(s)
      BY <1>2, <1>3, <2>1, <2>2 DEF Range
    <2>3. CASE i - Len(s) \in 1..Len(t)
      <3>1. Len(s) + (i - Len(s)) = i
        BY <1>1
      <3>2. u[i] = t[i - Len(s)]
        BY <1>4, <2>3, <3>1
      <3> QED  BY <1>2, <2>1, <2>3, <3>2 DEF Range
    <2> QED  BY <1>5, <2>2, <2>3
  <1>8. ASSUME NEW x \in Range(s) \cup Range(t)  PROVE  x \in Range(u)
    <2>1. CASE x \in Range(s)
      <3>1. PICK i \in 1..Len(s) : x = s[i]
        BY <1>2, <2>1 DEF Range
      <3> QED  BY <1>3, <1>6, <3>1 DEF Range
    <2>2. CASE x \in Range(t)
      <3>1. PICK i \in 1..Len(t) : x = t[i]
        BY <1>2, <2>2 DEF Range
      <3> QED  BY <1>4, <1>6, <3>1 DEF Range
    <2> QED  BY <2>1, <2>2
  <1> QED  BY <1>6, <1>7, <1>8

LEMMA OwnRange ==
  ASSUME NEW node \in Nodes
  PROVE  Own(node) \in Seq(Nat) /\ Range(Own(node)) = {node.export_gen} \ {0}
  <1>1. node.export_gen \in Nat
    BY NodeTypes
  <1>2. CASE node.export_gen > 0
    <2>1. Own(node) = <<node.export_gen>>
      BY <1>2 DEF Own
    <2> QED  BY <1>1, <1>2, <2>1 DEF Range
  <1>3. CASE node.export_gen = 0
    <2>1. Own(node) = <<>>
      BY <1>3 DEF Own
    <2> QED  BY <1>3, <2>1 DEF Range
  <1> QED  BY <1>1, <1>2, <1>3

LEMMA InnerGenerationsRange ==
  ASSUME NEW chain \in Chain, NEW n \in 0..Len(chain)
  PROVE  /\ InnerGenerations(chain)[n] \in Seq(Nat)
         /\ Range(InnerGenerations(chain)[n]) = {chain[j].export_gen : j \in 1..n} \ {0}
  <1> DEFINE G(i) == InnerGenerations(chain)[i]
             Right(i) == /\ G(i) \in Seq(Nat)
                         /\ Range(G(i)) = {chain[j].export_gen : j \in 1..i} \ {0}
             Wrong == {i \in 0..Len(chain) : ~Right(i)}
  <1>1. Len(chain) \in Nat /\ \A i \in 1..Len(chain) : chain[i] \in Nodes
    BY ChainTypes
  <1> DEFINE steps == [i \in 0..Len(chain) |->
                         IF i = 0 THEN <<>>
                         ELSE Own(chain[i]) \o InnerGenerations(chain)[i - 1]]
  <1>2. G(0) = <<>>
    <2>1. steps[0] = <<>>
      BY <1>1
    <2> HIDE DEF steps
    <2>2. InnerGenerations(chain) = steps
      BY InnerGenerationsSteps DEF steps
    <2> QED  BY <2>1, <2>2
  <1>3. ASSUME NEW i \in 1..Len(chain)  PROVE  G(i) = Own(chain[i]) \o G(i - 1)
    <2>1. i \in 0..Len(chain) /\ i # 0
      BY <1>1
    <2>2. steps[i] = Own(chain[i]) \o InnerGenerations(chain)[i - 1]
      BY <2>1
    <2> HIDE DEF steps
    <2>3. InnerGenerations(chain) = steps
      BY InnerGenerationsSteps DEF steps
    <2> QED  BY <2>2, <2>3
  <1> HIDE DEF G
  <1>4. Wrong = {}
    <2> SUFFICES ASSUME Wrong # {}  PROVE FALSE
      OBVIOUS
    <2>1. PICK i \in Wrong : \A j \in Wrong : i <= j
      <3>1. Wrong \in SUBSET Nat
        BY <1>1
      <3> HIDE DEF Wrong
      <3> QED  BY <3>1, LeastNatural
    <2>2. i \in 0..Len(chain) /\ ~Right(i)
      OBVIOUS
    <2>3. CASE i = 0
      <3>1. <<>> \in Seq(Nat) /\ Range(<<>>) = {}
        BY DEF Range
      <3>2. {chain[j].export_gen : j \in 1..0} = {}
        OBVIOUS
      <3>3. Right(0)
        BY <1>2, <3>1, <3>2
      <3> QED  BY <3>3, <2>2, <2>3
    <2>4. CASE i # 0
      <3>1. i \in 1..Len(chain) /\ i - 1 \in 0..Len(chain) /\ i - 1 < i
        BY <1>1, <2>2, <2>4
      <3>2. Right(i - 1)
        <4>1. i - 1 \notin Wrong
          <5> HIDE DEF Wrong
          <5> QED  BY <2>1, <2>2, <3>1
        <4> QED  BY <3>1, <4>1
      <3>3. G(i) = Own(chain[i]) \o G(i - 1) /\ Own(chain[i]) \in Seq(Nat)
            /\ Range(Own(chain[i])) = {chain[i].export_gen} \ {0}
        BY <1>1, <1>3, <3>1, OwnRange
      <3>4. G(i) \in Seq(Nat) /\ Range(G(i)) = Range(Own(chain[i])) \cup Range(G(i - 1))
        BY <3>2, <3>3, RangeConcat
      <3>5. {chain[j].export_gen : j \in 1..i} =
              {chain[i].export_gen} \cup {chain[j].export_gen : j \in 1..(i - 1)}
        <4>1. \A j \in 1..i : j = i \/ j \in 1..(i - 1)
          BY <3>1
        <4>2. i \in 1..i /\ \A j \in 1..(i - 1) : j \in 1..i
          BY <3>1
        <4> QED  BY <4>1, <4>2
      <3>6. Right(i)
        BY <3>2, <3>3, <3>4, <3>5
      <3> QED  BY <3>6, <2>2
    <2> QED  BY <2>3, <2>4
  <1>5. Right(n)
    BY <1>4
  <1> QED  BY <1>5 DEF G

-----------------------------------------------------------------------------
(* Prefixes of chains that show the same.                                   *)

(* Each prefix shows the global variable or the one of its innermost node. *)
LEMMA InnermostShows ==
  ASSUME NEW global \in Nodes, NEW chain \in Chain, NEW k \in Keys, NEW n \in 0..Len(chain)
  PROVE  \/ /\ \A j \in 1..n : ~Has(chain[j].env, k)
            /\ Overlaid(global, chain)[n][k] = Shown(global, k)
         \/ \E a \in 1..n : /\ Has(chain[a].env, k)
                            /\ \A m \in 1..n : m > a => ~Has(chain[m].env, k)
                            /\ Overlaid(global, chain)[n][k] = Shown(chain[a], k)
  <1> DEFINE With == {j \in 1..n : Has(chain[j].env, k)}
  <1>1. n \in Nat
    BY ChainTypes
  <1>2. CASE With = {}
    <2>1. \A j \in 1..n : ~Has(chain[j].env, k)
      BY <1>2
    <2> QED  BY <2>1, OverlaidShows
  <1>3. CASE With # {}
    <2>1. With \in SUBSET (1..n)
      OBVIOUS
    <2>2. Max(With) \in With /\ \A j \in With : Max(With) >= j
      <3> HIDE DEF With
      <3> QED  BY <1>1, <1>3, <2>1, Innermost
    <2>3. PICK a \in 1..n : Has(chain[a].env, k) /\ \A j \in With : a >= j
      BY <2>2
    <2>4. \A m \in 1..n : m > a => ~Has(chain[m].env, k)
      <3> SUFFICES ASSUME NEW m \in 1..n, m > a, Has(chain[m].env, k)  PROVE FALSE
        OBVIOUS
      <3>1. m \in With
        OBVIOUS
      <3>2. a >= m
        BY <3>1, <2>3
      <3> QED  BY <1>1, <3>2
    <2>5. Overlaid(global, chain)[n][k] = Shown(chain[a], k)
      BY <2>3, <2>4, OverlaidShows
    <2> QED  BY <2>3, <2>4, <2>5
  <1> QED  BY <1>2, <1>3

(* Nothing is shown where nothing is exported. *)
LEMMA NothingShown ==
  ASSUME NEW global \in Nodes, NEW chain \in Chain, NEW k \in Keys, NEW n \in 0..Len(chain),
         Shown(global, k) = Unset, \A j \in 1..n : Shown(chain[j], k) = Unset
  PROVE  Overlaid(global, chain)[n][k] = Unset
  BY InnermostShows

(* Two prefixes of a length show the same, if their nodes do, but that one  *)
(* may hide what nothing outside exports.                                   *)
Alike(g, h, c, d, n, k) ==
  /\ Shown(g, k) = Shown(h, k)
  /\ \A j \in 1..n : Shown(c[j], k) = Shown(d[j], k)
  /\ \A j \in 1..n :
       \/ Has(c[j].env, k) <=> Has(d[j].env, k)
       \/ /\ Shown(g, k) = Unset
          /\ \A m \in 1..j : Shown(c[m], k) = Unset

LEMMA SameShown ==
  ASSUME NEW g \in Nodes, NEW h \in Nodes, NEW c \in Chain, NEW d \in Chain, NEW k \in Keys,
         NEW n \in 0..Len(c), n \in 0..Len(d), Alike(g, h, c, d, n, k)
  PROVE  Overlaid(g, c)[n][k] = Overlaid(h, d)[n][k]
  <1> USE DEF Alike
  <1> DEFINE With == {j \in 1..n : Has(c[j].env, k) \/ Has(d[j].env, k)}
  <1>1. n \in Nat
    BY ChainTypes
  <1>2. CASE With = {}
    <2>1. \A j \in 1..n : ~Has(c[j].env, k) /\ ~Has(d[j].env, k)
      BY <1>2
    <2> QED  BY <2>1, OverlaidShows
  <1>3. CASE With # {}
    <2>1. With \in SUBSET (1..n)
      OBVIOUS
    <2>2. Max(With) \in With /\ \A j \in With : Max(With) >= j
      <3> HIDE DEF With
      <3> QED  BY <1>1, <1>3, <2>1, Innermost
    <2>3. PICK a \in 1..n : /\ Has(c[a].env, k) \/ Has(d[a].env, k)
                            /\ \A j \in With : a >= j
      BY <2>2
    <2>4. ASSUME NEW m \in 1..n, m > a  PROVE  ~Has(c[m].env, k) /\ ~Has(d[m].env, k)
      <3>1. m \notin With
        <4>1. ~ (a >= m)
          BY <1>1, <2>4
        <4> HIDE DEF With
        <4> QED  BY <2>3, <4>1
      <3> QED  BY <3>1
    <2>5. CASE Has(c[a].env, k) /\ Has(d[a].env, k)
      <3>1. Overlaid(g, c)[n][k] = Shown(c[a], k)
        BY <2>4, <2>5, OverlaidShows
      <3>2. Overlaid(h, d)[n][k] = Shown(d[a], k)
        BY <2>4, <2>5, OverlaidShows
      <3> QED  BY <3>1, <3>2
    <2>6. CASE ~(Has(c[a].env, k) /\ Has(d[a].env, k))
      <3>1. Shown(g, k) = Unset /\ \A m \in 1..a : Shown(c[m], k) = Unset
        BY <2>3, <2>6
      <3>2. Shown(h, k) = Unset /\ \A m \in 1..a : Shown(d[m], k) = Unset
        <4>1. \A m \in 1..a : m \in 1..n
          BY <1>1
        <4> QED  BY <3>1, <4>1
      <3>3. Overlaid(g, c)[n][k] = Unset
        <4>1. ASSUME NEW j \in 1..n, Has(c[j].env, k)  PROVE  Shown(c[j], k) = Unset
          <5>1. ~(j > a)
            BY <2>4, <4>1
          <5>2. j \in 1..a
            BY <1>1, <5>1
          <5> QED  BY <5>2, <3>1
        <4> QED  BY <4>1, <3>1, InnermostShows
      <3>4. Overlaid(h, d)[n][k] = Unset
        <4>1. ASSUME NEW j \in 1..n, Has(d[j].env, k)  PROVE  Shown(d[j], k) = Unset
          <5>1. ~(j > a)
            BY <2>4, <4>1
          <5>2. j \in 1..a
            BY <1>1, <5>1
          <5> QED  BY <5>2, <3>2
        <4> QED  BY <4>1, <3>2, InnermostShows
      <3> QED  BY <3>3, <3>4
    <2> QED  BY <2>5, <2>6
  <1> QED  BY <1>2, <1>3

(* A node that has no variable of the name shows what is outside of it. *)
LEMMA SilentNode ==
  ASSUME NEW global \in Nodes, NEW chain \in Chain, NEW k \in Keys, NEW n \in 1..Len(chain),
         ~Has(chain[n].env, k)
  PROVE  Overlaid(global, chain)[n][k] = Overlaid(global, chain)[n - 1][k]
  <1>1. Len(chain) \in Nat /\ chain[n] \in Nodes /\ n \in 0..Len(chain) /\ n # 0
    BY ChainTypes
  <1>2. Overlaid(global, chain)[n] = Overlay(Overlaid(global, chain)[n - 1], chain[n])
    BY <1>1, OverlaidSteps
  <1> QED  BY <1>1, <1>2, OverlayAt

QuietNode(node) == node.export_gen = 0 => \A k \in Keys : ~node.env[k].exports

(* Nodes without a generation show nothing, and hide nothing unless         *)
(* silently: the prefix without them shows the same.                        *)
Hides(global, chain) ==
  \E k \in Keys, i \in 1..Len(chain) :
    /\ Has(chain[i].env, k) /\ chain[i].export_gen = 0
    /\ global.env[k].exports \/ \E j \in 1..i : chain[j].env[k].exports

LEMMA QuietTail ==
  ASSUME NEW global \in Nodes, NEW chain \in Chain, NEW k \in Keys,
         NEW n \in 0..Len(chain), NEW i \in 0..n,
         ~Hides(global, chain),
         \A j \in 1..n : j > i => chain[j].export_gen = 0 /\ QuietNode(chain[j])
  PROVE  Overlaid(global, chain)[n][k] = Overlaid(global, chain)[i][k]
  <1>1. Len(chain) \in Nat /\ n \in Nat /\ i \in Nat /\ i \in 0..Len(chain) /\ i <= n
    BY ChainTypes
  <1>2. CASE \A j \in 1..n : ~Has(chain[j].env, k)
    <2>1. \A j \in 1..i : ~Has(chain[j].env, k)
      BY <1>1, <1>2
    <2> QED  BY <1>1, <1>2, <2>1, OverlaidShows
  <1>3. ASSUME NEW a \in 1..n, Has(chain[a].env, k),
               \A m \in 1..n : m > a => ~Has(chain[m].env, k),
               Overlaid(global, chain)[n][k] = Shown(chain[a], k)
        PROVE  Overlaid(global, chain)[n][k] = Overlaid(global, chain)[i][k]
    <2>1. CASE a <= i
      <3>1. a \in 1..i /\ \A m \in 1..i : m > a => ~Has(chain[m].env, k)
        BY <1>1, <1>3, <2>1
      <3>2. Overlaid(global, chain)[i][k] = Shown(chain[a], k)
        BY <1>1, <1>3, <3>1, OverlaidShows
      <3> QED  BY <1>3, <3>2
    <2>2. CASE a > i
      <3>1. chain[a].export_gen = 0 /\ ~chain[a].env[k].exports /\ a \in 1..Len(chain)
        BY <1>1, <2>2 DEF QuietNode
      <3>2. ~global.env[k].exports /\ \A j \in 1..a : ~chain[j].env[k].exports
        BY <1>3, <3>1 DEF Hides
      <3>3. Shown(global, k) = Unset /\ \A j \in 1..i : Shown(chain[j], k) = Unset
        <4>1. \A j \in 1..i : j \in 1..a
          BY <1>1, <2>2
        <4> QED  BY <3>2, <4>1 DEF Shown
      <3>4. Overlaid(global, chain)[i][k] = Unset
        BY <1>1, <3>3, NothingShown
      <3>5. Shown(chain[a], k) = Unset
        BY <3>1 DEF Shown
      <3> QED  BY <1>3, <3>4, <3>5
    <2> QED  BY <1>1, <2>1, <2>2
  <1> QED  BY <1>2, <1>3, InnermostShows

-----------------------------------------------------------------------------
(* The inductive invariant.                                                 *)

(* Who has no generation exports nothing. *)
QuietInv ==
  /\ QuietNode(globals)
  /\ \A c \in 1..Len(chains) : \A i \in 1..Len(chains[c]) : QuietNode(chains[c][i])

(* No node has a generation that was not given out, nor that of another. *)
GensInv ==
  /\ globals.export_gen <= next_gen
  /\ \A c \in 1..Len(chains) : \A i \in 1..Len(chains[c]) :
       /\ chains[c][i].export_gen <= next_gen
       /\ chains[c][i].export_gen # 0 => chains[c][i].export_gen # globals.export_gen
  /\ \A c, d \in 1..Len(chains) :
       \A i \in 1..Len(chains[c]) : \A j \in 1..Len(chains[d]) :
         chains[c][i].export_gen # 0 /\ chains[c][i].export_gen = chains[d][j].export_gen
           => c = d /\ i = j

(* The array is of generations that were given out. *)
RecordedInv ==
  /\ arrays = 0 => export_array_generations = <<>>
  /\ arrays = 1 => /\ export_array_generations # <<>>
                   /\ export_array_generations[1] <= uvar_gen
                   /\ \A g \in Recorded(export_array_generations) : g <= next_gen

(* In every scope that is open, in use or not, generations which are those  *)
(* of the array mean that the scope exports what is in the array.           *)
ArrayIs(i, chain) ==
  /\ export_array_generations[1] = uvar_gen
  /\ Recorded(export_array_generations) = GensTo(globals, chain, i)
ExportedTo(chain, i) == Inherited(Overlaid(globals, chain)[i], uvars)
CacheInv ==
  arrays = 1 /\ ~unveiled =>
    \A c \in 1..Len(chains) : \A i \in 0..Len(chains[c]) :
      ArrayIs(i, chains[c]) => ExportedTo(chains[c], i) = export_array

IInv == TypeOK /\ QuietInv /\ GensInv /\ RecordedInv /\ CacheInv

LEMMA StateTypes ==
  ASSUME TypeOK
  PROVE  /\ globals \in Nodes /\ uvars \in Tables /\ next_gen \in Nat /\ uvar_gen \in Nat
         /\ chains \in Seq(Chain) /\ Len(chains) \in Nat /\ Len(chains) > 0
         /\ DOMAIN chains = 1..Len(chains)
         /\ \A c \in 1..Len(chains) : /\ chains[c] \in Chain /\ chains[c] # <<>>
                                      /\ Len(chains[c]) \in Nat /\ Len(chains[c]) > 0
                                      /\ DOMAIN chains[c] = 1..Len(chains[c])
                                      /\ \A i \in 1..Len(chains[c]) : chains[c][i] \in Nodes
         /\ locals = chains[Len(chains)] /\ Len(chains) \in 1..Len(chains)
         /\ export_array_generations \in Seq(Nat) /\ arrays \in Nat /\ unveiled \in BOOLEAN
         /\ globals.export_gen \in Nat
         /\ \A c \in 1..Len(chains) : \A i \in 1..Len(chains[c]) : chains[c][i].export_gen \in Nat
  <1>1. globals \in Nodes /\ uvars \in Tables /\ next_gen \in Nat /\ uvar_gen \in Nat
        /\ arrays \in Nat /\ unveiled \in BOOLEAN
    BY EnvironmentAssumption DEF TypeOK
  <1>2. chains \in Seq(Chain) /\ chains # <<>> /\ \A c \in DOMAIN chains : chains[c] # <<>>
        /\ export_array_generations \in Seq(Nat)
    BY DEF TypeOK, Chain
  <1>3. Len(chains) \in Nat /\ Len(chains) > 0 /\ DOMAIN chains = 1..Len(chains)
        /\ \A c \in 1..Len(chains) : chains[c] \in Chain
    BY <1>2
  <1>4. ASSUME NEW c \in 1..Len(chains)
        PROVE  /\ chains[c] \in Chain /\ chains[c] # <<>>
               /\ Len(chains[c]) \in Nat /\ Len(chains[c]) > 0
               /\ DOMAIN chains[c] = 1..Len(chains[c])
               /\ \A i \in 1..Len(chains[c]) : chains[c][i] \in Nodes
    <2>1. chains[c] \in Chain /\ chains[c] # <<>>
      BY <1>2, <1>3
    <2>2. /\ Len(chains[c]) \in Nat /\ DOMAIN chains[c] = 1..Len(chains[c])
          /\ \A i \in 1..Len(chains[c]) : chains[c][i] \in Nodes
      BY <2>1, ChainTypes
    <2>3. Len(chains[c]) > 0
      BY <2>1, <2>2 DEF Chain
    <2> QED  BY <2>1, <2>2, <2>3
  <1>5. /\ globals.export_gen \in Nat
        /\ \A c \in 1..Len(chains) : \A i \in 1..Len(chains[c]) : chains[c][i].export_gen \in Nat
    BY <1>1, <1>4, NodeTypes
  <1>6. locals = chains[Len(chains)] /\ Len(chains) \in 1..Len(chains)
    BY <1>3 DEF locals, Last
  <1> QED  BY <1>1, <1>2, <1>3, <1>4, <1>5, <1>6

LEMMA GenerationsCompared ==
  ASSUME TypeOK
  PROVE  /\ Generations \in Seq(Nat) /\ Generations # <<>> /\ Generations[1] = uvar_gen
         /\ Recorded(Generations) = GensTo(globals, locals, Len(locals))
  <1> DEFINE inner == InnerGenerations(locals)[Len(locals)]
             nodes == Own(globals) \o inner
  <1>1. locals \in Chain /\ Len(locals) \in 0..Len(locals) /\ globals \in Nodes /\ uvar_gen \in Nat
    BY StateTypes
  <1>2. /\ inner \in Seq(Nat)
        /\ Range(inner) = {locals[j].export_gen : j \in 1..Len(locals)} \ {0}
    BY <1>1, InnerGenerationsRange
  <1>3. Own(globals) \in Seq(Nat) /\ Range(Own(globals)) = {globals.export_gen} \ {0}
    BY <1>1, OwnRange
  <1> HIDE DEF inner
  <1>4. nodes \in Seq(Nat) /\ Range(nodes) = Range(Own(globals)) \cup Range(inner)
    BY <1>2, <1>3, RangeConcat
  <1>5. Range(nodes) = GensTo(globals, locals, Len(locals))
    BY <1>2, <1>3, <1>4 DEF GensTo
  <1> HIDE DEF nodes
  <1>6. Generations = <<uvar_gen>> \o nodes
    <2>1. <<uvar_gen>> \in Seq(Nat)
      BY <1>1
    <2>2. Generations = <<uvar_gen>> \o Own(globals) \o inner
      BY DEF Generations, inner
    <2>3. (<<uvar_gen>> \o Own(globals)) \o inner = <<uvar_gen>> \o (Own(globals) \o inner)
      BY <2>1, <1>2, <1>3, ConcatAssociative
    <2> QED  BY <2>2, <2>3 DEF nodes
  <1>7. /\ Generations \in Seq(Nat) /\ Len(nodes) \in Nat
        /\ Len(Generations) = Len(nodes) + 1 /\ Generations[1] = uvar_gen
        /\ \A n \in 1..Len(nodes) : Generations[n + 1] = nodes[n]
    <2>1. <<uvar_gen>> \in Seq(Nat) /\ Len(<<uvar_gen>>) = 1
      BY <1>1
    <2> QED  BY <2>1, <1>4, <1>6
  <1>8. Recorded(Generations) = Range(nodes)
    <2>1. DOMAIN nodes = 1..Len(nodes)
      BY <1>4
    <2>2. \A n \in 2..Len(Generations) : n - 1 \in 1..Len(nodes) /\ Generations[n] = nodes[n - 1]
      <3>1. \A n \in 2..Len(Generations) : n - 1 \in 1..Len(nodes) /\ (n - 1) + 1 = n
        BY <1>7
      <3> QED  BY <1>7, <3>1
    <2>3. \A n \in 1..Len(nodes) : n + 1 \in 2..Len(Generations)
      BY <1>7
    <2>4. ASSUME NEW g \in Recorded(Generations)  PROVE  g \in Range(nodes)
      <3>1. PICK n \in 2..Len(Generations) : g = Generations[n]
        BY DEF Recorded
      <3> QED  BY <2>1, <2>2, <3>1 DEF Range
    <2>5. ASSUME NEW g \in Range(nodes)  PROVE  g \in Recorded(Generations)
      <3>1. PICK n \in 1..Len(nodes) : g = nodes[n]
        BY <2>1 DEF Range
      <3>2. g = Generations[n + 1]
        BY <1>7, <3>1
      <3> QED  BY <2>3, <3>2 DEF Recorded
    <2> QED  BY <2>4, <2>5
  <1>9. Generations # <<>>
    BY <1>7
  <1> QED  BY <1>5, <1>7, <1>8, <1>9

(* When a step keeps the array right: where it leaves no scope with the     *)
(* generations of the array, unless the scope had them, and exported the    *)
(* same, or was one that did.                                               *)
LEMMA CacheKept ==
  ASSUME IInv, UNCHANGED cache, unveiled => unveiled',
         uvar_gen' \in Nat, uvar_gen <= uvar_gen', next_gen' \in Nat, next_gen <= next_gen',
         \A c \in 1..Len(chains') : \A i \in 0..Len(chains'[c]) :
           \/ unveiled'
           \/ uvar_gen < uvar_gen'
           \/ \E g \in GensTo(globals', chains'[c], i) : g > next_gen
           \/ /\ uvar_gen = uvar_gen'
              /\ \E d \in 1..Len(chains) : \E j \in 0..Len(chains[d]) :
                   /\ GensTo(globals', chains'[c], i) = GensTo(globals, chains[d], j)
                   /\ Inherited(Overlaid(globals', chains'[c])[i], uvars') = ExportedTo(chains[d], j)
  PROVE  RecordedInv' /\ CacheInv'
  <1>1. /\ arrays' = arrays /\ export_array' = export_array
        /\ export_array_generations' = export_array_generations
    BY DEF cache
  <1>2. /\ uvar_gen \in Nat /\ next_gen \in Nat /\ export_array_generations \in Seq(Nat)
        /\ unveiled \in BOOLEAN
    BY StateTypes DEF IInv
  <1>3. RecordedInv
    BY DEF IInv
  <1>4. arrays = 1 => \A g \in Recorded(export_array_generations) : g \in Nat
    <2>1. \A n \in 2..Len(export_array_generations) : export_array_generations[n] \in Nat
      BY <1>2
    <2> QED  BY <2>1 DEF Recorded
  <1>5. arrays = 1 => export_array_generations[1] \in Nat
    BY <1>2, <1>3 DEF RecordedInv
  <1>6. RecordedInv'
    <2>1. arrays' = 0 => export_array_generations' = <<>>
      BY <1>1, <1>3 DEF RecordedInv
    <2>2. arrays' = 1 => export_array_generations' # <<>> /\ export_array_generations'[1] <= uvar_gen'
      BY <1>1, <1>2, <1>3, <1>5 DEF RecordedInv
    <2>3. arrays' = 1 => \A g \in Recorded(export_array_generations) : g <= next_gen'
      BY <1>1, <1>2, <1>3, <1>4 DEF RecordedInv
    <2>4. Recorded(export_array_generations)' = Recorded(export_array_generations)
      BY <1>1 DEF Recorded
    <2> QED  BY <2>1, <2>2, <2>3, <2>4 DEF RecordedInv
  <1>7. CacheInv'
    <2> SUFFICES ASSUME arrays' = 1, ~unveiled', NEW c \in 1..Len(chains'),
                        NEW i \in 0..Len(chains'[c]),
                        export_array_generations'[1] = uvar_gen',
                        Recorded(export_array_generations') = GensTo(globals', chains'[c], i)
                 PROVE  Inherited(Overlaid(globals', chains'[c])[i], uvars') = export_array'
      BY DEF CacheInv, ArrayIs, ExportedTo, Recorded
    <2>1. ~(uvar_gen < uvar_gen')
      BY <1>1, <1>2, <1>3, <1>5 DEF RecordedInv
    <2>2. ~ \E g \in GensTo(globals', chains'[c], i) : g > next_gen
      BY <1>1, <1>2, <1>3, <1>4 DEF RecordedInv
    <2>8. PICK d \in 1..Len(chains) : \E j \in 0..Len(chains[d]) :
            /\ GensTo(globals', chains'[c], i) = GensTo(globals, chains[d], j)
            /\ Inherited(Overlaid(globals', chains'[c])[i], uvars') = ExportedTo(chains[d], j)
      BY <2>1, <2>2
    <2>3. PICK j \in 0..Len(chains[d]) :
            /\ GensTo(globals', chains'[c], i) = GensTo(globals, chains[d], j)
            /\ Inherited(Overlaid(globals', chains'[c])[i], uvars') = ExportedTo(chains[d], j)
      BY <2>8
    <2>4. uvar_gen = uvar_gen' /\ arrays = 1 /\ ~unveiled
      BY <1>1, <1>2, <2>1
    <2>5. ArrayIs(j, chains[d])
      BY <1>1, <2>3, <2>4 DEF ArrayIs
    <2>6. ExportedTo(chains[d], j) = export_array
      BY <2>4, <2>5 DEF IInv, CacheInv
    <2> QED  BY <1>1, <2>3, <2>6
  <1> QED  BY <1>6, <1>7

-----------------------------------------------------------------------------
(* Setting and erasing in a node.                                           *)

LEMMA WriteLemma ==
  ASSUME TypeOK, NEW old \in Nodes, NEW k \in Keys, NEW var \in Variable, NEW changed \in BOOLEAN,
         next_gen' \in 0..MaxGen
  PROVE  /\ Write(old, k, var, changed) \in Nodes
         /\ Write(old, k, var, changed).export_gen = (IF changed THEN next_gen' ELSE old.export_gen)
         /\ Write(old, k, var, changed).env[k] = var
         /\ \A l \in Keys : l # k => Write(old, k, var, changed).env[l] = old.env[l]
  <1> DEFINE node == Write(old, k, var, changed)
             gen == IF changed THEN next_gen' ELSE old.export_gen
  <1>1. old.env \in Tables /\ old.new_scope \in BOOLEAN /\ old.export_gen \in 0..MaxGen
        /\ old = [env |-> old.env, new_scope |-> old.new_scope, export_gen |-> old.export_gen]
    BY DEF Nodes
  <1>2. node = [env |-> [old.env EXCEPT ![k] = var], new_scope |-> old.new_scope, export_gen |-> gen]
    <2>1. node = [old EXCEPT !.env[k] = var, !.export_gen = gen]
      BY DEF Write
    <2> HIDE DEF node, gen
    <2> QED  BY <1>1, <2>1
  <1>3. [old.env EXCEPT ![k] = var] \in Tables
    BY <1>1 DEF Tables, Variable, Unset
  <1>4. gen \in 0..MaxGen
    BY <1>1
  <1>5. node \in Nodes
    <2> HIDE DEF node, gen
    <2> QED  BY <1>1, <1>2, <1>3, <1>4 DEF Nodes
  <1>6. node.env[k] = var /\ \A l \in Keys : l # k => node.env[l] = old.env[l]
    <2>1. DOMAIN old.env = Keys
      BY <1>1 DEF Tables
    <2> HIDE DEF node, gen
    <2> QED  BY <1>2, <2>1
  <1>7. node.export_gen = gen
    <2> HIDE DEF node, gen
    <2> QED  BY <1>2
  <1> QED  BY <1>5, <1>6, <1>7

LEMMA ReplaceLemma ==
  ASSUME TypeOK, NEW at \in 0..Len(locals), NEW node \in Nodes, Replace(at, node)
  PROVE  /\ chains' \in Seq(Chain) /\ Len(chains') = Len(chains) /\ chains' # <<>>
         /\ globals' = (IF at = 0 THEN node ELSE globals) /\ globals' \in Nodes
         /\ \A c \in 1..Len(chains) :
              /\ Len(chains'[c]) = Len(chains[c]) /\ chains'[c] # <<>> /\ chains'[c] \in Chain
              /\ \A i \in 1..Len(chains[c]) :
                   chains'[c][i] = IF c = Len(chains) /\ i = at THEN node ELSE chains[c][i]
  <1> DEFINE n == Len(chains)
  <1>1. /\ chains \in Seq(Chain) /\ n \in Nat /\ n > 0 /\ locals = chains[n] /\ globals \in Nodes
        /\ \A c \in 1..n : chains[c] \in Chain /\ chains[c] # <<>> /\ Len(chains[c]) \in Nat
    BY StateTypes
  <1>2. CASE at = 0
    <2>1. chains' = chains /\ globals' = node
      BY <1>2 DEF Replace
    <2>2. \A c \in 1..n : \A i \in 1..Len(chains[c]) : i # at
      BY <1>2
    <2> QED  BY <1>1, <1>2, <2>1, <2>2
  <1>3. CASE at # 0
    <2>1. at \in 1..Len(locals) /\ locals \in Chain
      BY <1>1, <1>3
    <2> DEFINE new == [locals EXCEPT ![at] = node]
    <2>2. new \in Chain /\ Len(new) = Len(locals)
          /\ \A i \in 1..Len(locals) : new[i] = IF i = at THEN node ELSE locals[i]
      BY <2>1 DEF Chain
    <2>3. chains' = [chains EXCEPT ![n] = new] /\ globals' = globals
      <3>1. chains' = [chains EXCEPT ![n][at] = node] /\ globals' = globals
        BY <1>3 DEF Replace
      <3>2. n \in DOMAIN chains
        BY <1>1
      <3> QED  BY <1>1, <3>1, <3>2
    <2> HIDE DEF new
    <2>4. /\ chains' \in Seq(Chain) /\ Len(chains') = n
          /\ \A c \in 1..n : chains'[c] = IF c = n THEN new ELSE chains[c]
      BY <1>1, <2>2, <2>3
    <2>5. Len(locals) > 0 /\ new # <<>>
      BY <2>1, <2>2 DEF Chain
    <2>6. chains' # <<>>
      BY <1>1, <2>4
    <2>7. ASSUME NEW c \in 1..n
          PROVE  /\ Len(chains'[c]) = Len(chains[c]) /\ chains'[c] # <<>> /\ chains'[c] \in Chain
                 /\ \A i \in 1..Len(chains[c]) :
                      chains'[c][i] = IF c = n /\ i = at THEN node ELSE chains[c][i]
      <3>1. CASE c = n
        BY <1>1, <2>2, <2>4, <2>5, <3>1
      <3>2. CASE c # n
        BY <1>1, <2>4, <3>2
      <3> QED  BY <3>1, <3>2
    <2> QED  BY <1>1, <1>3, <2>3, <2>4, <2>6, <2>7
  <1> QED  BY <1>2, <1>3

LEMMA InheritedSame ==
  ASSUME NEW t, NEW u, NEW universals, \A k \in Keys : t[k] = u[k]
  PROVE  Inherited(t, universals) = Inherited(u, universals)
  BY DEF Inherited

(* A variable of a node is written or removed.  Without a new generation    *)
(* it is not exported, nor was it, and if it comes or goes no scope outside *)
(* exports the name.                                                        *)
LEMMA RewriteKeeps ==
  ASSUME IInv, NEW k \in Keys, NEW at \in 0..Len(locals), NEW var \in Variable, NEW changed \in BOOLEAN,
         NextGenerations(IF changed THEN 1 ELSE 0),
         Replace(at, Write(NodeAt(at), k, var, changed)),
         UNCHANGED <<universal, cache>>,
         unveiled' \in BOOLEAN, unveiled => unveiled', changes' \in 0..MaxChanges,
         var.exports => changed,
         ~changed /\ ~unveiled' =>
           /\ ~NodeAt(at).env[k].exports
           /\ at = 0 \/ (Has(NodeAt(at).env, k) <=> var # Unset) \/ ~OuterExports(k, at)
  PROVE  IInv'
  <1> DEFINE old == NodeAt(at)
             node == Write(old, k, var, changed)
             n == Len(chains)
  <1>1. TypeOK /\ QuietInv /\ GensInv
    BY DEF IInv
  <1>2. /\ chains \in Seq(Chain) /\ n \in Nat /\ n > 0 /\ locals = chains[n] /\ n \in 1..n
        /\ globals \in Nodes /\ next_gen \in Nat /\ uvar_gen \in Nat /\ uvars \in Tables
        /\ \A c \in 1..n : /\ chains[c] \in Chain /\ Len(chains[c]) \in Nat
                           /\ \A i \in 1..Len(chains[c]) : /\ chains[c][i] \in Nodes
                                                           /\ chains[c][i].export_gen \in Nat
        /\ globals.export_gen \in Nat
    BY <1>1, StateTypes
  <1>3. old \in Nodes /\ old.export_gen \in Nat
    <2>1. CASE at = 0
      BY <1>2, <2>1 DEF NodeAt
    <2>2. CASE at # 0
      <3>1. at \in 1..Len(chains[n]) /\ old = chains[n][at]
        BY <1>2, <2>2 DEF NodeAt
      <3> QED  BY <1>2, <3>1
    <2> QED  BY <2>1, <2>2
  <1>4. next_gen' = (IF changed THEN next_gen + 1 ELSE next_gen) /\ next_gen' \in 0..MaxGen
        /\ next_gen' \in Nat /\ next_gen <= next_gen'
    <2>1. next_gen' = next_gen + (IF changed THEN 1 ELSE 0) /\ next_gen' <= MaxGen /\ MaxGen \in Nat
      BY EnvironmentAssumption DEF NextGenerations
    <2> QED  BY <1>2, <2>1
  <1>5. /\ node \in Nodes /\ node.env[k] = var
        /\ node.export_gen = (IF changed THEN next_gen' ELSE old.export_gen)
        /\ \A l \in Keys : l # k => node.env[l] = old.env[l]
    BY <1>1, <1>3, <1>4, WriteLemma
  <1>6. node.export_gen \in Nat
    BY <1>3, <1>4, <1>5
  <1>7. Replace(at, node)
    OBVIOUS
  <1> HIDE DEF node, old
  <1>8. /\ chains' \in Seq(Chain) /\ Len(chains') = n /\ chains' # <<>>
        /\ globals' = (IF at = 0 THEN node ELSE globals) /\ globals' \in Nodes
        /\ \A c \in 1..n :
             /\ Len(chains'[c]) = Len(chains[c]) /\ chains'[c] # <<>> /\ chains'[c] \in Chain
             /\ \A i \in 1..Len(chains[c]) :
                  chains'[c][i] = IF c = n /\ i = at THEN node ELSE chains[c][i]
    BY <1>1, <1>5, <1>7, ReplaceLemma
  <1>9. /\ uvars' = uvars /\ uvar_gen' = uvar_gen /\ arrays' = arrays /\ export_array' = export_array
        /\ export_array_generations' = export_array_generations
    BY DEF universal, cache
  <1>10. (at = 0 => old = globals) /\ (at # 0 => at \in 1..Len(chains[n]) /\ old = chains[n][at])
    BY <1>2 DEF old, NodeAt
  <1>11. TypeOK'
    <2>1. \A c \in DOMAIN chains' : chains'[c] # <<>>
      BY <1>2, <1>8
    <2> QED  BY <1>1, <1>4, <1>8, <1>9, <2>1 DEF TypeOK, Chain
  <1>12. QuietNode(node)
    <2>1. ASSUME node.export_gen = 0, NEW l \in Keys  PROVE ~node.env[l].exports
      <3>1. ~changed
        BY <1>2, <1>4, <1>5, <2>1
      <3>2. old.export_gen = 0
        BY <1>5, <2>1, <3>1
      <3>3. QuietNode(old)
        BY <1>1, <1>2, <1>10 DEF QuietInv
      <3>4. CASE l = k
        BY <1>5, <3>1, <3>4
      <3>5. CASE l # k
        BY <1>5, <3>2, <3>3, <3>5 DEF QuietNode
      <3> QED  BY <3>4, <3>5
    <2> QED  BY <2>1 DEF QuietNode
  <1>13. QuietInv'
    <2>1. QuietNode(globals')
      BY <1>1, <1>8, <1>12 DEF QuietInv
    <2>2. \A c \in 1..n : \A i \in 1..Len(chains[c]) : QuietNode(chains'[c][i])
      BY <1>1, <1>8, <1>12 DEF QuietInv
    <2> QED  BY <1>8, <2>1, <2>2 DEF QuietInv, QuietNode
  <1>14. GensInv'
    <2>1. \A c \in 1..n : \A i \in 1..Len(chains[c]) :
            chains'[c][i].export_gen =
              IF c = n /\ i = at THEN node.export_gen ELSE chains[c][i].export_gen
      BY <1>8
    <2>2. globals'.export_gen = IF at = 0 THEN node.export_gen ELSE globals.export_gen
      BY <1>8
    <2>3. CASE changed
      <3>1. node.export_gen = next_gen + 1 /\ next_gen' = next_gen + 1
        BY <1>4, <1>5, <2>3
      <3>2. globals'.export_gen <= next_gen'
        BY <1>1, <1>2, <2>2, <3>1 DEF GensInv
      <3>3. ASSUME NEW c \in 1..n, NEW i \in 1..Len(chains[c])
            PROVE  /\ chains'[c][i].export_gen <= next_gen'
                   /\ chains'[c][i].export_gen # 0 => chains'[c][i].export_gen # globals'.export_gen
        <4>1. chains[c][i].export_gen <= next_gen /\ globals.export_gen <= next_gen
              /\ (chains[c][i].export_gen # 0 => chains[c][i].export_gen # globals.export_gen)
          BY <1>1 DEF GensInv
        <4>2. chains[c][i].export_gen \in Nat
          BY <1>2
        <4>3. at = 0 => ~(c = n /\ i = at)
          BY <1>2
        <4>4. next_gen \in Nat /\ globals.export_gen \in Nat
          BY <1>2
        <4>5. CASE c = n /\ i = at
          <5>1. chains'[c][i].export_gen = next_gen + 1 /\ globals'.export_gen = globals.export_gen
            BY <2>1, <2>2, <3>1, <4>3, <4>5
          <5> QED  BY <3>1, <4>1, <4>4, <5>1
        <4>6. CASE ~(c = n /\ i = at)
          <5>1. chains'[c][i].export_gen = chains[c][i].export_gen
            BY <2>1, <4>6
          <5>2. globals'.export_gen = next_gen + 1 \/ globals'.export_gen = globals.export_gen
            BY <2>2, <3>1
          <5> QED  BY <3>1, <4>1, <4>2, <4>4, <5>1, <5>2
        <4> QED  BY <4>5, <4>6
      <3>4. ASSUME NEW c \in 1..n, NEW d \in 1..n, NEW i \in 1..Len(chains[c]), NEW j \in 1..Len(chains[d]),
                   chains'[c][i].export_gen # 0, chains'[c][i].export_gen = chains'[d][j].export_gen
            PROVE  c = d /\ i = j
        <4>1. /\ chains[c][i].export_gen \in Nat /\ chains[c][i].export_gen <= next_gen
              /\ chains[d][j].export_gen \in Nat /\ chains[d][j].export_gen <= next_gen
          BY <1>1, <1>2 DEF GensInv
        <4>2. chains'[c][i].export_gen = (IF c = n /\ i = at THEN node.export_gen ELSE chains[c][i].export_gen)
              /\ chains'[d][j].export_gen = (IF d = n /\ j = at THEN node.export_gen ELSE chains[d][j].export_gen)
          BY <2>1
        <4>5. next_gen \in Nat /\ ~(next_gen + 1 <= next_gen)
          BY <1>2
        <4>3. CASE c = n /\ i = at
          <5>1. chains'[d][j].export_gen = next_gen + 1
            BY <3>1, <3>4, <4>2, <4>3
          <5>2. d = n /\ j = at
            BY <4>1, <4>2, <4>5, <5>1
          <5> QED  BY <4>3, <5>2
        <4>4. CASE ~(c = n /\ i = at)
          <5>1. ~(d = n /\ j = at)
            BY <3>1, <3>4, <4>1, <4>2, <4>4, <4>5
          <5>2. chains[c][i].export_gen # 0 /\ chains[c][i].export_gen = chains[d][j].export_gen
            BY <3>4, <4>2, <4>4, <5>1
          <5> QED  BY <1>1, <5>2 DEF GensInv
        <4> QED  BY <4>3, <4>4
      <3> QED  BY <1>8, <3>2, <3>3, <3>4 DEF GensInv
    <2>4. CASE ~changed
      <3>1. node.export_gen = old.export_gen /\ next_gen' = next_gen
        BY <1>4, <1>5, <2>4
      <3>2. globals'.export_gen = globals.export_gen
            /\ \A c \in 1..n : \A i \in 1..Len(chains[c]) :
                 chains'[c][i].export_gen = chains[c][i].export_gen
        BY <1>10, <2>1, <2>2, <3>1
      <3>3. globals'.export_gen <= next_gen'
        BY <1>1, <3>1, <3>2 DEF GensInv
      <3>4. \A c \in 1..n : \A i \in 1..Len(chains[c]) :
              /\ chains'[c][i].export_gen <= next_gen'
              /\ chains'[c][i].export_gen # 0 => chains'[c][i].export_gen # globals'.export_gen
        <4>1. \A c \in 1..n : \A i \in 1..Len(chains[c]) :
                /\ chains[c][i].export_gen <= next_gen
                /\ chains[c][i].export_gen # 0 => chains[c][i].export_gen # globals.export_gen
          BY <1>1 DEF GensInv
        <4>2. ASSUME NEW c \in 1..n, NEW i \in 1..Len(chains[c])
              PROVE  chains'[c][i].export_gen = chains[c][i].export_gen
          BY <3>2
        <4> QED  BY <3>1, <3>2, <4>1, <4>2
      <3>5. ASSUME NEW c \in 1..n, NEW d \in 1..n, NEW i \in 1..Len(chains[c]), NEW j \in 1..Len(chains[d]),
                   chains'[c][i].export_gen # 0, chains'[c][i].export_gen = chains'[d][j].export_gen
            PROVE  c = d /\ i = j
        <4>1. chains[c][i].export_gen # 0 /\ chains[c][i].export_gen = chains[d][j].export_gen
          BY <3>2, <3>5
        <4> QED  BY <1>1, <4>1 DEF GensInv
      <3> QED  BY <1>8, <3>3, <3>4, <3>5 DEF GensInv
    <2> QED  BY <2>3, <2>4
  <1>15. RecordedInv' /\ CacheInv'
    <2> DEFINE Same(c, i) ==
                 /\ GensTo(globals', chains'[c], i) = GensTo(globals, chains[c], i)
                 /\ Inherited(Overlaid(globals', chains'[c])[i], uvars') = ExportedTo(chains[c], i)
    <2>1. ASSUME NEW c \in 1..n, NEW i \in 0..Len(chains[c]),
                 globals' = globals, \A j \in 1..i : chains'[c][j] = chains[c][j]
          PROVE  Same(c, i)
      <3>1. /\ chains[c] \in Chain /\ chains'[c] \in Chain /\ i \in 0..Len(chains'[c])
        BY <1>2, <1>8
      <3>5. globals \in Nodes /\ globals' \in Nodes
        BY <1>2, <1>8
      <3>2. ASSUME NEW l \in Keys
            PROVE  Overlaid(globals, chains[c])[i][l] = Overlaid(globals', chains'[c])[i][l]
        <4>1. Shown(globals, l) = Shown(globals', l)
          BY <2>1
        <4>2. \A j \in 1..i : /\ Shown(chains[c][j], l) = Shown(chains'[c][j], l)
                              /\ Has(chains[c][j].env, l) <=> Has(chains'[c][j].env, l)
          BY <2>1
        <4>3. Alike(globals, globals', chains[c], chains'[c], i, l)
          BY <4>1, <4>2 DEF Alike
        <4> QED  BY <3>1, <3>5, <4>3, SameShown
      <3>3. Inherited(Overlaid(globals', chains'[c])[i], uvars) = ExportedTo(chains[c], i)
        BY <3>2, InheritedSame DEF ExportedTo
      <3>4. GensTo(globals', chains'[c], i) = GensTo(globals, chains[c], i)
        BY <2>1 DEF GensTo
      <3> QED  BY <1>9, <3>3, <3>4
    <2>2. ASSUME NEW c \in 1..n, NEW i \in 0..Len(chains[c]), ~changed, ~unveiled'
          PROVE  Same(c, i)
      <3>1. /\ chains[c] \in Chain /\ chains'[c] \in Chain /\ i \in 0..Len(chains'[c]) /\ i \in Nat
            /\ \A j \in 1..i : j \in 1..Len(chains[c])
        BY <1>2, <1>8
      <3>2. ~old.env[k].exports /\ ~var.exports
            /\ (at = 0 \/ (Has(old.env, k) <=> var # Unset) \/ ~OuterExports(k, at))
        BY <2>2 DEF old
      <3>3. \A l \in Keys : Shown(node, l) = Shown(old, l) /\ (l = k => Shown(old, l) = Unset)
        BY <1>5, <3>2 DEF Shown
      <3>4. \A l \in Keys : l # k \/ (Has(old.env, k) <=> var # Unset) => (Has(node.env, l) <=> Has(old.env, l))
        BY <1>5 DEF Has
      <3>5. ASSUME NEW l \in Keys
            PROVE  Overlaid(globals, chains[c])[i][l] = Overlaid(globals', chains'[c])[i][l]
        <4>1. Shown(globals, l) = Shown(globals', l)
          BY <1>8, <1>10, <3>3
        <4>2. \A j \in 1..i : Shown(chains[c][j], l) = Shown(chains'[c][j], l)
          BY <1>8, <1>10, <3>1, <3>3
        <4>3. ASSUME NEW j \in 1..i
              PROVE  \/ Has(chains[c][j].env, l) <=> Has(chains'[c][j].env, l)
                     \/ /\ Shown(globals, l) = Unset
                        /\ \A m \in 1..j : Shown(chains[c][m], l) = Unset
          <5>1. CASE ~(c = n /\ j = at)
            BY <1>8, <3>1, <5>1
          <5>2. CASE c = n /\ j = at /\ (l # k \/ (Has(old.env, k) <=> var # Unset))
            BY <1>8, <1>10, <3>1, <3>4, <5>2
          <5>3. CASE c = n /\ j = at /\ l = k /\ ~OuterExports(k, at)
            <6>1. at # 0 /\ at \in Nat /\ chains[c][at] = old
              BY <1>10, <3>1, <5>3
            <6>2. ~globals.env[k].exports /\ \A m \in 1..(at - 1) : ~chains[c][m].env[k].exports
              BY <1>2, <5>3, <6>1 DEF OuterExports
            <6>3. Shown(globals, k) = Unset /\ \A m \in 1..(at - 1) : Shown(chains[c][m], k) = Unset
              BY <6>2 DEF Shown
            <6>4. \A m \in 1..at : m = at \/ m \in 1..(at - 1)
              BY <6>1
            <6> QED  BY <3>3, <5>3, <6>1, <6>3, <6>4
          <5>4. at = 0 => j # at
            BY <3>1
          <5> QED  BY <3>2, <5>1, <5>2, <5>3, <5>4
        <4>4. globals \in Nodes /\ globals' \in Nodes
          BY <1>2, <1>8
        <4>5. Alike(globals, globals', chains[c], chains'[c], i, l)
          BY <4>1, <4>2, <4>3 DEF Alike
        <4> QED  BY <3>1, <4>4, <4>5, SameShown
      <3>6. Inherited(Overlaid(globals', chains'[c])[i], uvars) = ExportedTo(chains[c], i)
        BY <3>5, InheritedSame DEF ExportedTo
      <3>7. node.export_gen = old.export_gen
        BY <1>5, <2>2
      <3>8. globals'.export_gen = globals.export_gen
            /\ \A j \in 1..i : chains'[c][j].export_gen = chains[c][j].export_gen
        <4>1. globals'.export_gen = globals.export_gen
          BY <1>8, <1>10, <3>7
        <4>2. ASSUME NEW j \in 1..i  PROVE chains'[c][j].export_gen = chains[c][j].export_gen
          <5>1. chains'[c][j] = IF c = n /\ j = at THEN node ELSE chains[c][j]
            BY <1>8, <3>1
          <5>2. CASE c = n /\ j = at
            <6>1. at # 0
              BY <3>1, <5>2
            <6> QED  BY <1>10, <3>7, <5>1, <5>2, <6>1
          <5>3. CASE ~(c = n /\ j = at)
            BY <5>1, <5>3
          <5> QED  BY <5>2, <5>3
        <4> QED  BY <4>1, <4>2
      <3>9. GensTo(globals', chains'[c], i) = GensTo(globals, chains[c], i)
        BY <3>8 DEF GensTo
      <3> QED  BY <1>9, <3>6, <3>9
    <2>3. ASSUME NEW c \in 1..n, NEW i \in 0..Len(chains[c]), changed, at = 0 \/ (c = n /\ at <= i)
          PROVE  \E g \in GensTo(globals', chains'[c], i) : g > next_gen
      <3>1. node.export_gen = next_gen + 1
        BY <1>4, <1>5, <2>3
      <3>2. node.export_gen > next_gen /\ node.export_gen # 0
        BY <1>2, <3>1
      <3>3. CASE at = 0
        BY <1>8, <3>2, <3>3 DEF GensTo
      <3>4. CASE at # 0
        <4>1. at \in 1..i /\ at \in 1..Len(chains[c]) /\ c = n
          BY <1>2, <1>10, <2>3, <3>4
        <4>2. chains'[c][at] = node
          BY <1>8, <4>1
        <4> QED  BY <3>2, <4>1, <4>2 DEF GensTo
      <3> QED  BY <3>3, <3>4
    <2>4. ASSUME NEW c \in 1..n, NEW i \in 0..Len(chains[c]), at # 0, ~(c = n /\ at <= i)
          PROVE  Same(c, i)
      <3>1. \A j \in 1..i : j \in 1..Len(chains[c]) /\ ~(c = n /\ j = at)
        BY <1>2, <2>4
      <3> QED  BY <1>8, <2>1, <2>4, <3>1
    <2>5. ASSUME NEW c \in 1..n, NEW i \in 0..Len(chains[c])
          PROVE  \/ unveiled'
                 \/ \E g \in GensTo(globals', chains'[c], i) : g > next_gen
                 \/ Same(c, i)
      BY <2>2, <2>3, <2>4
    <2> HIDE DEF Same
    <2>6. \A c \in 1..Len(chains') : \A i \in 0..Len(chains'[c]) :
            \/ unveiled'
            \/ \E g \in GensTo(globals', chains'[c], i) : g > next_gen
            \/ Same(c, i)
      BY <1>8, <2>5
    <2>7. \A c \in 1..Len(chains') : \A i \in 0..Len(chains'[c]) :
            \/ unveiled'
            \/ uvar_gen < uvar_gen'
            \/ \E g \in GensTo(globals', chains'[c], i) : g > next_gen
            \/ /\ uvar_gen = uvar_gen'
               /\ \E d \in 1..Len(chains) : \E j \in 0..Len(chains[d]) :
                    /\ GensTo(globals', chains'[c], i) = GensTo(globals, chains[d], j)
                    /\ Inherited(Overlaid(globals', chains'[c])[i], uvars') = ExportedTo(chains[d], j)
      BY <1>8, <1>9, <2>6 DEF Same
    <2>8. UNCHANGED cache /\ uvar_gen' \in Nat /\ uvar_gen <= uvar_gen'
      BY <1>2, <1>9 DEF cache
    <2> QED  BY <1>4, <2>7, <2>8, CacheKept
  <1> QED  BY <1>11, <1>13, <1>14, <1>15 DEF IInv

-----------------------------------------------------------------------------
(* The universal variables.                                                 *)

ShownUniversal(universals, k) == IF universals[k].exports THEN universals[k] ELSE Unset

LEMMA UniversalKeeps ==
  ASSUME IInv, UNCHANGED <<env_nodes, cache>>,
         uvars' \in Tables, uvar_gen' \in Nat, uvar_gen' <= MaxUvarGen, uvar_gen <= uvar_gen',
         unveiled' \in BOOLEAN, unveiled => unveiled', changes' \in 0..MaxChanges,
         uvar_gen' = uvar_gen /\ ~unveiled' =>
           \A k \in Keys : ShownUniversal(uvars', k) = ShownUniversal(uvars, k)
  PROVE  IInv'
  <1>1. TypeOK /\ QuietInv /\ GensInv /\ uvar_gen \in Nat /\ next_gen \in Nat
    BY StateTypes DEF IInv
  <1>2. /\ globals' = globals /\ chains' = chains /\ next_gen' = next_gen /\ arrays' = arrays
        /\ export_array' = export_array /\ export_array_generations' = export_array_generations
    BY DEF env_nodes, cache
  <1>3. TypeOK'
    <2>1. uvar_gen >= 1
      BY <1>1 DEF TypeOK
    <2>2. uvar_gen' \in 1..MaxUvarGen
      BY <1>1, <2>1, EnvironmentAssumption
    <2> QED  BY <1>1, <1>2, <2>2 DEF TypeOK
  <1>4. QuietInv' /\ GensInv'
    <2>1. QuietInv' = QuietInv
      BY <1>2 DEF QuietInv
    <2>2. GensInv' = GensInv
      BY <1>2 DEF GensInv
    <2> QED  BY <1>1, <2>1, <2>2
  <1>5. ASSUME uvar_gen' = uvar_gen, ~unveiled', NEW c \in 1..Len(chains), NEW i \in 0..Len(chains[c])
        PROVE  Inherited(Overlaid(globals, chains[c])[i], uvars') = ExportedTo(chains[c], i)
    BY <1>5 DEF ExportedTo, Inherited, ShownUniversal
  <1>6. RecordedInv' /\ CacheInv'
    <2>1. \A c \in 1..Len(chains') : \A i \in 0..Len(chains'[c]) :
            \/ unveiled'
            \/ uvar_gen < uvar_gen'
            \/ \E g \in GensTo(globals', chains'[c], i) : g > next_gen
            \/ /\ uvar_gen = uvar_gen'
               /\ \E d \in 1..Len(chains) : \E j \in 0..Len(chains[d]) :
                    /\ GensTo(globals', chains'[c], i) = GensTo(globals, chains[d], j)
                    /\ Inherited(Overlaid(globals', chains'[c])[i], uvars') = ExportedTo(chains[d], j)
      BY <1>1, <1>2, <1>5
    <2>2. UNCHANGED cache /\ next_gen' \in Nat /\ next_gen <= next_gen'
      BY <1>1, <1>2
    <2> QED  BY <2>1, <2>2, CacheKept
  <1> QED  BY <1>3, <1>4, <1>6 DEF IInv

-----------------------------------------------------------------------------
(* Scopes begin and end.                                                    *)

(* What a step does that ends scopes, or opens one: each prefix of each     *)
(* chain was there, or has a new generation, or shows what a prefix did     *)
(* that has the same ones.                                                  *)
LEMMA ScopesKeep ==
  ASSUME IInv, UNCHANGED <<globals, universal, cache, unveiled, changes>>, TypeOK',
         next_gen' \in Nat, next_gen <= next_gen', QuietInv', GensInv',
         \A c \in 1..Len(chains') : \A i \in 0..Len(chains'[c]) :
           \/ \E g \in GensTo(globals, chains'[c], i) : g > next_gen
           \/ \E d \in 1..Len(chains) : \E j \in 0..Len(chains[d]) :
                /\ GensTo(globals, chains'[c], i) = GensTo(globals, chains[d], j)
                /\ \A k \in Keys :
                     Overlaid(globals, chains'[c])[i][k] = Overlaid(globals, chains[d])[j][k]
  PROVE  IInv'
  <1>1. /\ globals' = globals /\ uvars' = uvars /\ uvar_gen' = uvar_gen /\ unveiled' = unveiled
        /\ UNCHANGED cache
    BY DEF universal
  <1>2. uvar_gen \in Nat
    BY StateTypes DEF IInv
  <1>3. ASSUME NEW c \in 1..Len(chains'), NEW i \in 0..Len(chains'[c])
        PROVE  \/ \E g \in GensTo(globals, chains'[c], i) : g > next_gen
               \/ \E d \in 1..Len(chains) : \E j \in 0..Len(chains[d]) :
                    /\ GensTo(globals, chains'[c], i) = GensTo(globals, chains[d], j)
                    /\ Inherited(Overlaid(globals, chains'[c])[i], uvars) = ExportedTo(chains[d], j)
    <2>1. CASE \E g \in GensTo(globals, chains'[c], i) : g > next_gen
      BY <2>1
    <2>2. ASSUME NEW d \in 1..Len(chains), NEW j \in 0..Len(chains[d]),
                 GensTo(globals, chains'[c], i) = GensTo(globals, chains[d], j),
                 \A k \in Keys :
                   Overlaid(globals, chains'[c])[i][k] = Overlaid(globals, chains[d])[j][k]
          PROVE  Inherited(Overlaid(globals, chains'[c])[i], uvars) = ExportedTo(chains[d], j)
      BY <2>2 DEF ExportedTo, Inherited
    <2> QED  BY <2>1, <2>2
  <1>4. \A c \in 1..Len(chains') : \A i \in 0..Len(chains'[c]) :
          \/ unveiled'
          \/ uvar_gen < uvar_gen'
          \/ \E g \in GensTo(globals', chains'[c], i) : g > next_gen
          \/ /\ uvar_gen = uvar_gen'
             /\ \E d \in 1..Len(chains) : \E j \in 0..Len(chains[d]) :
                  /\ GensTo(globals', chains'[c], i) = GensTo(globals, chains[d], j)
                  /\ Inherited(Overlaid(globals', chains'[c])[i], uvars') = ExportedTo(chains[d], j)
    BY <1>1, <1>3
  <1>5. RecordedInv' /\ CacheInv'
    BY <1>1, <1>2, <1>4, CacheKept
  <1> QED  BY <1>5 DEF IInv

(* A chain that begins as another one shows and has the same there. *)
LEMMA SamePrefix ==
  ASSUME NEW global \in Nodes, NEW c \in Chain, NEW d \in Chain, NEW n \in 0..Len(c), n \in 0..Len(d),
         \A j \in 1..n : c[j] = d[j]
  PROVE  /\ GensTo(global, c, n) = GensTo(global, d, n)
         /\ \A k \in Keys : Overlaid(global, c)[n][k] = Overlaid(global, d)[n][k]
  <1>1. GensTo(global, c, n) = GensTo(global, d, n)
    BY DEF GensTo
  <1>2. ASSUME NEW k \in Keys  PROVE Alike(global, global, c, d, n, k)
    BY DEF Alike
  <1>3. ASSUME NEW k \in Keys
        PROVE  Overlaid(global, c)[n][k] = Overlaid(global, d)[n][k]
    BY <1>2, SameShown
  <1> QED  BY <1>1, <1>3

(* A node without variables and generation changes neither. *)
LEMMA BlankNode ==
  ASSUME NEW global \in Nodes, NEW c \in Chain, NEW n \in 1..Len(c),
         c[n].export_gen = 0, \A k \in Keys : ~Has(c[n].env, k)
  PROVE  /\ GensTo(global, c, n) = GensTo(global, c, n - 1)
         /\ \A k \in Keys : Overlaid(global, c)[n][k] = Overlaid(global, c)[n - 1][k]
  <1>1. Len(c) \in Nat /\ n \in 1..n /\ \A j \in 1..n : j = n \/ j \in 1..(n - 1)
    BY ChainTypes
  <1>2. \A j \in 1..(n - 1) : j \in 1..n
    BY <1>1
  <1>3. {c[j].export_gen : j \in 1..n} = {c[j].export_gen : j \in 1..(n - 1)} \cup {0}
    BY <1>1, <1>2
  <1>4. GensTo(global, c, n) = GensTo(global, c, n - 1)
    BY <1>3 DEF GensTo
  <1> QED  BY <1>4, SilentNode

(* The variable that is passed on: the innermost exported one of its name. *)
LEMMA PassedLemma ==
  ASSUME TypeOK, NEW k \in Keys
  PROVE  \/ /\ Passed(k) = Unset /\ \A j \in 1..Len(locals) : ~locals[j].env[k].exports
         \/ \E i \in 1..Len(locals) :
              /\ Passed(k) = locals[i].env[k] /\ locals[i].env[k].exports
              /\ \A j \in 1..Len(locals) : j > i => ~locals[j].env[k].exports
  <1> DEFINE With == {i \in 1..Len(locals) : locals[i].env[k].exports}
             at == IF With # {} THEN Max(With) ELSE 0
  <1>1. Len(locals) \in Nat /\ With \in SUBSET (1..Len(locals))
    BY StateTypes
  <1>2. Passed(k) = IF at = 0 THEN Unset ELSE locals[at].env[k]
    BY DEF Passed, SelectLastInSeq
  <1>3. CASE With = {}
    BY <1>2, <1>3
  <1>4. CASE With # {}
    <2>1. Max(With) \in With /\ \A j \in With : Max(With) >= j
      <3> HIDE DEF With
      <3> QED  BY <1>1, <1>4, Innermost
    <2>2. PICK i \in With : i = Max(With)
      BY <2>1
    <2>3. i \in 1..Len(locals) /\ locals[i].env[k].exports /\ Passed(k) = locals[i].env[k]
      <3>1. at = i /\ i \in 1..Len(locals) /\ locals[i].env[k].exports
        BY <1>4, <2>2
      <3>2. i # 0
        BY <1>1, <3>1
      <3> HIDE DEF at
      <3> QED  BY <1>2, <3>1, <3>2
    <2>4. ASSUME NEW j \in 1..Len(locals), j > i  PROVE ~locals[j].env[k].exports
      <3>1. i >= j \/ j \notin With
        <4> HIDE DEF With
        <4> QED  BY <2>1, <2>2
      <3> QED  BY <1>1, <2>3, <2>4, <3>1
    <2> QED  BY <2>3, <2>4
  <1> QED  BY <1>3, <1>4

LEMMA ExportedLocalsCount ==
  ASSUME TypeOK
  PROVE  /\ Cardinality(ExportedLocals) \in Nat
         /\ ExportedLocals # {} => Cardinality(ExportedLocals) > 0
         /\ ExportedLocals = {} => \A k \in Keys : Passed(k) = Unset
  <1>1. Len(locals) \in Nat /\ DOMAIN locals = 1..Len(locals)
    BY StateTypes
  <1>2. IsFiniteSet((DOMAIN locals) \X Keys)
    <2>1. IsFiniteSet(DOMAIN locals)
      BY <1>1, FS_Interval
    <2> QED  BY <2>1, FS_Product, EnvironmentAssumption
  <1>3. ExportedLocals \in SUBSET ((DOMAIN locals) \X Keys)
    BY DEF ExportedLocals
  <1>4. IsFiniteSet(ExportedLocals)
    BY <1>2, <1>3, FS_Subset
  <1>5. Cardinality(ExportedLocals) \in Nat
    BY <1>4, FS_CardinalityType
  <1>6. Cardinality(ExportedLocals) = 0 => ExportedLocals = {}
    BY <1>4, FS_EmptySet
  <1>7. ASSUME ExportedLocals = {}, NEW k \in Keys  PROVE Passed(k) = Unset
    <2>1. ASSUME NEW i \in 1..Len(locals), locals[i].env[k].exports  PROVE FALSE
      <3>1. <<i, k>> \in ExportedLocals
        BY <1>1, <2>1 DEF ExportedLocals
      <3> QED  BY <1>7, <3>1
    <2> QED  BY <2>1, PassedLemma
  <1> QED  BY <1>5, <1>6, <1>7

LEMMA PushShadowingKeeps ==
  ASSUME IInv, PushShadowing
  PROVE  IInv'
  <1> DEFINE node == [env |-> [k \in Keys |-> Passed(k)], new_scope |-> TRUE,
                      export_gen |-> IF ExportedLocals = {} THEN 0 ELSE next_gen']
             chain == <<node>>
             n == Len(chains)
  <1>1. TypeOK /\ QuietInv /\ GensInv
    BY DEF IInv
  <1>2. /\ chains \in Seq(Chain) /\ n \in Nat /\ n > 0 /\ n \in 1..n /\ locals = chains[n]
        /\ globals \in Nodes /\ next_gen \in Nat /\ globals.export_gen \in Nat
        /\ \A c \in 1..n : /\ chains[c] \in Chain /\ chains[c] # <<>> /\ Len(chains[c]) \in Nat
                           /\ \A i \in 1..Len(chains[c]) : chains[c][i].export_gen \in Nat
    BY <1>1, StateTypes
  <1>3. /\ UNCHANGED <<globals, universal, cache, changes>> /\ chains' = Append(chains, chain)
        /\ unveiled' = unveiled
    BY <1>1 DEF PushShadowing, Unveil, TypeOK
  <1>4. /\ next_gen' \in Nat /\ next_gen <= next_gen' /\ next_gen' \in 0..MaxGen
        /\ ExportedLocals # {} => next_gen' > next_gen
    <2>1. next_gen' = next_gen + Cardinality(ExportedLocals) /\ next_gen' <= MaxGen /\ MaxGen \in Nat
      BY EnvironmentAssumption DEF PushShadowing, NextGenerations
    <2> QED  BY <1>1, <1>2, <2>1, ExportedLocalsCount
  <1>5. node \in Nodes /\ node.export_gen = (IF ExportedLocals = {} THEN 0 ELSE next_gen')
        /\ \A k \in Keys : node.env[k] = Passed(k)
    <2>1. \A k \in Keys : Passed(k) \in Vars \cup {Unset}
      <3>1. \A i \in 1..Len(locals) : \A k \in Keys : locals[i].env[k] \in Variable
        BY <1>1, StateTypes, NodeTypes, VariableTypes
      <3> QED  BY <1>1, <3>1, PassedLemma DEF Variable
    <2> DEFINE e == [k \in Keys |-> Passed(k)]
               gen == IF ExportedLocals = {} THEN 0 ELSE next_gen'
    <2>2. e \in Tables
      BY <2>1 DEF Tables, Unset
    <2>3. gen \in 0..MaxGen
      <3>1. MaxGen \in Nat
        BY EnvironmentAssumption
      <3> QED  BY <1>4, <3>1
    <2>4. node = [env |-> e, new_scope |-> TRUE, export_gen |-> gen]
      OBVIOUS
    <2>5. \A k \in Keys : e[k] = Passed(k)
      OBVIOUS
    <2> HIDE DEF e, node
    <2> HIDE DEF gen
    <2>6. node.export_gen = gen /\ node.env = e
      BY <2>4
    <2>7. node \in Nodes
      BY <2>2, <2>3, <2>4 DEF Nodes
    <2> QED  BY <2>5, <2>6, <2>7 DEF gen
  <1>6. ExportedLocals = {} => node.export_gen = 0 /\ \A k \in Keys : ~Has(node.env, k)
    BY <1>1, <1>5, ExportedLocalsCount DEF Has
  <1>7. node.export_gen # 0 => node.export_gen > next_gen /\ node.export_gen = next_gen'
    BY <1>4, <1>5
  <1> HIDE DEF node
  <1>8. chain \in Chain /\ Len(chain) = 1 /\ chain[1] = node
    BY <1>5 DEF Chain
  <1> HIDE DEF chain
  <1>9. /\ chains' \in Seq(Chain) /\ Len(chains') = n + 1 /\ chains'[n + 1] = chain
        /\ \A c \in 1..n : chains'[c] = chains[c]
    BY <1>2, <1>3, <1>8
  <1>10. \A c \in 1..(n + 1) : c = n + 1 \/ c \in 1..n
    BY <1>2
  <1>11. TypeOK'
    <2>1. DOMAIN chains' = 1..(n + 1) /\ chains' # <<>>
      BY <1>2, <1>9
    <2>2. chain # <<>>
      BY <1>8
    <2>3. \A c \in DOMAIN chains' : chains'[c] # <<>>
      BY <1>2, <1>9, <1>10, <2>1, <2>2
    <2> QED  BY <1>1, <1>3, <1>4, <1>9, <2>1, <2>3 DEF TypeOK, Chain, universal, cache
  <1>12. QuietInv'
    <2>1. QuietNode(node)
      <3>1. CASE ExportedLocals = {}
        <4>1. \A k \in Keys : ~node.env[k].exports
          BY <1>5, <1>6, <3>1, NodeTypes, VariableTypes
        <4> QED  BY <4>1 DEF QuietNode
      <3>2. CASE ExportedLocals # {}
        <4>1. node.export_gen # 0
          BY <1>2, <1>4, <1>5, <3>2
        <4> QED  BY <4>1 DEF QuietNode
      <3> QED  BY <3>1, <3>2
    <2>2. \A i \in 1..Len(chain) : chain[i] = node
      BY <1>8
    <2>3. \A c \in 1..(n + 1) : \A i \in 1..Len(chains'[c]) : QuietNode(chains'[c][i])
      BY <1>1, <1>9, <1>10, <2>1, <2>2 DEF QuietInv
    <2>4. QuietNode(globals')
      BY <1>1, <1>3 DEF QuietInv
    <2> QED  BY <1>9, <2>3, <2>4 DEF QuietInv
  <1>13. GensInv'
    <2>1. \A i \in 1..Len(chain) : i = 1 /\ chain[i].export_gen = node.export_gen
      BY <1>8
    <2>2. globals' = globals /\ globals.export_gen <= next_gen
      BY <1>1, <1>3 DEF GensInv
    <2>3. ASSUME NEW c \in 1..(n + 1), NEW i \in 1..Len(chains'[c])
          PROVE  /\ chains'[c][i].export_gen <= next_gen'
                 /\ chains'[c][i].export_gen # 0 => chains'[c][i].export_gen # globals'.export_gen
      <3>1. CASE c = n + 1
        <4>1. chains'[c][i].export_gen = node.export_gen
          BY <1>9, <2>1, <3>1
        <4>2. node.export_gen \in Nat
          BY <1>5, NodeTypes
        <4> QED  BY <1>2, <1>4, <1>7, <2>2, <4>1, <4>2
      <3>2. CASE c \in 1..n
        <4>1. chains'[c] = chains[c] /\ i \in 1..Len(chains[c])
          BY <1>9, <3>2
        <4>2. /\ chains[c][i].export_gen <= next_gen /\ chains[c][i].export_gen \in Nat
              /\ chains[c][i].export_gen # 0 => chains[c][i].export_gen # globals.export_gen
          BY <1>1, <1>2, <3>2, <4>1 DEF GensInv
        <4> QED  BY <1>2, <1>4, <2>2, <4>1, <4>2
      <3> QED  BY <1>10, <3>1, <3>2
    <2>4. ASSUME NEW c \in 1..(n + 1), NEW d \in 1..(n + 1),
                 NEW i \in 1..Len(chains'[c]), NEW j \in 1..Len(chains'[d]),
                 chains'[c][i].export_gen # 0, chains'[c][i].export_gen = chains'[d][j].export_gen
          PROVE  c = d /\ i = j
      <3>1. CASE c = n + 1 /\ d = n + 1
        BY <1>9, <2>1, <3>1
      <3>2. CASE c \in 1..n /\ d \in 1..n
        <4>1. chains'[c] = chains[c] /\ chains'[d] = chains[d]
          BY <1>9, <3>2
        <4> QED  BY <1>1, <2>4, <3>2, <4>1 DEF GensInv
      <3>3. CASE c = n + 1 /\ d \in 1..n
        <4>1. chains'[c][i].export_gen = node.export_gen /\ chains'[d] = chains[d]
          BY <1>9, <2>1, <3>3
        <4>2. chains[d][j].export_gen <= next_gen /\ chains[d][j].export_gen \in Nat
          BY <1>1, <1>2, <3>3, <4>1 DEF GensInv
        <4>3. node.export_gen # 0 /\ node.export_gen = chains[d][j].export_gen
          BY <2>4, <4>1
        <4> QED  BY <1>2, <1>7, <4>2, <4>3
      <3>4. CASE d = n + 1 /\ c \in 1..n
        <4>1. chains'[d][j].export_gen = node.export_gen /\ chains'[c] = chains[c]
          BY <1>9, <2>1, <3>4
        <4>2. chains[c][i].export_gen <= next_gen /\ chains[c][i].export_gen \in Nat
          BY <1>1, <1>2, <3>4, <4>1 DEF GensInv
        <4>3. node.export_gen # 0 /\ node.export_gen = chains[c][i].export_gen
          BY <2>4, <4>1
        <4> QED  BY <1>2, <1>7, <4>2, <4>3
      <3> QED  BY <1>10, <3>1, <3>2, <3>3, <3>4
    <2> QED  BY <1>9, <2>2, <2>3, <2>4, <1>2, <1>4 DEF GensInv
  <1> DEFINE Kept(c, i) ==
               \/ \E g \in GensTo(globals, c, i) : g > next_gen
               \/ \E d \in 1..Len(chains) : \E j \in 0..Len(chains[d]) :
                    /\ GensTo(globals, c, i) = GensTo(globals, chains[d], j)
                    /\ \A k \in Keys :
                         Overlaid(globals, c)[i][k] = Overlaid(globals, chains[d])[j][k]
  <1>14. Kept(chain, 0)
    <2>1. /\ GensTo(globals, chain, 0) = GensTo(globals, chains[n], 0)
          /\ \A k \in Keys : Overlaid(globals, chain)[0][k] = Overlaid(globals, chains[n])[0][k]
      <3>1. 0 \in 0..Len(chain) /\ 0 \in 0..Len(chains[n])
        BY <1>2, <1>8
      <3>2. \A j \in 1..0 : chain[j] = chains[n][j]
        OBVIOUS
      <3> QED  BY <1>2, <1>8, <3>1, <3>2, SamePrefix
    <2>2. 0 \in 0..Len(chains[n])
      BY <1>2
    <2> QED  BY <1>2, <2>1, <2>2
  <1>15. Kept(chain, 1)
    <2>1. CASE ExportedLocals # {}
      <3>1. node.export_gen > next_gen /\ node.export_gen # 0
        BY <1>2, <1>4, <1>5, <2>1
      <3>2. node.export_gen \in GensTo(globals, chain, 1)
        BY <1>8, <3>1 DEF GensTo
      <3> QED  BY <3>1, <3>2
    <2>2. CASE ExportedLocals = {}
      <3>1. /\ GensTo(globals, chain, 1) = GensTo(globals, chain, 1 - 1)
            /\ \A k \in Keys : Overlaid(globals, chain)[1][k] = Overlaid(globals, chain)[1 - 1][k]
        <4>1. 1 \in 1..Len(chain)
          BY <1>8
        <4> QED  BY <1>2, <1>6, <1>8, <2>2, <4>1, BlankNode
      <3>2. 1 - 1 = 0
        OBVIOUS
      <3> QED  BY <3>1, <3>2, <1>14
    <2> QED  BY <2>1, <2>2
  <1>16. ASSUME NEW c \in 1..n, NEW i \in 0..Len(chains[c])  PROVE Kept(chains[c], i)
    OBVIOUS
  <1>17. ASSUME NEW c \in 1..Len(chains'), NEW i \in 0..Len(chains'[c])  PROVE Kept(chains'[c], i)
    <2> HIDE DEF Kept
    <2>1. i \in 0..1 => i = 0 \/ i = 1
      OBVIOUS
    <2> QED  BY <1>8, <1>9, <1>10, <1>14, <1>15, <1>16, <2>1
  <1>18. UNCHANGED <<globals, universal, cache, unveiled, changes>>
    BY <1>3
  <1> QED  BY <1>4, <1>11, <1>12, <1>13, <1>17, <1>18, ScopesKeep

LEMMA PushNonshadowingKeeps ==
  ASSUME IInv, PushNonshadowing
  PROVE  IInv'
  <1> DEFINE n == Len(chains)
             len == Len(locals)
             chain == Append(locals, Node(FALSE))
  <1>1. TypeOK /\ QuietInv /\ GensInv
    BY DEF IInv
  <1>2. /\ chains \in Seq(Chain) /\ n \in Nat /\ n > 0 /\ n \in 1..n /\ locals = chains[n]
        /\ globals \in Nodes /\ next_gen \in Nat /\ locals \in Chain /\ len \in Nat
        /\ \A c \in 1..n : chains[c] \in Chain /\ chains[c] # <<>> /\ Len(chains[c]) \in Nat
    BY <1>1, StateTypes
  <1>3. /\ UNCHANGED <<globals, next_gen, universal, cache, changes>> /\ unveiled' = unveiled
        /\ chains' = [chains EXCEPT ![n] = chain]
    BY <1>1, <1>2 DEF PushNonshadowing, Unveil, TypeOK
  <1>4. Node(FALSE) \in Nodes /\ Node(FALSE).export_gen = 0 /\ QuietNode(Node(FALSE))
        /\ \A k \in Keys : ~Has(Node(FALSE).env, k)
    <2>1. 0 \in 0..MaxGen
      BY EnvironmentAssumption
    <2>2. NoVars \in Tables
      BY DEF NoVars, Tables, Unset
    <2> QED  BY <2>1, <2>2 DEF Node, Nodes, NoVars, Has, QuietNode, Unset
  <1> DEFINE blank == Node(FALSE)
  <1> HIDE DEF blank
  <1>5. /\ chain \in Chain /\ Len(chain) = len + 1 /\ chain # <<>>
        /\ \A i \in 1..len : chain[i] = locals[i]
        /\ chain[len + 1] = blank
        /\ \A i \in 1..(len + 1) : i \in 1..len \/ i = len + 1
    <2>1. blank \in Nodes /\ chain = Append(locals, blank)
      BY <1>4 DEF blank
    <2> HIDE DEF chain
    <2>2. /\ chain \in Chain /\ Len(chain) = len + 1
          /\ \A i \in 1..len : chain[i] = locals[i]
          /\ chain[len + 1] = blank
      BY <1>2, <2>1 DEF Chain
    <2>3. chain # <<>> /\ \A i \in 1..(len + 1) : i \in 1..len \/ i = len + 1
      BY <1>2, <2>2
    <2> QED  BY <2>2, <2>3
  <1> HIDE DEF chain
  <1>6. /\ chains' \in Seq(Chain) /\ Len(chains') = n /\ chains' # <<>>
        /\ \A c \in 1..n : chains'[c] = IF c = n THEN chain ELSE chains[c]
        /\ \A c \in 1..n : chains'[c] # <<>> /\ chains'[c] \in Chain
    BY <1>2, <1>3, <1>5
  <1>7. TypeOK'
    <2>1. \A c \in DOMAIN chains' : chains'[c] # <<>>
      BY <1>6
    <2> QED  BY <1>1, <1>3, <1>6, <2>1 DEF TypeOK, Chain, universal, cache
  <1>8. ASSUME NEW c \in 1..n, NEW i \in 1..Len(chains'[c])
        PROVE  \/ i \in 1..Len(chains[c]) /\ chains'[c][i] = chains[c][i]
               \/ chains'[c][i] = blank
    BY <1>2, <1>5, <1>6
  <1>9. QuietInv'
    <2>1. QuietNode(blank) /\ QuietNode(globals')
      BY <1>1, <1>3, <1>4 DEF blank, QuietInv
    <2>2. \A c \in 1..n : \A i \in 1..Len(chains'[c]) : QuietNode(chains'[c][i])
      BY <1>1, <1>8, <2>1 DEF QuietInv
    <2>3. Len(chains') = n
      BY <1>6
    <2> HIDE DEF n
    <2> QED  BY <2>1, <2>2, <2>3 DEF QuietInv
  <1>10. GensInv'
    <2>1. blank.export_gen = 0 /\ 0 <= next_gen
      <3>1. blank.export_gen = 0
        BY <1>4 DEF blank
      <3>2. next_gen \in Nat
        BY <1>2
      <3> QED  BY <3>1, <3>2
    <2>2. globals' = globals /\ next_gen' = next_gen
      BY <1>3
    <2>3. ASSUME NEW c \in 1..n, NEW i \in 1..Len(chains'[c])
          PROVE  /\ chains'[c][i].export_gen <= next_gen'
                 /\ chains'[c][i].export_gen # 0 => chains'[c][i].export_gen # globals'.export_gen
      BY <1>1, <1>8, <2>1, <2>2 DEF GensInv
    <2>4. ASSUME NEW c \in 1..n, NEW d \in 1..n, NEW i \in 1..Len(chains'[c]), NEW j \in 1..Len(chains'[d]),
                 chains'[c][i].export_gen # 0, chains'[c][i].export_gen = chains'[d][j].export_gen
          PROVE  c = d /\ i = j
      <3>1. i \in 1..Len(chains[c]) /\ chains'[c][i] = chains[c][i]
        BY <1>8, <2>1, <2>4
      <3>2. j \in 1..Len(chains[d]) /\ chains'[d][j] = chains[d][j]
        BY <1>8, <2>1, <2>4
      <3> QED  BY <1>1, <2>4, <3>1, <3>2 DEF GensInv
    <2> QED  BY <1>1, <1>6, <2>2, <2>3, <2>4 DEF GensInv
  <1> DEFINE Kept(c, i) ==
               \/ \E g \in GensTo(globals, c, i) : g > next_gen
               \/ \E d \in 1..Len(chains) : \E j \in 0..Len(chains[d]) :
                    /\ GensTo(globals, c, i) = GensTo(globals, chains[d], j)
                    /\ \A k \in Keys :
                         Overlaid(globals, c)[i][k] = Overlaid(globals, chains[d])[j][k]
  <1>11. ASSUME NEW i \in 0..len
         PROVE  /\ GensTo(globals, chain, i) = GensTo(globals, chains[n], i)
                /\ \A k \in Keys :
                     Overlaid(globals, chain)[i][k] = Overlaid(globals, chains[n])[i][k]
    <2>1. i \in 0..Len(chain) /\ i \in 0..Len(chains[n]) /\ \A j \in 1..i : chain[j] = chains[n][j]
      BY <1>2, <1>5
    <2> QED  BY <1>2, <1>5, <2>1, SamePrefix
  <1>12. ASSUME NEW i \in 0..len  PROVE Kept(chain, i)
    BY <1>2, <1>11
  <1>13. Kept(chain, len + 1)
    <2>1. len + 1 \in 1..Len(chain) /\ (len + 1) - 1 = len /\ len \in 0..len
      BY <1>2, <1>5
    <2>2. chain[len + 1].export_gen = 0 /\ \A k \in Keys : ~Has(chain[len + 1].env, k)
      BY <1>4, <1>5 DEF blank
    <2>3. /\ GensTo(globals, chain, len + 1) = GensTo(globals, chain, len)
          /\ \A k \in Keys : Overlaid(globals, chain)[len + 1][k] = Overlaid(globals, chain)[len][k]
      <3>1. /\ GensTo(globals, chain, len + 1) = GensTo(globals, chain, (len + 1) - 1)
            /\ \A k \in Keys :
                 Overlaid(globals, chain)[len + 1][k] = Overlaid(globals, chain)[(len + 1) - 1][k]
        BY <1>2, <1>5, <2>1, <2>2, BlankNode
      <3> QED  BY <2>1, <3>1
    <2>4. Kept(chain, len)
      BY <1>12, <2>1
    <2> QED  BY <2>3, <2>4
  <1>14. ASSUME NEW c \in 1..n, NEW i \in 0..Len(chains[c])  PROVE Kept(chains[c], i)
    OBVIOUS
  <1>15. ASSUME NEW c \in 1..Len(chains'), NEW i \in 0..Len(chains'[c])  PROVE Kept(chains'[c], i)
    <2> HIDE DEF Kept
    <2>1. i \in 0..(len + 1) => i \in 0..len \/ i = len + 1
      BY <1>2
    <2> QED  BY <1>5, <1>6, <1>12, <1>13, <1>14, <2>1
  <1>16. UNCHANGED <<globals, universal, cache, unveiled, changes>> /\ next_gen' \in Nat /\ next_gen <= next_gen'
    BY <1>2, <1>3
  <1> QED  BY <1>7, <1>9, <1>10, <1>15, <1>16, ScopesKeep

LEMMA PopKeeps ==
  ASSUME IInv, Pop
  PROVE  IInv'
  <1> DEFINE n == Len(chains)
             m == Len(chains')
  <1>1. TypeOK /\ QuietInv /\ GensInv
    BY DEF IInv
  <1>2. /\ chains \in Seq(Chain) /\ n \in Nat /\ n > 0 /\ n \in 1..n /\ locals = chains[n]
        /\ globals \in Nodes /\ next_gen \in Nat /\ locals \in Chain /\ Len(locals) \in Nat
        /\ \A c \in 1..n : chains[c] \in Chain /\ chains[c] # <<>> /\ Len(chains[c]) \in Nat
    BY <1>1, StateTypes
  <1>3. UNCHANGED <<globals, next_gen, universal, cache, changes>> /\ unveiled' = unveiled
    BY <1>1 DEF Pop, Unveil, TypeOK
  <1>4. /\ chains' \in Seq(Chain) /\ m \in 1..n
        /\ \A c \in 1..m :
             /\ chains'[c] \in Chain /\ chains'[c] # <<>> /\ Len(chains'[c]) \in 0..Len(chains[c])
             /\ \A i \in 1..Len(chains'[c]) : chains'[c][i] = chains[c][i]
    <2>1. CASE Len(locals) > 1 /\ chains' = [chains EXCEPT ![n] = Front(@)]
      <3> DEFINE chain == Front(locals)
      <3>1. /\ chain \in Chain /\ Len(chain) = Len(locals) - 1
            /\ \A i \in 1..(Len(locals) - 1) : chain[i] = locals[i]
        BY <1>2, <2>1 DEF Front, Chain
      <3>2. chain # <<>>
        BY <1>2, <2>1, <3>1 DEF Chain
      <3>3. chains' = [chains EXCEPT ![n] = chain]
        BY <1>2, <2>1
      <3> HIDE DEF chain
      <3>4. /\ chains' \in Seq(Chain) /\ m = n
            /\ \A c \in 1..n : chains'[c] = IF c = n THEN chain ELSE chains[c]
        BY <1>2, <3>1, <3>3
      <3>5. Len(chain) \in 0..Len(locals)
        BY <1>2, <2>1, <3>1
      <3>6. \A c \in 1..n : Len(chains[c]) \in 0..Len(chains[c])
        BY <1>2
      <3>7. ASSUME NEW c \in 1..n
            PROVE  /\ chains'[c] \in Chain /\ chains'[c] # <<>> /\ Len(chains'[c]) \in 0..Len(chains[c])
                   /\ \A i \in 1..Len(chains'[c]) : chains'[c][i] = chains[c][i]
        <4>1. CASE c = n
          BY <1>2, <3>1, <3>2, <3>4, <3>5, <4>1
        <4>2. CASE c # n
          BY <1>2, <3>4, <3>6, <4>2
        <4> QED  BY <4>1, <4>2
      <3> QED  BY <1>2, <3>4, <3>7
    <2>2. CASE n > 1 /\ chains' = Front(chains)
      <3>1. /\ chains' \in Seq(Chain) /\ m = n - 1 /\ m \in 1..n
            /\ \A c \in 1..m : c \in 1..n /\ chains'[c] = chains[c]
        BY <1>2, <2>2 DEF Front
      <3>2. \A c \in 1..n : Len(chains[c]) \in 0..Len(chains[c])
        BY <1>2
      <3> QED  BY <1>2, <3>1, <3>2
    <2> QED  BY <2>1, <2>2 DEF Pop
  <1> HIDE DEF m
  <1>5. m \in Nat /\ \A c \in 1..m : c \in 1..n
    BY <1>2, <1>4
  <1>6. ASSUME NEW c \in 1..m
        PROVE  \A i \in 1..Len(chains'[c]) : i \in 1..Len(chains[c]) /\ chains'[c][i] = chains[c][i]
    BY <1>2, <1>4, <1>5
  <1>7. TypeOK'
    <2>1. DOMAIN chains' = 1..m /\ chains' # <<>>
      BY <1>2, <1>4 DEF m
    <2> QED  BY <1>1, <1>3, <1>4, <2>1 DEF TypeOK, Chain, universal, cache
  <1>8. QuietInv'
    <2>1. \A c \in 1..m : \A i \in 1..Len(chains'[c]) : QuietNode(chains'[c][i])
      BY <1>1, <1>5, <1>6 DEF QuietInv
    <2>2. QuietNode(globals')
      BY <1>1, <1>3 DEF QuietInv
    <2> QED  BY <2>1, <2>2 DEF QuietInv, m
  <1>9. GensInv'
    <2>1. globals' = globals /\ next_gen' = next_gen
      BY <1>3
    <2>2. \A c \in 1..m : \A i \in 1..Len(chains'[c]) :
            /\ chains'[c][i].export_gen <= next_gen'
            /\ chains'[c][i].export_gen # 0 => chains'[c][i].export_gen # globals'.export_gen
      <3>1. \A c \in 1..n : \A i \in 1..Len(chains[c]) :
              /\ chains[c][i].export_gen <= next_gen
              /\ chains[c][i].export_gen # 0 => chains[c][i].export_gen # globals.export_gen
        BY <1>1 DEF GensInv
      <3>2. ASSUME NEW c \in 1..m, NEW i \in 1..Len(chains'[c])
            PROVE  /\ chains'[c][i].export_gen <= next_gen'
                   /\ chains'[c][i].export_gen # 0 => chains'[c][i].export_gen # globals'.export_gen
        <4>1. c \in 1..n /\ i \in 1..Len(chains[c]) /\ chains'[c][i] = chains[c][i]
          BY <1>5, <1>6
        <4> QED  BY <2>1, <3>1, <4>1
      <3> QED  BY <3>2
    <2>3. ASSUME NEW c \in 1..m, NEW d \in 1..m, NEW i \in 1..Len(chains'[c]), NEW j \in 1..Len(chains'[d]),
                 chains'[c][i].export_gen # 0, chains'[c][i].export_gen = chains'[d][j].export_gen
          PROVE  c = d /\ i = j
      <3>1. /\ c \in 1..n /\ d \in 1..n /\ i \in 1..Len(chains[c]) /\ chains'[c][i] = chains[c][i]
            /\ j \in 1..Len(chains[d]) /\ chains'[d][j] = chains[d][j]
        BY <1>5, <1>6
      <3> QED  BY <1>1, <2>3, <3>1 DEF GensInv
    <2> QED  BY <1>1, <2>1, <2>2, <2>3 DEF GensInv, m
  <1>10. ASSUME NEW c \in 1..Len(chains'), NEW i \in 0..Len(chains'[c])
         PROVE  /\ c \in 1..n /\ i \in 0..Len(chains[c])
                /\ GensTo(globals, chains'[c], i) = GensTo(globals, chains[c], i)
                /\ \A k \in Keys : Overlaid(globals, chains'[c])[i][k] = Overlaid(globals, chains[c])[i][k]
    <2>1. c \in 1..m /\ c \in 1..n /\ chains'[c] \in Chain /\ chains[c] \in Chain
      BY <1>2, <1>4, <1>5 DEF m
    <2>2. i \in 0..Len(chains[c]) /\ \A j \in 1..i : chains'[c][j] = chains[c][j]
      <3>1. Len(chains'[c]) \in 0..Len(chains[c]) /\ Len(chains[c]) \in Nat
        BY <1>2, <1>4, <2>1
      <3>2. i \in 0..Len(chains[c]) /\ \A j \in 1..i : j \in 1..Len(chains'[c])
        BY <3>1
      <3> QED  BY <1>6, <2>1, <3>2
    <2> QED  BY <1>2, <2>1, <2>2, SamePrefix
  <1>11. UNCHANGED <<globals, universal, cache, unveiled, changes>> /\ next_gen' \in Nat /\ next_gen <= next_gen'
    BY <1>2, <1>3
  <1> QED  BY <1>7, <1>8, <1>9, <1>10, <1>11, ScopesKeep

-----------------------------------------------------------------------------
(* The array is made.                                                       *)

LEMMA ExportedTypes ==
  ASSUME TypeOK
  PROVE  Exported \in [Keys -> Values \cup {NoVar}]
  <1>1. globals \in Nodes /\ locals \in Chain /\ uvars \in Tables
    BY StateTypes
  <1>2. ASSUME NEW k \in Keys
        PROVE  Or(Overlaid(globals, locals)[Len(locals)][k],
                  IF uvars[k].exports THEN uvars[k] ELSE Unset).val \in Values \cup {NoVar}
    <2>1. Overlaid(globals, locals)[Len(locals)][k] = Shown(globals, k)
          \/ \E i \in 1..Len(locals) : Overlaid(globals, locals)[Len(locals)][k] = Shown(locals[i], k)
      BY <1>1, ChainShows, FindInChainLemma
    <2>2. \A node \in Nodes : node.env[k].val \in Values \cup {NoVar}
      BY NodeTypes, VariableTypes
    <2>3. Unset.val = NoVar /\ uvars[k].val \in Values \cup {NoVar}
      BY <1>1, VariableTypes
    <2>4. \A node \in Nodes : Shown(node, k).val \in Values \cup {NoVar}
      BY <2>2, <2>3 DEF Shown
    <2>5. Overlaid(globals, locals)[Len(locals)][k].val \in Values \cup {NoVar}
      BY <1>1, <2>1, <2>4, ChainTypes
    <2> QED  BY <2>3, <2>5 DEF Or
  <1> QED  BY <1>2 DEF Exported, Inherited

(* Two scopes with the generations of the one in use, and nothing hidden    *)
(* silently, export the same: beyond what they share no node has one.       *)
LEMMA SameGenerations ==
  ASSUME TypeOK, QuietInv, GensInv, ~ \E c \in DOMAIN chains : HidesSilently(chains[c]),
         NEW c \in 1..Len(chains), NEW i \in 0..Len(chains[c]),
         GensTo(globals, locals, Len(locals)) = GensTo(globals, chains[c], i),
         NEW k \in Keys
  PROVE  Overlaid(globals, chains[c])[i][k] = Overlaid(globals, locals)[Len(locals)][k]
  <1> DEFINE n == Len(chains)
             len == Len(locals)
  <1>1. /\ n \in 1..n /\ locals = chains[n] /\ locals \in Chain /\ len \in Nat /\ globals \in Nodes
        /\ chains[c] \in Chain /\ Len(chains[c]) \in Nat /\ DOMAIN chains = 1..n
    BY StateTypes
  <1>2. ASSUME NEW d \in 1..n
        PROVE  /\ ~Hides(globals, chains[d])
               /\ \A j \in 1..Len(chains[d]) : QuietNode(chains[d][j])
    <2>1. \A j \in 1..Len(chains[d]) : QuietNode(chains[d][j])
      BY DEF QuietInv
    <2>2. ~HidesSilently(chains[d]) /\ DOMAIN chains[d] = 1..Len(chains[d])
      BY <1>1, StateTypes
    <2>3. ~Hides(globals, chains[d])
      BY <2>1, <2>2 DEF Hides, HidesSilently, QuietNode
    <2> QED  BY <2>1, <2>3
  <1>3. ASSUME NEW j \in 1..len, locals[j].export_gen # 0
        PROVE  c = n /\ j \in 1..i
    <2>1. locals[j].export_gen \in GensTo(globals, chains[c], i)
      <3>1. locals[j].export_gen \in GensTo(globals, locals, len)
        BY <1>3 DEF GensTo
      <3> QED  BY <3>1
    <2>2. locals[j].export_gen # globals.export_gen
      BY <1>1, <1>3 DEF GensInv
    <2>3. PICK m \in 1..i : locals[j].export_gen = chains[c][m].export_gen
      BY <2>1, <2>2 DEF GensTo
    <2>4. m \in 1..Len(chains[c])
      BY <1>1
    <2>5. n = c /\ j = m
      BY <1>1, <1>3, <2>3, <2>4 DEF GensInv
    <2> QED  BY <2>5
  <1>4. ASSUME NEW j \in 1..i, chains[c][j].export_gen # 0
        PROVE  c = n
    <2>1. chains[c][j].export_gen \in GensTo(globals, locals, len)
      <3>1. chains[c][j].export_gen \in GensTo(globals, chains[c], i)
        BY <1>4 DEF GensTo
      <3> QED  BY <3>1
    <2>2. j \in 1..Len(chains[c])
      BY <1>1
    <2>3. chains[c][j].export_gen # globals.export_gen
      BY <1>4, <2>2 DEF GensInv
    <2>4. PICK m \in 1..len : chains[c][j].export_gen = locals[m].export_gen
      BY <2>1, <2>3 DEF GensTo
    <2> QED  BY <1>1, <1>4, <2>2, <2>4 DEF GensInv
  <1>5. CASE c = n
    <2>1. i \in 0..len /\ len \in 0..Len(locals)
      BY <1>1, <1>5
    <2>2. \A j \in 1..len : j > i => locals[j].export_gen = 0 /\ QuietNode(locals[j])
      <3>1. ASSUME NEW j \in 1..len, j > i  PROVE locals[j].export_gen = 0
        <4>1. j \notin 1..i
          BY <1>1, <2>1, <3>1
        <4> QED  BY <1>3, <4>1
      <3> QED  BY <1>1, <1>2, <3>1
    <2>3. ~Hides(globals, locals)
      BY <1>1, <1>2
    <2>4. Overlaid(globals, locals)[len][k] = Overlaid(globals, locals)[i][k]
      BY <1>1, <2>1, <2>2, <2>3, QuietTail
    <2> QED  BY <1>1, <1>5, <2>4
  <1>6. CASE c # n
    <2>1. \A j \in 1..len : locals[j].export_gen = 0 /\ QuietNode(locals[j])
      BY <1>1, <1>2, <1>3, <1>6
    <2>2. \A j \in 1..i : chains[c][j].export_gen = 0 /\ QuietNode(chains[c][j])
      <3>1. \A j \in 1..i : j \in 1..Len(chains[c])
        BY <1>1
      <3> QED  BY <1>2, <1>4, <1>6, <3>1
    <2>3. Overlaid(globals, locals)[len][k] = Overlaid(globals, locals)[0][k]
      <3>1. len \in 0..Len(locals) /\ 0 \in 0..len /\ ~Hides(globals, locals)
        BY <1>1, <1>2
      <3> QED  BY <1>1, <2>1, <3>1, QuietTail
    <2>4. Overlaid(globals, chains[c])[i][k] = Overlaid(globals, chains[c])[0][k]
      <3>1. i \in Nat /\ 0 \in 0..i /\ ~Hides(globals, chains[c])
        BY <1>1, <1>2
      <3> QED  BY <1>1, <2>2, <3>1, QuietTail
    <2>5. Overlaid(globals, chains[c])[0][k] = Overlaid(globals, locals)[0][k]
      <3>1. 0 \in 0..Len(chains[c]) /\ 0 \in 0..Len(locals)
        BY <1>1
      <3>2. \A j \in 1..0 : chains[c][j] = locals[j]
        OBVIOUS
      <3> QED  BY <1>1, <3>1, <3>2, SamePrefix
    <2> QED  BY <2>3, <2>4, <2>5
  <1> QED  BY <1>5, <1>6

LEMMA ExportArrayKeeps ==
  ASSUME IInv, ExportArray
  PROVE  IInv'
  <1>1. TypeOK /\ QuietInv /\ GensInv /\ RecordedInv
    BY DEF IInv
  <1>2. /\ globals' = globals /\ chains' = chains /\ next_gen' = next_gen
        /\ uvars' = uvars /\ uvar_gen' = uvar_gen /\ changes' = changes
        /\ arrays < MaxArrays /\ arrays' = arrays + 1 /\ export_array' = Exported
        /\ export_array_generations' = export_array_generations \o Generations
        /\ unveiled' = \E i \in DOMAIN chains : HidesSilently(chains[i])
    BY DEF ExportArray, env_nodes, universal
  <1>3. /\ Generations \in Seq(Nat) /\ Generations # <<>> /\ Generations[1] = uvar_gen
        /\ Recorded(Generations) = GensTo(globals, locals, Len(locals))
    BY <1>1, GenerationsCompared
  <1>4. export_array_generations \in Seq(Nat) /\ arrays \in Nat /\ DOMAIN chains = 1..Len(chains)
        /\ uvar_gen \in Nat /\ locals = chains[Len(chains)] /\ Len(chains) \in 1..Len(chains)
    BY <1>1, StateTypes
  <1>5. TypeOK'
    <2>1. arrays' \in 0..MaxArrays
      BY <1>2, <1>4, EnvironmentAssumption
    <2>2. export_array_generations' \in Seq(Nat)
      BY <1>2, <1>3, <1>4
    <2>3. export_array' \in [Keys -> Values \cup {NoVar}]
      BY <1>1, <1>2, ExportedTypes
    <2> QED  BY <1>1, <1>2, <2>1, <2>2, <2>3 DEF TypeOK
  <1>6. QuietInv' /\ GensInv'
    BY <1>1, <1>2 DEF QuietInv, GensInv
  <1>7. arrays' = 1 => export_array_generations' = Generations
    <2>1. arrays' = 1 => export_array_generations = <<>>
      BY <1>1, <1>2, <1>4 DEF RecordedInv
    <2> QED  BY <1>2, <1>3, <2>1
  <1>8. RecordedInv'
    <2>1. arrays' # 0
      BY <1>2, <1>4
    <2>2. \A g \in GensTo(globals, locals, Len(locals)) : g <= next_gen
      BY <1>1, <1>4 DEF GensTo, GensInv
    <2>3. Recorded(Generations) = GensTo(globals, locals, Len(locals)) /\ Generations[1] <= uvar_gen
      BY <1>3, <1>4
    <2>4. arrays' = 1 =>
            /\ export_array_generations' # <<>> /\ export_array_generations'[1] <= uvar_gen'
            /\ \A g \in Recorded(export_array_generations') : g <= next_gen'
      BY <1>2, <1>3, <1>7, <2>2, <2>3
    <2> QED  BY <2>1, <2>4 DEF RecordedInv
  <1>9. CacheInv'
    <2> SUFFICES ASSUME arrays' = 1, ~unveiled', NEW c \in 1..Len(chains), NEW i \in 0..Len(chains[c]),
                        Recorded(Generations) = GensTo(globals, chains[c], i)
                 PROVE  ExportedTo(chains[c], i) = Exported
      BY <1>2, <1>7 DEF CacheInv, ArrayIs, ExportedTo
    <2>1. ~ \E d \in DOMAIN chains : HidesSilently(chains[d])
      BY <1>2
    <2>2. GensTo(globals, locals, Len(locals)) = GensTo(globals, chains[c], i)
      BY <1>3
    <2>3. \A k \in Keys :
            Overlaid(globals, chains[c])[i][k] = Overlaid(globals, locals)[Len(locals)][k]
      BY <1>1, <2>1, <2>2, SameGenerations
    <2> QED  BY <2>3 DEF ExportedTo, Exported, Inherited
  <1> QED  BY <1>5, <1>6, <1>8, <1>9 DEF IInv

-----------------------------------------------------------------------------
(* Setting and erasing.                                                      *)

LEMMA ResolvedType ==
  ASSUME NEW table \in Tables, NEW k \in Keys, NEW mode \in Modes
  PROVE  Resolved(table[k], mode) \in BOOLEAN
  <1>1. table[k].exports \in BOOLEAN
    BY VariableTypes
  <1>2. mode = "export" \/ mode = "unexport" \/ mode = "inherit"
    BY DEF Modes
  <1>3. CASE mode = "export"
    BY <1>3 DEF Resolved
  <1>4. CASE mode = "unexport"
    BY <1>4 DEF Resolved
  <1>5. CASE mode = "inherit"
    BY <1>1, <1>5 DEF Resolved
  <1> QED  BY <1>2, <1>3, <1>4, <1>5

LEMMA NodeAtType ==
  ASSUME TypeOK, NEW at \in 0..Len(locals)
  PROVE  NodeAt(at) \in Nodes
  <1>1. globals \in Nodes /\ locals \in Chain
    BY StateTypes
  <1>2. \A i \in 1..Len(locals) : locals[i] \in Nodes
    BY <1>1, ChainTypes
  <1>3. at = 0 \/ at \in 1..Len(locals)
    <2>1. Len(locals) \in Nat
      BY <1>1, ChainTypes
    <2> QED  BY <2>1
  <1> QED  BY <1>1, <1>2, <1>3 DEF NodeAt

(* The step of a variable that is set or erased counts. *)
Counted == changes < MaxChanges /\ changes' = changes + 1

LEMMA CountedType ==
  ASSUME TypeOK, Counted
  PROVE  changes' \in 0..MaxChanges
  BY EnvironmentAssumption DEF TypeOK, Counted

LEMMA SetInNodeKeeps ==
  ASSUME IInv, Counted, NEW k \in Keys, NEW at \in 0..Len(locals), NEW v \in Values, NEW mode \in Modes,
         SetInNode(k, at, v, mode)
  PROVE  IInv'
  <1> DEFINE node == NodeAt(at)
             exports == Resolved(node.env[k], mode)
             changed == exports \/ FindVariable(k).exports
             var == [val |-> v, exports |-> exports]
             hidden == ~changed /\ (node.env[k].exports \/ (~Has(node.env, k) /\ OuterExports(k, at)))
  <1>1. TypeOK /\ node \in Nodes /\ node.env \in Tables /\ unveiled \in BOOLEAN
    BY NodeAtType, NodeTypes, StateTypes DEF IInv
  <1>2. exports \in BOOLEAN
    BY <1>1, ResolvedType
  <1>3. var \in Variable /\ var # Unset /\ var.exports = exports
    BY <1>2, EnvironmentAssumption DEF Variable, Vars, Unset
  <1>4. FindVariable(k).exports \in BOOLEAN
    <2>1. globals.env[k].exports \in BOOLEAN /\ Unset.exports \in BOOLEAN
      BY <1>1, StateTypes, NodeTypes, VariableTypes
    <2>2. TryGetLocal(k).exports \in BOOLEAN
      <3>1. locals \in Chain
        BY <1>1, StateTypes
      <3>2. FindInChain(locals, k) # 0 => FindInChain(locals, k) \in 1..Len(locals)
        BY <3>1, FindInChainLemma
      <3>3. FindInChain(locals, k) # 0 => locals[FindInChain(locals, k)].env[k].exports \in BOOLEAN
        BY <3>1, <3>2, ChainTypes, NodeTypes, VariableTypes
      <3> QED  BY <2>1, <3>3 DEF TryGetLocal, TryGetLocalIn
    <2> QED  BY <2>1, <2>2 DEF FindVariable, Or
  <1>5. changed \in BOOLEAN /\ (var.exports => changed)
    BY <1>2, <1>3, <1>4
  <1>6. /\ NextGenerations(IF changed THEN 1 ELSE 0)
        /\ Replace(at, Write(NodeAt(at), k, var, changed))
        /\ UNCHANGED <<universal, cache>>
        /\ unveiled' = (unveiled \/ hidden)
    BY DEF SetInNode, Unveil
  <1>7. unveiled' \in BOOLEAN /\ (unveiled => unveiled')
    BY <1>1, <1>6
  <1>8. node.env[k].exports \in BOOLEAN
    BY <1>1, VariableTypes
  <1>9. ~changed /\ ~unveiled' =>
          /\ ~NodeAt(at).env[k].exports
          /\ at = 0 \/ (Has(NodeAt(at).env, k) <=> var # Unset) \/ ~OuterExports(k, at)
    BY <1>3, <1>6, <1>8
  <1>10. changes' \in 0..MaxChanges
    BY <1>1, CountedType
  <1> HIDE DEF node, exports, changed, var, hidden
  <1> QED  BY <1>3, <1>5, <1>6, <1>7, <1>9, <1>10, RewriteKeeps

LEMMA RemoveFromNodeKeeps ==
  ASSUME IInv, Counted, NEW k \in Keys, NEW at \in 0..Len(locals), RemoveFromNode(k, at)
  PROVE  IInv'
  <1> DEFINE node == NodeAt(at)
             changed == node.env[k].exports
  <1>1. TypeOK /\ node \in Nodes /\ node.env \in Tables /\ unveiled \in BOOLEAN
    BY NodeAtType, NodeTypes, StateTypes DEF IInv
  <1>2. changed \in BOOLEAN
    BY <1>1, VariableTypes
  <1>3. Unset \in Variable /\ ~Unset.exports
    BY DEF Variable, Unset
  <1>4. /\ NextGenerations(IF changed THEN 1 ELSE 0)
        /\ Replace(at, Write(NodeAt(at), k, Unset, changed))
        /\ UNCHANGED <<universal, cache>>
        /\ unveiled' = (unveiled \/ (~changed /\ OuterExports(k, at)))
    BY DEF RemoveFromNode, Unveil
  <1>5. unveiled' \in BOOLEAN /\ (unveiled => unveiled')
    BY <1>1, <1>4
  <1>6. ~changed /\ ~unveiled' =>
          /\ ~NodeAt(at).env[k].exports
          /\ at = 0 \/ (Has(NodeAt(at).env, k) <=> Unset # Unset) \/ ~OuterExports(k, at)
    BY <1>4
  <1>7. changes' \in 0..MaxChanges
    BY <1>1, CountedType
  <1> HIDE DEF node, changed
  <1> QED  BY <1>2, <1>3, <1>4, <1>5, <1>6, <1>7, RewriteKeeps

(* What a change of one universal variable means for what is exported. *)
LEMMA UniversalKept ==
  ASSUME IInv, Counted, NEW k \in Keys, NEW var \in Variable,
         uvars' = [uvars EXCEPT ![k] = var], NEW n \in {0, 1}, uvar_gen' = uvar_gen + n,
         uvar_gen' <= MaxUvarGen, UNCHANGED <<env_nodes, cache>>,
         NEW hidden \in BOOLEAN, Unveil(hidden),
         n = 0 /\ ~hidden => ShownUniversal(uvars', k) = ShownUniversal(uvars, k)
  PROVE  IInv'
  <1>1. TypeOK /\ uvars \in Tables /\ uvar_gen \in Nat /\ unveiled \in BOOLEAN
    BY StateTypes DEF IInv
  <1>2. uvars' \in Tables /\ \A l \in Keys : l # k => uvars'[l] = uvars[l]
    BY <1>1 DEF Tables, Variable, Unset
  <1>3. uvar_gen' \in Nat /\ uvar_gen <= uvar_gen'
    BY <1>1
  <1>4. unveiled' \in BOOLEAN /\ (unveiled => unveiled') /\ (~unveiled' => ~hidden)
    BY <1>1 DEF Unveil
  <1>5. changes' \in 0..MaxChanges
    BY <1>1, CountedType
  <1>6. uvar_gen' = uvar_gen => n = 0
    BY <1>1
  <1>7. uvar_gen' = uvar_gen /\ ~unveiled' =>
          \A l \in Keys : ShownUniversal(uvars', l) = ShownUniversal(uvars, l)
    <2>1. \A l \in Keys : l # k => ShownUniversal(uvars', l) = ShownUniversal(uvars, l)
      BY <1>2 DEF ShownUniversal
    <2> QED  BY <1>4, <1>6, <2>1
  <1> QED  BY <1>2, <1>3, <1>4, <1>5, <1>7, UniversalKeeps

LEMMA SetUniversalKeeps ==
  ASSUME IInv, Counted, NEW k \in Keys, NEW v \in Values, NEW mode \in Modes, SetUniversal(k, v, mode)
  PROVE  IInv'
  <1> DEFINE var == [val |-> v, exports |-> Resolved(uvars[k], mode)]
             n == IF var # uvars[k] /\ var.exports THEN 1 ELSE 0
             hidden == uvars[k].exports /\ ~var.exports
  <1>1. uvars \in Tables /\ uvars[k].exports \in BOOLEAN /\ DOMAIN uvars = Keys
    BY StateTypes, VariableTypes DEF IInv, Tables
  <1>2. var \in Variable /\ var.exports \in BOOLEAN
    BY <1>1, ResolvedType DEF Variable, Vars
  <1>3. n \in {0, 1} /\ hidden \in BOOLEAN
    BY <1>1, <1>2
  <1>4. /\ uvars' = [uvars EXCEPT ![k] = var] /\ uvar_gen' = uvar_gen + n
        /\ uvar_gen' <= MaxUvarGen /\ UNCHANGED <<env_nodes, cache>> /\ Unveil(hidden)
    BY DEF SetUniversal
  <1>5. uvars'[k] = var
    BY <1>1, <1>4
  <1>6. n = 0 /\ ~hidden => ShownUniversal(uvars', k) = ShownUniversal(uvars, k)
    BY <1>1, <1>2, <1>5 DEF ShownUniversal
  <1> HIDE DEF var, n, hidden
  <1> QED  BY <1>2, <1>3, <1>4, <1>6, UniversalKept

LEMMA RemoveUniversalKeeps ==
  ASSUME IInv, Counted, NEW k \in Keys, RemoveUniversal(k)
  PROVE  IInv'
  <1> DEFINE n == IF uvars[k].exports THEN 1 ELSE 0
  <1>1. uvars \in Tables /\ DOMAIN uvars = Keys /\ Unset \in Variable
    BY StateTypes DEF IInv, Tables, Variable
  <1>2. n \in {0, 1}
    OBVIOUS
  <1>3. /\ uvars' = [uvars EXCEPT ![k] = Unset] /\ uvar_gen' = uvar_gen + n
        /\ uvar_gen' <= MaxUvarGen /\ UNCHANGED <<env_nodes, cache>> /\ Unveil(FALSE)
    BY DEF RemoveUniversal
  <1>4. uvars'[k] = Unset /\ ~Unset.exports
    BY <1>1, <1>3 DEF Unset
  <1>5. n = 0 => ShownUniversal(uvars', k) = ShownUniversal(uvars, k)
    BY <1>4 DEF ShownUniversal
  <1> HIDE DEF n
  <1> QED  BY <1>1, <1>2, <1>3, <1>5, UniversalKept

LEMMA AcquireKeeps ==
  ASSUME IInv, Counted, NEW k \in Keys, NEW var \in Variable, Acquire(k, var)
  PROVE  IInv'
  <1> DEFINE n == IF (Has(uvars, k) /\ var # Unset) \/ var.exports # uvars[k].exports THEN 1 ELSE 0
  <1>1. uvars \in Tables /\ DOMAIN uvars = Keys
    BY StateTypes DEF IInv, Tables
  <1>2. n \in {0, 1}
    OBVIOUS
  <1>3. /\ uvars' = [uvars EXCEPT ![k] = var] /\ uvar_gen' = uvar_gen + n
        /\ uvar_gen' <= MaxUvarGen /\ UNCHANGED <<env_nodes, cache>> /\ Unveil(FALSE)
    BY DEF Acquire
  <1>4. uvars'[k] = var
    BY <1>1, <1>3
  <1>5. n = 0 => ShownUniversal(uvars', k) = ShownUniversal(uvars, k)
    <2> SUFFICES ASSUME n = 0  PROVE  ShownUniversal(uvars', k) = ShownUniversal(uvars, k)
      OBVIOUS
    <2>1. ~Has(uvars, k) \/ var = Unset
      OBVIOUS
    <2>2. var.exports = uvars[k].exports
      OBVIOUS
    <2>3. uvars[k] = Unset \/ var = Unset
      BY <2>1 DEF Has
    <2>4. ~var.exports /\ ~uvars[k].exports
      BY <2>2, <2>3 DEF Unset
    <2> QED  BY <1>4, <2>4 DEF ShownUniversal
  <1> HIDE DEF n
  <1> QED  BY <1>2, <1>3, <1>5, UniversalKept

(* The places that set() chooses. *)
LEMMA PlaceLemma ==
  ASSUME TypeOK, NEW k \in Keys, NEW scope \in Scopes
  PROVE  /\ Place(k, scope)[1] \in {"local", "global", "universal"}
         /\ Place(k, scope)[1] = "local" => Place(k, scope)[2] \in 1..Len(locals)
         /\ Place(k, scope)[1] = "global" => Place(k, scope)[2] = 0
  <1>1. locals \in Chain /\ Len(locals) \in Nat /\ Len(locals) > 0
    BY StateTypes
  <1>2. TryGetLocal(k) # Unset => FindInChain(locals, k) \in 1..Len(locals)
    BY <1>1, FindInChainLemma DEF TryGetLocal, TryGetLocalIn
  <1>3. UnspecifiedScope[1] \in {"local", "global"}
        /\ (UnspecifiedScope[1] = "local" => UnspecifiedScope[2] = 1)
        /\ (UnspecifiedScope[1] = "global" => UnspecifiedScope[2] = 0)
    BY DEF UnspecifiedScope
  <1>4. CASE scope # "none"
    BY <1>1, <1>4 DEF Place, Scopes
  <1>5. CASE scope = "none" /\ TryGetLocal(k) # Unset
    BY <1>2, <1>5 DEF Place
  <1>6. CASE scope = "none" /\ TryGetLocal(k) = Unset /\ Has(globals.env, k)
    <2>1. FindVariable(k) # Unset
      BY <1>6 DEF FindVariable, Or, Has
    <2> QED  BY <1>6, <2>1 DEF Place
  <1>7. CASE scope = "none" /\ TryGetLocal(k) = Unset /\ ~Has(globals.env, k)
    BY <1>1, <1>3, <1>7 DEF Place
  <1> QED  BY <1>4, <1>5, <1>6, <1>7

LEMMA SetKeeps ==
  ASSUME IInv, Counted, NEW k \in Keys, NEW scope \in Scopes, NEW mode \in Modes, NEW v \in Values,
         Set(k, scope, mode, v)
  PROVE  IInv'
  <1>1. TypeOK /\ Len(locals) \in Nat
    BY StateTypes DEF IInv
  <1>2. CASE Place(k, scope)[1] = "universal" /\ SetUniversal(k, v, mode)
    BY <1>2, SetUniversalKeeps
  <1>3. CASE Place(k, scope)[1] # "universal" /\ SetInNode(k, Place(k, scope)[2], v, mode)
    <2>1. Place(k, scope)[2] \in 0..Len(locals)
      BY <1>1, <1>3, PlaceLemma
    <2> QED  BY <1>3, <2>1, SetInNodeKeeps
  <1> QED  BY <1>2, <1>3 DEF Set

LEMMA EraseKeeps ==
  ASSUME IInv, Counted, NEW k \in Keys, NEW scope \in Scopes, Erase(k, scope)
  PROVE  IInv'
  <1>1. TypeOK /\ locals \in Chain /\ Len(locals) \in Nat /\ Len(locals) > 0
    BY StateTypes DEF IInv
  <1>2. FindInChain(locals, k) \in 0..Len(locals)
    BY <1>1, FindInChainLemma
  <1>3. \/ RemoveFromNode(k, FindInChain(locals, k)) \/ RemoveFromNode(k, 1) \/ RemoveFromNode(k, 0)
        \/ RemoveUniversal(k)
    BY DEF Erase
  <1>4. 0 \in 0..Len(locals) /\ 1 \in 0..Len(locals)
    BY <1>1
  <1> QED  BY <1>2, <1>3, <1>4, RemoveFromNodeKeeps, RemoveUniversalKeeps

-----------------------------------------------------------------------------
LEMMA NodeType ==
  ASSUME NEW new_scope \in BOOLEAN
  PROVE  /\ Node(new_scope) \in Nodes /\ Node(new_scope).export_gen = 0
         /\ \A k \in Keys : Node(new_scope).env[k] = Unset
  <1>1. NoVars \in Tables
    BY DEF NoVars, Tables, Unset
  <1>2. 0 \in 0..MaxGen
    BY EnvironmentAssumption
  <1> QED  BY <1>1, <1>2 DEF Node, Nodes, NoVars

LEMMA InitInvariant == Init => IInv
  <1> SUFFICES ASSUME Init  PROVE IInv
    OBVIOUS
  <1>1. PICK node : node = Node(FALSE)
    OBVIOUS
  <1>2. /\ globals = node /\ chains = <<<<node>>>> /\ uvars = NoVars /\ next_gen = 0
        /\ export_array_generations = <<>> /\ arrays = 0
    BY <1>1 DEF Init
  <1>3. node \in Nodes /\ node.export_gen = 0 /\ QuietNode(node)
    <2>1. FALSE \in BOOLEAN
      OBVIOUS
    <2>2. Node(FALSE) \in Nodes /\ Node(FALSE).export_gen = 0 /\ \A k \in Keys : Node(FALSE).env[k] = Unset
      BY ONLY <2>1, NodeType
    <2>3. node \in Nodes /\ node.export_gen = 0 /\ \A k \in Keys : node.env[k] = Unset
      BY ONLY <1>1, <2>2
    <2> QED  BY <2>3 DEF QuietNode, Unset
  <1>4. Len(chains) = 1 /\ chains[1] = <<node>> /\ Len(chains[1]) = 1 /\ chains[1][1] = node
    BY <1>2
  <1>5. TypeOK
    <2>1. NoVars \in Tables
      BY DEF NoVars, Tables, Unset
    <2>2. chains \in Seq(Seq(Nodes))
      <3>1. <<node>> \in Seq(Nodes)
        BY <1>3
      <3> QED  BY <1>2, <3>1
    <2>3. chains # <<>> /\ \A i \in DOMAIN chains : chains[i] # <<>>
      BY <1>2
    <2>4. uvar_gen \in 1..MaxUvarGen
      BY EnvironmentAssumption DEF Init
    <2>5. globals \in Nodes /\ uvars \in Tables /\ next_gen \in 0..MaxGen /\ changes \in 0..MaxChanges
          /\ arrays \in 0..MaxArrays /\ unveiled \in BOOLEAN
      <3>1. changes = 0 /\ unveiled = FALSE
        BY DEF Init
      <3>2. 0 \in 0..MaxGen /\ 0 \in 0..MaxArrays /\ 0 \in 0..MaxChanges
        BY EnvironmentAssumption
      <3>3. unveiled \in BOOLEAN
        BY <3>1
      <3> QED  BY <1>2, <1>3, <2>1, <3>1, <3>2, <3>3
    <2>6. export_array = NoArray /\ export_array_generations \in Seq(Nat)
      BY DEF Init
    <2> QED  BY <2>2, <2>3, <2>4, <2>5, <2>6 DEF TypeOK
  <1>6. QuietInv
    BY <1>2, <1>3, <1>4 DEF QuietInv
  <1>7. GensInv
    BY <1>2, <1>3, <1>4 DEF GensInv
  <1>8. RecordedInv /\ CacheInv
    BY <1>2 DEF RecordedInv, CacheInv
  <1> QED  BY <1>5, <1>6, <1>7, <1>8 DEF IInv

LEMMA NextStep == IInv /\ [Next]_vars => IInv'
  <1> SUFFICES ASSUME IInv, [Next]_vars  PROVE IInv'
    OBVIOUS
  <1>1. CASE UNCHANGED vars
    <2>1. UNCHANGED <<globals, chains, next_gen, uvars, uvar_gen, export_array, export_array_generations,
                      arrays, changes, unveiled>>
      BY <1>1 DEF vars, env_nodes, universal, cache
    <2>2. TypeOK' = TypeOK
      BY <2>1 DEF TypeOK
    <2>3. QuietInv' = QuietInv /\ GensInv' = GensInv
      BY <2>1 DEF QuietInv, GensInv
    <2>4. RecordedInv' = RecordedInv
      BY <2>1 DEF RecordedInv
    <2>5. CacheInv' = CacheInv
      BY <2>1 DEF CacheInv, ArrayIs, ExportedTo
    <2> QED  BY <2>2, <2>3, <2>4, <2>5 DEF IInv
  <1>2. ASSUME Counted, NEW k \in Keys, NEW scope \in Scopes, NEW mode \in Modes, NEW v \in Values,
               Set(k, scope, mode, v)
        PROVE  IInv'
    BY <1>2, SetKeeps
  <1>3. ASSUME Counted, NEW k \in Keys, NEW scope \in Scopes, Erase(k, scope)
        PROVE  IInv'
    BY <1>3, EraseKeeps
  <1>4. ASSUME Counted, NEW k \in Keys, NEW v \in Values, NEW exports \in BOOLEAN,
               Acquire(k, [val |-> v, exports |-> exports])
        PROVE  IInv'
    <2>1. [val |-> v, exports |-> exports] \in Variable
      BY DEF Variable, Vars
    <2> QED  BY <1>4, <2>1, AcquireKeeps
  <1>5. ASSUME Counted, NEW k \in Keys, Acquire(k, Unset)
        PROVE  IInv'
    <2>1. Unset \in Variable
      BY DEF Variable
    <2> QED  BY <1>5, <2>1, AcquireKeeps
  <1>6. CASE PushShadowing
    BY <1>6, PushShadowingKeeps
  <1>7. CASE PushNonshadowing
    BY <1>7, PushNonshadowingKeeps
  <1>8. CASE Pop
    BY <1>8, PopKeeps
  <1>9. CASE ExportArray
    BY <1>9, ExportArrayKeeps
  <1> QED  BY <1>1, <1>2, <1>3, <1>4, <1>5, <1>6, <1>7, <1>8, <1>9 DEF Next, Counted

(* The invariant the theorems rest on. *)
THEOREM Invariance == Spec => []IInv
  BY InitInvariant, NextStep, PTL DEF Spec

-----------------------------------------------------------------------------
(* Looking up, exporting and calling.                                        *)

(* Every type holds in every state, whatever is set, erased, pushed and     *)
(* popped.                                                                   *)
THEOREM TypeCorrect == Spec => []TypeOK
  <1>1. IInv => TypeOK
    BY DEF IInv
  <1> QED  BY <1>1, Invariance, PTL

(* A cached array whose generations are those of now is the array that      *)
(* would be made now: the cache for the chain in use as a whole.            *)
THEOREM CacheFresh == Spec => []ArrayFresh
  <1>1. IInv => ArrayFresh
    <2> SUFFICES ASSUME IInv, arrays = 1, ~unveiled, ~NeedsRegeneration
                 PROVE  export_array = Exported
      BY DEF ArrayFresh
    <2>1. export_array_generations = Generations
      BY DEF NeedsRegeneration
    <2>2. locals = chains[Len(chains)] /\ Len(chains) \in 1..Len(chains)
          /\ Len(locals) \in 0..Len(chains[Len(chains)])
      BY StateTypes DEF IInv
    <2>3. ArrayIs(Len(locals), locals)
      BY <2>1, GenerationsCompared DEF IInv, ArrayIs
    <2>4. ExportedTo(locals, Len(locals)) = export_array
      BY <2>2, <2>3 DEF IInv, CacheInv
    <2> QED  BY <2>4 DEF ExportedTo, Exported
  <1> QED  BY <1>1, Invariance, PTL

LEMMA ExportedOf ==
  ASSUME TypeOK, NEW k \in Keys
  PROVE  Exported[k] =
           Or(IF FindInChain(locals, k) = 0 THEN Shown(globals, k)
              ELSE Shown(locals[FindInChain(locals, k)], k), ShownUniversal(uvars, k)).val
  <1>1. globals \in Nodes /\ locals \in Chain
    BY StateTypes
  <1>2. Overlaid(globals, locals)[Len(locals)][k] =
          IF FindInChain(locals, k) = 0 THEN Shown(globals, k)
          ELSE Shown(locals[FindInChain(locals, k)], k)
    BY <1>1, ChainShows
  <1> QED  BY <1>2 DEF Exported, Inherited, ShownUniversal

(* Commands inherit what the shell sees, whichever scopes hide which.       *)
THEOREM SeenIsInherited == Spec => []ExportedIsSeen
  <1>1. IInv => ExportedIsSeen
    <2> SUFFICES ASSUME IInv, NEW k \in Keys
                 PROVE  LET var == Getf(k, "none")
                        IN IF var.exports THEN Exported[k] = var.val
                           ELSE Exported[k] = NoVar \/ (uvars[k].exports /\ Exported[k] = uvars[k].val)
      BY DEF ExportedIsSeen
    <2> DEFINE at == FindInChain(locals, k)
    <2>1. TypeOK /\ locals \in Chain
      BY StateTypes DEF IInv
    <2>2. /\ uvars[k] \in Variable /\ uvars[k].exports \in BOOLEAN
          /\ globals.env[k] \in Variable /\ globals.env[k].exports \in BOOLEAN
          /\ Unset.exports = FALSE /\ Unset.val = NoVar
      BY <2>1, StateTypes, NodeTypes, VariableTypes
    <2>3. Getf(k, "none") = Or(TryGetLocal(k), Or(globals.env[k], uvars[k]))
      BY DEF Getf, GetfIn, TryGetLocal
    <2>4. Exported[k] = Or(IF at = 0 THEN Shown(globals, k) ELSE Shown(locals[at], k),
                           ShownUniversal(uvars, k)).val
      BY <2>1, ExportedOf
    <2>5. CASE at = 0
      <3>1. TryGetLocal(k) = Unset
        BY <2>5 DEF TryGetLocal, TryGetLocalIn
      <3> QED  BY <2>2, <2>3, <2>4, <2>5, <3>1 DEF Or, Shown, ShownUniversal
    <2>6. CASE at # 0
      <3>1. at \in 1..Len(locals) /\ Has(locals[at].env, k)
        BY <2>1, <2>6, FindInChainLemma
      <3>2. locals[at].env[k].exports \in BOOLEAN /\ locals[at].env[k] # Unset
        BY <2>1, <3>1, ChainTypes, NodeTypes, VariableTypes DEF Has
      <3>3. TryGetLocal(k) = locals[at].env[k]
        BY <2>6 DEF TryGetLocal, TryGetLocalIn
      <3> QED  BY <2>2, <2>3, <2>4, <2>6, <3>2, <3>3 DEF Or, Shown, ShownUniversal
    <2> QED  BY <2>5, <2>6
  <1> QED  BY <1>1, Invariance, PTL

(* Where set() puts a variable no inner scope hides it. *)
LEMMA PlaceUnhidden ==
  ASSUME TypeOK, NEW k \in Keys
  PROVE  /\ Place(k, "none")[1] = "local" =>
              \A j \in 1..Len(locals) : j > Place(k, "none")[2] => ~Has(locals[j].env, k)
         /\ Place(k, "none")[1] # "local" => TryGetLocal(k) = Unset
         /\ Place(k, "none")[1] = "universal" => globals.env[k] = Unset
  <1> DEFINE at == FindInChain(locals, k)
  <1>1. locals \in Chain
    BY StateTypes
  <1>2. TryGetLocal(k) = IF at = 0 THEN Unset ELSE locals[at].env[k]
    BY DEF TryGetLocal, TryGetLocalIn
  <1>3. UnspecifiedScope[1] \in {"local", "global"}
    BY DEF UnspecifiedScope
  <1>4. CASE TryGetLocal(k) # Unset
    <2>1. Place(k, "none") = <<"local", at>>
      BY <1>4 DEF Place, FindVariable, Or
    <2>2. \A j \in 1..Len(locals) : j > at => ~Has(locals[j].env, k)
      BY <1>1, <1>2, <1>4, FindInChainLemma
    <2> QED  BY <2>1, <2>2
  <1>5. CASE TryGetLocal(k) = Unset
    <2>1. \A j \in 1..Len(locals) : ~Has(locals[j].env, k)
      <3>1. at = 0
        BY <1>1, <1>2, <1>5, FindInChainLemma DEF Has
      <3> QED  BY <1>1, <3>1, FindInChainLemma
    <2>2. CASE Has(globals.env, k)
      <3>1. FindVariable(k) # Unset
        BY <1>5, <2>2 DEF FindVariable, Or, Has
      <3>2. Place(k, "none") = <<"global", 0>>
        BY <1>5, <2>2, <3>1 DEF Place
      <3> QED  BY <1>5, <3>2
    <2>3. CASE ~Has(globals.env, k)
      BY <1>5, <2>1, <2>3 DEF Has
    <2> QED  BY <2>2, <2>3
  <1> QED  BY <1>4, <1>5

LEMMA SetThenGet ==
  ASSUME TypeOK, NEW k \in Keys, NEW i \in 1..Len(locals), NEW new, new # Unset,
         NEW chain, Len(chain) = Len(locals), chain[i].env[k] = new,
         \A j \in 1..Len(locals) : j # i => chain[j] = locals[j],
         \A j \in 1..Len(locals) : j > i => ~Has(locals[j].env, k)
  PROVE  TryGetLocalIn(k, chain) = new
  <1> DEFINE f == FindInChain(chain, k)
             n == Len(locals)
  <1>1. n \in Nat
    BY StateTypes
  <1>2. Has(chain[i].env, k)
    BY DEF Has
  <1>3. \/ /\ f = 0
           /\ \A j \in 1..n : ~Has(chain[j].env, k)
        \/ /\ f \in 1..n /\ Has(chain[f].env, k)
           /\ \A j \in 1..n : j > f => ~Has(chain[j].env, k)
    BY <1>1, FindInAny
  <1> HIDE DEF f
  <1>4. f \in 1..n /\ Has(chain[f].env, k) /\ ~(i > f)
    BY <1>2, <1>3
  <1>5. f = i
    BY <1>1, <1>4
  <1> QED  BY <1>4, <1>5 DEF TryGetLocalIn, f

(* What is set is seen, with the types of the state: for any nesting of     *)
(* scopes, set() and get() agree on the scope a variable is in.             *)
THEOREM SetAndGetAgree == Spec => []LookupsConsistent
  <1>1. TypeOK => SetIsSeen
    <2> SUFFICES ASSUME TypeOK, NEW k \in Keys, NEW scope \in Scopes
                 PROVE  LET at == Place(k, scope)
                            new == [val |-> NoVar, exports |-> TRUE]
                        IN GetfIn(k, scope,
                                  IF at[1] = "local" THEN [locals EXCEPT ![at[2]].env[k] = new]
                                  ELSE locals,
                                  IF at[1] = "global" THEN [globals EXCEPT !.env[k] = new] ELSE globals,
                                  IF at[1] = "universal" THEN [uvars EXCEPT ![k] = new] ELSE uvars) = new
      BY DEF SetIsSeen
    <2> DEFINE at == Place(k, scope)
               new == [val |-> NoVar, exports |-> TRUE]
               chain == [locals EXCEPT ![at[2]].env[k] = new]
               global == [globals EXCEPT !.env[k] = new]
               universals == [uvars EXCEPT ![k] = new]
    <2>1. new # Unset
      BY DEF Unset
    <2>2. global.env[k] = new /\ universals[k] = new
      <3>1. globals \in Nodes /\ uvars \in Tables
        BY StateTypes
      <3> QED  BY <3>1 DEF Nodes, Tables
    <2>3. /\ at[1] \in {"local", "global", "universal"}
          /\ at[1] = "local" => at[2] \in 1..Len(locals)
      BY PlaceLemma
    <2>4. Len(locals) \in Nat
      BY StateTypes
    <2> HIDE DEF new, global, universals
    <2>5. at[1] = "local" =>
            /\ at[2] = 1 => Head(chain).env[k] = new
            /\ (\A j \in 1..Len(locals) : j > at[2] => ~Has(locals[j].env, k))
                 => TryGetLocalIn(k, chain) = new
      <3> SUFFICES ASSUME at[1] = "local"
                   PROVE  /\ at[2] = 1 => Head(chain).env[k] = new
                          /\ (\A j \in 1..Len(locals) : j > at[2] => ~Has(locals[j].env, k))
                               => TryGetLocalIn(k, chain) = new
        OBVIOUS
      <3>1. PICK i \in 1..Len(locals) : i = at[2]
        BY <2>3
      <3> DEFINE node == [locals[i] EXCEPT !.env[k] = new]
                 written == [locals EXCEPT ![i] = node]
      <3>2. locals \in Chain /\ \A j \in 1..Len(locals) : locals[j] \in Nodes
        BY StateTypes
      <3>3. chain = written
        BY <3>1
      <3>4. node.env[k] = new
        BY <3>2 DEF Nodes, Tables
      <3> HIDE DEF node, chain
      <3>5. locals \in Seq(Nodes \cup {node})
        BY <3>2 DEF Chain
      <3>6. written \in Seq(Nodes \cup {node}) /\ Len(written) = Len(locals)
        BY <2>4, <3>5
      <3>7. written[i] = node /\ \A j \in 1..Len(locals) : j # i => written[j] = locals[j]
        BY <2>4, <3>5
      <3>8. i = 1 => Head(written) = node
        BY <2>4, <3>6, <3>7
      <3> HIDE DEF written
      <3>9. (\A j \in 1..Len(locals) : j > i => ~Has(locals[j].env, k))
              => TryGetLocalIn(k, written) = new
        BY <2>1, <3>4, <3>6, <3>7, SetThenGet
      <3> QED  BY <3>1, <3>3, <3>4, <3>8, <3>9
    <2> HIDE DEF chain
    <2>6. GetfIn(k, scope, IF at[1] = "local" THEN chain ELSE locals,
                 IF at[1] = "global" THEN global ELSE globals,
                 IF at[1] = "universal" THEN universals ELSE uvars) = new
      <3>1. CASE scope = "local"
        <4>1. at = <<"local", Len(locals)>>
          BY <3>1 DEF Place
        <4>2. \A j \in 1..Len(locals) : ~(j > at[2])
          BY <2>4, <4>1
        <4>3. TryGetLocalIn(k, chain) = new
          BY <2>5, <4>1, <4>2
        <4> QED  BY <3>1, <4>1, <4>3 DEF GetfIn
      <3>2. CASE scope = "function"
        <4>1. at = <<"local", 1>>
          BY <3>2 DEF Place
        <4> QED  BY <2>5, <3>2, <4>1 DEF GetfIn
      <3>3. CASE scope = "global"
        <4>1. at = <<"global", 0>>
          BY <3>3 DEF Place
        <4> QED  BY <2>2, <3>3, <4>1 DEF GetfIn
      <3>4. CASE scope = "universal"
        <4>1. at = <<"universal", 0>>
          BY <3>4 DEF Place
        <4> QED  BY <2>2, <3>4, <4>1 DEF GetfIn
      <3>5. CASE scope = "none"
        <4>1. CASE at[1] = "local"
          <5>1. TryGetLocalIn(k, chain) = new
            BY <2>5, <3>5, <4>1, PlaceUnhidden
          <5> QED  BY <2>1, <3>5, <4>1, <5>1 DEF GetfIn, Or
        <4>2. CASE at[1] = "global"
          <5>1. TryGetLocalIn(k, locals) = Unset
            BY <3>5, <4>2, PlaceUnhidden DEF TryGetLocal
          <5> QED  BY <2>1, <2>2, <3>5, <4>2, <5>1 DEF GetfIn, Or
        <4>3. CASE at[1] = "universal"
          <5>1. TryGetLocalIn(k, locals) = Unset /\ globals.env[k] = Unset
            BY <3>5, <4>3, PlaceUnhidden DEF TryGetLocal
          <5> QED  BY <2>1, <2>2, <3>5, <4>3, <5>1 DEF GetfIn, Or
        <4> HIDE DEF at
        <4> QED  BY <2>3, <4>1, <4>2, <4>3
      <3> QED  BY <3>1, <3>2, <3>3, <3>4, <3>5 DEF Scopes
    <2> QED  BY <2>6 DEF new, chain, global, universals
  <1>2. IInv => TypeOK
    BY DEF IInv
  <1> QED  BY <1>1, <1>2, Invariance, PTL DEF LookupsConsistent

(* Only a call makes the stack of chains longer. *)
LEMMA OnlyCallsPush ==
  ASSUME TypeOK, [Next]_vars, Len(chains') > Len(chains)
  PROVE  PushShadowing
  <1>1. chains \in Seq(Chain) /\ Len(chains) \in Nat /\ Len(chains) > 0
    BY StateTypes
  <1>2. ASSUME NEW at, NEW node, Replace(at, node)  PROVE Len(chains') = Len(chains)
    <2>1. chains' = chains \/ chains' = [chains EXCEPT ![Len(chains)][at] = node]
      BY <1>2 DEF Replace
    <2>2. ASSUME NEW chain, chains' = [chains EXCEPT ![Len(chains)] = chain]
          PROVE  Len(chains') = Len(chains)
      <3>1. chains \in Seq(Chain \cup {chain})
        BY <1>1
      <3>2. chains' \in Seq(Chain \cup {chain}) /\ Len(chains') = Len(chains)
        BY <2>2, <3>1
      <3> QED  BY <3>2
    <2>3. ASSUME chains' = [chains EXCEPT ![Len(chains)][at] = node]
          PROVE  Len(chains') = Len(chains)
      <3>1. PICK chain : chain = [chains[Len(chains)] EXCEPT ![at] = node]
        OBVIOUS
      <3>2. chains' = [chains EXCEPT ![Len(chains)] = chain]
        BY <2>3, <3>1
      <3> QED  BY <2>2, <3>2
    <2> QED  BY <2>1, <2>3
  <1>3. \A k, scope, mode, v : ~Set(k, scope, mode, v)
    <2>1. ASSUME NEW k, NEW scope, NEW mode, NEW v, Set(k, scope, mode, v)  PROVE FALSE
      <3>1. CASE SetUniversal(k, v, mode)
        <4>1. chains' = chains
          BY <3>1 DEF SetUniversal, env_nodes
        <4> QED  BY <1>1, <4>1
      <3>2. CASE SetInNode(k, Place(k, scope)[2], v, mode)
        <4>1. PICK node : Replace(Place(k, scope)[2], node)
          BY <3>2 DEF SetInNode
        <4> QED  BY <1>1, <1>2, <4>1
      <3> QED  BY <2>1, <3>1, <3>2 DEF Set
    <2> QED  BY <2>1
  <1>4. \A k, scope : ~Erase(k, scope)
    <2>1. \A k, at : ~RemoveFromNode(k, at)
      <3>1. ASSUME NEW k, NEW at, RemoveFromNode(k, at)  PROVE FALSE
        <4>1. PICK node : Replace(at, node)
          BY <3>1 DEF RemoveFromNode
        <4> QED  BY <1>1, <1>2, <4>1
      <3> QED  BY <3>1
    <2>2. \A k : ~RemoveUniversal(k)
      <3>1. \A k : RemoveUniversal(k) => chains' = chains
        BY DEF RemoveUniversal, env_nodes
      <3> QED  BY <1>1, <3>1
    <2> QED  BY <2>1, <2>2 DEF Erase
  <1>5. \A k, var : ~Acquire(k, var)
    <2>1. \A k, var : Acquire(k, var) => chains' = chains
      BY DEF Acquire, env_nodes
    <2> QED  BY <1>1, <2>1
  <1>6. ~PushNonshadowing
    <2> SUFFICES ASSUME PushNonshadowing  PROVE FALSE
      OBVIOUS
    <2>1. PICK chain : chains' = [chains EXCEPT ![Len(chains)] = chain]
      BY DEF PushNonshadowing
    <2>2. chains \in Seq(Chain \cup {chain})
      BY <1>1
    <2>3. Len(chains') = Len(chains)
      BY <2>1, <2>2
    <2> QED  BY <1>1, <2>3
  <1>7. ~Pop
    <2> SUFFICES ASSUME Pop  PROVE FALSE
      OBVIOUS
    <2>1. CASE chains' = Front(chains)
      <3>1. Len(chains') = Len(chains) - 1
        BY <1>1, <2>1 DEF Front
      <3> QED  BY <1>1, <3>1
    <2>2. CASE chains' = [chains EXCEPT ![Len(chains)] = Front(@)]
      <3>1. PICK chain : chain = Front(chains[Len(chains)])
        OBVIOUS
      <3>2. chains' = [chains EXCEPT ![Len(chains)] = chain] /\ chains \in Seq(Chain \cup {chain})
        BY <1>1, <2>2, <3>1
      <3>3. Len(chains') = Len(chains)
        BY <3>2
      <3> QED  BY <1>1, <3>3
    <2> QED  BY <2>1, <2>2 DEF Pop
  <1>8. ~ExportArray
    <2>1. ExportArray => chains' = chains
      BY DEF ExportArray, env_nodes
    <2> QED  BY <1>1, <2>1
  <1>9. ~UNCHANGED vars
    BY <1>1 DEF vars, env_nodes
  <1> QED  BY <1>3, <1>4, <1>5, <1>6, <1>7, <1>8, <1>9 DEF Next

LEMMA CallExports ==
  ASSUME TypeOK, PushShadowing,
         \A k \in Keys : TryGetLocal(k) # Unset => TryGetLocal(k).exports
  PROVE  Exported' = Exported
  <1> DEFINE node == [env |-> [k \in Keys |-> Passed(k)], new_scope |-> TRUE,
                      export_gen |-> IF ExportedLocals = {} THEN 0 ELSE next_gen']
  <1>1. /\ chains \in Seq(Chain) /\ locals \in Chain /\ globals \in Nodes /\ uvars \in Tables
        /\ Len(chains) \in Nat /\ Len(locals) \in Nat
        /\ \A i \in 1..Len(locals) : locals[i] \in Nodes
    BY StateTypes
  <1>2. chains' = Append(chains, <<node>>) /\ globals' = globals /\ uvars' = uvars
    BY DEF PushShadowing, universal
  <1>3. \A k \in Keys : Passed(k) \in Vars \cup {Unset}
    <2>1. \A i \in 1..Len(locals) : \A k \in Keys : locals[i].env[k] \in Variable
      BY <1>1, NodeTypes, VariableTypes
    <2> QED  BY <2>1, PassedLemma DEF Variable
  <1>4. node \in Nodes /\ \A k \in Keys : node.env[k] = Passed(k)
    <2> DEFINE env == [k \in Keys |-> Passed(k)]
               gen == IF ExportedLocals = {} THEN 0 ELSE next_gen'
    <2>1. env \in Tables /\ \A k \in Keys : env[k] = Passed(k)
      BY <1>3 DEF Tables, Unset
    <2>2. gen \in 0..MaxGen
      <3>1. next_gen \in 0..MaxGen /\ MaxGen \in Nat
        BY EnvironmentAssumption DEF TypeOK
      <3>2. next_gen' = next_gen + Cardinality(ExportedLocals) /\ next_gen' <= MaxGen
        BY DEF PushShadowing, NextGenerations
      <3> QED  BY <3>1, <3>2, ExportedLocalsCount
    <2> HIDE DEF env, gen
    <2>3. node = [env |-> env, new_scope |-> TRUE, export_gen |-> gen]
      BY DEF env, gen
    <2> HIDE DEF node
    <2> QED  BY <2>1, <2>2, <2>3 DEF Nodes
  <1> HIDE DEF node
  <1>5. PICK chain \in Chain : chain = <<node>>
    <2>1. <<node>> \in Seq(Nodes)
      BY <1>4
    <2> QED  BY <2>1 DEF Chain
  <1>6. Len(chain) = 1 /\ chain[1] = node
    BY <1>5
  <1>7. locals' = chain
    <2>1. chains' = Append(chains, chain)
      BY <1>2, <1>5
    <2>2. Len(chains') = Len(chains) + 1 /\ chains'[Len(chains) + 1] = chain
      BY <1>1, <2>1
    <2> QED  BY <2>2 DEF locals, Last
  <1>8. ASSUME NEW k \in Keys
        PROVE  Overlaid(globals, chain)[1][k] = Overlaid(globals, locals)[Len(locals)][k]
    <2> DEFINE at == FindInChain(locals, k)
    <2>1. Overlaid(globals, locals)[Len(locals)][k] =
            IF at = 0 THEN Shown(globals, k) ELSE Shown(locals[at], k)
      BY <1>1, ChainShows
    <2>2. \A i \in 1..Len(locals) : /\ locals[i].env[k].exports \in BOOLEAN
                                    /\ locals[i].env[k].exports => Has(locals[i].env, k)
      BY <1>1, NodeTypes, VariableTypes
    <2>3. CASE at = 0
      <3>1. \A j \in 1..Len(locals) : ~Has(locals[j].env, k)
        BY <1>1, <2>3, FindInChainLemma
      <3>2. Passed(k) = Unset
        BY <2>2, <3>1, PassedLemma
      <3>3. \A j \in 1..1 : ~Has(chain[j].env, k)
        BY <1>4, <1>6, <3>2 DEF Has
      <3>4. Overlaid(globals, chain)[1][k] = Shown(globals, k)
        <4>1. 1 \in 0..Len(chain)
          BY <1>6
        <4> QED  BY <1>1, <3>3, <4>1, OverlaidShows
      <3> QED  BY <2>1, <2>3, <3>4
    <2>4. CASE at # 0
      <3>1. /\ at \in 1..Len(locals) /\ Has(locals[at].env, k)
            /\ \A j \in 1..Len(locals) : j > at => ~Has(locals[j].env, k)
        BY <1>1, <2>4, FindInChainLemma
      <3>2. locals[at].env[k].exports
        BY <2>4, <3>1 DEF TryGetLocal, TryGetLocalIn, Has
      <3>3. Passed(k) = locals[at].env[k]
        <4>1. PICK i \in 1..Len(locals) :
                /\ Passed(k) = locals[i].env[k] /\ locals[i].env[k].exports
                /\ \A j \in 1..Len(locals) : j > i => ~locals[j].env[k].exports
          BY <3>1, <3>2, PassedLemma
        <4>2. ~(at > i) /\ ~(i > at)
          BY <2>2, <3>1, <3>2, <4>1
        <4>3. i = at
          <5> HIDE DEF at
          <5> QED  BY <1>1, <3>1, <4>2
        <4> QED  BY <4>1, <4>3
      <3>4. chain[1].env[k] = locals[at].env[k] /\ Has(chain[1].env, k)
        BY <1>4, <1>6, <3>1, <3>3 DEF Has
      <3>5. Overlaid(globals, chain)[1][k] = Shown(chain[1], k)
        BY <1>1, <1>6, <3>4, OverlaidShows
      <3> QED  BY <2>1, <2>4, <3>4, <3>5 DEF Shown
    <2> QED  BY <2>3, <2>4
  <1>9. Exported' = Inherited(Overlaid(globals, chain)[1], uvars)
    BY <1>2, <1>6, <1>7 DEF Exported
  <1>10. Inherited(Overlaid(globals, chain)[1], uvars) = Exported
    BY <1>8 DEF Exported, Inherited
  <1> QED  BY <1>9, <1>10

(* A function that is called exports to its commands what its caller did,   *)
(* when no local variable that is not exported is seen.                     *)
THEOREM CallsKeepExports == Spec => CallKeepsExports
  <1>1. IInv /\ [Next]_vars =>
          [/\ Len(chains') > Len(chains)
           /\ \A k \in Keys : TryGetLocal(k) # Unset => TryGetLocal(k).exports
           => Exported' = Exported]_vars
    BY OnlyCallsPush, CallExports DEF IInv
  <1> QED  BY <1>1, Invariance, PTL DEF Spec, CallKeepsExports

=============================================================================
