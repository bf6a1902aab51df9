-------------------------- MODULE HistoryFileProofs --------------------------
(***************************************************************************)
(* Proofs about HistoryFile, for any shells, texts and bounds: the types,  *)
(* that the index tells the saved items from the others, that what was     *)
(* written stays, that own items do not come back as old ones, and that    *)
(* nothing stays unsaved by itself.                                        *)
(***************************************************************************)
EXTENDS HistoryFile, FiniteSetTheorems, SequenceTheorems, TLAPS

-----------------------------------------------------------------------------
(* The operators on sets of numbers and on lists of items.                  *)

(* A set of numbers that is not empty has a least one. *)
LEMMA LeastNatural ==
  ASSUME NEW S \in SUBSET Nat, S # {}
  PROVE  \E x \in S : \A y \in S : x <= y
  <1>1. IsWellFoundedOn(OpToRel(<, Nat), Nat)
    BY NatLessThanWellFounded
  <1>2. PICK x \in S : \A y \in S : ~ (<<y, x>> \in OpToRel(<, Nat))
    BY <1>1, WFMin
  <1>3. \A y \in S : ~ (y < x)
    BY <1>2 DEF OpToRel
  <1> QED  BY <1>3

LEMMA MinIsLeast ==
  ASSUME NEW S \in SUBSET Nat, S # {}
  PROVE  Min(S) \in S /\ \A y \in S : Min(S) <= y
  BY LeastNatural DEF Min

(* A finite one has a greatest: the one with the fewest above it. *)
LEMMA GreatestNatural ==
  ASSUME NEW S \in SUBSET Nat, S # {}, IsFiniteSet(S)
  PROVE  \E x \in S : \A y \in S : x >= y
  <1> DEFINE Above(x) == {z \in S : z > x}
             Counts == {Cardinality(Above(x)) : x \in S}
  <1>1. ASSUME NEW x \in S  PROVE  IsFiniteSet(Above(x)) /\ Cardinality(Above(x)) \in Nat
    <2>1. Above(x) \in SUBSET S
      OBVIOUS
    <2> HIDE DEF Above
    <2> QED  BY <2>1, FS_Subset, FS_CardinalityType
  <1>2. Counts \in SUBSET Nat /\ Counts # {}
    BY <1>1
  <1>3. PICK n \in Counts : \A m \in Counts : n <= m
    <2> HIDE DEF Counts
    <2> QED  BY <1>2, LeastNatural
  <1>4. PICK x \in S : n = Cardinality(Above(x))
    BY DEF Counts
  <1>5. ASSUME NEW y \in S, y > x  PROVE  FALSE
    <2>1. Above(y) \in SUBSET Above(x) /\ y \in Above(x) /\ y \notin Above(y)
      <3>1. \A z \in S : z > y => z > x
        BY <1>5
      <3>2. ~ (y > y)
        OBVIOUS
      <3> QED  BY <1>5, <3>1, <3>2
    <2>2. Cardinality(Above(x)) <= Cardinality(Above(y))
      <3>1. Cardinality(Above(y)) \in Counts
        OBVIOUS
      <3> HIDE DEF Counts, Above
      <3> QED  BY <3>1, <1>3, <1>4
    <2>3. Above(x) = Above(y)
      <3> HIDE DEF Above
      <3> QED  BY <2>1, <2>2, <1>1, FS_Subset
    <2> QED  BY <2>1, <2>3
  <1> QED  BY <1>5

LEMMA MaxIsGreatest ==
  ASSUME NEW S \in SUBSET Nat, S # {}, IsFiniteSet(S)
  PROVE  Max(S) \in S /\ \A y \in S : Max(S) >= y
  BY GreatestNatural DEF Max

LEMMA TwoAreFinite ==
  ASSUME NEW x, NEW y
  PROVE  IsFiniteSet({x, y})
  <1>1. IsFiniteSet({x}) /\ {x, y} = {x} \cup {y}
    BY FS_Singleton
  <1> QED  BY <1>1, FS_AddElement

(* Counting the kept among the first n. *)
LEMMA KeptOfCounts ==
  ASSUME NEW len \in Nat, NEW keep \in SUBSET (1..len)
  PROVE  /\ IsFiniteSet(keep) /\ Cardinality(keep) \in Nat
         /\ \A n \in Nat : KeptOf(n, keep) \in 0..Cardinality(keep)
         /\ KeptOf(0, keep) = 0 /\ KeptOf(len, keep) = Cardinality(keep)
         /\ \A n \in Nat : KeptOf(n + 1, keep) =
              IF n + 1 \in keep THEN KeptOf(n, keep) + 1 ELSE KeptOf(n, keep)
  <1>1. IsFiniteSet(1..len)
    BY FS_Interval
  <1>2. IsFiniteSet(keep) /\ Cardinality(keep) \in Nat
    BY <1>1, FS_Subset, FS_CardinalityType
  <1>3. ASSUME NEW n \in Nat
        PROVE  IsFiniteSet(keep \cap (1..n)) /\ KeptOf(n, keep) \in 0..Cardinality(keep)
    <2>1. keep \cap (1..n) \in SUBSET keep
      OBVIOUS
    <2>2. IsFiniteSet(keep \cap (1..n)) /\ Cardinality(keep \cap (1..n)) <= Cardinality(keep)
      BY <2>1, <1>2, FS_Subset
    <2>3. Cardinality(keep \cap (1..n)) \in Nat
      BY <2>2, FS_CardinalityType
    <2> QED  BY <2>2, <2>3, <1>2 DEF KeptOf
  <1>4. KeptOf(0, keep) = 0
    <2>1. keep \cap (1..0) = {}
      OBVIOUS
    <2> QED  BY <2>1, FS_EmptySet DEF KeptOf
  <1>5. KeptOf(len, keep) = Cardinality(keep)
    <2>1. keep \cap (1..len) = keep
      OBVIOUS
    <2> QED  BY <2>1 DEF KeptOf
  <1>6. ASSUME NEW n \in Nat
        PROVE  KeptOf(n + 1, keep) =
                 IF n + 1 \in keep THEN KeptOf(n, keep) + 1 ELSE KeptOf(n, keep)
    <2>1. CASE n + 1 \in keep
      <3>1. keep \cap (1..(n + 1)) = (keep \cap (1..n)) \cup {n + 1} /\ n + 1 \notin keep \cap (1..n)
        BY <2>1
      <3>2. Cardinality((keep \cap (1..n)) \cup {n + 1}) = Cardinality(keep \cap (1..n)) + 1
        BY <1>3, <3>1, FS_AddElement
      <3> QED  BY <2>1, <3>1, <3>2 DEF KeptOf
    <2>2. CASE n + 1 \notin keep
      <3>1. keep \cap (1..(n + 1)) = keep \cap (1..n)
        BY <2>2
      <3> QED  BY <2>2, <3>1 DEF KeptOf
    <2> QED  BY <2>1, <2>2
  <1> QED  BY <1>2, <1>3, <1>4, <1>5, <1>6

LEMMA KeptOfMonotone ==
  ASSUME NEW len \in Nat, NEW keep \in SUBSET (1..len),
         NEW m \in Nat, NEW n \in Nat, m <= n
  PROVE  KeptOf(m, keep) <= KeptOf(n, keep)
  <1>1. IsFiniteSet(keep \cap (1..n))
    <2>1. IsFiniteSet(1..n)
      BY FS_Interval
    <2>2. keep \cap (1..n) \in SUBSET (1..n)
      OBVIOUS
    <2> QED  BY <2>1, <2>2, FS_Subset
  <1>2. keep \cap (1..m) \in SUBSET (keep \cap (1..n))
    OBVIOUS
  <1> QED  BY <1>1, <1>2, FS_Subset DEF KeptOf

(* The k-th kept index exists, and is one only. *)
LEMMA KthKept ==
  ASSUME NEW len \in Nat, NEW keep \in SUBSET (1..len), NEW k \in 1..Cardinality(keep)
  PROVE  \E i \in keep : KeptOf(i, keep) = k
  <1> DEFINE Enough == {n \in Nat : KeptOf(n, keep) >= k}
  <1>1. Enough \in SUBSET Nat /\ len \in Enough
    BY KeptOfCounts
  <1>2. PICK n \in Enough : \A m \in Enough : n <= m
    <2> HIDE DEF Enough
    <2> QED  BY <1>1, LeastNatural
  <1>3. n \in Nat /\ KeptOf(n, keep) >= k
    BY <1>2
  <1>4. KeptOf(0, keep) = 0 /\ k \in Nat /\ k >= 1
    BY KeptOfCounts
  <1>5. n # 0
    BY <1>3, <1>4
  <1>6. n - 1 \in Nat /\ n - 1 \notin Enough /\ (n - 1) + 1 = n
    BY <1>2, <1>3, <1>5
  <1>7. KeptOf(n - 1, keep) < k
    <2>1. KeptOf(n - 1, keep) \in 0..Cardinality(keep) /\ Cardinality(keep) \in Nat
      BY <1>6, KeptOfCounts
    <2> QED  BY <1>4, <1>6, <2>1
  <1>8. KeptOf((n - 1) + 1, keep) =
          IF (n - 1) + 1 \in keep THEN KeptOf(n - 1, keep) + 1 ELSE KeptOf(n - 1, keep)
    BY <1>6, KeptOfCounts
  <1>9. KeptOf(n - 1, keep) \in Nat /\ KeptOf(n, keep) \in Nat
    BY <1>3, <1>6, KeptOfCounts
  <1>10. n \in keep /\ KeptOf(n, keep) = k
    BY <1>3, <1>4, <1>6, <1>7, <1>8, <1>9
  <1> QED  BY <1>10

LEMMA KeptOnce ==
  ASSUME NEW len \in Nat, NEW keep \in SUBSET (1..len),
         NEW i \in keep, NEW n \in Nat
  PROVE  /\ i <= n <=> KeptOf(i, keep) <= KeptOf(n, keep)
         /\ KeptOf(i, keep) \in 1..Cardinality(keep)
         /\ n \in keep /\ KeptOf(n, keep) = KeptOf(i, keep) => n = i
  <1>1. ASSUME NEW a \in Nat, NEW b \in keep, a < b  PROVE  KeptOf(a, keep) < KeptOf(b, keep)
    <2>1. b \in Nat /\ b - 1 \in Nat /\ a <= b - 1 /\ (b - 1) + 1 = b
      BY <1>1
    <2>2. KeptOf(a, keep) <= KeptOf(b - 1, keep)
      BY <2>1, KeptOfMonotone
    <2>3. KeptOf((b - 1) + 1, keep) =
            IF (b - 1) + 1 \in keep THEN KeptOf(b - 1, keep) + 1 ELSE KeptOf(b - 1, keep)
      BY <2>1, KeptOfCounts
    <2>4. KeptOf(b, keep) = KeptOf(b - 1, keep) + 1
      BY <2>1, <2>3
    <2>5. KeptOf(a, keep) \in 0..Cardinality(keep) /\ KeptOf(b - 1, keep) \in 0..Cardinality(keep)
      BY <2>1, KeptOfCounts
    <2>6. KeptOf(a, keep) \in Nat /\ KeptOf(b - 1, keep) \in Nat
      BY <2>5
    <2> QED  BY <2>2, <2>4, <2>6
  <1>2. i \in Nat /\ i > 0 /\ KeptOf(i, keep) \in 0..Cardinality(keep) /\ KeptOf(n, keep) \in Nat
    <2>1. i \in Nat /\ i > 0
      OBVIOUS
    <2>2. KeptOf(i, keep) \in 0..Cardinality(keep) /\ KeptOf(n, keep) \in 0..Cardinality(keep)
      BY <2>1, KeptOfCounts
    <2> QED  BY <2>1, <2>2
  <1>3. i <= n => KeptOf(i, keep) <= KeptOf(n, keep)
    BY <1>2, KeptOfMonotone
  <1>4. n < i => KeptOf(n, keep) < KeptOf(i, keep)
    BY <1>1
  <1>5. n \in keep /\ i < n => KeptOf(i, keep) < KeptOf(n, keep)
    BY <1>1, <1>2
  <1>6. KeptOf(i, keep) >= 1
    <2>1. KeptOf(0, keep) < KeptOf(i, keep) /\ KeptOf(0, keep) = 0
      BY <1>1, <1>2, KeptOfCounts
    <2> QED  BY <2>1, <1>2
  <1>7. KeptOf(i, keep) \in 1..Cardinality(keep)
    <2>1. Cardinality(keep) \in Nat
      BY KeptOfCounts
    <2> QED  BY <2>1, <1>2, <1>6
  <1> QED  BY <1>2, <1>3, <1>4, <1>5, <1>7

-----------------------------------------------------------------------------
(* Lists of items.  One descends from another if its items are some of the  *)
(* other's, each once and perhaps with a later time, and the first n2 are   *)
(* those of the first n.                                                    *)
Descends(its2, n2, its, n) ==
  /\ its2 \in Seq(Items) /\ n2 \in 0..Len(its2)
  /\ \E f \in [1..Len(its2) -> 1..Len(its)] :
       /\ \A i, j \in 1..Len(its2) : f[i] = f[j] => i = j
       /\ \A i \in 1..Len(its2) :
            /\ its2[i].serial = its[f[i]].serial /\ its2[i].mode = its[f[i]].mode
            /\ its2[i].when >= its[f[i]].when
            /\ i <= n2 <=> f[i] <= n

LEMMA ItemOf ==
  ASSUME NEW its \in Seq(Items), NEW i \in 1..Len(its)
  PROVE  its[i] \in Items /\ its[i].when \in Nat
  <1>1. its[i] \in Items
    BY ElementOfSeq
  <1> QED  BY <1>1 DEF Items

LEMMA DescendsSame ==
  ASSUME NEW its \in Seq(Items), NEW n \in 0..Len(its)
  PROVE  Descends(its, n, its, n)
  <1> DEFINE f == [i \in 1..Len(its) |-> i]
  <1>1. \A i \in 1..Len(its) : its[i].when \in Nat
    BY ItemOf
  <1>2. /\ f \in [1..Len(its) -> 1..Len(its)]
        /\ \A i, j \in 1..Len(its) : f[i] = f[j] => i = j
        /\ \A i \in 1..Len(its) : f[i] = i
    OBVIOUS
  <1> HIDE DEF f
  <1> QED  BY <1>1, <1>2 DEF Descends

LEMMA DescendsEmpty ==
  ASSUME NEW its, NEW n
  PROVE  Descends(<<>>, 0, its, n)
  <1> DEFINE f == [i \in 1..0 |-> i]
  <1>1. <<>> \in Seq(Items) /\ Len(<<>>) = 0
    BY EmptySeq
  <1>2. ~ \E i \in 1..Len(<<>>) : TRUE
    BY <1>1
  <1>3. f \in [1..Len(<<>>) -> 1..Len(its)]
    BY <1>1, <1>2
  <1> HIDE DEF f
  <1>4. 0 \in 0..Len(<<>>)
    BY <1>1
  <1> QED  BY <1>1, <1>2, <1>3, <1>4 DEF Descends

LEMMA DescendsTrans ==
  ASSUME NEW its1 \in Seq(Items), NEW n1, NEW its2, NEW n2, NEW its3, NEW n3,
         Descends(its2, n2, its1, n1), Descends(its3, n3, its2, n2)
  PROVE  Descends(its3, n3, its1, n1)
  <1>1. its2 \in Seq(Items) /\ its3 \in Seq(Items) /\ n3 \in 0..Len(its3)
    BY DEF Descends
  <1>2. PICK f \in [1..Len(its2) -> 1..Len(its1)] :
          /\ \A i, j \in 1..Len(its2) : f[i] = f[j] => i = j
          /\ \A i \in 1..Len(its2) :
               /\ its2[i].serial = its1[f[i]].serial /\ its2[i].mode = its1[f[i]].mode
               /\ its2[i].when >= its1[f[i]].when
               /\ i <= n2 <=> f[i] <= n1
    BY DEF Descends
  <1>3. PICK g \in [1..Len(its3) -> 1..Len(its2)] :
          /\ \A i, j \in 1..Len(its3) : g[i] = g[j] => i = j
          /\ \A i \in 1..Len(its3) :
               /\ its3[i].serial = its2[g[i]].serial /\ its3[i].mode = its2[g[i]].mode
               /\ its3[i].when >= its2[g[i]].when
               /\ i <= n3 <=> g[i] <= n2
    BY DEF Descends
  <1> DEFINE h == [i \in 1..Len(its3) |-> f[g[i]]]
  <1>4. h \in [1..Len(its3) -> 1..Len(its1)] /\ \A i \in 1..Len(its3) : h[i] = f[g[i]]
    OBVIOUS
  <1> HIDE DEF h
  <1>5. ASSUME NEW i \in 1..Len(its3), NEW j \in 1..Len(its3), h[i] = h[j]  PROVE  i = j
    <2>1. g[i] \in 1..Len(its2) /\ g[j] \in 1..Len(its2) /\ f[g[i]] = f[g[j]]
      BY <1>4, <1>5
    <2>2. g[i] = g[j]
      BY <1>2, <2>1
    <2> QED  BY <1>3, <2>2
  <1>6. ASSUME NEW i \in 1..Len(its3)
        PROVE  /\ its3[i].serial = its1[h[i]].serial /\ its3[i].mode = its1[h[i]].mode
               /\ its3[i].when >= its1[h[i]].when
               /\ i <= n3 <=> h[i] <= n1
    <2>1. g[i] \in 1..Len(its2) /\ h[i] = f[g[i]] /\ h[i] \in 1..Len(its1)
      BY <1>4
    <2>2. its3[i].when \in Nat /\ its2[g[i]].when \in Nat /\ its1[h[i]].when \in Nat
      BY <1>1, <2>1, ItemOf
    <2>3. its3[i].when >= its2[g[i]].when /\ its2[g[i]].when >= its1[h[i]].when
      BY <1>2, <1>3, <2>1
    <2>4. its3[i].when >= its1[h[i]].when
      BY <2>2, <2>3
    <2> QED  BY <1>2, <1>3, <2>1, <2>4
  <1> QED  BY <1>1, <1>4, <1>5, <1>6 DEF Descends

(* Leaving items out. *)
LEMMA KeptDescends ==
  ASSUME NEW its \in Seq(Items), NEW n \in 0..Len(its), NEW keep \in SUBSET (DOMAIN its)
  PROVE  Descends(Kept(its, keep), KeptOf(n, keep), its, n)
  <1> DEFINE c == Cardinality(keep)
             at == [k \in 1..c |-> CHOOSE i \in keep : KeptOf(i, keep) = k]
             its2 == Kept(its, keep)
  <1>1. Len(its) \in Nat /\ DOMAIN its = 1..Len(its) /\ keep \in SUBSET (1..Len(its)) /\ n \in Nat
    BY LenProperties
  <1>2. c \in Nat /\ KeptOf(n, keep) \in 0..c
    BY <1>1, KeptOfCounts
  <1>3. ASSUME NEW k \in 1..c
        PROVE  at[k] \in keep /\ KeptOf(at[k], keep) = k
    BY <1>1, KthKept
  <1>4. its2 = [k \in 1..c |-> its[at[k]]]
    BY DEF Kept
  <1> HIDE DEF at, c, its2
  <1>5. \A k \in 1..c : its[at[k]] \in Items
    BY <1>1, <1>3, ItemOf
  <1>6. its2 \in Seq(Items) /\ Len(its2) = c
    BY <1>2, <1>4, <1>5
  <1>7. at \in [1..c -> 1..Len(its)]
    BY <1>1, <1>3 DEF at
  <1>8. \A j, k \in 1..c : at[j] = at[k] => j = k
    BY <1>3
  <1>9. ASSUME NEW k \in 1..c
        PROVE  /\ its2[k] = its[at[k]] /\ its2[k].when \in Nat
               /\ k <= KeptOf(n, keep) <=> at[k] <= n
    <2>1. its2[k] = its[at[k]]
      BY <1>4
    <2>2. at[k] <= n <=> KeptOf(at[k], keep) <= KeptOf(n, keep)
      BY <1>1, <1>3, KeptOnce
    <2>3. its2[k].when \in Nat
      BY <1>6, ItemOf
    <2> QED  BY <1>3, <2>1, <2>2, <2>3
  <1>10. ASSUME NEW k \in 1..Len(its2)
         PROVE  /\ its2[k].serial = its[at[k]].serial /\ its2[k].mode = its[at[k]].mode
                /\ its2[k].when >= its[at[k]].when
                /\ k <= KeptOf(n, keep) <=> at[k] <= n
    BY <1>6, <1>9
  <1>11. /\ KeptOf(n, keep) \in 0..Len(its2)
         /\ at \in [1..Len(its2) -> 1..Len(its)]
         /\ \A j, k \in 1..Len(its2) : at[j] = at[k] => j = k
    BY <1>2, <1>6, <1>7, <1>8
  <1>12. Descends(its2, KeptOf(n, keep), its, n)
    BY <1>6, <1>10, <1>11 DEF Descends
  <1> QED  BY <1>12 DEF its2

(* remove_ephemeral_items() leaves a part of the list that starts it. *)
LEMMA WithoutEphemeralStarts ==
  ASSUME NEW its \in Seq(Items), NEW n \in 0..Len(its)
  PROVE  LET before == WithoutEphemeral(its)
         IN  /\ before \in Seq(Items) /\ Len(before) <= Len(its)
             /\ \A i \in 1..Len(before) : before[i] = its[i]
             /\ Min({n, Len(before)}) \in 0..Len(before)
             /\ \A i \in 1..Len(before) : i <= Min({n, Len(before)}) <=> i <= n
  <1> DEFINE at == {0} \cup {i \in DOMAIN its : ~IsEphemeral(its[i])}
             before == SubSeq(its, 1, Max(at))
  <1>1. Len(its) \in Nat /\ DOMAIN its = 1..Len(its)
    BY LenProperties
  <1>2. at \in SUBSET (0..Len(its)) /\ at # {}
    BY <1>1
  <1>3. IsFiniteSet(0..Len(its))
    BY <1>1, FS_Interval
  <1>4. IsFiniteSet(at) /\ at \in SUBSET Nat
    <2> HIDE DEF at
    <2>1. IsFiniteSet(at)
      BY <1>2, <1>3, FS_Subset
    <2> QED  BY <1>1, <1>2, <2>1
  <1>5. Max(at) \in 0..Len(its)
    <2> HIDE DEF at
    <2> QED  BY <1>2, <1>4, MaxIsGreatest
  <1> HIDE DEF at
  <1>6. \A i \in 1..Max(at) : its[i] \in Items
    BY <1>1, <1>5, ItemOf
  <1>7. /\ before \in Seq(Items) /\ Len(before) = Max(at)
        /\ \A i \in 1..Max(at) : before[i] = its[i]
    BY <1>1, <1>5, <1>6
  <1>8. {n, Len(before)} \in SUBSET Nat
    BY <1>1, <1>5, <1>7
  <1>9. /\ Min({n, Len(before)}) \in {n, Len(before)}
        /\ Min({n, Len(before)}) <= n /\ Min({n, Len(before)}) <= Len(before)
    BY <1>8, MinIsLeast
  <1>10. WithoutEphemeral(its) = before
    BY DEF WithoutEphemeral, before, at
  <1> HIDE DEF before
  <1>11. \A i \in 1..Len(before) : before[i] = its[i]
    BY <1>7 DEF before
  <1>12. Len(before) \in Nat /\ Len(before) <= Len(its)
    BY <1>5, <1>7 DEF before
  <1>13. Min({n, Len(before)}) = n \/ Min({n, Len(before)}) = Len(before)
    BY <1>9
  <1>14. Min({n, Len(before)}) \in 0..Len(before)
    BY <1>9, <1>12, <1>13
  <1>15. ASSUME NEW i \in 1..Len(before)
         PROVE  i <= Min({n, Len(before)}) <=> i <= n
    BY <1>9, <1>12, <1>13
  <1> QED  BY <1>7, <1>10, <1>11, <1>12, <1>14, <1>15

-----------------------------------------------------------------------------
(* The types.  Besides them: what is on disk is finite, and the steps of a   *)
(* save that use the open file have one.                                     *)
FiniteInv ==
  /\ \A f \in Inodes : IsFiniteSet(files[f]) /\ IsFiniteSet(lock[f])
  /\ \A s \in Shells : IsFiniteSet(tmp[s])

FdInv ==
  \A s \in Shells :
    pc[s] \in {"append_lock", "append_write", "read", "rewrite_lock"} => fd[s] # NoFile

TypeInv == TypeOK /\ FiniteInv /\ FdInv

Status == <<new_items, first_unwritten, pc, skipped>>

(* What the operators that end in a save or leave it out do to the items and *)
(* the place of shell s, if `its` and n are the items before.                *)
Updated(s, its, n) ==
  /\ new_items' \in [Shells -> Seq(Items)] /\ first_unwritten' \in [Shells -> Nat]
  /\ pc' \in [Shells -> Labels] /\ skipped' \in [Shells -> BOOLEAN]
  /\ Descends(new_items'[s], first_unwritten'[s], its, n)
  /\ pc'[s] \in {pc[s], "append", "rewrite"}
  /\ \A r \in Shells \ {s} :
       /\ new_items'[r] = new_items[r] /\ first_unwritten'[r] = first_unwritten[r]
       /\ pc'[r] = pc[r] /\ skipped'[r] = skipped[r]

LEMMA SaveUpdates ==
  ASSUME TypeOK, NEW s \in Shells, NEW its \in Seq(Items), NEW n \in 0..Len(its), NEW del,
         NEW vacuum \in BOOLEAN, NEW then_clear \in BOOLEAN,
         Save(s, its, n, del, vacuum, then_clear)
  PROVE  /\ Updated(s, its, n)
         /\ pc'[s] = "idle" => first_unwritten'[s] >= Len(new_items'[s])
         /\ then_clear => new_items'[s] = <<>> \/ pc'[s] \in {"append", "rewrite"}
  <1> USE DEF TypeOK, ItemsType, SavingType
  <1>1. /\ skipped \in [Shells -> BOOLEAN] /\ pc \in [Shells -> Labels]
        /\ new_items \in [Shells -> Seq(Items)] /\ first_unwritten \in [Shells -> Nat]
    OBVIOUS
  <1>2. Len(its) \in Nat /\ DOMAIN its = 1..Len(its) /\ n \in Nat
    BY LenProperties
  <1>3. skipped' \in [Shells -> BOOLEAN] /\ \A r \in Shells \ {s} : skipped'[r] = skipped[r]
    BY <1>1 DEF Save
  <1>4. CASE n >= Len(its) /\ del = NoneDeleted
    <2>1. /\ new_items' = [new_items EXCEPT ![s] = IF then_clear THEN <<>> ELSE its]
          /\ first_unwritten' = [first_unwritten EXCEPT ![s] = IF then_clear THEN 0 ELSE n]
          /\ pc' = pc
      BY <1>4 DEF Save
    <2>2. <<>> \in Seq(Items) /\ Len(<<>>) = 0
      BY EmptySeq
    <2>3. /\ new_items' \in [Shells -> Seq(Items)] /\ first_unwritten' \in [Shells -> Nat]
          /\ \A r \in Shells \ {s} :
               new_items'[r] = new_items[r] /\ first_unwritten'[r] = first_unwritten[r]
      BY <1>1, <1>2, <2>1, <2>2
    <2>4. CASE then_clear
      <3>1. new_items'[s] = <<>> /\ first_unwritten'[s] = 0
        BY <1>1, <2>1, <2>4
      <3>2. Descends(new_items'[s], first_unwritten'[s], its, n)
        BY <3>1, DescendsEmpty
      <3> QED  BY <1>1, <1>3, <2>1, <2>2, <2>3, <3>1, <3>2 DEF Updated
    <2>5. CASE ~then_clear
      <3>1. new_items'[s] = its /\ first_unwritten'[s] = n
        BY <1>1, <2>1, <2>5
      <3>2. Descends(new_items'[s], first_unwritten'[s], its, n)
        BY <3>1, DescendsSame
      <3> QED  BY <1>1, <1>3, <1>4, <2>1, <2>3, <2>5, <3>1, <3>2 DEF Updated
    <2> QED  BY <2>4, <2>5
  <1>5. CASE ~(n >= Len(its) /\ del = NoneDeleted)
    <2>1. /\ new_items' = [new_items EXCEPT ![s] = Kept(its, Compact(its))]
          /\ first_unwritten' = [first_unwritten EXCEPT ![s] = KeptOf(n, Compact(its))]
          /\ pc' = [pc EXCEPT ![s] = IF ~vacuum /\ del = NoneDeleted THEN "append" ELSE "rewrite"]
      BY <1>5 DEF Save, Goto
    <2>2. Compact(its) \in SUBSET (DOMAIN its)
      BY DEF Compact
    <2>3. Descends(Kept(its, Compact(its)), KeptOf(n, Compact(its)), its, n)
      BY <2>2, KeptDescends
    <2>4. Kept(its, Compact(its)) \in Seq(Items) /\ KeptOf(n, Compact(its)) \in Nat
      <3>1. KeptOf(n, Compact(its)) \in 0..Len(Kept(its, Compact(its)))
        BY <2>3 DEF Descends
      <3> QED  BY <2>3, <3>1 DEF Descends
    <2>5. pc'[s] \in {"append", "rewrite"} /\ pc' \in [Shells -> Labels]
      BY <1>1, <2>1 DEF Labels
    <2>6. /\ new_items' \in [Shells -> Seq(Items)] /\ first_unwritten' \in [Shells -> Nat]
          /\ new_items'[s] = Kept(its, Compact(its))
          /\ first_unwritten'[s] = KeptOf(n, Compact(its))
      BY <1>1, <2>1, <2>4
    <2>7. \A r \in Shells \ {s} :
            /\ new_items'[r] = new_items[r] /\ first_unwritten'[r] = first_unwritten[r]
            /\ pc'[r] = pc[r]
      BY <1>1, <2>1
    <2> QED  BY <1>3, <2>3, <2>5, <2>6, <2>7 DEF Updated
  <1> QED  BY <1>4, <1>5

LEMMA NoSaveUpdates ==
  ASSUME TypeOK, NEW s \in Shells, NEW its \in Seq(Items), NEW n \in 0..Len(its),
         NoSave(s, its, n)
  PROVE  /\ Updated(s, its, n)
         /\ new_items'[s] = its /\ first_unwritten'[s] = n /\ pc' = pc /\ skipped' = skipped
  <1>1. /\ skipped \in [Shells -> BOOLEAN] /\ pc \in [Shells -> Labels]
        /\ new_items \in [Shells -> Seq(Items)] /\ first_unwritten \in [Shells -> Nat]
    BY DEF TypeOK, ItemsType, SavingType
  <1>2. Descends(its, n, its, n)
    BY DescendsSame
  <1>3. n \in Nat
    BY LenProperties
  <1>4. /\ new_items' \in [Shells -> Seq(Items)] /\ first_unwritten' \in [Shells -> Nat]
        /\ new_items'[s] = its /\ first_unwritten'[s] = n /\ pc' = pc /\ skipped' = skipped
        /\ \A r \in Shells \ {s} :
             new_items'[r] = new_items[r] /\ first_unwritten'[r] = first_unwritten[r]
    BY <1>1, <1>3 DEF NoSave
  <1> QED  BY <1>1, <1>2, <1>4 DEF Updated

LEMMA AutoSaveUpdates ==
  ASSUME TypeOK, NEW s \in Shells, NEW its \in Seq(Items), NEW n \in 0..Len(its),
         NEW disabled \in Nat, SaveUnlessDisabled(s, its, n, disabled)
  PROVE  /\ Updated(s, its, n)
         /\ pc'[s] = "idle" /\ disabled = 0 => first_unwritten'[s] >= Len(new_items'[s])
  <1>1. CASE disabled > 0
    BY <1>1, NoSaveUpdates DEF SaveUnlessDisabled
  <1>2. CASE ~(disabled > 0)
    <2>1. PICK vacuum \in BOOLEAN : Save(s, its, n, deleted[s], vacuum, FALSE)
      BY <1>2 DEF SaveUnlessDisabled
    <2> QED  BY <2>1, SaveUpdates
  <1> QED  BY <1>1, <1>2

LEMMA UpdatedTypes ==
  ASSUME TypeOK, NEW s \in Shells, NEW its, NEW n, Updated(s, its, n)
  PROVE  ItemsType'
  <1>1. first_unwritten'[s] <= Len(new_items'[s])
    <2>1. Len(new_items'[s]) \in Nat /\ first_unwritten'[s] \in 0..Len(new_items'[s])
      BY LenProperties DEF Updated, Descends
    <2> QED  BY <2>1
  <1>2. ASSUME NEW r \in Shells  PROVE  first_unwritten'[r] <= Len(new_items'[r])
    BY <1>1 DEF Updated, TypeOK, ItemsType
  <1> QED  BY <1>2 DEF Updated, ItemsType

(* A list that starts another one, whose last item may have a later time. *)
LEMMA PrefixDescends ==
  ASSUME NEW its \in Seq(Items), NEW n, NEW its2 \in Seq(Items), NEW n2 \in 0..Len(its2),
         Len(its2) <= Len(its),
         \A i \in 1..Len(its2) :
           /\ its2[i].serial = its[i].serial /\ its2[i].mode = its[i].mode
           /\ its2[i].when >= its[i].when
           /\ i <= n2 <=> i <= n
  PROVE  Descends(its2, n2, its, n)
  <1> DEFINE f == [i \in 1..Len(its2) |-> i]
  <1>1. Len(its) \in Nat /\ Len(its2) \in Nat
    BY LenProperties
  <1>2. f \in [1..Len(its2) -> 1..Len(its)] /\ \A i \in 1..Len(its2) : f[i] = i
    BY <1>1
  <1> HIDE DEF f
  <1>3. \A i, j \in 1..Len(its2) : f[i] = f[j] => i = j
    BY <1>2
  <1> QED  BY <1>2, <1>3 DEF Descends

(* The same with an item added at the end of both. *)
LEMMA AppendDescends ==
  ASSUME NEW its \in Seq(Items), NEW n \in 0..Len(its), NEW before \in Seq(Items),
         NEW n2 \in 0..Len(before), NEW item \in Items, Len(before) <= Len(its),
         \A i \in 1..Len(before) : before[i] = its[i] /\ (i <= n2 <=> i <= n)
  PROVE  Descends(Append(before, item), n2, Append(its, item), n)
  <1> DEFINE its2 == Append(before, item)
             last == Len(before) + 1
             f == [i \in 1..last |-> IF i = last THEN Len(its) + 1 ELSE i]
  <1>1. Len(its) \in Nat /\ Len(before) \in Nat
    BY LenProperties
  <1>2. /\ its2 \in Seq(Items) /\ Len(its2) = last /\ its2[last] = item
        /\ \A i \in 1..Len(before) : its2[i] = before[i]
    BY AppendProperties
  <1>3. /\ Append(its, item) \in Seq(Items) /\ Len(Append(its, item)) = Len(its) + 1
        /\ Append(its, item)[Len(its) + 1] = item
        /\ \A i \in 1..Len(its) : Append(its, item)[i] = its[i]
    BY AppendProperties
  <1> HIDE DEF its2
  <1>4. /\ f \in [1..last -> 1..(Len(its) + 1)] /\ f[last] = Len(its) + 1
        /\ \A i \in 1..Len(before) : f[i] = i
    BY <1>1
  <1> HIDE DEF f
  <1>5. \A i \in 1..last : i = last \/ i \in 1..Len(before)
    BY <1>1
  <1>6. ASSUME NEW i \in 1..last, NEW j \in 1..last, f[i] = f[j]  PROVE  i = j
    <2>1. \A k \in 1..Len(before) : f[k] # f[last]
      BY <1>1, <1>4
    <2> QED  BY <1>4, <1>5, <1>6, <2>1
  <1>7. ASSUME NEW i \in 1..last
        PROVE  its2[i] = Append(its, item)[f[i]] /\ (i <= n2 <=> f[i] <= n)
    <2>1. CASE i = last
      BY <1>1, <1>2, <1>3, <1>4, <2>1
    <2>2. CASE i \in 1..Len(before)
      <3>1. i \in 1..Len(its) /\ f[i] = i
        BY <1>1, <1>4, <2>2
      <3> QED  BY <1>2, <1>3, <2>2, <3>1
    <2> QED  BY <1>5, <2>1, <2>2
  <1>8. ASSUME NEW i \in 1..Len(its2)
        PROVE  /\ its2[i].serial = Append(its, item)[f[i]].serial
               /\ its2[i].mode = Append(its, item)[f[i]].mode
               /\ its2[i].when >= Append(its, item)[f[i]].when
               /\ i <= n2 <=> f[i] <= n
    <2>1. its2[i].when \in Nat /\ i \in 1..last
      BY <1>2, ItemOf
    <2>2. its2[i] = Append(its, item)[f[i]] /\ (i <= n2 <=> f[i] <= n)
      BY <1>7, <2>1
    <2>3. its2[i].when >= its2[i].when
      BY <2>1
    <2> QED  BY <2>2, <2>3
  <1>9. /\ f \in [1..Len(its2) -> 1..Len(Append(its, item))]
        /\ \A i, j \in 1..Len(its2) : f[i] = f[j] => i = j
        /\ n2 \in 0..Len(its2)
    BY <1>1, <1>2, <1>3, <1>4, <1>6
  <1>10. Descends(its2, n2, Append(its, item), n)
    BY <1>2, <1>8, <1>9 DEF Descends
  <1> QED  BY <1>10 DEF its2

LEMMA TimestampYounger ==
  ASSUME TypeOK, NEW s \in Shells, boundary[s] <= now
  PROVE  2 * Second(TimestampNow(s)) > boundary[s]
  <1>1. now \in Nat /\ boundary[s] \in Nat
    BY HistoryAssumption DEF TypeOK, DiskType, ShellType
  <1>2. \A t \in Nat : t \div 2 \in Nat /\ 2 * (t \div 2) <= t /\ t < 2 * (t \div 2) + 2
    OBVIOUS
  <1>3. \A t \in Nat : (t + 2) \div 2 = (t \div 2) + 1
    OBVIOUS
  <1>4. \A t, u \in Nat : t <= u => t \div 2 <= u \div 2
    OBVIOUS
  <1>5. CASE Second(now) = Second(boundary[s])
    BY <1>1, <1>2, <1>3, <1>5 DEF TimestampNow, Second
  <1>6. CASE Second(now) # Second(boundary[s])
    <2>1. Second(now) >= Second(boundary[s]) + 1
      BY <1>1, <1>2, <1>4, <1>6 DEF Second
    <2> QED  BY <1>1, <1>2, <1>6, <2>1 DEF TimestampNow, Second
  <1> QED  BY <1>5, <1>6

(* What AddCommand does to the items of its shell: they descend from what they *)
(* were and a new one, and they stay saved if they were.                     *)
Adds(s, item) ==
  /\ item \in Items /\ item.serial = adds + 1 /\ item.when = TimestampNow(s)
  /\ adds' = adds + 1
  /\ Descends(new_items'[s], first_unwritten'[s], Append(new_items[s], item), first_unwritten[s])

Quiet(s) == pc[s] = "idle" /\ DisableCounter(s) = 0 /\ ~skipped[s]

LEMMA AddCommandItems ==
  ASSUME TypeOK, NEW s \in Shells, NEW t \in Texts, NEW m \in Modes,
         NEW how \in {"detect", "plain", "sync"}, AddCommand(s, t, m, how)
  PROVE  /\ \E its, n : Updated(s, its, n)
         /\ \E item : Adds(s, item)
         /\ detecting' \in [Shells -> [Modes -> Nat]]
         /\ \A r \in Shells \ {s} : detecting'[r] = detecting[r]
         /\ (Quiet(s) => Unsaved(s) = {}) /\ Quiet(s)' => Unsaved(s)' = {}
  <1> DEFINE before == WithoutEphemeral(new_items[s])
             n == Min({first_unwritten[s], Len(before)})
             merges == before # <<>> /\ Last(before).text = t /\ Last(before).mode = m
             item == [text |-> t, when |-> TimestampNow(s), mode |-> m, serial |-> adds + 1]
             merged == [before EXCEPT ![Len(before)].when = Max({@, item.when})]
             its == IF merges THEN merged ELSE Append(before, item)
             tasks == IF how = "detect" THEN [detecting[s] EXCEPT ![m] = @ + 1]
                      ELSE detecting[s]
             disabled == tasks["Disk"] + tasks["Ephemeral"]
  <1>1. /\ new_items[s] \in Seq(Items) /\ first_unwritten[s] \in 0..Len(new_items[s])
        /\ now \in Nat /\ adds \in Nat /\ detecting \in [Shells -> [Modes -> Nat]]
        /\ pc \in [Shells -> Labels] /\ pc[s] = "idle"
    <2>1. new_items[s] \in Seq(Items) /\ first_unwritten[s] \in Nat /\ first_unwritten[s] <= Len(new_items[s])
      BY DEF TypeOK, ItemsType
    <2>2. Len(new_items[s]) \in Nat
      BY <2>1, LenProperties
    <2>3. now \in Nat /\ adds \in Nat
      BY HistoryAssumption DEF TypeOK, DiskType
    <2>4. first_unwritten[s] \in 0..Len(new_items[s])
      BY <2>1, <2>2
    <2>5. detecting \in [Shells -> [Modes -> Nat]] /\ pc \in [Shells -> Labels]
      BY DEF TypeOK, ShellType, SavingType
    <2>6. pc[s] = "idle"
      BY DEF AddCommand
    <2> QED  BY <2>1, <2>3, <2>4, <2>5, <2>6
  <1>2. TimestampNow(s) \in Nat
    BY <1>1 DEF TimestampNow
  <1>3. /\ before \in Seq(Items) /\ Len(before) <= Len(new_items[s])
        /\ \A i \in 1..Len(before) : before[i] = new_items[s][i]
        /\ n \in 0..Len(before)
        /\ \A i \in 1..Len(before) : i <= n <=> i <= first_unwritten[s]
    BY <1>1, WithoutEphemeralStarts
  <1>4. item \in Items /\ item.serial = adds + 1 /\ item.when = TimestampNow(s) /\ item.mode = m
    BY <1>1, <1>2 DEF Items
  <1>5. tasks \in [Modes -> Nat] /\ disabled \in Nat
    <2>1. detecting[s] \in [Modes -> Nat]
      BY <1>1
    <2>2. [detecting[s] EXCEPT ![m] = @ + 1] \in [Modes -> Nat]
      BY <2>1
    <2>3. tasks \in [Modes -> Nat]
      BY <2>1, <2>2
    <2> HIDE DEF tasks
    <2>4. "Disk" \in Modes /\ "Ephemeral" \in Modes
      BY DEF Modes
    <2> QED  BY <2>3, <2>4
  <1>6. how # "detect" => tasks = detecting[s]
    OBVIOUS
  <1>7. how = "detect" => disabled > 0
    <2>1. detecting[s] \in [Modes -> Nat]
      BY <1>1
    <2>2. ASSUME how = "detect"  PROVE  tasks[m] = detecting[s][m] + 1
      BY <2>1, <2>2
    <2>3. m \in {"Disk", "Ephemeral"}
      BY DEF Modes
    <2> HIDE DEF tasks
    <2>4. /\ detecting[s]["Disk"] \in Nat /\ detecting[s]["Ephemeral"] \in Nat
          /\ tasks["Disk"] \in Nat /\ tasks["Ephemeral"] \in Nat
      BY <1>5, <2>1 DEF Modes
    <2> QED  BY <2>2, <2>3, <2>4 DEF disabled
  <1>8. detecting' = [detecting EXCEPT ![s] = tasks] /\ adds' = adds + 1
    BY DEF AddCommand
  <1>9. /\ m = "Disk" =>
              \/ \E vacuum \in BOOLEAN : Save(s, its, n, deleted[s], vacuum, FALSE)
              \/ ~merges /\ SaveUnlessDisabled(s, its, n, disabled)
              \/ merges /\ NoSave(s, its, n)
        /\ m # "Disk" => NoSave(s, its, n)
    BY DEF AddCommand
  <1> HIDE DEF tasks, disabled, item, n
  <1>10. ASSUME merges
         PROVE  /\ merged \in Seq(Items) /\ Len(merged) = Len(before)
                /\ \A i \in 1..Len(before) :
                     /\ merged[i].serial = before[i].serial /\ merged[i].mode = before[i].mode
                     /\ merged[i].when >= before[i].when
    <2> DEFINE len == Len(before)
               old_when == before[len].when
               last == [before[len] EXCEPT !.when = Max({old_when, item.when})]
    <2> HIDE DEF before
    <2>1. len \in 1..Len(before) /\ len \in Nat /\ DOMAIN before = 1..Len(before)
      BY <1>3, <1>10, LenProperties, EmptySeq
    <2>2. before[len] \in Items /\ old_when \in Nat
      BY <1>3, <2>1, ItemOf
    <2>3. {old_when, item.when} \in SUBSET Nat /\ IsFiniteSet({old_when, item.when})
      BY <1>2, <1>4, <2>2, TwoAreFinite
    <2>4. Max({old_when, item.when}) \in Nat /\ Max({old_when, item.when}) >= old_when
      BY <2>3, MaxIsGreatest
    <2>5. /\ last \in Items /\ last.serial = before[len].serial /\ last.mode = before[len].mode
          /\ last.when = Max({old_when, item.when})
      BY <2>2, <2>4 DEF Items
    <2>6. merged = [before EXCEPT ![len] = last]
      BY <2>1
    <2> HIDE DEF last, merged
    <2>7. /\ merged \in Seq(Items) /\ Len(merged) = Len(before)
          /\ \A i \in 1..Len(before) : merged[i] = IF i = len THEN last ELSE before[i]
      BY <1>3, <2>1, <2>5, <2>6, ExceptSeq
    <2>8. \A i \in 1..Len(before) : before[i].when \in Nat
      BY <1>3, ItemOf
    <2> QED  BY <2>4, <2>5, <2>7, <2>8
  <1>11. /\ Append(before, item) \in Seq(Items) /\ Len(Append(before, item)) = Len(before) + 1
         /\ Append(before, item)[Len(before) + 1] = item
         /\ \A i \in 1..Len(before) : Append(before, item)[i] = before[i]
    BY <1>3, <1>4, AppendProperties
  <1>12. Len(before) \in Nat /\ Len(new_items[s]) \in Nat
    BY <1>1, <1>3, LenProperties
  <1>13. its \in Seq(Items) /\ n \in 0..Len(its)
    BY <1>3, <1>10, <1>11, <1>12
  <1>14. Descends(its, n, Append(new_items[s], item), first_unwritten[s])
    <2>1. CASE merges
      <3>1. /\ Append(new_items[s], item) \in Seq(Items)
            /\ Len(Append(new_items[s], item)) = Len(new_items[s]) + 1
            /\ \A i \in 1..Len(new_items[s]) : Append(new_items[s], item)[i] = new_items[s][i]
        BY <1>1, <1>4, AppendProperties
      <3>2. ASSUME NEW i \in 1..Len(merged)
            PROVE  /\ merged[i].serial = Append(new_items[s], item)[i].serial
                   /\ merged[i].mode = Append(new_items[s], item)[i].mode
                   /\ merged[i].when >= Append(new_items[s], item)[i].when
                   /\ i <= n <=> i <= first_unwritten[s]
        <4>1. i \in 1..Len(before) /\ i \in 1..Len(new_items[s])
          BY <1>3, <1>10, <1>12, <2>1
        <4>2. Append(new_items[s], item)[i] = before[i]
          BY <1>3, <3>1, <4>1
        <4> QED  BY <1>3, <1>10, <2>1, <4>1, <4>2
      <3>3. Len(merged) <= Len(Append(new_items[s], item)) /\ n \in 0..Len(merged) /\ merged \in Seq(Items)
        BY <1>3, <1>10, <1>12, <2>1, <3>1
      <3> HIDE DEF merged
      <3>4. Descends(merged, n, Append(new_items[s], item), first_unwritten[s])
        BY <3>1, <3>2, <3>3, PrefixDescends
      <3> QED  BY <2>1, <3>4
    <2>2. CASE ~merges
      <3>1. Descends(Append(before, item), n, Append(new_items[s], item), first_unwritten[s])
        BY <1>1, <1>3, <1>4, AppendDescends
      <3> QED  BY <2>2, <3>1
    <2> QED  BY <2>1, <2>2
  <1>15. ASSUME Quiet(s) => Unsaved(s) = {}, detecting[s]["Disk"] + detecting[s]["Ephemeral"] = 0, ~skipped[s],
                merges \/ m # "Disk",
                NEW i \in 1..Len(its), i > n
         PROVE  its[i].mode # "Disk"
    <2>1. Unsaved(s) = {} /\ DOMAIN new_items[s] = 1..Len(new_items[s])
      BY <1>1, <1>15, LenProperties DEF Quiet, DisableCounter
    <2>2. CASE i \in 1..Len(before)
      <3>1. i > first_unwritten[s] /\ i \in 1..Len(new_items[s])
        BY <1>1, <1>3, <1>12, <1>15, <2>2
      <3>2. new_items[s][i].mode # "Disk"
        BY <2>1, <3>1 DEF Unsaved
      <3> QED  BY <1>3, <1>10, <1>11, <2>2, <3>2
    <2>3. CASE i \notin 1..Len(before)
      <3>1. ~merges /\ i = Len(before) + 1
        BY <1>10, <1>11, <1>12, <2>3
      <3> QED  BY <1>4, <1>11, <1>15, <3>1
    <2> QED  BY <2>2, <2>3
  <1> HIDE DEF its, merges
  <1>16. Updated(s, its, n)
    BY <1>5, <1>9, <1>13, SaveUpdates, AutoSaveUpdates, NoSaveUpdates
  <1>17. Adds(s, item)
    <2>1. Append(new_items[s], item) \in Seq(Items)
      BY <1>1, <1>4, AppendProperties
    <2>2. Descends(new_items'[s], first_unwritten'[s], its, n)
      BY <1>16 DEF Updated
    <2>3. Descends(new_items'[s], first_unwritten'[s], Append(new_items[s], item), first_unwritten[s])
      BY <1>14, <2>1, <2>2, DescendsTrans
    <2> QED  BY <1>4, <1>8, <2>3 DEF Adds
  <1>18. /\ detecting' \in [Shells -> [Modes -> Nat]] /\ detecting'[s] = tasks
         /\ \A r \in Shells \ {s} : detecting'[r] = detecting[r]
    BY <1>1, <1>5, <1>8
  <1>19. ASSUME Quiet(s) => Unsaved(s) = {}, Quiet(s)'  PROVE  Unsaved(s)' = {}
    <2>1. pc'[s] = "idle" /\ ~skipped'[s] /\ disabled = 0 /\ how # "detect"
      <3>1. pc'[s] = "idle" /\ ~skipped'[s]
        BY <1>19 DEF Quiet
      <3>2. disabled = 0
        BY <1>18, <1>19 DEF Quiet, DisableCounter, disabled
      <3> QED  BY <1>7, <3>1, <3>2
    <2>2. new_items'[s] \in Seq(Items) /\ DOMAIN new_items'[s] = 1..Len(new_items'[s])
      <3>1. new_items'[s] \in Seq(Items)
        BY <1>16 DEF Updated
      <3> QED  BY <3>1, LenProperties
    <2>3. ASSUME first_unwritten'[s] >= Len(new_items'[s])  PROVE  Unsaved(s)' = {}
      <3>1. first_unwritten'[s] \in Nat /\ Len(new_items'[s]) \in Nat
        BY <1>16, <2>2, LenProperties DEF Updated
      <3>2. \A i \in 1..Len(new_items'[s]) : ~ (i > first_unwritten'[s])
        BY <2>3, <3>1
      <3> QED  BY <2>2, <3>2 DEF Unsaved
    <2>4. ASSUME NoSave(s, its, n), merges \/ m # "Disk"  PROVE  Unsaved(s)' = {}
      <3>1. new_items'[s] = its /\ first_unwritten'[s] = n /\ skipped' = skipped
        BY <1>13, <2>4, NoSaveUpdates
      <3>2. detecting[s]["Disk"] + detecting[s]["Ephemeral"] = 0
        BY <1>6, <2>1 DEF disabled
      <3>3. \A i \in 1..Len(its) : i > n => its[i].mode # "Disk"
        BY <1>15, <1>19, <2>1, <2>4, <3>1, <3>2
      <3> QED  BY <2>2, <3>1, <3>3 DEF Unsaved
    <2>5. CASE NoSave(s, its, n) /\ (merges \/ m # "Disk")
      BY <2>4, <2>5
    <2>6. CASE \E vacuum \in BOOLEAN : Save(s, its, n, deleted[s], vacuum, FALSE)
      BY <1>13, <2>1, <2>3, <2>6, SaveUpdates
    <2>7. CASE SaveUnlessDisabled(s, its, n, disabled)
      BY <1>5, <1>13, <2>1, <2>3, <2>7, AutoSaveUpdates
    <2> QED  BY <1>9, <2>5, <2>6, <2>7
  <1> QED  BY <1>16, <1>17, <1>18, <1>19

(* The end of a save: the items stay or are dropped. *)
LEMMA EndSaveItems ==
  ASSUME TypeOK, NEW s \in Shells, NEW n \in 0..Len(new_items[s]), EndSave(s, n)
  PROVE  /\ ItemsType' /\ SavingType' /\ pc'[s] = "idle" /\ fd'[s] = NoFile /\ tmp'[s] = {}
         /\ \/ merging[s] /\ new_items'[s] = <<>> /\ first_unwritten'[s] = 0
            \/ ~merging[s] /\ new_items'[s] = new_items[s] /\ first_unwritten'[s] = n
         /\ \A r \in Shells \ {s} :
              /\ new_items'[r] = new_items[r] /\ first_unwritten'[r] = first_unwritten[r]
              /\ pc'[r] = pc[r] /\ fd'[r] = fd[r] /\ orig'[r] = orig[r] /\ tmp'[r] = tmp[r]
              /\ merging'[r] = merging[r]
         /\ ~merging'[s]
  <1>1. /\ new_items \in [Shells -> Seq(Items)] /\ first_unwritten \in [Shells -> Nat]
        /\ merging \in [Shells -> BOOLEAN]
        /\ \A r \in Shells : first_unwritten[r] <= Len(new_items[r])
    BY DEF TypeOK, ItemsType, SavingType
  <1>2. <<>> \in Seq(Items) /\ Len(<<>>) = 0
    BY EmptySeq
  <1>3. n \in Nat /\ n <= Len(new_items[s]) /\ Len(new_items[s]) \in Nat
    BY <1>1, LenProperties
  <1>4. /\ new_items' \in [Shells -> Seq(Items)] /\ first_unwritten' \in [Shells -> Nat]
        /\ \/ merging[s] /\ new_items'[s] = <<>> /\ first_unwritten'[s] = 0
           \/ ~merging[s] /\ new_items'[s] = new_items[s] /\ first_unwritten'[s] = n
        /\ \A r \in Shells \ {s} :
             /\ new_items'[r] = new_items[r] /\ first_unwritten'[r] = first_unwritten[r]
    BY <1>1, <1>2, <1>3 DEF EndSave
  <1>5. first_unwritten'[s] <= Len(new_items'[s])
    BY <1>2, <1>3, <1>4
  <1>6. ItemsType'
    BY <1>1, <1>4, <1>5 DEF ItemsType
  <1>7. InvalidId \in (Inodes \cup {NoFile}) \X Nat
    BY DEF InvalidId
  <1>8. /\ SavingType' /\ pc'[s] = "idle" /\ fd'[s] = NoFile /\ tmp'[s] = {} /\ ~merging'[s]
        /\ \A r \in Shells \ {s} :
             /\ pc'[r] = pc[r] /\ fd'[r] = fd[r] /\ orig'[r] = orig[r] /\ tmp'[r] = tmp[r]
             /\ merging'[r] = merging[r]
    <2>1. /\ pc \in [Shells -> Labels] /\ fd \in [Shells -> Inodes \cup {NoFile}]
          /\ orig \in [Shells -> (Inodes \cup {NoFile}) \X Nat]
          /\ tmp \in [Shells -> SUBSET Entries] /\ merging \in [Shells -> BOOLEAN]
      BY DEF TypeOK, SavingType
    <2>2. "idle" \in Labels
      BY DEF Labels
    <2>3. /\ pc' = [pc EXCEPT ![s] = "idle"] /\ fd' = [fd EXCEPT ![s] = NoFile]
          /\ orig' = [orig EXCEPT ![s] = InvalidId] /\ tmp' = [tmp EXCEPT ![s] = {}]
          /\ merging' = [merging EXCEPT ![s] = FALSE]
      BY DEF EndSave, Goto
    <2>4. /\ pc' \in [Shells -> Labels] /\ fd' \in [Shells -> Inodes \cup {NoFile}]
          /\ tmp' \in [Shells -> SUBSET Entries] /\ merging' \in [Shells -> BOOLEAN]
      BY <2>1, <2>2, <2>3
    <2>5. orig' \in [Shells -> (Inodes \cup {NoFile}) \X Nat]
      <3> HIDE DEF InvalidId
      <3> QED  BY <1>7, <2>1, <2>3
    <2>6. SavingType'
      BY <2>4, <2>5 DEF SavingType
    <2> QED  BY <2>1, <2>3, <2>6
  <1> QED  BY <1>4, <1>6, <1>8

LEMMA UnsavedTypes ==
  ASSUME TypeOK, NEW s \in Shells
  PROVE  UnsavedEntries(s) \in SUBSET Entries /\ IsFiniteSet(UnsavedEntries(s))
  <1>1. new_items[s] \in Seq(Items)
    BY DEF TypeOK, ItemsType
  <1>2. DOMAIN new_items[s] = 1..Len(new_items[s]) /\ Len(new_items[s]) \in Nat
    BY <1>1, LenProperties
  <1>3. Unsaved(s) \in SUBSET (1..Len(new_items[s]))
    BY <1>2 DEF Unsaved
  <1>4. IsFiniteSet(Unsaved(s))
    <2>1. IsFiniteSet(1..Len(new_items[s]))
      BY <1>2, FS_Interval
    <2> QED  BY <1>3, <2>1, FS_Subset
  <1> DEFINE f == [i \in Unsaved(s) |-> Entry(new_items[s][i])]
  <1>5. f \in Surjection(Unsaved(s), UnsavedEntries(s))
    BY DEF Surjection, UnsavedEntries
  <1>6. IsFiniteSet(UnsavedEntries(s))
    <2> HIDE DEF f
    <2> QED  BY <1>4, <1>5, FS_Surjection
  <1>7. ASSUME NEW i \in Unsaved(s)  PROVE  Entry(new_items[s][i]) \in Entries
    <2>1. new_items[s][i] \in Items
      BY <1>1, <1>3, ItemOf
    <2>2. \A t \in Nat : t \div 2 \in Nat
      OBVIOUS
    <2> QED  BY <2>1, <2>2 DEF Items, Entry, Entries, Second
  <1> QED  BY <1>6, <1>7 DEF UnsavedEntries

(* Of the entries of one text the one that stays has one of their serials,   *)
(* and is not older than any.                                                *)
LEMMA DedupEntries ==
  ASSUME NEW S \in SUBSET Entries, IsFiniteSet(S)
  PROVE  /\ Dedup(S) \in SUBSET Entries /\ IsFiniteSet(Dedup(S))
         /\ TextsOf(Dedup(S)) = TextsOf(S)
         /\ \A e \in Dedup(S) : \E d \in S : d.serial = e.serial /\ d.sec <= e.sec
  <1> DEFINE of(t) == {x \in S : x.text = t}
             secs(t) == {e.sec : e \in of(t)}
             serials(t) == {e.serial : e \in of(t)}
             d(t) == [text |-> t, sec |-> Max(secs(t)), serial |-> Min(serials(t))]
             f == [e \in S |-> d(e.text)]
             g(t) == [e \in of(t) |-> e.sec]
  <1>1. Dedup(S) = {d(t) : t \in TextsOf(S)}
    BY DEF Dedup
  <1>2. ASSUME NEW t \in TextsOf(S)
        PROVE  /\ d(t) \in Entries /\ d(t).text = t
               /\ \E e \in S : e.serial = d(t).serial /\ e.sec <= d(t).sec
    <2>1. of(t) \in SUBSET S /\ of(t) # {}
      BY <1>2 DEF TextsOf
    <2>2. IsFiniteSet(of(t))
      <3> HIDE DEF of
      <3> QED  BY <2>1, FS_Subset
    <2>3. /\ secs(t) \in SUBSET Nat /\ secs(t) # {}
          /\ serials(t) \in SUBSET Nat /\ serials(t) # {}
      BY <2>1 DEF Entries
    <2>4. IsFiniteSet(secs(t))
      <3>1. g(t) \in Surjection(of(t), secs(t))
        BY DEF Surjection
      <3> HIDE DEF g, secs, of
      <3> QED  BY <2>2, <3>1, FS_Surjection
    <2>5. Max(secs(t)) \in secs(t) /\ \A y \in secs(t) : Max(secs(t)) >= y
      <3> HIDE DEF secs
      <3> QED  BY <2>3, <2>4, MaxIsGreatest
    <2>6. Min(serials(t)) \in serials(t)
      <3> HIDE DEF serials
      <3> QED  BY <2>3, MinIsLeast
    <2>7. Max(secs(t)) \in Nat /\ Min(serials(t)) \in Nat /\ t \in Texts
      BY <1>2, <2>3, <2>5, <2>6 DEF TextsOf, Entries
    <2>8. PICK e \in of(t) : e.serial = Min(serials(t))
      BY <2>6
    <2>9. e \in S /\ e.sec \in secs(t) /\ e.sec \in Nat
      BY <2>1, <2>8 DEF Entries
    <2>10. e.sec <= Max(secs(t))
      <3> HIDE DEF secs
      <3> QED  BY <2>5, <2>7, <2>9
    <2> HIDE DEF secs, serials
    <2>11. d(t) \in Entries /\ d(t).text = t /\ d(t).serial = Min(serials(t)) /\ d(t).sec = Max(secs(t))
      BY <2>7 DEF Entries
    <2> QED  BY <2>8, <2>9, <2>10, <2>11
  <1>3. f \in Surjection(S, Dedup(S))
    <2> HIDE DEF d
    <2> QED  BY <1>1 DEF Surjection, TextsOf
  <1>4. IsFiniteSet(Dedup(S))
    <2> HIDE DEF f
    <2> QED  BY <1>3, FS_Surjection
  <1> HIDE DEF d
  <1>5. Dedup(S) \in SUBSET Entries
    BY <1>1, <1>2
  <1>6. TextsOf(Dedup(S)) = TextsOf(S)
    BY <1>1, <1>2 DEF TextsOf
  <1>7. \A e \in Dedup(S) : \E x \in S : x.serial = e.serial /\ x.sec <= e.sec
    BY <1>1, <1>2
  <1> QED  BY <1>4, <1>5, <1>6, <1>7

LEMMA TypeInvInit == Init => TypeInv
  <1> SUFFICES ASSUME Init  PROVE  TypeInv
    OBVIOUS
  <1> USE DEF Init
  <1>1. <<>> \in Seq(Items) /\ Len(<<>>) = 0
    BY EmptySeq
  <1>2. IsFiniteSet({}) /\ Cardinality({}) = 0
    BY FS_EmptySet
  <1>3. 1 \in 1..MaxTime /\ 0 \in 0..MaxInodes /\ 1 \in 0..MaxTime
    BY HistoryAssumption
  <1>4. DiskType
    BY <1>2, <1>3 DEF DiskType
  <1>5. ItemsType
    BY <1>1 DEF ItemsType
  <1>6. ShellType
    BY <1>3 DEF ShellType, InvalidId, NoneDeleted
  <1>7. SavingType
    BY DEF SavingType, InvalidId, Labels
  <1>8. TypeOK
    <2>1. {adds, ops, faults} \subseteq Nat /\ written \subseteq Texts /\ on_disk \subseteq Nat
      OBVIOUS
    <2>3. raced \in BOOLEAN
      OBVIOUS
    <2>2. failed \in [Shells -> BOOLEAN] /\ skipped \in [Shells -> BOOLEAN]
      OBVIOUS
    <2> QED  BY <1>4, <1>5, <1>6, <1>7, <2>1, <2>2, <2>3 DEF TypeOK
  <1> QED  BY <1>2, <1>8 DEF TypeInv, FiniteInv, FdInv

(* The files keep their types when one of them loses its name. *)
LEMMA UnlinkedTypes ==
  ASSUME DiskType, FiniteInv, NEW s \in Shells
  PROVE  /\ Unlinked(s) \in [Inodes -> SUBSET Entries]
         /\ \A f \in Inodes : IsFiniteSet(Unlinked(s)[f]) /\ Unlinked(s)[f] \in {files[f], {}}
  BY FS_EmptySet DEF DiskType, FiniteInv, Unlinked

LEMMA UnlockTypes ==
  ASSUME DiskType, FiniteInv, NEW s \in Shells, Unlock(s)
  PROVE  /\ lock' \in [Inodes -> SUBSET Shells]
         /\ \A f \in Inodes : IsFiniteSet(lock'[f]) /\ Cardinality(lock'[f]) <= 1
  <1>1. lock' = [f \in Inodes |-> lock[f] \ {s}]
    BY DEF Unlock
  <1>2. ASSUME NEW f \in Inodes
        PROVE  IsFiniteSet(lock'[f]) /\ Cardinality(lock'[f]) <= 1
    <2>1. lock'[f] = lock[f] \ {s}
      BY <1>1
    <2>2. IsFiniteSet(lock[f]) /\ Cardinality(lock[f]) <= 1 /\ lock'[f] \in SUBSET lock[f]
      BY <2>1 DEF FiniteInv, DiskType
    <2>3. IsFiniteSet(lock'[f]) /\ Cardinality(lock'[f]) <= Cardinality(lock[f])
      BY <2>2, FS_Subset
    <2>4. Cardinality(lock'[f]) \in Nat /\ Cardinality(lock[f]) \in Nat
      BY <2>2, <2>3, FS_CardinalityType
    <2> QED  BY <2>2, <2>3, <2>4
  <1> QED  BY <1>1, <1>2 DEF DiskType

LEMMA LockTypes ==
  ASSUME DiskType, FiniteInv, NEW s \in Shells, NEW g, lock' = [lock EXCEPT ![g] = {s}]
  PROVE  /\ lock' \in [Inodes -> SUBSET Shells]
         /\ \A f \in Inodes : IsFiniteSet(lock'[f]) /\ Cardinality(lock'[f]) <= 1
  <1>1. IsFiniteSet({s}) /\ Cardinality({s}) = 1
    BY FS_Singleton
  <1>2. lock \in [Inodes -> SUBSET Shells] /\ {s} \in SUBSET Shells
    BY DEF DiskType
  <1>3. lock' \in [Inodes -> SUBSET Shells] /\ \A f \in Inodes : lock'[f] = lock[f] \/ lock'[f] = {s}
    BY <1>2
  <1>4. \A f \in Inodes : IsFiniteSet(lock[f]) /\ Cardinality(lock[f]) <= 1
    BY DEF DiskType, FiniteInv
  <1> QED  BY <1>1, <1>3, <1>4

LEMMA FileIdTypes ==
  ASSUME DiskType, FiniteInv, NEW f \in Inodes
  PROVE  Cardinality(files[f]) \in Nat /\ Id(f) \in (Inodes \cup {NoFile}) \X Nat
  <1>1. Cardinality(files[f]) \in Nat
    BY FS_CardinalityType DEF FiniteInv
  <1> QED  BY <1>1 DEF Id, InvalidId

(* The operations on the items leave the disk alone. *)
LEMMA UpdatedTypeInv ==
  ASSUME TypeInv, NEW s \in Shells, NEW its, NEW n, Updated(s, its, n),
         UNCHANGED <<disk, fd, orig, tmp, written, on_disk, raced, failed>>,
         ShellType', merging' \in [Shells -> BOOLEAN], {adds', ops', faults'} \subseteq Nat
  PROVE  TypeInv'
  <1> USE DEF TypeInv
  <1>1. ItemsType'
    BY UpdatedTypes
  <1>2. DiskType'
    BY DEF TypeOK, DiskType, disk
  <1>3. SavingType'
    BY DEF TypeOK, SavingType, Updated
  <1>4. /\ written' \subseteq Texts /\ on_disk' \subseteq Nat
        /\ {failed', skipped'} \subseteq [Shells -> BOOLEAN]
    BY DEF TypeOK, Updated
  <1>5. raced' \in BOOLEAN
    BY DEF TypeOK
  <1>6. TypeOK'
    BY <1>1, <1>2, <1>3, <1>4, <1>5 DEF TypeOK
  <1>7. FiniteInv'
    BY DEF FiniteInv, disk
  <1>8. FdInv'
    <2> SUFFICES ASSUME NEW r \in Shells,
                        pc'[r] \in {"append_lock", "append_write", "read", "rewrite_lock"}
                 PROVE  fd'[r] # NoFile
      BY DEF FdInv
    <2>1. pc'[r] = pc[r] /\ fd' = fd
      BY DEF Updated
    <2> QED  BY <2>1 DEF FdInv
  <1> QED  BY <1>6, <1>7, <1>8

LEMMA ItemsFacts ==
  ASSUME TypeOK, NEW s \in Shells
  PROVE  /\ new_items[s] \in Seq(Items) /\ Len(new_items[s]) \in Nat
         /\ DOMAIN new_items[s] = 1..Len(new_items[s])
         /\ first_unwritten[s] \in 0..Len(new_items[s])
  <1>1. /\ new_items[s] \in Seq(Items) /\ first_unwritten[s] \in Nat
        /\ first_unwritten[s] <= Len(new_items[s])
    BY DEF TypeOK, ItemsType
  <1>2. Len(new_items[s]) \in Nat /\ DOMAIN new_items[s] = 1..Len(new_items[s])
    BY <1>1, LenProperties
  <1> QED  BY <1>1, <1>2

(* The operations that may end in a save, one by one: what the items were   *)
(* when it started.                                                          *)
LEMMA DetectionEndsItems ==
  ASSUME TypeOK, NEW s \in Shells, NEW m \in Modes, DetectionEnds(s, m)
  PROVE  /\ Updated(s, new_items[s], first_unwritten[s])
         /\ detecting' \in [Shells -> [Modes -> Nat]]
         /\ \A r \in Shells \ {s} : detecting'[r] = detecting[r]
         /\ (Quiet(s) => Unsaved(s) = {}) /\ Quiet(s)' => Unsaved(s)' = {}
  <1>1. /\ detecting \in [Shells -> [Modes -> Nat]] /\ detecting[s] \in [Modes -> Nat]
        /\ skipped \in [Shells -> BOOLEAN]
    BY DEF TypeOK, ShellType
  <1>2. detecting[s][m] > 0 /\ detecting' = [detecting EXCEPT ![s][m] = @ - 1]
    BY DEF DetectionEnds
  <1>3. /\ detecting' \in [Shells -> [Modes -> Nat]] /\ detecting'[s][m] = detecting[s][m] - 1
        /\ \A q \in Modes \ {m} : detecting'[s][q] = detecting[s][q]
        /\ \A r \in Shells \ {s} : detecting'[r] = detecting[r]
    BY <1>1, <1>2
  <1>4. "Disk" \in Modes /\ "Ephemeral" \in Modes /\ (m = "Disk" \/ m = "Ephemeral")
    BY DEF Modes
  <1>5. DisableCounter(s) \in Nat \ {0} /\ DisableCounter(s)' = DisableCounter(s) - 1
    <2>1. detecting[s]["Disk"] \in Nat /\ detecting[s]["Ephemeral"] \in Nat
      BY <1>1, <1>4
    <2> QED  BY <1>2, <1>3, <1>4, <2>1 DEF DisableCounter
  <1>6. CASE m = "Disk"
    <2>1. SaveUnlessDisabled(s, new_items[s], first_unwritten[s], DisableCounter(s) - 1)
      BY <1>6 DEF DetectionEnds
    <2>2. DisableCounter(s) - 1 \in Nat
      BY <1>5
    <2>3. /\ Updated(s, new_items[s], first_unwritten[s])
          /\ pc'[s] = "idle" /\ DisableCounter(s) - 1 = 0 => first_unwritten'[s] >= Len(new_items'[s])
      BY <2>1, <2>2, ItemsFacts, AutoSaveUpdates
    <2>4. ASSUME Quiet(s)'  PROVE  Unsaved(s)' = {}
      <3>1. first_unwritten'[s] >= Len(new_items'[s])
        BY <1>5, <2>3, <2>4 DEF Quiet
      <3>2. new_items'[s] \in Seq(Items) /\ first_unwritten'[s] \in Nat
        BY <2>3 DEF Updated
      <3>3. DOMAIN new_items'[s] = 1..Len(new_items'[s]) /\ Len(new_items'[s]) \in Nat
        BY <3>2, LenProperties
      <3>4. \A i \in 1..Len(new_items'[s]) : ~ (i > first_unwritten'[s])
        BY <3>1, <3>2, <3>3
      <3> QED  BY <3>3, <3>4 DEF Unsaved
    <2> QED  BY <1>3, <2>3, <2>4
  <1>7. CASE m # "Disk"
    <2>1. /\ skipped' = [skipped EXCEPT ![s] = @ \/ DisableCounter(s) = 1]
          /\ new_items' = new_items /\ first_unwritten' = first_unwritten /\ pc' = pc
      BY <1>7 DEF DetectionEnds
    <2>2. skipped' \in [Shells -> BOOLEAN] /\ \A r \in Shells \ {s} : skipped'[r] = skipped[r]
      BY <1>1, <2>1
    <2>3. Descends(new_items[s], first_unwritten[s], new_items[s], first_unwritten[s])
      BY ItemsFacts, DescendsSame
    <2>4. Updated(s, new_items[s], first_unwritten[s])
      BY <2>1, <2>2, <2>3 DEF Updated, TypeOK, ItemsType, SavingType
    <2>5. ~Quiet(s)'
      <3>1. ASSUME DisableCounter(s) = 1  PROVE  skipped'[s]
        BY <1>1, <2>1, <3>1
      <3>2. ASSUME DisableCounter(s) # 1  PROVE  DisableCounter(s)' # 0
        BY <1>5, <3>2
      <3> QED  BY <3>1, <3>2 DEF Quiet
    <2> QED  BY <1>3, <2>4, <2>5
  <1> QED  BY <1>6, <1>7

(* The rest of them end in a save for certain. *)
OpSave(s) ==
  \E its, n, del : \E then_clear \in BOOLEAN :
    /\ its \in Seq(Items) /\ n \in 0..Len(its)
    /\ Descends(its, n, new_items[s], first_unwritten[s])
    /\ Save(s, its, n, del, FALSE, then_clear)

LEMMA OpSaveItems ==
  ASSUME TypeOK, NEW s \in Shells, OpSave(s)
  PROVE  /\ Updated(s, new_items[s], first_unwritten[s])
         /\ pc'[s] = "idle" => Unsaved(s)' = {}
  <1>1. PICK its, n, del : \E then_clear \in BOOLEAN :
          /\ its \in Seq(Items) /\ n \in 0..Len(its)
          /\ Descends(its, n, new_items[s], first_unwritten[s])
          /\ Save(s, its, n, del, FALSE, then_clear)
    BY DEF OpSave
  <1>2. Updated(s, its, n) /\ (pc'[s] = "idle" => first_unwritten'[s] >= Len(new_items'[s]))
    BY <1>1, SaveUpdates
  <1>3. Descends(new_items'[s], first_unwritten'[s], new_items[s], first_unwritten[s])
    BY <1>1, <1>2, ItemsFacts, DescendsTrans DEF Updated
  <1>4. Updated(s, new_items[s], first_unwritten[s])
    BY <1>2, <1>3 DEF Updated
  <1>5. ASSUME pc'[s] = "idle"  PROVE  Unsaved(s)' = {}
    <2>1. new_items'[s] \in Seq(Items) /\ first_unwritten'[s] \in Nat
      BY <1>2 DEF Updated
    <2>2. DOMAIN new_items'[s] = 1..Len(new_items'[s]) /\ Len(new_items'[s]) \in Nat
      BY <2>1, LenProperties
    <2>3. \A i \in 1..Len(new_items'[s]) : ~ (i > first_unwritten'[s])
      BY <1>2, <1>5, <2>1, <2>2
    <2> QED  BY <2>2, <2>3 DEF Unsaved
  <1> QED  BY <1>4, <1>5

LEMMA OpsSave ==
  ASSUME TypeOK, NEW s \in Shells
  PROVE  /\ SaveNow(s) => OpSave(s)
         /\ \A t \in Texts : Delete(s, t) => OpSave(s)
         /\ ClearSession(s) => OpSave(s)
         /\ Incorporate(s) => OpSave(s)
  <1>1. /\ new_items[s] \in Seq(Items) /\ first_unwritten[s] \in 0..Len(new_items[s])
        /\ Descends(new_items[s], first_unwritten[s], new_items[s], first_unwritten[s])
    BY ItemsFacts, DescendsSame
  <1>2. ASSUME SaveNow(s)  PROVE  OpSave(s)
    <2>1. Save(s, new_items[s], first_unwritten[s], deleted[s], FALSE, FALSE)
      BY <1>2 DEF SaveNow
    <2> QED  BY <1>1, <2>1 DEF OpSave
  <1>3. ASSUME NEW t \in Texts, Delete(s, t)  PROVE  OpSave(s)
    <2> DEFINE keep == {i \in DOMAIN new_items[s] : new_items[s][i].text # t}
    <2>1. keep \in SUBSET (DOMAIN new_items[s])
      OBVIOUS
    <2>2. Save(s, Kept(new_items[s], keep), KeptOf(first_unwritten[s], keep), deleted'[s], FALSE, FALSE)
      BY <1>3 DEF Delete
    <2> HIDE DEF keep
    <2>3. Descends(Kept(new_items[s], keep), KeptOf(first_unwritten[s], keep), new_items[s], first_unwritten[s])
      BY <1>1, <2>1, KeptDescends
    <2> QED  BY <2>2, <2>3 DEF OpSave, Descends
  <1>4. ASSUME ClearSession(s)  PROVE  OpSave(s)
    <2>1. Save(s, <<>>, 0, deleted'[s], FALSE, FALSE)
      BY <1>4 DEF ClearSession
    <2>2. Descends(<<>>, 0, new_items[s], first_unwritten[s])
      BY DescendsEmpty
    <2> QED  BY <2>1, <2>2 DEF OpSave, Descends
  <1>5. ASSUME Incorporate(s)  PROVE  OpSave(s)
    <2>1. Save(s, new_items[s], first_unwritten[s], deleted[s], FALSE, TRUE)
      BY <1>5 DEF Incorporate
    <2> QED  BY <1>1, <2>1 DEF OpSave
  <1> QED  BY <1>2, <1>3, <1>4, <1>5

(* The types after a step that ends a save, of which the caller knows the   *)
(* disk.                                                                     *)
LEMMA EndSaveTypeInv ==
  ASSUME TypeInv, NEW s \in Shells, NEW n \in 0..Len(new_items[s]), EndSave(s, n),
         DiskType', ShellType', \A f \in Inodes : IsFiniteSet(files'[f]) /\ IsFiniteSet(lock'[f]),
         {adds', ops', faults'} \subseteq Nat, written' \subseteq Texts, on_disk' \subseteq Nat,
         raced' = raced, {failed', skipped'} \subseteq [Shells -> BOOLEAN]
  PROVE  TypeInv'
  <1>1. TypeOK
    BY DEF TypeInv
  <1>2. ItemsType' /\ SavingType' /\ pc'[s] = "idle" /\ tmp'[s] = {}
    BY <1>1, EndSaveItems
  <1>3. \A r \in Shells \ {s} : pc'[r] = pc[r] /\ fd'[r] = fd[r] /\ tmp'[r] = tmp[r]
    BY <1>1, EndSaveItems
  <1>4. raced' \in BOOLEAN
    BY <1>1 DEF TypeOK
  <1>5. TypeOK'
    BY <1>2, <1>4 DEF TypeOK
  <1>6. FiniteInv'
    BY <1>2, <1>3, FS_EmptySet DEF TypeInv, FiniteInv
  <1>7. FdInv'
    BY <1>2, <1>3 DEF TypeInv, FdInv
  <1> QED  BY <1>5, <1>6, <1>7 DEF TypeInv

LEMMA OpsKeepTypes ==
  ASSUME TypeInv, NEW s \in Shells,
         \/ \E t \in Texts, m \in Modes, how \in {"detect", "plain", "sync"} : AddCommand(s, t, m, how)
         \/ \E m \in Modes : DetectionEnds(s, m)
         \/ \E t \in Texts : Delete(s, t)
         \/ SaveNow(s) \/ ClearSession(s) \/ Incorporate(s)
  PROVE  TypeInv'
  <1> USE DEF TypeInv
  <1>0. adds \in Nat /\ ops \in Nat /\ faults \in Nat /\ ShellType /\ merging \in [Shells -> BOOLEAN]
    BY DEF TypeOK, SavingType
  <1>1. ASSUME NEW t \in Texts, NEW m \in Modes, NEW how \in {"detect", "plain", "sync"},
               AddCommand(s, t, m, how)
        PROVE  TypeInv'
    <2>1. PICK its, n : Updated(s, its, n)
      BY <1>1, AddCommandItems
    <2>2. detecting' \in [Shells -> [Modes -> Nat]]
      BY <1>1, AddCommandItems
    <2>3. /\ UNCHANGED <<disk, fd, orig, tmp, written, on_disk, raced, failed>>
          /\ UNCHANGED <<deleted, boundary, old, merging>>
          /\ adds' = adds + 1 /\ UNCHANGED <<ops, faults>>
      BY <1>1 DEF AddCommand
    <2>4. ShellType'
      BY <1>0, <2>2, <2>3 DEF ShellType, old
    <2> QED  BY <1>0, <2>1, <2>3, <2>4, UpdatedTypeInv
  <1>2. ASSUME NEW m \in Modes, DetectionEnds(s, m)  PROVE  TypeInv'
    <2>1. Updated(s, new_items[s], first_unwritten[s]) /\ detecting' \in [Shells -> [Modes -> Nat]]
      BY <1>2, DetectionEndsItems
    <2>2. /\ UNCHANGED <<disk, fd, orig, tmp, written, on_disk, raced, failed>>
          /\ UNCHANGED <<deleted, boundary, old, merging, adds, ops, faults>>
      BY <1>2 DEF DetectionEnds, bounds
    <2>3. ShellType'
      BY <1>0, <2>1, <2>2 DEF ShellType, old
    <2> QED  BY <1>0, <2>1, <2>2, <2>3, UpdatedTypeInv
  <1>3. ASSUME OpSave(s), UNCHANGED <<disk, fd, orig, tmp, written, on_disk, raced, failed>>,
               ShellType', merging' \in [Shells -> BOOLEAN], adds' = adds, ops' = ops + 1,
               faults' = faults
        PROVE  TypeInv'
    <2>1. Updated(s, new_items[s], first_unwritten[s])
      BY <1>3, OpSaveItems
    <2> QED  BY <1>0, <1>3, <2>1, UpdatedTypeInv
  <1>4. ASSUME NEW t \in Texts, Delete(s, t)  PROVE  TypeInv'
    <2>1. /\ UNCHANGED <<disk, fd, orig, tmp, written, on_disk, raced, failed>>
          /\ UNCHANGED <<detecting, boundary, old, merging, adds, faults>> /\ ops' = ops + 1
          /\ deleted' = [deleted EXCEPT ![s][t] = "all"]
      BY <1>4 DEF Delete, UserOp
    <2>2. ShellType'
      BY <1>0, <2>1 DEF ShellType, old
    <2> QED  BY <1>0, <1>3, <1>4, <2>1, <2>2, OpsSave
  <1>5. CASE SaveNow(s)
    <2>1. /\ UNCHANGED <<disk, fd, orig, tmp, written, on_disk, raced, failed>>
          /\ UNCHANGED <<deleted, detecting, boundary, old, merging, adds, faults>> /\ ops' = ops + 1
      BY <1>5 DEF SaveNow, UserOp
    <2>2. ShellType'
      BY <1>0, <2>1 DEF ShellType, old
    <2> QED  BY <1>0, <1>3, <1>5, <2>1, <2>2, OpsSave
  <1>6. CASE ClearSession(s)
    <2>1. /\ UNCHANGED <<disk, fd, orig, tmp, written, on_disk, raced, failed>>
          /\ UNCHANGED <<detecting, boundary, old, merging, adds, faults>> /\ ops' = ops + 1
          /\ deleted' = [deleted EXCEPT ![s] = [t \in Texts |->
                           IF \E i \in DOMAIN new_items[s] : new_items[s][i].text = t
                           THEN "session" ELSE deleted[s][t]]]
      BY <1>6 DEF ClearSession, UserOp
    <2>2. deleted' \in [Shells -> [Texts -> {"no", "session", "all"}]]
      BY <1>0, <2>1 DEF ShellType
    <2>3. ShellType'
      BY <1>0, <2>1, <2>2 DEF ShellType, old
    <2> QED  BY <1>0, <1>3, <1>6, <2>1, <2>3, OpsSave
  <1>7. CASE Incorporate(s)
    <2>1. /\ UNCHANGED <<disk, fd, orig, tmp, written, on_disk, raced, failed>>
          /\ UNCHANGED <<deleted, detecting, file_id, adds, faults>> /\ ops' = ops + 1
          /\ boundary' = [boundary EXCEPT ![s] = now] /\ ClearFileState(s)
          /\ merging' = [merging EXCEPT ![s] = pc'[s] # "idle"]
      BY <1>7 DEF Incorporate, UserOp
    <2>2. now \in 0..MaxTime
      BY HistoryAssumption DEF TypeOK, DiskType
    <2>3. /\ boundary' \in [Shells -> 0..MaxTime] /\ loaded_old' \in [Shells -> BOOLEAN]
          /\ old_items' \in [Shells -> SUBSET Entries]
      BY <1>0, <2>1, <2>2 DEF ShellType, ClearFileState
    <2>4. ShellType'
      BY <1>0, <2>1, <2>3 DEF ShellType
    <2>5. merging' \in [Shells -> BOOLEAN]
      BY <1>0, <2>1
    <2> QED  BY <1>0, <1>3, <1>7, <2>1, <2>4, <2>5, OpsSave
  <1> QED  BY <1>1, <1>2, <1>4, <1>5, <1>6, <1>7

LEMMA SaveStepsKeepTypes ==
  ASSUME TypeInv, NEW s \in Shells, SaveStep(s)
  PROVE  TypeInv'
  <1> USE DEF TypeInv
  <1>0. /\ DiskType /\ ItemsType /\ ShellType /\ SavingType /\ FiniteInv /\ FdInv
        /\ adds \in Nat /\ ops \in Nat /\ faults \in Nat
        /\ written \subseteq Texts /\ on_disk \subseteq Nat
        /\ failed \in [Shells -> BOOLEAN] /\ skipped \in [Shells -> BOOLEAN]
    BY DEF TypeOK
  <1>00. MaxInodes \in Nat /\ NoFile \notin Inodes
    BY HistoryAssumption DEF Inodes
  <1>01. raced \in BOOLEAN
    BY DEF TypeOK
  \* A step that leaves most of it alone.
  <1>02. ASSUME UNCHANGED <<now, files, items, detecting, boundary, old, merging, bounds, ghosts>>,
                path' \in Inodes \cup {NoFile}, made' \in 0..MaxInodes,
                lock' \in [Inodes -> SUBSET Shells],
                \A f \in Inodes : IsFiniteSet(lock'[f]) /\ Cardinality(lock'[f]) <= 1,
                pc' \in [Shells -> Labels], fd' \in [Shells -> Inodes \cup {NoFile}],
                orig' \in [Shells -> (Inodes \cup {NoFile}) \X Nat],
                tmp' \in [Shells -> SUBSET Entries], \A r \in Shells : IsFiniteSet(tmp'[r]),
                FdInv'
         PROVE  TypeInv'
    <2>1. DiskType'
      BY <1>0, <1>02 DEF DiskType
    <2>2. ItemsType' /\ ShellType'
      BY <1>0, <1>02 DEF ItemsType, ShellType, items, old
    <2>3. SavingType'
      BY <1>0, <1>02 DEF SavingType
    <2>4. /\ {adds', ops', faults'} \subseteq Nat /\ written' \subseteq Texts /\ on_disk' \subseteq Nat
          /\ {failed', skipped'} \subseteq [Shells -> BOOLEAN]
      BY <1>0, <1>02 DEF bounds, ghosts
    <2>5. raced' \in BOOLEAN
      BY <1>01, <1>02 DEF ghosts
    <2>6. TypeOK'
      BY <2>1, <2>2, <2>3, <2>4, <2>5 DEF TypeOK
    <2>7. FiniteInv'
      BY <1>0, <1>02 DEF FiniteInv
    <2> QED  BY <1>02, <2>6, <2>7
  <1>03. /\ path \in Inodes \cup {NoFile} /\ made \in 0..MaxInodes
         /\ lock \in [Inodes -> SUBSET Shells]
         /\ \A f \in Inodes : IsFiniteSet(lock[f]) /\ Cardinality(lock[f]) <= 1
         /\ pc \in [Shells -> Labels] /\ fd \in [Shells -> Inodes \cup {NoFile}]
         /\ orig \in [Shells -> (Inodes \cup {NoFile}) \X Nat]
         /\ tmp \in [Shells -> SUBSET Entries] /\ \A r \in Shells : IsFiniteSet(tmp[r])
    BY <1>0 DEF DiskType, SavingType, FiniteInv
  <1>1. CASE AppendOpen(s)
    <2>1. /\ fd' = [fd EXCEPT ![s] = path]
          /\ pc' = [pc EXCEPT ![s] = IF path = NoFile THEN "rewrite" ELSE "append_lock"]
          /\ UNCHANGED <<disk, orig, tmp>>
          /\ UNCHANGED <<items, detecting, boundary, old, merging, bounds, ghosts>>
      BY <1>1 DEF AppendOpen, Goto
    <2>2. pc' \in [Shells -> Labels] /\ fd' \in [Shells -> Inodes \cup {NoFile}]
      BY <1>03, <2>1 DEF Labels
    <2>3. FdInv'
      BY <1>0, <1>03, <2>1 DEF FdInv
    <2> QED  BY <1>02, <1>03, <2>1, <2>2, <2>3 DEF disk
  <1>2. CASE AppendLock(s)
    <2>1. /\ UNCHANGED <<now, path, made, files, items, detecting, boundary, old, fd, orig, tmp,
                         merging, bounds, ghosts>>
          /\ pc[s] = "append_lock"
          /\ \/ pc' = [pc EXCEPT ![s] = "append_write"] /\ lock' = [lock EXCEPT ![path] = {s}]
             \/ pc' = [pc EXCEPT ![s] = "append"] /\ lock' = lock
      BY <1>2 DEF AppendLock, Goto
    <2>2. /\ lock' \in [Inodes -> SUBSET Shells]
          /\ \A f \in Inodes : IsFiniteSet(lock'[f]) /\ Cardinality(lock'[f]) <= 1
      BY <1>0, <1>03, <2>1, LockTypes
    <2>3. pc' \in [Shells -> Labels]
      BY <1>03, <2>1 DEF Labels
    <2>4. FdInv'
      BY <1>0, <1>03, <2>1 DEF FdInv
    <2> QED  BY <1>02, <1>03, <2>1, <2>2, <2>3, <2>4
  <1>3. CASE AppendWrite(s)
    <2> DEFINE f == fd[s]
    <2>1. f \in Inodes
      BY <1>0, <1>03, <1>3 DEF FdInv, AppendWrite
    <2>2. UnsavedEntries(s) \in SUBSET Entries /\ IsFiniteSet(UnsavedEntries(s))
      BY UnsavedTypes
    <2>3. /\ Unlock(s)
          /\ file_id' = [file_id EXCEPT ![s] = <<f, Cardinality(files'[f])>>]
          /\ UNCHANGED <<now, path, made, deleted, detecting, boundary, adds, ops, raced, skipped>>
          /\ \/ ClearFileState(s)
             \/ UNCHANGED <<loaded_old, old_items>>
      BY <1>3 DEF AppendWrite
    <2>4. \/ /\ files' = [files EXCEPT ![f] = @ \cup UnsavedEntries(s)]
             /\ written' = written \cup TextsOf(UnsavedEntries(s))
             /\ on_disk' = on_disk \cup Serials(UnsavedEntries(s))
             /\ EndSave(s, Len(new_items[s]))
             /\ UNCHANGED <<failed, faults>>
          \/ /\ Fault
             /\ failed' = [failed EXCEPT ![s] = TRUE]
             /\ first_unwritten' = [first_unwritten EXCEPT ![s] = Len(new_items[s])]
             /\ fd' = [fd EXCEPT ![s] = NoFile]
             /\ pc' = [pc EXCEPT ![s] = "rewrite"]
             /\ UNCHANGED <<files, new_items, orig, tmp, merging, written, on_disk>>
      BY <1>3 DEF AppendWrite, Goto
    <2>5. /\ lock' \in [Inodes -> SUBSET Shells]
          /\ \A g \in Inodes : IsFiniteSet(lock'[g]) /\ Cardinality(lock'[g]) <= 1
      BY <1>0, <2>3, UnlockTypes
    <2>6. files' \in [Inodes -> SUBSET Entries] /\ \A g \in Inodes : IsFiniteSet(files'[g])
      <3>1. IsFiniteSet(files[f] \cup UnsavedEntries(s))
        BY <1>0, <2>1, <2>2, FS_Union DEF FiniteInv
      <3>2. files[f] \cup UnsavedEntries(s) \in SUBSET Entries
        BY <1>0, <2>1, <2>2 DEF DiskType
      <3>3. files \in [Inodes -> SUBSET Entries] /\ \A g \in Inodes : IsFiniteSet(files[g])
        BY <1>0 DEF DiskType, FiniteInv
      <3>4. files' = files \/ files' = [files EXCEPT ![f] = files[f] \cup UnsavedEntries(s)]
        BY <2>4
      <3> HIDE DEF f
      <3> QED  BY <2>1, <3>1, <3>2, <3>3, <3>4
    <2>7. DiskType'
      BY <1>0, <2>3, <2>5, <2>6 DEF DiskType
    <2>8. ShellType'
      <3>1. Cardinality(files'[f]) \in Nat
        BY <2>1, <2>6, FS_CardinalityType
      <3>2. <<f, Cardinality(files'[f])>> \in (Inodes \cup {NoFile}) \X Nat
        BY <2>1, <3>1
      <3>3. file_id' \in [Shells -> (Inodes \cup {NoFile}) \X Nat]
        BY <1>0, <2>3, <3>2 DEF ShellType
      <3>4. loaded_old' \in [Shells -> BOOLEAN] /\ old_items' \in [Shells -> SUBSET Entries]
        BY <1>0, <2>3 DEF ShellType, ClearFileState
      <3> QED  BY <1>0, <2>3, <3>3, <3>4 DEF ShellType
    <2>9. new_items[s] \in Seq(Items) /\ Len(new_items[s]) \in Nat
      BY ItemsFacts
    <2>10. CASE /\ files' = [files EXCEPT ![f] = @ \cup UnsavedEntries(s)]
                /\ written' = written \cup TextsOf(UnsavedEntries(s))
                /\ on_disk' = on_disk \cup Serials(UnsavedEntries(s))
                /\ EndSave(s, Len(new_items[s]))
                /\ UNCHANGED <<failed, faults>>
      <3>1. TextsOf(UnsavedEntries(s)) \subseteq Texts /\ Serials(UnsavedEntries(s)) \subseteq Nat
        BY <2>2 DEF TextsOf, Serials, Entries
      <3>2. written' \subseteq Texts /\ on_disk' \subseteq Nat /\ {adds', ops', faults'} \subseteq Nat
        BY <1>0, <2>3, <2>10, <3>1
      <3>3. Len(new_items[s]) \in 0..Len(new_items[s])
        BY <2>9
      <3> QED  BY <1>0, <2>3, <2>5, <2>6, <2>7, <2>8, <2>10, <3>2, <3>3, EndSaveTypeInv
    <2>11. CASE /\ Fault
                /\ failed' = [failed EXCEPT ![s] = TRUE]
                /\ first_unwritten' = [first_unwritten EXCEPT ![s] = Len(new_items[s])]
                /\ fd' = [fd EXCEPT ![s] = NoFile]
                /\ pc' = [pc EXCEPT ![s] = "rewrite"]
                /\ UNCHANGED <<files, new_items, orig, tmp, merging, written, on_disk>>
      <3>1. /\ first_unwritten' \in [Shells -> Nat]
            /\ \A r \in Shells : first_unwritten'[r] <= Len(new_items[r])
        BY <1>0, <2>9, <2>11 DEF ItemsType
      <3>2. ItemsType'
        BY <1>0, <2>11, <3>1 DEF ItemsType
      <3>3. pc' \in [Shells -> Labels] /\ fd' \in [Shells -> Inodes \cup {NoFile}]
        BY <1>03, <2>11 DEF Labels
      <3>4. SavingType'
        BY <1>0, <2>11, <3>3 DEF SavingType
      <3>5. {adds', ops', faults'} \subseteq Nat /\ {failed', skipped'} \subseteq [Shells -> BOOLEAN]
        BY <1>0, <2>3, <2>11 DEF Fault
      <3>6. raced' \in BOOLEAN
        BY <1>01, <2>3
      <3>7. TypeOK'
        BY <1>0, <2>7, <2>8, <2>11, <3>2, <3>4, <3>5, <3>6 DEF TypeOK
      <3>8. FiniteInv' /\ FdInv'
        BY <1>0, <1>03, <2>5, <2>6, <2>11 DEF FiniteInv, FdInv
      <3> QED  BY <3>7, <3>8
    <2> QED  BY <2>4, <2>10, <2>11
  \* A rewrite that is given up.
  <1>4. ASSUME AbortSave(s), UNCHANGED disk, ShellType',
               UNCHANGED <<adds, ops, written, on_disk, raced, failed>>
        PROVE  TypeInv'
    <2>1. {failed', skipped'} \subseteq [Shells -> BOOLEAN] /\ {adds', ops', faults'} \subseteq Nat
      BY <1>0, <1>4 DEF AbortSave, Fault
    <2>2. DiskType' /\ \A f \in Inodes : IsFiniteSet(files'[f]) /\ IsFiniteSet(lock'[f])
      BY <1>0, <1>4 DEF DiskType, FiniteInv, disk
    <2>3. first_unwritten[s] \in 0..Len(new_items[s]) /\ EndSave(s, first_unwritten[s])
      BY <1>4, ItemsFacts DEF AbortSave
    <2> QED  BY <1>0, <1>4, <2>1, <2>2, <2>3, EndSaveTypeInv
  <1>5. CASE RewriteOpen(s)
    <2>1. /\ UNCHANGED <<now, files, lock, adds, ops, written, on_disk, raced, failed>>
          /\ UNCHANGED <<deleted, detecting, boundary, old>>
      BY <1>5 DEF RewriteOpen
    <2>2. CASE AbortSave(s) /\ UNCHANGED <<path, made>>
      <3>1. UNCHANGED disk /\ ShellType'
        BY <1>0, <2>1, <2>2 DEF disk, ShellType, old
      <3> QED  BY <1>4, <2>1, <2>2, <3>1
    <2>3. CASE ~ (AbortSave(s) /\ UNCHANGED <<path, made>>)
      <3>1. /\ fd' = [fd EXCEPT ![s] = path'] /\ pc' = [pc EXCEPT ![s] = "read"]
            /\ UNCHANGED <<tmp, merging, new_items, first_unwritten, faults, skipped>>
            /\ path' # NoFile /\ path' \in Inodes /\ made' \in 0..MaxInodes
            /\ \E n \in Nat : orig' = [orig EXCEPT ![s] = <<path', n>>]
        <4>1. CASE /\ path # NoFile
                   /\ fd' = [fd EXCEPT ![s] = path]
                   /\ orig' = [orig EXCEPT ![s] = Id(path)]
                   /\ Goto(s, "read")
                   /\ UNCHANGED <<path, made, tmp, merging, new_items, first_unwritten, faults, skipped>>
          <5>1. path \in Inodes /\ Cardinality(files[path]) \in Nat /\ Id(path) = <<path, Cardinality(files[path])>>
            BY <1>0, <1>03, <4>1, FileIdTypes DEF Id
          <5> QED  BY <1>03, <4>1, <5>1 DEF Goto
        <4>2. CASE /\ path = NoFile /\ made < MaxInodes
                   /\ made' = made + 1 /\ path' = made'
                   /\ fd' = [fd EXCEPT ![s] = path']
                   /\ orig' = [orig EXCEPT ![s] = <<path', 0>>]
                   /\ Goto(s, "read")
                   /\ UNCHANGED <<tmp, merging, new_items, first_unwritten, faults, skipped>>
          <5>1. made + 1 \in Inodes /\ made + 1 \in 0..MaxInodes
            BY <1>00, <1>03, <4>2 DEF Inodes
          <5> QED  BY <1>00, <4>2, <5>1 DEF Goto
        <4> QED  BY <1>5, <2>3, <4>1, <4>2 DEF RewriteOpen
      <3>2. PICK n \in Nat : orig' = [orig EXCEPT ![s] = <<path', n>>]
        BY <3>1
      <3>3. orig' \in [Shells -> (Inodes \cup {NoFile}) \X Nat]
        <4>1. <<path', n>> \in (Inodes \cup {NoFile}) \X Nat
          BY <3>1
        <4> QED  BY <1>03, <3>2, <4>1
      <3>4. pc' \in [Shells -> Labels] /\ fd' \in [Shells -> Inodes \cup {NoFile}]
        BY <1>03, <3>1 DEF Labels
      <3>5. FdInv'
        BY <1>0, <1>03, <3>1 DEF FdInv
      <3> QED  BY <1>02, <1>03, <2>1, <3>1, <3>3, <3>4, <3>5 DEF items, bounds, ghosts
    <2> QED  BY <2>2, <2>3
  <1>6. CASE RewriteRead(s)
    <2> DEFINE kept == {e \in files[fd[s]] : Stays(s, e)}
    <2>1. fd[s] \in Inodes
      BY <1>0, <1>03, <1>6 DEF FdInv, RewriteRead
    <2>2. /\ UNCHANGED <<disk, deleted, detecting, boundary, old>>
          /\ UNCHANGED <<adds, ops, written, on_disk, raced, failed>>
      BY <1>6 DEF RewriteRead
    <2>3. CASE AbortSave(s)
      <3>1. UNCHANGED disk /\ ShellType'
        BY <1>0, <2>2 DEF ShellType, old
      <3> QED  BY <1>4, <2>2, <2>3, <3>1
    <2>4. CASE ~AbortSave(s)
      <3>1. /\ tmp' = [tmp EXCEPT ![s] = Dedup(kept \cup UnsavedEntries(s))]
            /\ pc' = [pc EXCEPT ![s] = "reopen"]
            /\ UNCHANGED <<fd, orig, merging, new_items, first_unwritten, faults, skipped>>
        BY <1>6, <2>4 DEF RewriteRead, Goto
      <3>2. kept \in SUBSET files[fd[s]] /\ IsFiniteSet(files[fd[s]]) /\ files[fd[s]] \in SUBSET Entries
        BY <1>0, <2>1 DEF DiskType, FiniteInv
      <3> HIDE DEF kept
      <3>3. IsFiniteSet(kept)
        BY <3>2, FS_Subset
      <3>4. IsFiniteSet(kept \cup UnsavedEntries(s)) /\ kept \cup UnsavedEntries(s) \in SUBSET Entries
        BY <3>2, <3>3, UnsavedTypes, FS_Union
      <3>5. /\ Dedup(kept \cup UnsavedEntries(s)) \in SUBSET Entries
            /\ IsFiniteSet(Dedup(kept \cup UnsavedEntries(s)))
        BY <3>4, DedupEntries
      <3>6. tmp' \in [Shells -> SUBSET Entries] /\ \A r \in Shells : IsFiniteSet(tmp'[r])
        BY <1>03, <3>1, <3>5
      <3>7. pc' \in [Shells -> Labels]
        BY <1>03, <3>1 DEF Labels
      <3>8. FdInv'
        BY <1>0, <1>03, <3>1 DEF FdInv
      <3> QED  BY <1>02, <1>03, <2>2, <3>1, <3>6, <3>7, <3>8 DEF disk, items, bounds, ghosts
    <2> QED  BY <2>3, <2>4
  <1>7. CASE RewriteReopen(s)
    <2>1. /\ fd' = [fd EXCEPT ![s] = path]
          /\ pc' = [pc EXCEPT ![s] = IF path = NoFile THEN "rename" ELSE "rewrite_lock"]
          /\ UNCHANGED <<disk, orig, tmp>>
          /\ UNCHANGED <<items, detecting, boundary, old, merging, bounds, ghosts>>
      BY <1>7 DEF RewriteReopen, Goto
    <2>2. pc' \in [Shells -> Labels] /\ fd' \in [Shells -> Inodes \cup {NoFile}]
      BY <1>03, <2>1 DEF Labels
    <2>3. FdInv'
      BY <1>0, <1>03, <2>1 DEF FdInv
    <2> QED  BY <1>02, <1>03, <2>1, <2>2, <2>3 DEF disk
  <1>8. CASE RewriteLock(s)
    <2>1. /\ UNCHANGED <<now, path, made, files, items, detecting, boundary, old, fd, orig, tmp,
                         merging, bounds, ghosts>>
          /\ \/ pc' = [pc EXCEPT ![s] = "rename"] /\ lock' = [lock EXCEPT ![fd[s]] = {s}]
             \/ pc' = [pc EXCEPT ![s] = "rewrite"] /\ lock' = lock
      BY <1>8 DEF RewriteLock, Goto
    <2>2. /\ lock' \in [Inodes -> SUBSET Shells]
          /\ \A f \in Inodes : IsFiniteSet(lock'[f]) /\ Cardinality(lock'[f]) <= 1
      BY <1>0, <1>03, <2>1, LockTypes
    <2>3. pc' \in [Shells -> Labels]
      BY <1>03, <2>1 DEF Labels
    <2>4. FdInv'
      BY <1>0, <1>03, <2>1 DEF FdInv
    <2> QED  BY <1>02, <1>03, <2>1, <2>2, <2>3, <2>4
  <1>9. CASE RewriteRename(s)
    <2>1. /\ ClearFileState(s) /\ Unlock(s) /\ EndSave(s, Len(new_items[s]))
          /\ deleted' = [deleted EXCEPT ![s] = NoneDeleted]
          /\ UNCHANGED <<now, detecting, boundary, file_id, adds, ops, raced, skipped>>
      BY <1>9 DEF RewriteRename
    <2>2. \/ /\ made < MaxInodes
             /\ made' = made + 1 /\ path' = made'
             /\ files' = [Unlinked(s) EXCEPT ![made'] = tmp[s]]
             /\ written' = {t \in written : deleted[s][t] = "no"} \cup TextsOf(UnsavedEntries(s))
             /\ on_disk' = on_disk \cup Serials(UnsavedEntries(s))
             /\ UNCHANGED <<failed, faults>>
          \/ /\ Fault
             /\ failed' = [failed EXCEPT ![s] = TRUE]
             /\ UNCHANGED <<made, path, files, written, on_disk>>
      BY <1>9 DEF RewriteRename
    <2>3. /\ lock' \in [Inodes -> SUBSET Shells]
          /\ \A g \in Inodes : IsFiniteSet(lock'[g]) /\ Cardinality(lock'[g]) <= 1
      BY <1>0, <2>1, UnlockTypes
    <2>4. made < MaxInodes => made + 1 \in Inodes /\ made + 1 \in 0..MaxInodes
      BY <1>00, <1>03 DEF Inodes
    <2>5. path' \in Inodes \cup {NoFile} /\ made' \in 0..MaxInodes
      BY <1>03, <2>2, <2>4
    <2>6. files' \in [Inodes -> SUBSET Entries] /\ \A g \in Inodes : IsFiniteSet(files'[g])
      <3>1. CASE files' = files
        BY <1>0, <3>1 DEF DiskType, FiniteInv
      <3>2. CASE files' = [Unlinked(s) EXCEPT ![made'] = tmp[s]]
        <4>1. /\ Unlinked(s) \in [Inodes -> SUBSET Entries]
              /\ \A g \in Inodes : IsFiniteSet(Unlinked(s)[g])
          BY <1>0, UnlinkedTypes
        <4>2. tmp[s] \in SUBSET Entries /\ IsFiniteSet(tmp[s])
          BY <1>03
        <4> QED  BY <3>2, <4>1, <4>2
      <3> QED  BY <2>2, <3>1, <3>2
    <2>7. DiskType'
      BY <1>0, <2>1, <2>3, <2>5, <2>6 DEF DiskType
    <2>8. ShellType'
      <3>1. NoneDeleted \in [Texts -> {"no", "session", "all"}]
        BY DEF NoneDeleted
      <3>2. loaded_old' \in [Shells -> BOOLEAN] /\ old_items' \in [Shells -> SUBSET Entries]
        BY <1>0, <2>1 DEF ShellType, ClearFileState
      <3>3. deleted' \in [Shells -> [Texts -> {"no", "session", "all"}]]
        BY <1>0, <2>1, <3>1 DEF ShellType
      <3> QED  BY <1>0, <2>1, <3>2, <3>3 DEF ShellType
    <2>9. TextsOf(UnsavedEntries(s)) \subseteq Texts /\ Serials(UnsavedEntries(s)) \subseteq Nat
      BY UnsavedTypes DEF TextsOf, Serials, Entries
    <2>10. /\ written' \subseteq Texts /\ on_disk' \subseteq Nat /\ {adds', ops', faults'} \subseteq Nat
           /\ {failed', skipped'} \subseteq [Shells -> BOOLEAN]
      <3>1. {adds', ops', faults'} \subseteq Nat
        BY <1>0, <2>1, <2>2 DEF Fault
      <3>2. {failed', skipped'} \subseteq [Shells -> BOOLEAN]
        BY <1>0, <2>1, <2>2
      <3>3. written' \subseteq Texts /\ on_disk' \subseteq Nat
        BY <1>0, <2>2, <2>9
      <3> QED  BY <3>1, <3>2, <3>3
    <2>11. Len(new_items[s]) \in 0..Len(new_items[s])
      <3>1. Len(new_items[s]) \in Nat
        BY ItemsFacts
      <3> QED  BY <3>1
    <2> QED  BY <2>1, <2>3, <2>6, <2>7, <2>8, <2>10, <2>11, EndSaveTypeInv
  <1> QED  BY <1>1, <1>2, <1>3, <1>5, <1>6, <1>7, <1>8, <1>9 DEF SaveStep

LEMMA TypeInvNext == TypeInv /\ [Next]_vars => TypeInv'
  <1> SUFFICES ASSUME TypeInv, [Next]_vars  PROVE  TypeInv'
    OBVIOUS
  <1> USE DEF TypeInv
  <1>0. /\ DiskType /\ ItemsType /\ ShellType /\ SavingType /\ FiniteInv /\ FdInv
        /\ adds \in Nat /\ ops \in Nat /\ faults \in Nat
        /\ written \subseteq Texts /\ on_disk \subseteq Nat
        /\ failed \in [Shells -> BOOLEAN] /\ skipped \in [Shells -> BOOLEAN]
    BY DEF TypeOK
  <1>00. raced \in BOOLEAN
    BY DEF TypeOK
  <1>1. CASE UNCHANGED vars
    <2>1. DiskType' /\ ItemsType' /\ ShellType' /\ SavingType'
      BY <1>0, <1>1 DEF DiskType, ItemsType, ShellType, SavingType, vars, disk, items, old, saving
    <2>2. /\ {adds', ops', faults'} \subseteq Nat /\ written' \subseteq Texts /\ on_disk' \subseteq Nat
          /\ {failed', skipped'} \subseteq [Shells -> BOOLEAN]
      BY <1>0, <1>1 DEF vars, bounds, ghosts
    <2>3. raced' \in BOOLEAN
      BY <1>00, <1>1 DEF vars, ghosts
    <2>4. FiniteInv' /\ FdInv'
      BY <1>0, <1>1 DEF vars, disk, saving, FiniteInv, FdInv
    <2> QED  BY <2>1, <2>2, <2>3, <2>4 DEF TypeOK
  <1>2. CASE Tick
    <2>1. now' \in 1..MaxTime
      BY <1>0, <1>2, HistoryAssumption DEF Tick, DiskType
    <2>2. DiskType' /\ ItemsType' /\ ShellType' /\ SavingType'
      BY <1>0, <1>2, <2>1 DEF Tick, DiskType, ItemsType, ShellType, SavingType, items, old, saving
    <2>3. /\ {adds', ops', faults'} \subseteq Nat /\ written' \subseteq Texts /\ on_disk' \subseteq Nat
          /\ {failed', skipped'} \subseteq [Shells -> BOOLEAN]
      BY <1>0, <1>2 DEF Tick, bounds, ghosts
    <2>4. raced' \in BOOLEAN
      BY <1>00, <1>2 DEF Tick, ghosts
    <2>5. FiniteInv' /\ FdInv'
      BY <1>0, <1>2 DEF Tick, saving, FiniteInv, FdInv
    <2> QED  BY <2>2, <2>3, <2>4, <2>5 DEF TypeOK
  <1>3. ASSUME NEW s \in Shells, Clear(s)  PROVE  TypeInv'
    <2>1. <<>> \in Seq(Items) /\ Len(<<>>) = 0
      BY EmptySeq
    <2>2. ItemsType'
      BY <1>0, <1>3, <2>1 DEF ItemsType, Clear
    <2>3. files' \in [Inodes -> SUBSET Entries] /\ \A f \in Inodes : IsFiniteSet(files'[f])
      <3>1. /\ Unlinked(s) \in [Inodes -> SUBSET Entries]
            /\ \A f \in Inodes : IsFiniteSet(Unlinked(s)[f])
        BY <1>0, UnlinkedTypes
      <3>2. files' = Unlinked(s)
        BY <1>3 DEF Clear
      <3> QED  BY <3>1, <3>2
    <2>4. DiskType'
      BY <1>0, <1>3, <2>3 DEF DiskType, Clear
    <2>5. ShellType'
      <3>1. NoneDeleted \in [Texts -> {"no", "session", "all"}]
        BY DEF NoneDeleted
      <3>2. /\ deleted' = [deleted EXCEPT ![s] = NoneDeleted]
            /\ loaded_old' = [loaded_old EXCEPT ![s] = FALSE]
            /\ old_items' = [old_items EXCEPT ![s] = {}]
            /\ UNCHANGED <<detecting, boundary, file_id>>
        BY <1>3 DEF Clear
      <3>3. deleted' \in [Shells -> [Texts -> {"no", "session", "all"}]]
        BY <1>0, <3>1, <3>2 DEF ShellType
      <3> QED  BY <1>0, <3>2, <3>3 DEF ShellType
    <2>6. SavingType'
      BY <1>0, <1>3 DEF SavingType, Clear, saving
    <2>7. /\ {adds', ops', faults'} \subseteq Nat /\ written' \subseteq Texts /\ on_disk' \subseteq Nat
          /\ {failed', skipped'} \subseteq [Shells -> BOOLEAN]
      BY <1>0, <1>3 DEF Clear, UserOp
    <2>8. raced' \in BOOLEAN
      BY <1>00, <1>3 DEF Clear
    <2>9. FiniteInv' /\ FdInv'
      BY <1>0, <1>3, <2>3 DEF Clear, saving, FiniteInv, FdInv
    <2> QED  BY <2>2, <2>4, <2>5, <2>6, <2>7, <2>8, <2>9 DEF TypeOK
  <1>4. ASSUME NEW s \in Shells, LoadOld(s)  PROVE  TypeInv'
    <2>1. UNCHANGED <<disk, items, detecting, boundary, saving, bounds, ghosts>> /\ UNCHANGED deleted
      BY <1>4 DEF LoadOld, items
    <2>2. DiskType' /\ ItemsType' /\ SavingType'
      BY <1>0, <2>1 DEF DiskType, ItemsType, SavingType, disk, items, saving
    <2>3. ShellType'
      <3>1. loaded_old' \in [Shells -> BOOLEAN]
        BY <1>0, <1>4 DEF LoadOld, ShellType
      <3>2. CASE path = NoFile
        BY <1>0, <1>4, <2>1, <3>1, <3>2 DEF LoadOld, ShellType
      <3>3. CASE path # NoFile
        <4>1. path \in Inodes /\ Id(path) \in (Inodes \cup {NoFile}) \X Nat
          BY <1>0, <3>3, FileIdTypes DEF DiskType
        <4>2. InvalidId \in (Inodes \cup {NoFile}) \X Nat
          BY DEF InvalidId
        <4>3. /\ old_items' = [old_items EXCEPT ![s] = {e \in files[path] : 2 * e.sec <= boundary[s]}]
              /\ file_id' = [file_id EXCEPT ![s] = IF files[path] = {} THEN InvalidId ELSE Id(path)]
          BY <1>4, <3>3 DEF LoadOld
        <4>4. old_items' \in [Shells -> SUBSET Entries]
          BY <1>0, <4>1, <4>3 DEF ShellType, DiskType
        <4>5. file_id' \in [Shells -> (Inodes \cup {NoFile}) \X Nat]
          BY <1>0, <4>1, <4>2, <4>3 DEF ShellType
        <4> QED  BY <1>0, <2>1, <3>1, <4>4, <4>5 DEF ShellType
      <3> QED  BY <3>2, <3>3
    <2>4. /\ {adds', ops', faults'} \subseteq Nat /\ written' \subseteq Texts /\ on_disk' \subseteq Nat
          /\ {failed', skipped'} \subseteq [Shells -> BOOLEAN]
      BY <1>0, <2>1 DEF bounds, ghosts
    <2>5. raced' \in BOOLEAN
      BY <1>00, <2>1 DEF ghosts
    <2>6. FiniteInv' /\ FdInv'
      BY <1>0, <2>1 DEF disk, saving, FiniteInv, FdInv
    <2> QED  BY <2>2, <2>3, <2>4, <2>5, <2>6 DEF TypeOK
  <1>5. ASSUME NEW s \in Shells, Crash(s)  PROVE  TypeInv'
    <2>1. <<>> \in Seq(Items) /\ Len(<<>>) = 0
      BY EmptySeq
    <2>2. ItemsType'
      BY <1>0, <1>5, <2>1 DEF ItemsType, Crash
    <2>3. UNCHANGED <<now, path, made, files, adds, ops, written, on_disk, raced>> /\ Unlock(s)
      BY <1>5 DEF Crash
    <2>4. /\ lock' \in [Inodes -> SUBSET Shells]
          /\ \A f \in Inodes : IsFiniteSet(lock'[f]) /\ Cardinality(lock'[f]) <= 1
      BY <1>0, <2>3, UnlockTypes
    <2>5. DiskType'
      BY <1>0, <2>3, <2>4 DEF DiskType
    <2>6. InvalidId \in (Inodes \cup {NoFile}) \X Nat
      BY DEF InvalidId
    <2>7. ShellType'
      <3>1. NoneDeleted \in [Texts -> {"no", "session", "all"}] /\ [m \in Modes |-> 0] \in [Modes -> Nat]
        BY DEF NoneDeleted
      <3>2. now \in 0..MaxTime
        BY <1>0, HistoryAssumption DEF DiskType
      <3>3. /\ detecting' = [detecting EXCEPT ![s] = [m \in Modes |-> 0]]
            /\ deleted' = [deleted EXCEPT ![s] = NoneDeleted]
            /\ boundary' = [boundary EXCEPT ![s] = now]
            /\ file_id' = [file_id EXCEPT ![s] = InvalidId]
            /\ loaded_old' = [loaded_old EXCEPT ![s] = FALSE]
            /\ old_items' = [old_items EXCEPT ![s] = {}]
        BY <1>5 DEF Crash, ClearFileState
      <3>4. detecting' \in [Shells -> [Modes -> Nat]] /\ boundary' \in [Shells -> 0..MaxTime]
        BY <1>0, <3>1, <3>2, <3>3 DEF ShellType
      <3>5. /\ deleted' \in [Shells -> [Texts -> {"no", "session", "all"}]]
            /\ file_id' \in [Shells -> (Inodes \cup {NoFile}) \X Nat]
        BY <1>0, <2>6, <3>1, <3>3 DEF ShellType
      <3>6. loaded_old' \in [Shells -> BOOLEAN] /\ old_items' \in [Shells -> SUBSET Entries]
        BY <1>0, <3>3 DEF ShellType
      <3> QED  BY <3>4, <3>5, <3>6 DEF ShellType
    <2>8. /\ pc' = [pc EXCEPT ![s] = "idle"] /\ fd' = [fd EXCEPT ![s] = NoFile]
          /\ orig' = [orig EXCEPT ![s] = InvalidId] /\ tmp' = [tmp EXCEPT ![s] = {}]
          /\ merging' = [merging EXCEPT ![s] = FALSE]
      BY <1>5 DEF Crash, Goto
    <2>9. SavingType'
      <3>1. pc' \in [Shells -> Labels] /\ fd' \in [Shells -> Inodes \cup {NoFile}]
        BY <1>0, <2>8 DEF SavingType, Labels
      <3>2. orig' \in [Shells -> (Inodes \cup {NoFile}) \X Nat]
        BY <1>0, <2>6, <2>8 DEF SavingType
      <3>3. tmp' \in [Shells -> SUBSET Entries] /\ merging' \in [Shells -> BOOLEAN]
        BY <1>0, <2>8 DEF SavingType
      <3> QED  BY <3>1, <3>2, <3>3 DEF SavingType
    <2>10. {adds', ops', faults'} \subseteq Nat /\ written' \subseteq Texts /\ on_disk' \subseteq Nat
      BY <1>0, <1>5, <2>3 DEF Crash, Fault
    <2>11. {failed', skipped'} \subseteq [Shells -> BOOLEAN]
      BY <1>0, <1>5 DEF Crash
    <2>12. raced' \in BOOLEAN
      BY <1>00, <2>3
    <2>13. FiniteInv'
      BY <1>0, <2>3, <2>4, <2>8, FS_EmptySet DEF FiniteInv, SavingType
    <2>14. FdInv'
      BY <1>0, <2>8 DEF FdInv, SavingType
    <2> QED  BY <2>2, <2>5, <2>7, <2>9, <2>10, <2>11, <2>12, <2>13, <2>14 DEF TypeOK
  <1>6. ASSUME NEW s \in Shells,
               \/ \E t \in Texts, m \in Modes, how \in {"detect", "plain", "sync"} :
                    AddCommand(s, t, m, how)
               \/ \E m \in Modes : DetectionEnds(s, m)
               \/ \E t \in Texts : Delete(s, t)
               \/ SaveNow(s) \/ ClearSession(s) \/ Incorporate(s)
        PROVE  TypeInv'
    <2> HIDE DEF TypeInv
    <2> QED  BY <1>6, OpsKeepTypes
  <1>7. ASSUME NEW s \in Shells, SaveStep(s)  PROVE  TypeInv'
    <2> HIDE DEF TypeInv
    <2> QED  BY <1>7, SaveStepsKeepTypes
  <1> QED  BY <1>1, <1>2, <1>3, <1>4, <1>5, <1>6, <1>7 DEF Next

(* The state is of its types: among them, the index of the first unwritten    *)
(* item is in the list or at its end, and a file has one lock at most.        *)
THEOREM TypeCorrect == Spec => []TypeOK
  <1>1. Init => TypeInv
    BY TypeInvInit
  <1>2. TypeInv /\ [Next]_vars => TypeInv'
    BY TypeInvNext
  <1>3. TypeInv => TypeOK
    BY DEF TypeInv
  <1> QED  BY <1>1, <1>2, <1>3, PTL DEF Spec

-----------------------------------------------------------------------------
(* The index of the first unwritten item.  A step moves the items of one     *)
(* shell only: they descend from what they were, or from that and a new one, *)
(* or all of them count as saved.                                            *)
ItemsMove(s) ==
  /\ \A r \in Shells \ {s} : /\ new_items'[r] = new_items[r]
                             /\ first_unwritten'[r] = first_unwritten[r]
                             /\ failed'[r] = failed[r]
  /\ \/ /\ Descends(new_items'[s], first_unwritten'[s], new_items[s], first_unwritten[s])
        /\ on_disk' = on_disk /\ adds' = adds
        /\ failed'[s] = failed[s] \/ new_items'[s] = <<>>
     \/ (\E item : Adds(s, item)) /\ on_disk' = on_disk /\ failed'[s] = failed[s]
     \/ /\ new_items'[s] \in {new_items[s], <<>>} /\ first_unwritten'[s] = Len(new_items'[s])
        /\ adds' = adds
        /\ \/ failed'[s] /\ on_disk' = on_disk
           \/ failed'[s] = failed[s] /\ on_disk' = on_disk \cup Serials(UnsavedEntries(s))

LEMMA ItemsMoves ==
  ASSUME TypeInv, Next
  PROVE  \/ UNCHANGED <<new_items, first_unwritten, on_disk, adds, failed>>
         \/ \E s \in Shells : ItemsMove(s)
  <1> DEFINE Still == UNCHANGED <<new_items, first_unwritten, on_disk, adds, failed>>
  <1>0. TypeOK /\ failed \in [Shells -> BOOLEAN]
    BY DEF TypeInv, TypeOK
  <1>1. Tick => Still
    BY DEF Tick, items, bounds, ghosts
  <1>2. ASSUME NEW s \in Shells, UNCHANGED <<on_disk, failed>>,
               \/ (\E its, n : Updated(s, its, n)) /\ \E item : Adds(s, item)
               \/ Updated(s, new_items[s], first_unwritten[s]) /\ adds' = adds
        PROVE  ItemsMove(s)
    BY <1>2 DEF ItemsMove, Updated
  <1>3. ASSUME NEW s \in Shells, NEW t \in Texts, NEW m \in Modes,
               NEW how \in {"detect", "plain", "sync"}, AddCommand(s, t, m, how)
        PROVE  ItemsMove(s)
    <2>1. UNCHANGED <<on_disk, failed>>
      BY <1>3 DEF AddCommand
    <2>2. (\E its, n : Updated(s, its, n)) /\ \E item : Adds(s, item)
      BY <1>0, <1>3, AddCommandItems
    <2> QED  BY <1>2, <2>1, <2>2
  <1>4. ASSUME NEW s \in Shells, NEW m \in Modes, DetectionEnds(s, m)  PROVE  ItemsMove(s)
    <2>1. UNCHANGED <<on_disk, failed>> /\ adds' = adds
      BY <1>4 DEF DetectionEnds, bounds
    <2>2. Updated(s, new_items[s], first_unwritten[s])
      BY <1>0, <1>4, DetectionEndsItems
    <2> QED  BY <1>2, <2>1, <2>2
  <1>5. ASSUME NEW s \in Shells,
               SaveNow(s) \/ (\E t \in Texts : Delete(s, t)) \/ ClearSession(s) \/ Incorporate(s)
        PROVE  ItemsMove(s)
    <2>1. UNCHANGED <<on_disk, failed>> /\ adds' = adds
      BY <1>5 DEF SaveNow, Delete, ClearSession, Incorporate
    <2>2. Updated(s, new_items[s], first_unwritten[s])
      BY <1>0, <1>5, OpsSave, OpSaveItems
    <2> QED  BY <1>2, <2>1, <2>2
  <1>6. ASSUME NEW s \in Shells,
               /\ new_items' = [new_items EXCEPT ![s] = <<>>]
               /\ first_unwritten' = [first_unwritten EXCEPT ![s] = 0]
               /\ failed' = failed \/ failed' = [failed EXCEPT ![s] = FALSE]
               /\ UNCHANGED <<on_disk, adds>>
        PROVE  ItemsMove(s)
    <2>1. new_items'[s] = <<>> /\ first_unwritten'[s] = 0
      BY <1>0, <1>6 DEF TypeOK, ItemsType
    <2>2. Descends(new_items'[s], first_unwritten'[s], new_items[s], first_unwritten[s])
      BY <2>1, DescendsEmpty
    <2>3. \A r \in Shells \ {s} : /\ new_items'[r] = new_items[r]
                                  /\ first_unwritten'[r] = first_unwritten[r]
                                  /\ failed'[r] = failed[r]
      BY <1>0, <1>6 DEF TypeOK, ItemsType
    <2> QED  BY <1>6, <2>1, <2>2, <2>3 DEF ItemsMove
  <1>7. ASSUME NEW s \in Shells, Clear(s) \/ Crash(s)  PROVE  ItemsMove(s)
    <2>1. CASE Clear(s)
      BY <1>6, <2>1 DEF Clear
    <2>2. CASE Crash(s)
      BY <1>6, <2>2 DEF Crash
    <2> QED  BY <1>7, <2>1, <2>2
  <1>8. ASSUME NEW s \in Shells, LoadOld(s)  PROVE  Still
    BY <1>8 DEF LoadOld, items, bounds, ghosts
  <1>9. ASSUME NEW s \in Shells, AppendOpen(s) \/ AppendLock(s) \/ RewriteReopen(s) \/ RewriteLock(s)
        PROVE  Still
    BY <1>9 DEF AppendOpen, AppendLock, RewriteReopen, RewriteLock, items, bounds, ghosts
  <1>10. ASSUME NEW s \in Shells, EndSave(s, Len(new_items[s])), adds' = adds,
                \/ UNCHANGED failed /\ on_disk' = on_disk \cup Serials(UnsavedEntries(s))
                \/ failed' = [failed EXCEPT ![s] = TRUE] /\ on_disk' = on_disk
         PROVE  ItemsMove(s)
    <2>1. Len(new_items[s]) \in 0..Len(new_items[s])
      <3>1. Len(new_items[s]) \in Nat
        BY <1>0, ItemsFacts
      <3> QED  BY <3>1
    <2>2. /\ \/ new_items'[s] = <<>> /\ first_unwritten'[s] = 0
             \/ new_items'[s] = new_items[s] /\ first_unwritten'[s] = Len(new_items[s])
          /\ \A r \in Shells \ {s} :
               new_items'[r] = new_items[r] /\ first_unwritten'[r] = first_unwritten[r]
      BY <1>0, <1>10, <2>1, EndSaveItems
    <2>3. /\ \A r \in Shells \ {s} : failed'[r] = failed[r]
          /\ \/ failed'[s] /\ on_disk' = on_disk
             \/ failed'[s] = failed[s] /\ on_disk' = on_disk \cup Serials(UnsavedEntries(s))
      BY <1>0, <1>10
    <2>4. Len(<<>>) = 0
      BY EmptySeq
    <2>5. new_items'[s] \in {new_items[s], <<>>} /\ first_unwritten'[s] = Len(new_items'[s])
      BY <2>2, <2>4
    <2> QED  BY <1>10, <2>2, <2>3, <2>5 DEF ItemsMove
  <1>11. ASSUME NEW s \in Shells, AppendWrite(s)  PROVE  ItemsMove(s)
    <2>1. adds' = adds
      BY <1>11 DEF AppendWrite
    <2>2. CASE /\ EndSave(s, Len(new_items[s])) /\ UNCHANGED failed
               /\ on_disk' = on_disk \cup Serials(UnsavedEntries(s))
      BY <1>10, <2>1, <2>2
    <2>3. CASE /\ first_unwritten' = [first_unwritten EXCEPT ![s] = Len(new_items[s])]
               /\ failed' = [failed EXCEPT ![s] = TRUE] /\ UNCHANGED <<new_items, on_disk>>
      BY <1>0, <2>1, <2>3 DEF ItemsMove, TypeOK, ItemsType
    <2> QED  BY <1>11, <2>2, <2>3 DEF AppendWrite
  <1>12. ASSUME NEW s \in Shells, RewriteRename(s)  PROVE  ItemsMove(s)
    <2>1. adds' = adds /\ EndSave(s, Len(new_items[s]))
      BY <1>12 DEF RewriteRename
    <2>2. \/ UNCHANGED failed /\ on_disk' = on_disk \cup Serials(UnsavedEntries(s))
          \/ failed' = [failed EXCEPT ![s] = TRUE] /\ on_disk' = on_disk
      BY <1>12 DEF RewriteRename
    <2> QED  BY <1>10, <2>1, <2>2
  <1>13. ASSUME NEW s \in Shells, AbortSave(s), UNCHANGED <<adds, on_disk, failed>>
         PROVE  ItemsMove(s)
    <2>1. first_unwritten[s] \in 0..Len(new_items[s]) /\ EndSave(s, first_unwritten[s])
      BY <1>0, <1>13, ItemsFacts DEF AbortSave
    <2>2. /\ \/ new_items'[s] = <<>> /\ first_unwritten'[s] = 0
             \/ new_items'[s] = new_items[s] /\ first_unwritten'[s] = first_unwritten[s]
          /\ \A r \in Shells \ {s} :
               new_items'[r] = new_items[r] /\ first_unwritten'[r] = first_unwritten[r]
      BY <1>0, <2>1, EndSaveItems
    <2>3. Descends(new_items[s], first_unwritten[s], new_items[s], first_unwritten[s])
      BY <1>0, ItemsFacts, DescendsSame
    <2>4. Descends(new_items'[s], first_unwritten'[s], new_items[s], first_unwritten[s])
      BY <2>2, <2>3, DescendsEmpty
    <2> QED  BY <1>13, <2>2, <2>4 DEF ItemsMove
  <1>14. ASSUME NEW s \in Shells, RewriteOpen(s) \/ RewriteRead(s)
         PROVE  Still \/ ItemsMove(s)
    <2>1. UNCHANGED <<adds, on_disk, failed>>
      BY <1>14 DEF RewriteOpen, RewriteRead
    <2>2. AbortSave(s) \/ UNCHANGED <<new_items, first_unwritten>>
      BY <1>14 DEF RewriteOpen, RewriteRead
    <2> QED  BY <1>13, <2>1, <2>2
  <1> HIDE DEF Still
  <1>15. ASSUME NEW s \in Shells, SaveStep(s)  PROVE  Still \/ ItemsMove(s)
    BY <1>9, <1>11, <1>12, <1>14, <1>15 DEF SaveStep
  <1>16. Still \/ \E s \in Shells : ItemsMove(s)
    BY <1>1, <1>3, <1>4, <1>5, <1>7, <1>8, <1>15 DEF Next
  <1> QED  BY <1>16 DEF Still

(* A serial is of one item of one shell.                                     *)
SerialsInv ==
  /\ on_disk \subseteq 1..adds
  /\ \A s \in Shells : \A i \in DOMAIN new_items[s] : new_items[s][i].serial \in 1..adds
  /\ \A s, r \in Shells : \A i \in DOMAIN new_items[s], j \in DOMAIN new_items[r] :
       new_items[s][i].serial = new_items[r][j].serial => s = r /\ i = j

(* What the two invariants say of a list that is to be the items of s. *)
GoodItems(s, its, n, last, saved) ==
  \A i \in 1..Len(its) :
    /\ its[i].serial \in 1..last
    /\ \A j \in 1..Len(its) : its[i].serial = its[j].serial => i = j
    /\ \A r \in Shells \ {s} : \A j \in DOMAIN new_items[r] : new_items[r][j].serial # its[i].serial
    /\ saved /\ its[i].mode = "Disk" => (i <= n <=> its[i].serial \in on_disk)

LEMMA DescendsGood ==
  ASSUME NEW s, NEW its, NEW n, NEW its2, NEW n2, NEW last, NEW saved \in BOOLEAN,
         GoodItems(s, its, n, last, saved), Descends(its2, n2, its, n)
  PROVE  GoodItems(s, its2, n2, last, saved)
  <1>1. PICK f \in [1..Len(its2) -> 1..Len(its)] :
          /\ \A i, j \in 1..Len(its2) : f[i] = f[j] => i = j
          /\ \A i \in 1..Len(its2) :
               /\ its2[i].serial = its[f[i]].serial /\ its2[i].mode = its[f[i]].mode
               /\ its2[i].when >= its[f[i]].when
               /\ i <= n2 <=> f[i] <= n
    BY DEF Descends
  <1>2. ASSUME NEW i \in 1..Len(its2)
        PROVE  /\ its2[i].serial \in 1..last
               /\ \A j \in 1..Len(its2) : its2[i].serial = its2[j].serial => i = j
               /\ \A r \in Shells \ {s} : \A j \in DOMAIN new_items[r] :
                    new_items[r][j].serial # its2[i].serial
               /\ saved /\ its2[i].mode = "Disk" => (i <= n2 <=> its2[i].serial \in on_disk)
    <2>1. f[i] \in 1..Len(its) /\ its2[i].serial = its[f[i]].serial /\ its2[i].mode = its[f[i]].mode
      BY <1>1
    <2>2. /\ its[f[i]].serial \in 1..last
          /\ \A j \in 1..Len(its) : its[f[i]].serial = its[j].serial => f[i] = j
          /\ \A r \in Shells \ {s} : \A j \in DOMAIN new_items[r] :
               new_items[r][j].serial # its[f[i]].serial
          /\ saved /\ its[f[i]].mode = "Disk" => (f[i] <= n <=> its[f[i]].serial \in on_disk)
      BY <2>1 DEF GoodItems
    <2>3. ASSUME NEW j \in 1..Len(its2), its2[i].serial = its2[j].serial  PROVE  i = j
      <3>1. f[j] \in 1..Len(its) /\ its2[j].serial = its[f[j]].serial
        BY <1>1
      <3>2. f[i] = f[j]
        BY <2>1, <2>2, <2>3, <3>1
      <3> QED  BY <1>1, <3>2
    <2>4. saved /\ its2[i].mode = "Disk" => (i <= n2 <=> its2[i].serial \in on_disk)
      BY <1>1, <2>1, <2>2
    <2> QED  BY <2>1, <2>2, <2>3, <2>4
  <1> QED  BY <1>2 DEF GoodItems

IndexInv == TypeInv /\ SerialsInv /\ IndexExact

LEMMA ItemsGood ==
  ASSUME IndexInv, NEW s \in Shells
  PROVE  GoodItems(s, new_items[s], first_unwritten[s], adds, ~failed[s])
  <1>1. DOMAIN new_items[s] = 1..Len(new_items[s])
    BY ItemsFacts DEF IndexInv, TypeInv
  <1>2. ASSUME NEW i \in 1..Len(new_items[s])
        PROVE  /\ new_items[s][i].serial \in 1..adds
               /\ \A j \in 1..Len(new_items[s]) :
                    new_items[s][i].serial = new_items[s][j].serial => i = j
               /\ \A r \in Shells \ {s} : \A j \in DOMAIN new_items[r] :
                    new_items[r][j].serial # new_items[s][i].serial
    BY <1>1 DEF IndexInv, SerialsInv
  <1>3. ASSUME NEW i \in 1..Len(new_items[s]), ~failed[s], new_items[s][i].mode = "Disk"
        PROVE  i <= first_unwritten[s] <=> new_items[s][i].serial \in on_disk
    BY <1>1, <1>3 DEF IndexInv, IndexExact
  <1> QED  BY <1>2, <1>3 DEF GoodItems

(* A good list stays good when an item with the next serial is added.        *)
LEMMA AppendGood ==
  ASSUME IndexInv, NEW s \in Shells, NEW item \in Items, item.serial = adds + 1
  PROVE  GoodItems(s, Append(new_items[s], item), first_unwritten[s], adds + 1, ~failed[s])
  <1> DEFINE its == Append(new_items[s], item)
             last == Len(new_items[s]) + 1
  <1>0. TypeOK /\ adds \in Nat
    BY DEF IndexInv, TypeInv, TypeOK
  <1>1. /\ new_items[s] \in Seq(Items) /\ Len(new_items[s]) \in Nat
        /\ first_unwritten[s] \in 0..Len(new_items[s])
    BY <1>0, ItemsFacts
  <1>2. /\ Len(its) = last /\ its[last] = item
        /\ \A i \in 1..Len(new_items[s]) : its[i] = new_items[s][i]
    BY <1>1, AppendProperties
  <1>3. GoodItems(s, new_items[s], first_unwritten[s], adds, ~failed[s])
    BY ItemsGood
  <1>4. /\ \A r \in Shells : \A j \in DOMAIN new_items[r] : new_items[r][j].serial \in 1..adds
        /\ on_disk \subseteq 1..adds
    BY DEF IndexInv, SerialsInv
  <1>5. adds + 1 \notin 1..adds /\ adds + 1 \in 1..(adds + 1) /\ 1..adds \subseteq 1..(adds + 1)
    BY <1>0
  <1> HIDE DEF its
  <1>6. \A i \in 1..Len(its) : i = last \/ i \in 1..Len(new_items[s])
    BY <1>1, <1>2
  <1>7. \A i \in 1..Len(new_items[s]) : its[i].serial \in 1..adds
    BY <1>2, <1>3 DEF GoodItems
  <1>8. ASSUME NEW i \in 1..Len(its)
        PROVE  /\ its[i].serial \in 1..(adds + 1)
               /\ \A j \in 1..Len(its) : its[i].serial = its[j].serial => i = j
               /\ \A r \in Shells \ {s} : \A j \in DOMAIN new_items[r] :
                    new_items[r][j].serial # its[i].serial
               /\ ~failed[s] /\ its[i].mode = "Disk" => (i <= first_unwritten[s] <=> its[i].serial \in on_disk)
    <2>1. CASE i = last
      <3>1. its[i].serial = adds + 1 /\ ~ (i <= first_unwritten[s])
        BY <1>1, <1>2, <2>1
      <3>2. \A j \in 1..Len(its) : its[i].serial = its[j].serial => i = j
        BY <1>5, <1>6, <1>7, <2>1, <3>1
      <3> QED  BY <1>4, <1>5, <3>1, <3>2
    <2>2. CASE i \in 1..Len(new_items[s])
      <3>1. its[i] = new_items[s][i] /\ its[i].serial \in 1..adds
        BY <1>2, <1>7, <2>2
      <3>2. ASSUME NEW j \in 1..Len(its), its[i].serial = its[j].serial  PROVE  i = j
        <4>1. j # last
          BY <1>2, <1>5, <3>1, <3>2
        <4>2. j \in 1..Len(new_items[s]) /\ its[j] = new_items[s][j]
          BY <1>2, <1>6, <4>1
        <4> QED  BY <1>3, <2>2, <3>1, <3>2, <4>2 DEF GoodItems
      <3> QED  BY <1>3, <1>5, <2>2, <3>1, <3>2 DEF GoodItems
    <2> QED  BY <1>6, <2>1, <2>2
  <1>9. GoodItems(s, its, first_unwritten[s], adds + 1, ~failed[s])
    BY <1>8 DEF GoodItems
  <1> QED  BY <1>9 DEF its

(* The step.  Where nothing reaches the file the lists are good as they are; *)
(* where the items of s do, those of the others have other serials.          *)
LEMMA IndexStep ==
  ASSUME IndexInv, TypeInv', NEW s \in Shells, ItemsMove(s)
  PROVE  SerialsInv' /\ IndexExact'
  <1>0. TypeOK /\ TypeOK' /\ adds \in Nat /\ SerialsInv /\ IndexExact
    BY DEF IndexInv, TypeInv, TypeOK
  <1>1. \A r \in Shells : /\ DOMAIN new_items[r] = 1..Len(new_items[r])
                          /\ Len(new_items[r]) \in Nat
    BY <1>0, ItemsFacts
  <1>2. \A r \in Shells : DOMAIN new_items'[r] = 1..Len(new_items'[r])
    <2>1. ASSUME NEW r \in Shells  PROVE  DOMAIN new_items'[r] = 1..Len(new_items'[r])
      <3>1. new_items'[r] \in Seq(Items)
        BY <1>0 DEF TypeOK, ItemsType
      <3> QED  BY <3>1, LenProperties
    <2> QED  BY <2>1
  <1>3. \A r \in Shells \ {s} : /\ new_items'[r] = new_items[r]
                                /\ first_unwritten'[r] = first_unwritten[r]
                                /\ failed'[r] = failed[r]
    BY DEF ItemsMove
  <1>4. GoodItems(s, new_items[s], first_unwritten[s], adds, ~failed[s])
    BY ItemsGood
  \* A good list with the file as it was.
  <1>5. ASSUME on_disk' = on_disk, adds' \in {adds, adds + 1},
               NEW saved \in BOOLEAN, ~failed'[s] => saved,
               GoodItems(s, new_items'[s], first_unwritten'[s], adds', saved)
        PROVE  SerialsInv' /\ IndexExact'
    <2>1. 1..adds \subseteq 1..adds'
      BY <1>0, <1>5
    <2>2. on_disk' \subseteq 1..adds'
      BY <1>0, <1>5, <2>1 DEF SerialsInv
    <2>3. ASSUME NEW r \in Shells, NEW i \in DOMAIN new_items'[r]
          PROVE  new_items'[r][i].serial \in 1..adds'
      BY <1>0, <1>2, <1>3, <1>5, <2>1 DEF SerialsInv, GoodItems
    <2>4. ASSUME NEW r \in Shells, NEW q \in Shells,
                 NEW i \in DOMAIN new_items'[r], NEW j \in DOMAIN new_items'[q],
                 new_items'[r][i].serial = new_items'[q][j].serial
          PROVE  r = q /\ i = j
      <3>1. CASE r = s /\ q = s
        BY <1>2, <1>5, <2>4, <3>1 DEF GoodItems
      <3>2. CASE r = s /\ q # s
        BY <1>2, <1>3, <1>5, <2>4, <3>2 DEF GoodItems
      <3>3. CASE r # s /\ q = s
        BY <1>2, <1>3, <1>5, <2>4, <3>3 DEF GoodItems
      <3>4. CASE r # s /\ q # s
        BY <1>0, <1>3, <2>4, <3>4 DEF SerialsInv
      <3> QED  BY <3>1, <3>2, <3>3, <3>4
    <2>5. SerialsInv'
      BY <2>2, <2>3, <2>4 DEF SerialsInv
    <2>6. ASSUME NEW r \in Shells, ~failed'[r], NEW i \in DOMAIN new_items'[r],
                 new_items'[r][i].mode = "Disk"
          PROVE  i <= first_unwritten'[r] <=> new_items'[r][i].serial \in on_disk'
      <3>1. CASE r = s
        BY <1>2, <1>5, <2>6, <3>1 DEF GoodItems
      <3>2. CASE r # s
        BY <1>0, <1>3, <1>5, <2>6, <3>2 DEF IndexExact
      <3> QED  BY <3>1, <3>2
    <2>7. IndexExact'
      BY <2>6 DEF IndexExact
    <2> QED  BY <2>5, <2>7
  <1>6. CASE /\ Descends(new_items'[s], first_unwritten'[s], new_items[s], first_unwritten[s])
             /\ on_disk' = on_disk /\ adds' = adds
             /\ failed'[s] = failed[s] \/ new_items'[s] = <<>>
    <2>1. GoodItems(s, new_items'[s], first_unwritten'[s], adds', ~failed[s])
      BY <1>4, <1>6, DescendsGood
    <2>2. CASE failed'[s] = failed[s]
      BY <1>5, <1>6, <2>1, <2>2
    <2>3. CASE new_items'[s] = <<>>
      <3>1. Len(new_items'[s]) = 0
        BY <2>3, EmptySeq
      <3>2. GoodItems(s, new_items'[s], first_unwritten'[s], adds', TRUE)
        BY <3>1 DEF GoodItems
      <3> QED  BY <1>5, <1>6, <3>2
    <2> QED  BY <1>6, <2>2, <2>3
  <1>7. CASE (\E item : Adds(s, item)) /\ on_disk' = on_disk /\ failed'[s] = failed[s]
    <2>1. PICK item : Adds(s, item)
      BY <1>7
    <2>2. item \in Items /\ item.serial = adds + 1 /\ adds' = adds + 1
      BY <2>1 DEF Adds
    <2>3. GoodItems(s, Append(new_items[s], item), first_unwritten[s], adds', ~failed[s])
      BY <2>2, AppendGood
    <2>4. GoodItems(s, new_items'[s], first_unwritten'[s], adds', ~failed[s])
      BY <2>1, <2>3, DescendsGood DEF Adds
    <2> QED  BY <1>5, <1>7, <2>2, <2>4
  <1>8. CASE /\ new_items'[s] \in {new_items[s], <<>>} /\ first_unwritten'[s] = Len(new_items'[s])
             /\ adds' = adds /\ failed'[s] /\ on_disk' = on_disk
    <2>1. GoodItems(s, new_items'[s], first_unwritten'[s], adds', FALSE)
      <3>1. CASE new_items'[s] = <<>>
        <4>1. Len(new_items'[s]) = 0
          BY <3>1, EmptySeq
        <4> QED  BY <4>1 DEF GoodItems
      <3>2. CASE new_items'[s] = new_items[s]
        BY <1>4, <1>8, <3>2 DEF GoodItems
      <3> QED  BY <1>8, <3>1, <3>2
    <2> QED  BY <1>5, <1>8, <2>1
  <1>9. CASE /\ new_items'[s] \in {new_items[s], <<>>} /\ first_unwritten'[s] = Len(new_items'[s])
             /\ adds' = adds /\ failed'[s] = failed[s]
             /\ on_disk' = on_disk \cup Serials(UnsavedEntries(s))
    <2>1. \A e \in Serials(UnsavedEntries(s)) :
            \E i \in 1..Len(new_items[s]) : e = new_items[s][i].serial
      BY <1>1 DEF Serials, UnsavedEntries, Unsaved, Entry
    <2>2. \A i \in 1..Len(new_items[s]) :
            new_items[s][i].mode = "Disk" /\ i > first_unwritten[s]
            => new_items[s][i].serial \in Serials(UnsavedEntries(s))
      <3>1. ASSUME NEW i \in 1..Len(new_items[s]), new_items[s][i].mode = "Disk", i > first_unwritten[s]
            PROVE  new_items[s][i].serial \in Serials(UnsavedEntries(s))
        <4>1. Entry(new_items[s][i]) \in UnsavedEntries(s)
          BY <1>1, <3>1 DEF UnsavedEntries, Unsaved
        <4>2. Entry(new_items[s][i]).serial = new_items[s][i].serial
          BY DEF Entry
        <4> QED  BY <4>1, <4>2 DEF Serials
      <3> QED  BY <3>1
    <2>3. on_disk' \subseteq 1..adds'
      <3>1. on_disk \subseteq 1..adds
        BY <1>0 DEF SerialsInv
      <3>2. \A i \in 1..Len(new_items[s]) : new_items[s][i].serial \in 1..adds
        BY <1>0, <1>1 DEF SerialsInv
      <3>3. Serials(UnsavedEntries(s)) \subseteq 1..adds
        BY <2>1, <3>2
      <3> QED  BY <1>9, <3>1, <3>3
    <2>4. \A r \in Shells : new_items'[r] = new_items[r] \/ DOMAIN new_items'[r] = {}
      <3>1. Len(<<>>) = 0
        BY EmptySeq
      <3>2. new_items'[s] = <<>> => DOMAIN new_items'[s] = {}
        BY <1>2, <3>1
      <3> QED  BY <1>3, <1>9, <3>2
    <2>5. SerialsInv'
      <3>1. \A r \in Shells : \A i \in DOMAIN new_items'[r] : new_items'[r][i].serial \in 1..adds'
        BY <1>0, <1>9, <2>4 DEF SerialsInv
      <3>2. \A r, q \in Shells : \A i \in DOMAIN new_items'[r], j \in DOMAIN new_items'[q] :
              new_items'[r][i].serial = new_items'[q][j].serial => r = q /\ i = j
        BY <1>0, <2>4 DEF SerialsInv
      <3> QED  BY <2>3, <3>1, <3>2 DEF SerialsInv
    <2>6. ASSUME NEW r \in Shells, ~failed'[r], NEW i \in DOMAIN new_items'[r],
                 new_items'[r][i].mode = "Disk"
          PROVE  i <= first_unwritten'[r] <=> new_items'[r][i].serial \in on_disk'
      <3>1. new_items'[r] = new_items[r] /\ i \in DOMAIN new_items[r] /\ ~failed[r]
        BY <1>3, <1>9, <2>4, <2>6
      <3>2. i <= first_unwritten[r] <=> new_items[r][i].serial \in on_disk
        BY <1>0, <2>6, <3>1 DEF IndexExact
      <3>3. CASE r # s
        <4>1. new_items[r][i].serial \notin Serials(UnsavedEntries(s))
          BY <1>0, <1>1, <2>1, <3>1, <3>3 DEF SerialsInv
        <4> QED  BY <1>3, <1>9, <3>1, <3>2, <3>3, <4>1
      <3>4. CASE r = s
        <4>1. i \in 1..Len(new_items[s]) /\ first_unwritten'[s] = Len(new_items[s])
          BY <1>1, <1>9, <3>1, <3>4
        <4>2. i <= first_unwritten'[s]
          BY <4>1
        <4>3. first_unwritten[s] \in 0..Len(new_items[s])
          BY <1>0, ItemsFacts
        <4>4. i <= first_unwritten[s] \/ i > first_unwritten[s]
          BY <4>1, <4>3
        <4>5. new_items[s][i].serial \in on_disk'
          BY <1>9, <2>2, <2>6, <3>1, <3>2, <3>4, <4>1, <4>4
        <4> QED  BY <3>1, <3>4, <4>2, <4>5
      <3> QED  BY <3>3, <3>4
    <2>7. IndexExact'
      BY <2>6 DEF IndexExact
    <2> QED  BY <2>5, <2>7
  <1> QED  BY <1>6, <1>7, <1>8, <1>9 DEF ItemsMove

LEMMA IndexInvInit == Init => IndexInv
  <1> SUFFICES ASSUME Init  PROVE  IndexInv
    OBVIOUS
  <1>1. TypeInv
    BY TypeInvInit
  <1>2. \A s \in Shells : DOMAIN new_items[s] = {}
    <2>1. ASSUME NEW s \in Shells  PROVE  DOMAIN new_items[s] = {}
      <3>1. new_items[s] = <<>> /\ Len(<<>>) = 0 /\ DOMAIN new_items[s] = 1..Len(new_items[s])
        BY <1>1, EmptySeq, ItemsFacts DEF Init, TypeInv
      <3> QED  BY <3>1
    <2> QED  BY <2>1
  <1>3. on_disk = {}
    BY DEF Init
  <1>4. SerialsInv
    BY <1>2, <1>3 DEF SerialsInv
  <1>5. IndexExact
    BY <1>2 DEF IndexExact
  <1> QED  BY <1>1, <1>4, <1>5 DEF IndexInv

LEMMA IndexInvNext == IndexInv /\ [Next]_vars => IndexInv'
  <1> SUFFICES ASSUME IndexInv, [Next]_vars  PROVE  IndexInv'
    OBVIOUS
  <1>1. TypeInv /\ SerialsInv /\ IndexExact
    BY DEF IndexInv
  <1>2. TypeInv'
    BY <1>1, TypeInvNext
  <1>3. CASE UNCHANGED <<new_items, first_unwritten, on_disk, adds, failed>>
    <2>1. SerialsInv'
      BY <1>1, <1>3 DEF SerialsInv
    <2>2. IndexExact'
      BY <1>1, <1>3 DEF IndexExact
    <2> QED  BY <1>2, <2>1, <2>2 DEF IndexInv
  <1>4. ASSUME NEW s \in Shells, ItemsMove(s)  PROVE  IndexInv'
    BY <1>2, <1>4, IndexStep DEF IndexInv
  <1>5. CASE UNCHANGED vars
    BY <1>3, <1>5 DEF vars, items, bounds, ghosts
  <1> QED  BY <1>1, <1>3, <1>4, <1>5, ItemsMoves

(* The index of the first unwritten item is exact: the persisted items before *)
(* it have reached the file and those from it on have not, through appends,   *)
(* rewrites, compaction, deletion and the removal of ephemeral items, unless  *)
(* a write of the shell has failed.                                           *)
THEOREM IndexIsExact == Spec => []UnwrittenExact
  <1>1. Init => IndexInv
    BY IndexInvInit
  <1>2. IndexInv /\ [Next]_vars => IndexInv'
    BY IndexInvNext
  <1>3. IndexInv => UnwrittenExact
    BY DEF IndexInv, TypeInv, UnwrittenExact
  <1> QED  BY <1>1, <1>2, <1>3, PTL DEF Spec

-----------------------------------------------------------------------------
(* Own items do not come back as old ones.  An entry with the serial of an   *)
(* own item is younger than the boundary, wherever it is, because the item   *)
(* is; so the old items, which are not, have none.                           *)
Seen == {d \in Entries : \/ \E f \in Inodes : d \in files[f]
                         \/ \E r \in Shells : d \in tmp[r] \cup UnsavedEntries(r)}

Young(s, its) ==
  \A i \in 1..Len(its) :
    /\ 2 * Second(its[i].when) > boundary[s]
    /\ \A d \in Seen : d.serial = its[i].serial => 2 * d.sec > boundary[s]
    /\ \A e \in old_items[s] : e.serial # its[i].serial

OwnInv ==
  /\ \A d \in Seen : d.serial <= adds
  /\ \A s \in Shells :
       /\ boundary[s] <= now
       /\ \A e \in old_items[s] : e.serial <= adds
       /\ merging[s] => pc[s] # "idle" /\ old_items[s] = {}
       /\ ~merging[s] => Young(s, new_items[s])

OnceInv == IndexInv /\ OwnInv

LEMMA SecondMonotone ==
  ASSUME NEW t \in Nat, NEW u \in Nat, t <= u
  PROVE  Second(t) \in Nat /\ Second(u) \in Nat /\ Second(t) <= Second(u)
  BY DEF Second

LEMMA DescendsYoung ==
  ASSUME NEW s \in Shells, ShellType, NEW its \in Seq(Items), NEW n, NEW its2, NEW n2,
         Young(s, its), Descends(its2, n2, its, n)
  PROVE  Young(s, its2)
  <1>0. its2 \in Seq(Items) /\ boundary[s] \in Nat
    BY HistoryAssumption DEF Descends, ShellType
  <1>1. PICK f \in [1..Len(its2) -> 1..Len(its)] :
          /\ \A i, j \in 1..Len(its2) : f[i] = f[j] => i = j
          /\ \A i \in 1..Len(its2) :
               /\ its2[i].serial = its[f[i]].serial /\ its2[i].mode = its[f[i]].mode
               /\ its2[i].when >= its[f[i]].when
               /\ i <= n2 <=> f[i] <= n
    BY DEF Descends
  <1>2. ASSUME NEW i \in 1..Len(its2)
        PROVE  /\ 2 * Second(its2[i].when) > boundary[s]
               /\ \A d \in Seen : d.serial = its2[i].serial => 2 * d.sec > boundary[s]
               /\ \A e \in old_items[s] : e.serial # its2[i].serial
    <2>1. f[i] \in 1..Len(its) /\ its2[i].serial = its[f[i]].serial /\ its[f[i]].when <= its2[i].when
      BY <1>0, <1>1, ItemOf
    <2>2. /\ 2 * Second(its[f[i]].when) > boundary[s]
          /\ \A d \in Seen : d.serial = its[f[i]].serial => 2 * d.sec > boundary[s]
          /\ \A e \in old_items[s] : e.serial # its[f[i]].serial
      BY <2>1 DEF Young
    <2>3. its2[i].when \in Nat /\ its[f[i]].when \in Nat
      BY <1>0, <2>1, ItemOf
    <2>4. /\ Second(its[f[i]].when) \in Nat /\ Second(its2[i].when) \in Nat
          /\ Second(its[f[i]].when) <= Second(its2[i].when)
      BY <2>1, <2>3, SecondMonotone
    <2>5. 2 * Second(its2[i].when) > boundary[s]
      BY <1>0, <2>2, <2>4
    <2> QED  BY <2>1, <2>2, <2>5
  <1> QED  BY <1>2 DEF Young

(* A new item has a serial that no entry has. *)
LEMMA AppendYoung ==
  ASSUME OnceInv, NEW s \in Shells, Young(s, new_items[s]),
         NEW item \in Items, item.serial = adds + 1, item.when = TimestampNow(s)
  PROVE  Young(s, Append(new_items[s], item))
  <1> DEFINE its == Append(new_items[s], item)
             last == Len(new_items[s]) + 1
  <1>0. TypeOK /\ adds \in Nat /\ OwnInv
    BY DEF OnceInv, IndexInv, TypeInv, TypeOK
  <1>1. new_items[s] \in Seq(Items) /\ Len(new_items[s]) \in Nat
    BY <1>0, ItemsFacts
  <1>2. /\ Len(its) = last /\ its[last] = item
        /\ \A i \in 1..Len(new_items[s]) : its[i] = new_items[s][i]
    BY <1>1, AppendProperties
  <1> HIDE DEF its
  <1>3. \A i \in 1..Len(its) : i = last \/ i \in 1..Len(new_items[s])
    BY <1>1, <1>2
  <1>4. 2 * Second(item.when) > boundary[s]
    BY <1>0, TimestampYounger DEF OwnInv
  <1>5. \A d \in Seen : d.serial \in Nat /\ d.serial <= adds
    BY <1>0 DEF OwnInv, Seen, Entries
  <1>6. \A e \in old_items[s] : e.serial \in Nat /\ e.serial <= adds
    BY <1>0 DEF OwnInv, TypeOK, ShellType, Entries
  <1>7. /\ \A d \in Seen : d.serial # item.serial
        /\ \A e \in old_items[s] : e.serial # item.serial
    BY <1>0, <1>5, <1>6
  <1>8. ASSUME NEW i \in 1..Len(its)
        PROVE  /\ 2 * Second(its[i].when) > boundary[s]
               /\ \A d \in Seen : d.serial = its[i].serial => 2 * d.sec > boundary[s]
               /\ \A e \in old_items[s] : e.serial # its[i].serial
    BY <1>2, <1>3, <1>4, <1>7 DEF Young
  <1>9. Young(s, its)
    BY <1>8 DEF Young
  <1> QED  BY <1>9 DEF its

(* What is stored after a step was there before it, with the same serial and *)
(* no later second.                                                          *)
StoredMoves ==
  \A e \in Entries :
    (\E f \in Inodes : e \in files'[f]) \/ (\E r \in Shells : e \in tmp'[r])
    => \E d \in Seen : d.serial = e.serial /\ d.sec <= e.sec

LEMMA StoredMove ==
  ASSUME TypeInv, Next
  PROVE  StoredMoves
  <1>0. /\ TypeOK /\ files \in [Inodes -> SUBSET Entries] /\ tmp \in [Shells -> SUBSET Entries]
        /\ made \in 0..MaxInodes
    BY DEF TypeInv, TypeOK, DiskType, SavingType
  <1>1. \A e \in Entries : e.sec \in Nat /\ e.sec <= e.sec
    BY DEF Entries
  <1>2. ASSUME \A f \in Inodes : files'[f] \subseteq Seen, \A r \in Shells : tmp'[r] \subseteq Seen
        PROVE  StoredMoves
    BY <1>1, <1>2 DEF StoredMoves
  <1>3. /\ \A f \in Inodes : files[f] \subseteq Seen
        /\ \A r \in Shells : tmp[r] \subseteq Seen /\ UnsavedEntries(r) \subseteq Seen
    BY <1>0, UnsavedTypes DEF Seen
  <1>4. CASE UNCHANGED <<files, tmp>>
    BY <1>2, <1>3, <1>4
  <1>5. ASSUME NEW s \in Shells, Unlinked(s) = files', UNCHANGED tmp  PROVE  StoredMoves
    <2>1. \A f \in Inodes : files'[f] \subseteq Seen
      BY <1>3, <1>5 DEF Unlinked
    <2> QED  BY <1>2, <1>3, <1>5, <2>1
  <1>6. ASSUME NEW s \in Shells,
               \/ \E t \in Texts, m \in Modes, how \in {"detect", "plain", "sync"} :
                    AddCommand(s, t, m, how)
               \/ \E m \in Modes : DetectionEnds(s, m)
               \/ \E t \in Texts : Delete(s, t)
               \/ SaveNow(s) \/ ClearSession(s) \/ Incorporate(s) \/ LoadOld(s)
        PROVE  UNCHANGED <<files, tmp>>
    <2>1. CASE LoadOld(s)
      BY <2>1 DEF LoadOld, disk, saving
    <2>2. ASSUME NEW t \in Texts, NEW m \in Modes, NEW how \in {"detect", "plain", "sync"},
                 AddCommand(s, t, m, how)
          PROVE  UNCHANGED <<files, tmp>>
      BY <2>2 DEF AddCommand, disk
    <2>3. ASSUME NEW m \in Modes, DetectionEnds(s, m)  PROVE  UNCHANGED <<files, tmp>>
      BY <2>3 DEF DetectionEnds, disk
    <2>4. ASSUME NEW t \in Texts, Delete(s, t)  PROVE  UNCHANGED <<files, tmp>>
      BY <2>4 DEF Delete, disk
    <2>5. CASE SaveNow(s) \/ ClearSession(s) \/ Incorporate(s)
      BY <2>5 DEF SaveNow, ClearSession, Incorporate, disk
    <2> QED  BY <1>6, <2>1, <2>2, <2>3, <2>4, <2>5
  <1>7. ASSUME NEW s \in Shells, Clear(s)  PROVE  StoredMoves
    BY <1>5, <1>7 DEF Clear, saving
  <1>8. ASSUME NEW s \in Shells, tmp' = [tmp EXCEPT ![s] = {}],
               \A f \in Inodes : files'[f] \subseteq Seen
        PROVE  StoredMoves
    BY <1>0, <1>2, <1>3, <1>8
  <1>9. ASSUME NEW s \in Shells, Crash(s)  PROVE  StoredMoves
    BY <1>3, <1>8, <1>9 DEF Crash
  <1>10. ASSUME NEW s \in Shells, AppendOpen(s) \/ AppendLock(s) \/ RewriteReopen(s) \/ RewriteLock(s)
         PROVE  UNCHANGED <<files, tmp>>
    BY <1>10 DEF AppendOpen, AppendLock, RewriteReopen, RewriteLock, disk
  <1>11. ASSUME NEW s \in Shells, AppendWrite(s)  PROVE  StoredMoves
    <2>1. CASE UNCHANGED <<files, tmp>>
      BY <1>4, <2>1
    <2>2. CASE /\ files' = [files EXCEPT ![fd[s]] = @ \cup UnsavedEntries(s)]
               /\ EndSave(s, Len(new_items[s]))
      <3>1. \A f \in Inodes : files'[f] \subseteq files[f] \cup UnsavedEntries(s)
        BY <1>0, <2>2
      <3> QED  BY <1>3, <1>8, <2>2, <3>1 DEF EndSave
    <2> QED  BY <1>11, <2>1, <2>2 DEF AppendWrite
  <1>12. ASSUME NEW s \in Shells, RewriteRename(s)  PROVE  StoredMoves
    <2>1. EndSave(s, Len(new_items[s]))
      BY <1>12 DEF RewriteRename
    <2>2. files' = files \/ files' = [Unlinked(s) EXCEPT ![made'] = tmp[s]]
      BY <1>12 DEF RewriteRename
    <2>3. \A f \in Inodes : files'[f] \in {files[f], {}, tmp[s]}
      BY <1>0, <2>2 DEF Unlinked
    <2> QED  BY <1>3, <1>8, <2>1, <2>3 DEF EndSave
  <1>13. ASSUME NEW s \in Shells, AbortSave(s), UNCHANGED files  PROVE  StoredMoves
    BY <1>3, <1>8, <1>13 DEF AbortSave, EndSave
  <1>14. ASSUME NEW s \in Shells, RewriteOpen(s)  PROVE  StoredMoves
    BY <1>4, <1>13, <1>14 DEF RewriteOpen
  <1>15. ASSUME NEW s \in Shells, RewriteRead(s)  PROVE  StoredMoves
    <2> DEFINE S == {e \in files[fd[s]] : Stays(s, e)} \cup UnsavedEntries(s)
    <2>1. fd[s] \in Inodes /\ UNCHANGED files
      BY <1>15 DEF RewriteRead, TypeInv, TypeOK, SavingType, FdInv, disk
    <2>2. CASE AbortSave(s)
      BY <1>13, <2>1, <2>2
    <2>3. CASE tmp' = [tmp EXCEPT ![s] = Dedup(S)]
      <3>1. {e \in files[fd[s]] : Stays(s, e)} \in SUBSET files[fd[s]] /\ IsFiniteSet(files[fd[s]])
        BY <2>1 DEF TypeInv, FiniteInv
      <3>2. IsFiniteSet({e \in files[fd[s]] : Stays(s, e)})
        BY <3>1, FS_Subset
      <3>3. UnsavedEntries(s) \in SUBSET Entries /\ IsFiniteSet(UnsavedEntries(s))
        BY <1>0, UnsavedTypes
      <3>4. S \in SUBSET Entries /\ IsFiniteSet(S) /\ S \subseteq Seen
        BY <1>0, <1>3, <2>1, <3>1, <3>2, <3>3, FS_Union
      <3> HIDE DEF S
      <3>5. \A e \in Dedup(S) : \E d \in Seen : d.serial = e.serial /\ d.sec <= e.sec
        BY <3>4, DedupEntries
      <3>6. \A r \in Shells : tmp'[r] = tmp[r] \/ tmp'[r] = Dedup(S)
        BY <1>0, <2>3
      <3> QED  BY <1>1, <1>3, <2>1, <3>5, <3>6 DEF StoredMoves
    <2> QED  BY <1>15, <2>2, <2>3 DEF RewriteRead
  <1>16. ASSUME NEW s \in Shells, SaveStep(s)  PROVE  StoredMoves
    BY <1>4, <1>10, <1>11, <1>12, <1>14, <1>15, <1>16 DEF SaveStep
  <1>17. Tick => UNCHANGED <<files, tmp>>
    BY DEF Tick, saving
  <1> QED  BY <1>4, <1>6, <1>7, <1>9, <1>16, <1>17 DEF Next

(* What a step does to the boundary, the old items and the merging of a      *)
(* shell.                                                                    *)
OwnMove(r) ==
  /\ boundary'[r] <= now'
  /\ merging'[r] => pc'[r] # "idle" /\ old_items'[r] = {}
  /\ ~merging'[r] => new_items'[r] = <<>> \/ (~merging[r] /\ boundary'[r] = boundary[r])
  /\ \/ old_items'[r] \subseteq old_items[r]
     \/ /\ new_items'[r] = new_items[r]
        /\ \A e \in old_items'[r] : e \in Seen /\ 2 * e.sec <= boundary[r]

LEMMA OwnMoves ==
  ASSUME TypeInv, OwnInv, Next, NEW r \in Shells
  PROVE  OwnMove(r)
  <1>a. TypeOK /\ DiskType /\ ItemsType /\ ShellType /\ SavingType
    BY DEF TypeInv, TypeOK
  <1>0. /\ TypeOK /\ now \in Nat /\ boundary[r] \in Nat
        /\ boundary \in [Shells -> 0..MaxTime] /\ merging \in [Shells -> BOOLEAN]
        /\ old_items \in [Shells -> SUBSET Entries] /\ pc \in [Shells -> Labels]
        /\ new_items \in [Shells -> Seq(Items)]
    <2>1. now \in Nat
      BY <1>a, HistoryAssumption DEF DiskType
    <2>2. boundary \in [Shells -> 0..MaxTime] /\ boundary[r] \in Nat
      BY <1>a, HistoryAssumption DEF ShellType
    <2> QED  BY <1>a, <2>1, <2>2 DEF ShellType, SavingType, ItemsType
  <1>1. boundary[r] <= now /\ (merging[r] => pc[r] # "idle" /\ old_items[r] = {})
    BY DEF OwnInv
  \* Steps that leave the four alone, or take away old items.
  <1>2. ASSUME now' \in {now, now + 1}, boundary'[r] = boundary[r], merging'[r] = merging[r],
               pc'[r] = pc[r] \/ (pc'[r] # "idle"),
               old_items'[r] \subseteq old_items[r]
        PROVE  OwnMove(r)
    <2>1. boundary'[r] <= now'
      BY <1>0, <1>1, <1>2
    <2> QED  BY <1>1, <1>2, <2>1 DEF OwnMove
  \* The items are dropped.
  <1>3. ASSUME new_items'[r] = <<>>, boundary'[r] <= now', ~merging'[r],
               old_items'[r] \subseteq old_items[r]
        PROVE  OwnMove(r)
    BY <1>3 DEF OwnMove
  <1>4. CASE Tick
    BY <1>2, <1>4 DEF Tick, old, saving
  <1>5. ASSUME NEW s \in Shells,
               UNCHANGED <<now, boundary, merging, old_items>>, pc'[r] = pc[r] \/ pc'[r] # "idle"
        PROVE  OwnMove(r)
    BY <1>2, <1>5
  <1>6. ASSUME NEW s \in Shells, NEW its, NEW n, Updated(s, its, n)
        PROVE  pc'[r] = pc[r] \/ pc'[r] # "idle"
    BY <1>6 DEF Updated
  <1>7. ASSUME NEW s \in Shells, NEW t \in Texts, NEW m \in Modes,
               NEW how \in {"detect", "plain", "sync"}, AddCommand(s, t, m, how)
        PROVE  OwnMove(r)
    <2>1. UNCHANGED <<now, boundary, merging, old_items>>
      BY <1>7 DEF AddCommand, disk, old
    <2>2. \E its, n : Updated(s, its, n)
      BY <1>0, <1>7, AddCommandItems
    <2> QED  BY <1>5, <1>6, <2>1, <2>2
  <1>8. ASSUME NEW s \in Shells, NEW m \in Modes, DetectionEnds(s, m)
        PROVE  OwnMove(r)
    <2>1. UNCHANGED <<now, boundary, merging, old_items>>
      BY <1>8 DEF DetectionEnds, disk, old
    <2>2. Updated(s, new_items[s], first_unwritten[s])
      BY <1>0, <1>8, DetectionEndsItems
    <2> QED  BY <1>5, <1>6, <2>1, <2>2
  <1>9. ASSUME NEW s \in Shells, SaveNow(s) \/ (\E t \in Texts : Delete(s, t)) \/ ClearSession(s)
        PROVE  OwnMove(r)
    <2>1. UNCHANGED <<now, boundary, merging, old_items>>
      BY <1>9 DEF SaveNow, Delete, ClearSession, disk, old
    <2>2. Updated(s, new_items[s], first_unwritten[s])
      BY <1>0, <1>9, OpsSave, OpSaveItems
    <2> QED  BY <1>5, <1>6, <2>1, <2>2
  <1>10. ASSUME NEW s \in Shells, Incorporate(s)  PROVE  OwnMove(r)
    <2>1. /\ now' = now /\ boundary' = [boundary EXCEPT ![s] = now] /\ pc[s] = "idle"
          /\ merging' = [merging EXCEPT ![s] = pc'[s] # "idle"]
          /\ old_items' = [old_items EXCEPT ![s] = {}]
          /\ Save(s, new_items[s], first_unwritten[s], deleted[s], FALSE, TRUE)
      BY <1>10 DEF Incorporate, ClearFileState, UserOp, disk
    <2>2. /\ Updated(s, new_items[s], first_unwritten[s])
          /\ new_items'[s] = <<>> \/ pc'[s] \in {"append", "rewrite"}
      BY <1>0, <2>1, ItemsFacts, SaveUpdates
    <2>3. CASE r = s
      <3>1. boundary'[r] = now /\ old_items'[r] = {} /\ (merging'[r] <=> pc'[r] # "idle")
        BY <1>0, <2>1, <2>3
      <3>2. boundary'[r] <= now'
        BY <1>0, <2>1, <3>1
      <3> QED  BY <2>2, <2>3, <3>1, <3>2 DEF OwnMove
    <2>4. CASE r # s
      <3>1. boundary'[r] = boundary[r] /\ old_items'[r] = old_items[r] /\ merging'[r] = merging[r]
        BY <1>0, <2>1, <2>4
      <3>2. pc'[r] = pc[r]
        BY <2>2, <2>4 DEF Updated
      <3> QED  BY <1>2, <2>1, <3>1, <3>2
    <2> QED  BY <2>3, <2>4
  <1>11. ASSUME NEW s \in Shells, Clear(s)  PROVE  OwnMove(r)
    <2>1. /\ UNCHANGED <<now, boundary, saving>> /\ old_items' = [old_items EXCEPT ![s] = {}]
      BY <1>11 DEF Clear
    <2>2. old_items'[r] \subseteq old_items[r]
      BY <1>0, <2>1
    <2> QED  BY <1>2, <2>1, <2>2 DEF saving
  <1>12. ASSUME NEW s \in Shells, LoadOld(s)  PROVE  OwnMove(r)
    <2>1. UNCHANGED <<now, boundary, merging, pc, new_items>> /\ pc[s] = "idle"
      BY <1>12 DEF LoadOld, disk, saving, items
    <2>2. \/ old_items' = old_items
          \/ /\ path # NoFile
             /\ old_items' = [old_items EXCEPT ![s] = {e \in files[path] : 2 * e.sec <= boundary[s]}]
      BY <1>12 DEF LoadOld
    <2>3. CASE r # s \/ old_items' = old_items
      <3>1. old_items'[r] = old_items[r]
        BY <1>0, <2>2, <2>3
      <3> QED  BY <1>2, <2>1, <3>1
    <2>4. CASE r = s /\ old_items' # old_items
      <3>1. /\ path \in Inodes /\ files[path] \subseteq Entries
            /\ old_items'[r] = {e \in files[path] : 2 * e.sec <= boundary[r]}
        BY <1>0, <2>2, <2>4 DEF TypeOK, DiskType
      <3>2. \A e \in old_items'[r] : e \in Seen /\ 2 * e.sec <= boundary[r]
        BY <3>1 DEF Seen
      <3>3. ~merging[r] /\ ~merging'[r]
        BY <1>1, <2>1, <2>4
      <3> QED  BY <1>1, <2>1, <3>2, <3>3 DEF OwnMove
    <2> QED  BY <2>3, <2>4
  <1>13. ASSUME NEW s \in Shells, Crash(s)  PROVE  OwnMove(r)
    <2>1. /\ now' = now /\ boundary' = [boundary EXCEPT ![s] = now]
          /\ merging' = [merging EXCEPT ![s] = FALSE] /\ old_items' = [old_items EXCEPT ![s] = {}]
          /\ pc' = [pc EXCEPT ![s] = "idle"] /\ new_items' = [new_items EXCEPT ![s] = <<>>]
      BY <1>13 DEF Crash, ClearFileState, Goto
    <2>2. CASE r = s
      <3>1. new_items'[r] = <<>> /\ boundary'[r] = now /\ ~merging'[r] /\ old_items'[r] = {}
        BY <1>0, <2>1, <2>2
      <3>2. boundary'[r] <= now'
        BY <1>0, <2>1, <3>1
      <3> QED  BY <1>3, <3>1, <3>2
    <2>3. CASE r # s
      BY <1>0, <1>2, <2>1, <2>3
    <2> QED  BY <2>2, <2>3
  <1>14. ASSUME NEW s \in Shells, NEW n \in 0..Len(new_items[s]), EndSave(s, n),
                UNCHANGED <<now, boundary>>, old_items'[r] \subseteq old_items[r]
         PROVE  OwnMove(r)
    <2>1. CASE r = s
      <3>1. ~merging'[r] /\ (merging[r] => new_items'[r] = <<>>)
        BY <1>0, <1>14, <2>1, EndSaveItems
      <3>2. boundary'[r] <= now'
        BY <1>1, <1>14
      <3> QED  BY <1>14, <3>1, <3>2 DEF OwnMove
    <2>2. CASE r # s
      <3>1. merging'[r] = merging[r] /\ pc'[r] = pc[r]
        BY <1>0, <1>14, <2>2, EndSaveItems
      <3> QED  BY <1>2, <1>14, <3>1
    <2> QED  BY <2>1, <2>2
  <1>15. ASSUME NEW s \in Shells  PROVE  Len(new_items[s]) \in 0..Len(new_items[s])
    <2>1. Len(new_items[s]) \in Nat
      BY <1>0, ItemsFacts
    <2> QED  BY <2>1
  <1>16. ASSUME NEW s \in Shells, ClearFileState(s) \/ UNCHANGED old_items
         PROVE  old_items'[r] \subseteq old_items[r]
    BY <1>0, <1>16 DEF ClearFileState
  <1>17. ASSUME NEW s \in Shells, AppendOpen(s) \/ AppendLock(s) \/ RewriteReopen(s) \/ RewriteLock(s)
         PROVE  OwnMove(r)
    <2>1. UNCHANGED <<now, boundary, merging, old_items>>
      BY <1>17 DEF AppendOpen, AppendLock, RewriteReopen, RewriteLock, disk, old
    <2>2. \E label \in Labels \ {"idle"} : pc' = [pc EXCEPT ![s] = label]
      <3>1. {"append", "append_lock", "append_write", "rewrite", "rewrite_lock", "rename"}
              \subseteq Labels \ {"idle"}
        BY DEF Labels
      <3> QED  BY <1>17, <3>1 DEF AppendOpen, AppendLock, RewriteReopen, RewriteLock, Goto
    <2>3. pc'[r] = pc[r] \/ pc'[r] # "idle"
      BY <1>0, <2>2
    <2> QED  BY <1>5, <2>1, <2>3
  <1>18. ASSUME NEW s \in Shells, AppendWrite(s)  PROVE  OwnMove(r)
    <2>1. UNCHANGED <<now, boundary>> /\ old_items'[r] \subseteq old_items[r]
      BY <1>16, <1>18 DEF AppendWrite
    <2>2. CASE EndSave(s, Len(new_items[s]))
      BY <1>14, <1>15, <2>1, <2>2
    <2>3. CASE UNCHANGED merging /\ pc' = [pc EXCEPT ![s] = "rewrite"]
      BY <1>0, <1>2, <2>1, <2>3
    <2> QED  BY <1>18, <2>2, <2>3 DEF AppendWrite, Goto
  <1>19. ASSUME NEW s \in Shells, RewriteRename(s)  PROVE  OwnMove(r)
    <2>1. /\ UNCHANGED <<now, boundary>> /\ old_items'[r] \subseteq old_items[r]
          /\ EndSave(s, Len(new_items[s]))
      BY <1>16, <1>19 DEF RewriteRename
    <2> QED  BY <1>14, <1>15, <2>1
  <1>20. ASSUME NEW s \in Shells, RewriteOpen(s) \/ RewriteRead(s)  PROVE  OwnMove(r)
    <2>1. UNCHANGED <<now, boundary, old_items>>
      BY <1>20 DEF RewriteOpen, RewriteRead, disk, old
    <2>2. CASE AbortSave(s)
      <3>1. EndSave(s, first_unwritten[s]) /\ first_unwritten[s] \in 0..Len(new_items[s])
        BY <1>0, <2>2, ItemsFacts DEF AbortSave
      <3> QED  BY <1>14, <2>1, <3>1
    <2>3. CASE ~AbortSave(s)
      <3>1. UNCHANGED merging /\ (Goto(s, "read") \/ Goto(s, "reopen"))
        BY <1>20, <2>3 DEF RewriteOpen, RewriteRead
      <3>2. pc'[r] = pc[r] \/ pc'[r] # "idle"
        BY <1>0, <3>1 DEF Goto
      <3> QED  BY <1>2, <2>1, <3>1, <3>2
    <2> QED  BY <2>2, <2>3
  <1>21. ASSUME NEW s \in Shells, SaveStep(s)  PROVE  OwnMove(r)
    BY <1>17, <1>18, <1>19, <1>20, <1>21 DEF SaveStep
  <1> QED  BY <1>4, <1>7, <1>8, <1>9, <1>10, <1>11, <1>12, <1>13, <1>21 DEF Next

LEMMA OwnStep ==
  ASSUME OnceInv, IndexInv', Next
  PROVE  OwnInv'
  <1>0. /\ TypeInv /\ TypeOK /\ ShellType /\ OwnInv /\ adds \in Nat /\ TypeInv' /\ TypeOK' /\ SerialsInv'
        /\ OnceInv
    BY DEF OnceInv, IndexInv, TypeInv, TypeOK
  <1>1. StoredMoves /\ \A r \in Shells : OwnMove(r)
    BY <1>0, StoredMove, OwnMoves
  <1>2. \/ UNCHANGED <<new_items, first_unwritten, on_disk, adds, failed>>
        \/ \E s \in Shells : ItemsMove(s)
    BY <1>0, ItemsMoves
  <1>3. adds' \in {adds, adds + 1}
    BY <1>2 DEF ItemsMove, Adds
  <1>4. \A r \in Shells : new_items'[r] \in Seq(Items) /\ DOMAIN new_items'[r] = 1..Len(new_items'[r])
    <2>1. ASSUME NEW r \in Shells
          PROVE  new_items'[r] \in Seq(Items) /\ DOMAIN new_items'[r] = 1..Len(new_items'[r])
      <3>1. new_items'[r] \in Seq(Items)
        BY <1>0 DEF TypeOK, ItemsType
      <3> QED  BY <3>1, LenProperties
    <2> QED  BY <2>1
  <1>5. \A e \in Seen' : \/ \E d \in Seen : d.serial = e.serial /\ d.sec <= e.sec
                         \/ \E q \in Shells : \E j \in 1..Len(new_items'[q]) :
                              /\ e.serial = new_items'[q][j].serial
                              /\ e.sec = Second(new_items'[q][j].when)
    <2>1. ASSUME NEW q \in Shells, NEW e \in UnsavedEntries(q)'
          PROVE  \E j \in 1..Len(new_items'[q]) : /\ e.serial = new_items'[q][j].serial
                                                  /\ e.sec = Second(new_items'[q][j].when)
      BY <1>4, <2>1 DEF UnsavedEntries, Unsaved, Entry
    <2> QED  BY <1>1, <2>1 DEF Seen, StoredMoves
  <1>6. \A d \in Seen' : d.serial <= adds'
    <2>1. ASSUME NEW e \in Seen, NEW d \in Seen', e.serial = d.serial  PROVE  d.serial <= adds'
      <3>1. e.serial <= adds /\ e.serial \in Nat
        BY <1>0 DEF OwnInv, Seen, Entries
      <3> QED  BY <1>0, <1>3, <2>1, <3>1
    <2>2. \A q \in Shells : \A j \in 1..Len(new_items'[q]) : new_items'[q][j].serial <= adds'
      BY <1>0, <1>4 DEF SerialsInv
    <2> QED  BY <1>5, <2>1, <2>2
  <1>7. ASSUME NEW r \in Shells  PROVE  \A e \in old_items'[r] : e.serial <= adds'
    <2>1. \A e \in old_items[r] \cup Seen : e.serial <= adds /\ e.serial \in Nat
      BY <1>0 DEF OwnInv, ShellType, Seen, Entries
    <2>2. old_items'[r] \subseteq old_items[r] \cup Seen
      BY <1>1 DEF OwnMove
    <2> QED  BY <1>0, <1>3, <2>1, <2>2
  <1>8. ASSUME NEW r \in Shells, ~merging'[r], new_items'[r] # <<>>
        PROVE  /\ Young(r, new_items'[r]) /\ boundary'[r] = boundary[r]
               /\ ~merging[r]
    <2>1. ~merging[r] /\ boundary'[r] = boundary[r]
      BY <1>1, <1>8 DEF OwnMove
    <2>2. Young(r, new_items[r]) /\ new_items[r] \in Seq(Items)
      BY <1>0, <2>1, ItemsFacts DEF OwnInv
    <2>3. CASE new_items'[r] = new_items[r]
      BY <2>1, <2>2, <2>3
    <2>4. CASE Descends(new_items'[r], first_unwritten'[r], new_items[r], first_unwritten[r])
      BY <1>0, <2>1, <2>2, <2>4, DescendsYoung
    <2>5. CASE \E item : Adds(r, item)
      <3>1. PICK item : Adds(r, item)
        BY <2>5
      <3>2. Young(r, Append(new_items[r], item)) /\ Append(new_items[r], item) \in Seq(Items)
        BY <1>0, <2>2, <3>1, AppendYoung, AppendProperties DEF Adds
      <3>3. Young(r, new_items'[r])
        BY <1>0, <3>1, <3>2, DescendsYoung DEF Adds
      <3> QED  BY <2>1, <3>3
    <2>6. \/ new_items'[r] = new_items[r]
          \/ Descends(new_items'[r], first_unwritten'[r], new_items[r], first_unwritten[r])
          \/ \E item : Adds(r, item)
      BY <1>2, <1>8 DEF ItemsMove
    <2> QED  BY <2>3, <2>4, <2>5, <2>6
  <1>9. ASSUME NEW r \in Shells, ~merging'[r]  PROVE  Young(r, new_items[r])'
    <2>1. CASE new_items'[r] = <<>>
      <3>1. Len(new_items'[r]) = 0
        BY <2>1, EmptySeq
      <3> QED  BY <3>1 DEF Young
    <2>2. CASE new_items'[r] # <<>>
      <3>1. Young(r, new_items'[r]) /\ boundary'[r] = boundary[r]
        BY <1>8, <1>9, <2>2
      <3>2. boundary[r] \in Nat
        BY <1>0, HistoryAssumption DEF ShellType
      <3>3. ASSUME NEW i \in 1..Len(new_items'[r])
            PROVE  /\ 2 * Second(new_items'[r][i].when) > boundary'[r]
                   /\ \A d \in Seen' : d.serial = new_items'[r][i].serial => 2 * d.sec > boundary'[r]
                   /\ \A e \in old_items'[r] : e.serial # new_items'[r][i].serial
        <4>1. /\ 2 * Second(new_items'[r][i].when) > boundary[r]
              /\ \A d \in Seen : d.serial = new_items'[r][i].serial => 2 * d.sec > boundary[r]
              /\ \A e \in old_items[r] : e.serial # new_items'[r][i].serial
          BY <3>1, <3>3 DEF Young
        <4>2. ASSUME NEW e \in Seen', e.serial = new_items'[r][i].serial  PROVE  2 * e.sec > boundary'[r]
          <5>1. CASE \E d \in Seen : d.serial = e.serial /\ d.sec <= e.sec
            <6>1. PICK d \in Seen : d.serial = e.serial /\ d.sec <= e.sec
              BY <5>1
            <6>2. d.sec \in Nat /\ e.sec \in Nat
              BY DEF Seen, Entries
            <6>3. 2 * d.sec > boundary[r]
              BY <4>1, <4>2, <6>1
            <6> QED  BY <3>1, <3>2, <6>1, <6>2, <6>3
          <5>2. CASE \E q \in Shells : \E j \in 1..Len(new_items'[q]) :
                       /\ e.serial = new_items'[q][j].serial
                       /\ e.sec = Second(new_items'[q][j].when)
            <6>1. PICK q \in Shells : \E j \in 1..Len(new_items'[q]) :
                    /\ e.serial = new_items'[q][j].serial
                    /\ e.sec = Second(new_items'[q][j].when)
              BY <5>2
            <6>2. PICK j \in 1..Len(new_items'[q]) :
                    /\ e.serial = new_items'[q][j].serial
                    /\ e.sec = Second(new_items'[q][j].when)
              BY <6>1
            <6>3. q = r /\ j = i
              <7>1. i \in DOMAIN new_items'[r] /\ j \in DOMAIN new_items'[q]
                BY <1>4, <3>3, <6>2
              <7>2. new_items'[r][i].serial = new_items'[q][j].serial
                BY <4>2, <6>2
              <7> QED  BY <1>0, <7>1, <7>2 DEF SerialsInv
            <6> QED  BY <3>1, <4>1, <6>2, <6>3
          <5> QED  BY <1>5, <5>1, <5>2
        <4>3. ASSUME NEW e \in old_items'[r], e.serial = new_items'[r][i].serial  PROVE  FALSE
          <5>1. CASE old_items'[r] \subseteq old_items[r]
            BY <4>1, <4>3, <5>1
          <5>2. CASE e \in Seen /\ 2 * e.sec <= boundary[r]
            <6>1. 2 * e.sec > boundary[r] /\ e.sec \in Nat
              BY <4>1, <4>3, <5>2 DEF Seen, Entries
            <6> QED  BY <3>2, <5>2, <6>1
          <5> QED  BY <1>1, <5>1, <5>2 DEF OwnMove
        <4> QED  BY <3>1, <4>1, <4>2, <4>3
      <3> QED  BY <3>3 DEF Young
    <2> QED  BY <2>1, <2>2
  <1> QED  BY <1>1, <1>6, <1>7, <1>9 DEF OwnInv, OwnMove


LEMMA OnceInvInit == Init => OnceInv
  <1> SUFFICES ASSUME Init  PROVE  OnceInv
    OBVIOUS
  <1>1. IndexInv /\ TypeOK
    BY IndexInvInit DEF IndexInv, TypeInv
  <1>2. \A s \in Shells : Len(new_items[s]) = 0 /\ DOMAIN new_items[s] = {}
    <2>1. ASSUME NEW s \in Shells  PROVE  Len(new_items[s]) = 0 /\ DOMAIN new_items[s] = {}
      <3>1. new_items[s] = <<>> /\ Len(<<>>) = 0 /\ DOMAIN new_items[s] = 1..Len(new_items[s])
        BY <1>1, EmptySeq, ItemsFacts DEF Init
      <3> QED  BY <3>1
    <2> QED  BY <2>1
  <1>3. Seen = {}
    <2>1. \A s \in Shells : UnsavedEntries(s) = {} /\ tmp[s] = {}
      BY <1>2 DEF UnsavedEntries, Unsaved, Init
    <2>2. \A f \in Inodes : files[f] = {}
      BY DEF Init
    <2> QED  BY <2>1, <2>2 DEF Seen
  <1>4. /\ now = 1
        /\ \A s \in Shells : boundary[s] = now /\ old_items[s] = {} /\ ~merging[s]
    BY DEF Init
  <1>5. \A s \in Shells : Young(s, new_items[s])
    BY <1>2 DEF Young
  <1>6. OwnInv
    BY <1>3, <1>4, <1>5 DEF OwnInv
  <1> QED  BY <1>1, <1>6 DEF OnceInv

LEMMA OnceInvNext == OnceInv /\ [Next]_vars => OnceInv'
  <1> SUFFICES ASSUME OnceInv, [Next]_vars  PROVE  OnceInv'
    OBVIOUS
  <1>1. IndexInv'
    BY IndexInvNext DEF OnceInv
  <1>2. CASE Next
    BY <1>1, <1>2, OwnStep DEF OnceInv
  <1>3. CASE UNCHANGED vars
    <2>1. UNCHANGED <<files, tmp, new_items, first_unwritten, adds, boundary, now, old_items,
                      merging, pc>>
      BY <1>3 DEF vars, disk, items, old, saving, bounds
    <2>2. UNCHANGED Seen
      BY <2>1 DEF Seen, UnsavedEntries, Unsaved
    <2>3. \A s \in Shells : Young(s, new_items[s]) => Young(s, new_items[s])'
      BY <2>1, <2>2 DEF Young
    <2>4. OwnInv'
      BY <2>1, <2>2, <2>3 DEF OwnInv, OnceInv
    <2> QED  BY <1>1, <2>4 DEF OnceInv
  <1> QED  BY <1>2, <1>3

(* An item that a shell holds as its own never is among the old items it has  *)
(* loaded from the file as well: own items are younger than the boundary,     *)
(* which is what timestamp_now() adds a second for, and a rewrite that keeps  *)
(* one entry of a text never makes it older.                                  *)
THEOREM OwnItemsAreOnce == Spec => []OwnItemsOnce
  <1>1. Init => OnceInv
    BY OnceInvInit
  <1>2. OnceInv /\ [Next]_vars => OnceInv'
    BY OnceInvNext
  <1>3. OnceInv => OwnItemsOnce
    <2> SUFFICES ASSUME OnceInv  PROVE  OwnItemsOnce
      OBVIOUS
    <2>1. ASSUME NEW s \in Shells, NEW e \in old_items[s], NEW i \in DOMAIN new_items[s]
          PROVE  e.serial # new_items[s][i].serial
      <3>1. TypeOK /\ OwnInv
        BY DEF OnceInv, IndexInv, TypeInv
      <3>2. Young(s, new_items[s]) /\ i \in 1..Len(new_items[s])
        BY <2>1, <3>1, ItemsFacts DEF OwnInv
      <3> QED  BY <2>1, <3>2 DEF Young
    <2> QED  BY <2>1 DEF OwnItemsOnce
  <1> QED  BY <1>1, <1>2, <1>3, PTL DEF Spec

-----------------------------------------------------------------------------
(* Nothing stays unsaved by itself.                                          *)
QuietInv == \A s \in Shells : Quiet(s) => Unsaved(s) = {}

(* A shell of which a step moves nothing stays as quiet as it was. *)
LEMMA QuietStill ==
  ASSUME NEW r \in Shells, Quiet(r) => Unsaved(r) = {},
         /\ new_items'[r] = new_items[r] /\ first_unwritten'[r] = first_unwritten[r]
         /\ pc'[r] = pc[r] /\ skipped'[r] = skipped[r] /\ detecting'[r] = detecting[r]
  PROVE  Quiet(r)' => Unsaved(r)' = {}
  <1>1. DisableCounter(r)' = DisableCounter(r)
    BY DEF DisableCounter
  <1>2. Quiet(r)' = Quiet(r)
    BY <1>1 DEF Quiet
  <1>3. Unsaved(r)' = Unsaved(r)
    BY DEF Unsaved
  <1> QED  BY <1>2, <1>3

(* So do all shells but the one that the step is of. *)
LEMMA QuietOthers ==
  ASSUME QuietInv, NEW s \in Shells, Quiet(s)' => Unsaved(s)' = {},
         \A r \in Shells \ {s} :
           /\ new_items'[r] = new_items[r] /\ first_unwritten'[r] = first_unwritten[r]
           /\ pc'[r] = pc[r] /\ skipped'[r] = skipped[r] /\ detecting'[r] = detecting[r]
  PROVE  QuietInv'
  <1>1. ASSUME NEW r \in Shells, r # s  PROVE  Quiet(r)' => Unsaved(r)' = {}
    BY <1>1, QuietStill DEF QuietInv
  <1> QED  BY <1>1 DEF QuietInv

LEMMA QuietNext ==
  ASSUME TypeInv, QuietInv, Next
  PROVE  QuietInv'
  <1>0. /\ TypeOK /\ skipped \in [Shells -> BOOLEAN] /\ pc \in [Shells -> Labels]
        /\ new_items \in [Shells -> Seq(Items)] /\ first_unwritten \in [Shells -> Nat]
        /\ detecting \in [Shells -> [Modes -> Nat]]
    BY DEF TypeInv, TypeOK, ShellType, SavingType, ItemsType
  <1>1. CASE UNCHANGED <<items, pc, skipped, detecting>>
    <2>1. \A r \in Shells : Quiet(r)' => Unsaved(r)' = {}
      BY <1>1, QuietStill DEF QuietInv, items
    <2> QED  BY <2>1 DEF QuietInv
  <1>2. ASSUME NEW s \in Shells, NEW its, NEW n, Updated(s, its, n),
               Quiet(s)' => Unsaved(s)' = {},
               \A r \in Shells \ {s} : detecting'[r] = detecting[r]
        PROVE  QuietInv'
    <2>1. \A r \in Shells \ {s} :
            /\ new_items'[r] = new_items[r] /\ first_unwritten'[r] = first_unwritten[r]
            /\ pc'[r] = pc[r] /\ skipped'[r] = skipped[r]
      BY <1>2 DEF Updated
    <2> QED  BY <1>2, <2>1, QuietOthers
  <1>3. ASSUME NEW s \in Shells, NEW t \in Texts, NEW m \in Modes,
               NEW how \in {"detect", "plain", "sync"}, AddCommand(s, t, m, how)
        PROVE  QuietInv'
    <2>1. PICK its, n : Updated(s, its, n)
      BY <1>0, <1>3, AddCommandItems
    <2>2. \A r \in Shells \ {s} : detecting'[r] = detecting[r]
      BY <1>0, <1>3, AddCommandItems
    <2>3. Quiet(s)' => Unsaved(s)' = {}
      BY <1>0, <1>3, AddCommandItems DEF QuietInv
    <2> QED  BY <1>2, <2>1, <2>2, <2>3
  <1>4. ASSUME NEW s \in Shells, NEW m \in Modes, DetectionEnds(s, m)  PROVE  QuietInv'
    <2>1. Updated(s, new_items[s], first_unwritten[s])
      BY <1>0, <1>4, DetectionEndsItems
    <2>2. \A r \in Shells \ {s} : detecting'[r] = detecting[r]
      BY <1>0, <1>4, DetectionEndsItems
    <2>3. Quiet(s)' => Unsaved(s)' = {}
      BY <1>0, <1>4, DetectionEndsItems DEF QuietInv
    <2> QED  BY <1>2, <2>1, <2>2, <2>3
  <1>5. ASSUME NEW s \in Shells,
               SaveNow(s) \/ (\E t \in Texts : Delete(s, t)) \/ ClearSession(s) \/ Incorporate(s)
        PROVE  QuietInv'
    <2>1. UNCHANGED detecting
      BY <1>5 DEF SaveNow, Delete, ClearSession, Incorporate
    <2>2. OpSave(s)
      BY <1>0, <1>5, OpsSave
    <2>3. /\ Updated(s, new_items[s], first_unwritten[s])
          /\ pc'[s] = "idle" => Unsaved(s)' = {}
      BY <1>0, <2>2, OpSaveItems
    <2>4. Quiet(s)' => Unsaved(s)' = {}
      BY <2>3 DEF Quiet
    <2> QED  BY <1>2, <2>1, <2>3, <2>4
  \* The list is emptied.
  <1>6. ASSUME NEW s \in Shells, Clear(s) \/ Crash(s)  PROVE  QuietInv'
    <2>1. /\ new_items' = [new_items EXCEPT ![s] = <<>>]
          /\ first_unwritten' = [first_unwritten EXCEPT ![s] = 0]
          /\ \A r \in Shells \ {s} : /\ pc'[r] = pc[r] /\ skipped'[r] = skipped[r]
                                     /\ detecting'[r] = detecting[r]
      <3>1. CASE Clear(s)
        BY <3>1 DEF Clear, saving
      <3>2. CASE Crash(s)
        BY <1>0, <3>2 DEF Crash, Goto
      <3> QED  BY <1>6, <3>1, <3>2
    <2>2. DOMAIN new_items'[s] = {}
      <3>1. new_items'[s] = <<>> /\ <<>> \in Seq(Items) /\ Len(<<>>) = 0
        BY <1>0, <2>1, EmptySeq
      <3>2. DOMAIN new_items'[s] = 1..Len(new_items'[s])
        BY <3>1, LenProperties
      <3> QED  BY <3>1, <3>2
    <2>3. Unsaved(s)' = {}
      BY <2>2 DEF Unsaved
    <2>4. \A r \in Shells \ {s} :
            new_items'[r] = new_items[r] /\ first_unwritten'[r] = first_unwritten[r]
      BY <1>0, <2>1
    <2> QED  BY <2>1, <2>3, <2>4, QuietOthers
  <1>7. CASE Tick
    BY <1>1, <1>7 DEF Tick, saving, ghosts
  <1>8. ASSUME NEW s \in Shells, LoadOld(s)  PROVE  QuietInv'
    BY <1>1, <1>8 DEF LoadOld, saving, ghosts
  \* A save goes on.
  <1>9. ASSUME NEW s \in Shells, pc'[s] # "idle",
               \A r \in Shells \ {s} :
                 /\ new_items'[r] = new_items[r] /\ first_unwritten'[r] = first_unwritten[r]
                 /\ pc'[r] = pc[r] /\ skipped'[r] = skipped[r] /\ detecting'[r] = detecting[r]
        PROVE  QuietInv'
    BY <1>9, QuietOthers DEF Quiet
  <1>10. ASSUME NEW s \in Shells, AppendOpen(s) \/ AppendLock(s) \/ RewriteReopen(s) \/ RewriteLock(s)
         PROVE  QuietInv'
    <2>1. UNCHANGED <<items, skipped, detecting>>
      BY <1>10 DEF AppendOpen, AppendLock, RewriteReopen, RewriteLock, ghosts
    <2>2. \E label \in Labels \ {"idle"} : pc' = [pc EXCEPT ![s] = label]
      <3>1. {"append", "append_lock", "append_write", "rewrite", "rewrite_lock", "rename"}
              \subseteq Labels \ {"idle"}
        BY DEF Labels
      <3> QED  BY <1>10, <3>1 DEF AppendOpen, AppendLock, RewriteReopen, RewriteLock, Goto
    <2>3. pc'[s] # "idle" /\ \A r \in Shells \ {s} : pc'[r] = pc[r]
      BY <1>0, <2>2
    <2> QED  BY <1>9, <2>1, <2>3 DEF items
  \* It ends with all items saved.
  <1>11. ASSUME NEW s \in Shells, EndSave(s, Len(new_items[s])), UNCHANGED <<skipped, detecting>>
         PROVE  QuietInv'
    <2>1. Len(new_items[s]) \in 0..Len(new_items[s])
      <3>1. Len(new_items[s]) \in Nat
        BY <1>0, ItemsFacts
      <3> QED  BY <3>1
    <2>2. /\ ItemsType'
          /\ \/ new_items'[s] = <<>> /\ first_unwritten'[s] = 0
             \/ new_items'[s] = new_items[s] /\ first_unwritten'[s] = Len(new_items[s])
          /\ \A r \in Shells \ {s} :
               /\ new_items'[r] = new_items[r] /\ first_unwritten'[r] = first_unwritten[r]
               /\ pc'[r] = pc[r]
      BY <1>0, <1>11, <2>1, EndSaveItems
    <2>3. Unsaved(s)' = {}
      <3>1. new_items'[s] \in Seq(Items)
        BY <2>2 DEF ItemsType
      <3>2. DOMAIN new_items'[s] = 1..Len(new_items'[s]) /\ Len(new_items'[s]) \in Nat
        BY <3>1, LenProperties
      <3>3. first_unwritten'[s] = Len(new_items'[s])
        BY <2>2, EmptySeq
      <3>4. \A i \in 1..Len(new_items'[s]) : ~ (i > first_unwritten'[s])
        BY <3>2, <3>3
      <3> QED  BY <3>2, <3>4 DEF Unsaved
    <2> QED  BY <1>11, <2>2, <2>3, QuietOthers
  <1>12. ASSUME NEW s \in Shells, AppendWrite(s)  PROVE  QuietInv'
    <2>1. UNCHANGED <<skipped, detecting>>
      BY <1>12 DEF AppendWrite
    <2>2. CASE EndSave(s, Len(new_items[s]))
      BY <1>11, <2>1, <2>2
    <2>3. CASE /\ first_unwritten' = [first_unwritten EXCEPT ![s] = Len(new_items[s])]
               /\ pc' = [pc EXCEPT ![s] = "rewrite"] /\ UNCHANGED new_items
      <3>1. pc'[s] # "idle"
        BY <1>0, <2>3
      <3>2. \A r \in Shells \ {s} :
              /\ new_items'[r] = new_items[r] /\ first_unwritten'[r] = first_unwritten[r]
              /\ pc'[r] = pc[r]
        BY <1>0, <2>3
      <3> QED  BY <1>9, <2>1, <3>1, <3>2
    <2> QED  BY <1>12, <2>2, <2>3 DEF AppendWrite, Goto
  <1>13. ASSUME NEW s \in Shells, RewriteRename(s)  PROVE  QuietInv'
    BY <1>11, <1>13 DEF RewriteRename
  \* It is given up.
  <1>14. ASSUME NEW s \in Shells, AbortSave(s), UNCHANGED detecting  PROVE  QuietInv'
    <2>1. first_unwritten[s] \in 0..Len(new_items[s]) /\ EndSave(s, first_unwritten[s])
      BY <1>0, <1>14, ItemsFacts DEF AbortSave
    <2>2. \A r \in Shells \ {s} :
            /\ new_items'[r] = new_items[r] /\ first_unwritten'[r] = first_unwritten[r]
            /\ pc'[r] = pc[r]
      BY <1>0, <2>1, EndSaveItems
    <2>3. skipped'[s] /\ \A r \in Shells \ {s} : skipped'[r] = skipped[r]
      BY <1>0, <1>14 DEF AbortSave
    <2> QED  BY <1>14, <2>2, <2>3, QuietOthers DEF Quiet
  <1>15. ASSUME NEW s \in Shells, RewriteOpen(s) \/ RewriteRead(s)  PROVE  QuietInv'
    <2>1. UNCHANGED detecting
      BY <1>15 DEF RewriteOpen, RewriteRead
    <2>2. CASE AbortSave(s)
      BY <1>14, <2>1, <2>2
    <2>3. CASE ~AbortSave(s)
      <3>1. /\ UNCHANGED <<new_items, first_unwritten, skipped>>
            /\ pc' = [pc EXCEPT ![s] = "read"] \/ pc' = [pc EXCEPT ![s] = "reopen"]
        BY <1>15, <2>3 DEF RewriteOpen, RewriteRead, Goto
      <3>2. pc'[s] # "idle" /\ \A r \in Shells \ {s} : pc'[r] = pc[r]
        BY <1>0, <3>1
      <3> QED  BY <1>9, <2>1, <3>1, <3>2
    <2> QED  BY <2>2, <2>3
  <1>16. ASSUME NEW s \in Shells, SaveStep(s)  PROVE  QuietInv'
    BY <1>10, <1>12, <1>13, <1>15, <1>16 DEF SaveStep
  <1> QED  BY <1>3, <1>4, <1>5, <1>6, <1>7, <1>8, <1>16 DEF Next

(* A command that is to be kept does not stay unsaved once its shell has      *)
(* nothing under way: no save in progress and no detection of paths, and no   *)
(* save that was left out or given up.                                        *)
THEOREM NothingStaysUnsaved == Spec => []QuiescentSaved
  <1>1. Init => TypeInv /\ QuietInv
    <2> SUFFICES ASSUME Init  PROVE  QuietInv
      BY TypeInvInit
    <2>1. ASSUME NEW s \in Shells  PROVE  Unsaved(s) = {}
      <3>1. new_items[s] = <<>> /\ Len(<<>>) = 0 /\ DOMAIN new_items[s] = 1..Len(new_items[s])
        BY <2>1, EmptySeq, TypeInvInit, ItemsFacts DEF Init, TypeInv
      <3> QED  BY <3>1 DEF Unsaved
    <2> QED  BY <2>1 DEF QuietInv
  <1>2. TypeInv /\ QuietInv /\ [Next]_vars => TypeInv' /\ QuietInv'
    <2> SUFFICES ASSUME TypeInv, QuietInv, [Next]_vars  PROVE  QuietInv'
      BY TypeInvNext
    <2>1. CASE UNCHANGED vars
      <3>1. \A r \in Shells : Quiet(r)' => Unsaved(r)' = {}
        BY <2>1, QuietStill DEF QuietInv, vars, items, saving, ghosts
      <3> QED  BY <3>1 DEF QuietInv
    <2> QED  BY <2>1, QuietNext
  <1>3. QuietInv => QuiescentSaved
    BY DEF QuietInv, QuiescentSaved, Quiet
  <1> QED  BY <1>1, <1>2, <1>3, PTL DEF Spec

-----------------------------------------------------------------------------
(* What was written stays.  A save goes from its look at the path to its     *)
(* rename while others append and rename; what it has learnt about the file  *)
(* at the path holds as long as the inode and the size are those it noted.   *)
Mutable == {"append_write", "rename"}
Start == {"idle", "append", "rewrite"}
Reading == {"read", "reopen", "rewrite_lock", "rename"}

PathInv == path # NoFile => path <= made

(* The last step of a save is made under the lock of the file it opened. *)
LockInv ==
  \A f \in Inodes : \A s \in Shells : pc[s] \in Mutable /\ fd[s] = f => s \in lock[f]

(* The temporary file has the texts of the file at the path that the shell  *)
(* does not delete, and those of its own unsaved items.                      *)
Covers(s) ==
  {t \in TextsOf(files[path]) : deleted[s][t] = "no"} \cup TextsOf(UnsavedEntries(s))
    \subseteq TextsOf(tmp[s])

SaveInv(s) ==
  /\ pc[s] \notin Start => path # NoFile
  /\ pc[s] \in Reading =>
       /\ orig[s][1] # NoFile /\ orig[s][1] <= made
       /\ path = orig[s][1] => Cardinality(files[path]) >= orig[s][2]
  /\ pc[s] = "read" => fd[s] = orig[s][1]
  /\ pc[s] = "rewrite_lock" /\ path = orig[s][1] => fd[s] = path
  /\ pc[s] \in {"reopen", "rewrite_lock"} /\ Id(path) = orig[s] => Covers(s)
  /\ pc[s] = "append_write" => fd[s] = path
  /\ pc[s] = "rename" => fd[s] = path /\ Covers(s)

KeptInv == ~raced => WrittenKept /\ \A s \in Shells : SaveInv(s)

WrittenInv == TypeInv /\ PathInv /\ LockInv /\ KeptInv

(* What the invariant says of a shell stays the same. *)
Same(r) ==
  /\ pc'[r] = pc[r] /\ fd'[r] = fd[r] /\ orig'[r] = orig[r] /\ tmp'[r] = tmp[r]
  /\ deleted'[r] = deleted[r]
  /\ new_items'[r] = new_items[r] /\ first_unwritten'[r] = first_unwritten[r]

LEMMA SameUnsaved ==
  ASSUME NEW r \in Shells, Same(r)
  PROVE  UnsavedEntries(r)' = UnsavedEntries(r)
  BY DEF Same, UnsavedEntries, Unsaved

LEMMA SameSaving ==
  ASSUME NEW r \in Shells, SaveInv(r), Same(r), UNCHANGED <<path, files, made>>
  PROVE  SaveInv(r)'
  <1>1. Covers(r)' = Covers(r)
    BY SameUnsaved DEF Covers, Same
  <1>2. Id(path)' = Id(path)
    BY DEF Id
  <1> QED  BY <1>1, <1>2 DEF SaveInv, Same

LEMMA StartSaving ==
  ASSUME NEW r \in Shells, pc'[r] \in Start
  PROVE  SaveInv(r)'
  BY DEF SaveInv, Start, Reading

(* Two shells do not have the lock of one file. *)
LEMMA LockIsOfOne ==
  ASSUME DiskType, FiniteInv, NEW f \in Inodes, NEW s \in lock[f], NEW r \in lock[f]
  PROVE  r = s
  <1>1. IsFiniteSet(lock[f]) /\ Cardinality(lock[f]) <= 1 /\ Cardinality(lock[f]) \in Nat
    BY FS_CardinalityType DEF DiskType, FiniteInv
  <1>2. IsFiniteSet({s}) /\ Cardinality({s}) = 1 /\ {s} \in SUBSET lock[f]
    BY FS_Singleton
  <1>3. Cardinality(lock[f]) = 1
    BY <1>1, <1>2, FS_Subset
  <1>4. {s} = lock[f]
    BY <1>1, <1>2, <1>3, FS_Subset
  <1> QED  BY <1>4

(* The operations of the user: they find and leave their shell without a     *)
(* file, and the disk as it is.                                              *)
LEMMA OpsStart ==
  ASSUME TypeInv, NEW s \in Shells,
         \/ \E t \in Texts, m \in Modes, how \in {"detect", "plain", "sync"} : AddCommand(s, t, m, how)
         \/ \E m \in Modes : DetectionEnds(s, m)
         \/ \E t \in Texts : Delete(s, t)
         \/ SaveNow(s) \/ ClearSession(s) \/ Incorporate(s)
  PROVE  /\ UNCHANGED <<disk, written, raced>>
         /\ pc'[s] \in Start
         /\ \A r \in Shells \ {s} : Same(r)
  <1>0. TypeOK /\ deleted \in [Shells -> [Texts -> {"no", "session", "all"}]]
    BY DEF TypeInv, TypeOK, ShellType
  <1>1. ASSUME UNCHANGED <<disk, fd, orig, tmp, written, raced>>, pc[s] = "idle",
               NEW its, NEW n, Updated(s, its, n),
               \A r \in Shells \ {s} : deleted'[r] = deleted[r]
        PROVE  /\ UNCHANGED <<disk, written, raced>>
               /\ pc'[s] \in Start
               /\ \A r \in Shells \ {s} : Same(r)
    BY <1>1 DEF Updated, Start, Same
  <1>2. ASSUME NEW t \in Texts, NEW m \in Modes, NEW how \in {"detect", "plain", "sync"},
               AddCommand(s, t, m, how)
        PROVE  /\ UNCHANGED <<disk, written, raced>>
               /\ pc'[s] \in Start
               /\ \A r \in Shells \ {s} : Same(r)
    <2>1. PICK its, n : Updated(s, its, n)
      BY <1>0, <1>2, AddCommandItems
    <2>2. UNCHANGED <<disk, fd, orig, tmp, written, raced, deleted>> /\ pc[s] = "idle"
      BY <1>2 DEF AddCommand
    <2> QED  BY <1>1, <2>1, <2>2
  <1>3. ASSUME NEW m \in Modes, DetectionEnds(s, m)
        PROVE  /\ UNCHANGED <<disk, written, raced>>
               /\ pc'[s] \in Start
               /\ \A r \in Shells \ {s} : Same(r)
    <2>1. Updated(s, new_items[s], first_unwritten[s])
      BY <1>0, <1>3, DetectionEndsItems
    <2>2. UNCHANGED <<disk, fd, orig, tmp, written, raced, deleted>> /\ pc[s] = "idle"
      BY <1>3 DEF DetectionEnds
    <2> QED  BY <1>1, <2>1, <2>2
  <1>4. ASSUME SaveNow(s) \/ (\E t \in Texts : Delete(s, t)) \/ ClearSession(s) \/ Incorporate(s)
        PROVE  /\ UNCHANGED <<disk, written, raced>>
               /\ pc'[s] \in Start
               /\ \A r \in Shells \ {s} : Same(r)
    <2>1. Updated(s, new_items[s], first_unwritten[s])
      BY <1>0, <1>4, OpsSave, OpSaveItems
    <2>2. UNCHANGED <<disk, fd, orig, tmp, written, raced>> /\ pc[s] = "idle"
      BY <1>4 DEF SaveNow, Delete, ClearSession, Incorporate, UserOp
    <2>3. \A r \in Shells \ {s} : deleted'[r] = deleted[r]
      <3>1. CASE SaveNow(s) \/ Incorporate(s)
        BY <3>1 DEF SaveNow, Incorporate
      <3>2. ASSUME NEW t \in Texts, Delete(s, t)
            PROVE  \A r \in Shells \ {s} : deleted'[r] = deleted[r]
        BY <1>0, <3>2 DEF Delete
      <3>3. CASE ClearSession(s)
        BY <1>0, <3>3 DEF ClearSession
      <3> QED  BY <1>4, <3>1, <3>2, <3>3
    <2> QED  BY <1>1, <2>1, <2>2, <2>3
  <1> QED  BY <1>2, <1>3, <1>4

(* A step of a save moves its own shell only. *)
LEMMA StepsAreOwn ==
  ASSUME TypeInv, NEW s \in Shells, SaveStep(s) \/ Clear(s) \/ Crash(s)
  PROVE  /\ \A r \in Shells \ {s} : Same(r)
         /\ ~Clear(s) => raced' = raced
  <1>0. /\ TypeOK /\ deleted \in [Shells -> [Texts -> {"no", "session", "all"}]]
        /\ pc \in [Shells -> Labels] /\ fd \in [Shells -> Inodes \cup {NoFile}]
        /\ orig \in [Shells -> (Inodes \cup {NoFile}) \X Nat]
        /\ tmp \in [Shells -> SUBSET Entries]
        /\ new_items \in [Shells -> Seq(Items)] /\ first_unwritten \in [Shells -> Nat]
    BY DEF TypeInv, TypeOK, ShellType, SavingType, ItemsType
  <1>1. ASSUME NEW n \in 0..Len(new_items[s]), EndSave(s, n),
               \A r \in Shells \ {s} : deleted'[r] = deleted[r]
        PROVE  \A r \in Shells \ {s} : Same(r)
    BY <1>0, <1>1, EndSaveItems DEF Same
  <1>2. Len(new_items[s]) \in 0..Len(new_items[s])
    <2>1. Len(new_items[s]) \in Nat
      BY <1>0, ItemsFacts
    <2> QED  BY <2>1
  <1>3. ASSUME AbortSave(s), UNCHANGED deleted  PROVE  \A r \in Shells \ {s} : Same(r)
    <2>1. first_unwritten[s] \in 0..Len(new_items[s]) /\ EndSave(s, first_unwritten[s])
      BY <1>0, <1>3, ItemsFacts DEF AbortSave
    <2> QED  BY <1>1, <1>3, <2>1
  <1>4. CASE AppendOpen(s) \/ AppendLock(s) \/ RewriteReopen(s) \/ RewriteLock(s)
    <2>1. UNCHANGED <<items, orig, tmp, raced>>
      BY <1>4 DEF AppendOpen, AppendLock, RewriteReopen, RewriteLock, ghosts
    <2>2. /\ \A r \in Shells \ {s} : pc'[r] = pc[r]
          /\ \A r \in Shells \ {s} : fd'[r] = fd[r]
      <3>1. \E label : pc' = [pc EXCEPT ![s] = label]
        BY <1>4 DEF AppendOpen, AppendLock, RewriteReopen, RewriteLock, Goto
      <3>2. fd' = fd \/ fd' = [fd EXCEPT ![s] = path]
        BY <1>4 DEF AppendOpen, AppendLock, RewriteReopen, RewriteLock
      <3> QED  BY <1>0, <3>1, <3>2
    <2> QED  BY <1>4, <2>1, <2>2 DEF Same, items, AppendOpen, AppendLock, RewriteReopen, RewriteLock, Clear, UserOp
  <1>5. CASE AppendWrite(s)
    <2>1. UNCHANGED <<raced, deleted>>
      BY <1>5 DEF AppendWrite
    <2>2. CASE EndSave(s, Len(new_items[s]))
      BY <1>1, <1>2, <2>1, <2>2
    <2>3. CASE /\ first_unwritten' = [first_unwritten EXCEPT ![s] = Len(new_items[s])]
               /\ fd' = [fd EXCEPT ![s] = NoFile]
               /\ pc' = [pc EXCEPT ![s] = "rewrite"]
               /\ UNCHANGED <<new_items, orig, tmp>>
      BY <1>0, <2>1, <2>3 DEF Same
    <2> QED  BY <1>5, <2>1, <2>2, <2>3 DEF AppendWrite, Goto
  <1>6. CASE RewriteRename(s)
    <2>1. /\ EndSave(s, Len(new_items[s])) /\ raced' = raced
          /\ deleted' = [deleted EXCEPT ![s] = NoneDeleted]
      BY <1>6 DEF RewriteRename
    <2>2. \A r \in Shells \ {s} : deleted'[r] = deleted[r]
      BY <1>0, <2>1
    <2> QED  BY <1>1, <1>2, <2>1, <2>2
  <1>7. CASE RewriteOpen(s) \/ RewriteRead(s)
    <2>1. UNCHANGED <<raced, deleted>>
      BY <1>7 DEF RewriteOpen, RewriteRead
    <2>2. CASE AbortSave(s)
      BY <1>3, <2>1, <2>2
    <2>3. CASE ~AbortSave(s)
      <3>1. UNCHANGED <<new_items, first_unwritten>>
        BY <1>7, <2>3 DEF RewriteOpen, RewriteRead
      <3>2. \E label : pc' = [pc EXCEPT ![s] = label]
        BY <1>7, <2>3 DEF RewriteOpen, RewriteRead, Goto
      <3>3. \E f : fd' = fd \/ fd' = [fd EXCEPT ![s] = f]
        BY <1>7, <2>3 DEF RewriteOpen, RewriteRead
      <3>4. \E id : orig' = orig \/ orig' = [orig EXCEPT ![s] = id]
        BY <1>7, <2>3 DEF RewriteOpen, RewriteRead
      <3>5. \E S : tmp' = tmp \/ tmp' = [tmp EXCEPT ![s] = S]
        BY <1>7, <2>3 DEF RewriteOpen, RewriteRead
      <3>6. \A r \in Shells \ {s} :
              /\ pc'[r] = pc[r] /\ fd'[r] = fd[r] /\ orig'[r] = orig[r] /\ tmp'[r] = tmp[r]
        BY <1>0, <3>2, <3>3, <3>4, <3>5
      <3> QED  BY <2>1, <3>1, <3>6 DEF Same
    <2> QED  BY <2>2, <2>3
  <1>8. CASE Clear(s)
    <2>1. /\ new_items' = [new_items EXCEPT ![s] = <<>>]
          /\ first_unwritten' = [first_unwritten EXCEPT ![s] = 0]
          /\ deleted' = [deleted EXCEPT ![s] = NoneDeleted]
          /\ UNCHANGED <<pc, fd, orig, tmp>>
      BY <1>8 DEF Clear, saving
    <2> QED  BY <1>0, <1>8, <2>1 DEF Same
  <1>9. CASE Crash(s)
    <2>1. /\ new_items' = [new_items EXCEPT ![s] = <<>>]
          /\ first_unwritten' = [first_unwritten EXCEPT ![s] = 0]
          /\ deleted' = [deleted EXCEPT ![s] = NoneDeleted]
          /\ pc' = [pc EXCEPT ![s] = "idle"] /\ fd' = [fd EXCEPT ![s] = NoFile]
          /\ orig' = [orig EXCEPT ![s] = InvalidId] /\ tmp' = [tmp EXCEPT ![s] = {}]
          /\ raced' = raced
      BY <1>9 DEF Crash, Goto
    <2> QED  BY <1>0, <2>1 DEF Same
  <1> QED  BY <1>4, <1>5, <1>6, <1>7, <1>8, <1>9 DEF SaveStep

(* A step that leaves the disk alone. *)
LEMMA CalmStep ==
  ASSUME WrittenInv, NEW s \in Shells, UNCHANGED <<path, files, made, written, raced>>,
         \A r \in Shells \ {s} : Same(r), ~raced /\ SaveInv(s) => SaveInv(s)'
  PROVE  PathInv' /\ KeptInv'
  <1>1. PathInv'
    BY DEF WrittenInv, PathInv
  <1>2. ASSUME ~raced  PROVE  WrittenKept'
    BY <1>2 DEF WrittenInv, KeptInv, WrittenKept, Content
  <1>3. ASSUME ~raced, NEW r \in Shells  PROVE  SaveInv(r)'
    BY <1>3, SameSaving DEF WrittenInv, KeptInv
  <1> QED  BY <1>1, <1>2, <1>3 DEF KeptInv

(* A step after which the others have the locks they had. *)
LEMMA LockStays ==
  ASSUME LockInv, NEW s \in Shells, \A r \in Shells \ {s} : Same(r),
         \A f \in Inodes : \A r \in lock[f] \ {s} : r \in lock'[f],
         \A f \in Inodes : pc'[s] \in Mutable /\ fd'[s] = f => s \in lock'[f]
  PROVE  LockInv'
  <1>1. ASSUME NEW f \in Inodes, NEW r \in Shells, pc'[r] \in Mutable /\ fd'[r] = f
        PROVE  r \in lock'[f]
    <2>1. CASE r = s
      BY <1>1, <2>1
    <2>2. CASE r # s
      BY <1>1, <2>2 DEF LockInv, Same
    <2> QED  BY <2>1, <2>2
  <1> QED  BY <1>1 DEF LockInv

LEMMA UnlockStays ==
  ASSUME TypeInv, LockInv, NEW s \in Shells, \A r \in Shells \ {s} : Same(r),
         Unlock(s) \/ lock' = lock, pc'[s] \notin Mutable
  PROVE  LockInv'
  <1>1. \A f \in Inodes : \A r \in lock[f] \ {s} : r \in lock'[f]
    BY DEF Unlock
  <1> QED  BY <1>1, LockStays

LEMMA StoredFacts ==
  ASSUME TypeInv
  PROVE  /\ TypeOK /\ DiskType /\ FiniteInv
         /\ path \in Inodes \cup {NoFile} /\ made \in Nat /\ NoFile \notin Inodes
         /\ files \in [Inodes -> SUBSET Entries] /\ \A f \in Inodes : f \in Nat
         /\ pc \in [Shells -> Labels] /\ fd \in [Shells -> Inodes \cup {NoFile}]
         /\ orig \in [Shells -> (Inodes \cup {NoFile}) \X Nat]
         /\ tmp \in [Shells -> SUBSET Entries]
         /\ \A f \in Inodes : IsFiniteSet(files[f]) /\ Cardinality(files[f]) \in Nat
         /\ \A s \in Shells : pc[s] \in {"append_lock", "append_write", "read", "rewrite_lock"}
                              => fd[s] \in Inodes
  <1>1. TypeOK /\ DiskType /\ FiniteInv /\ SavingType /\ FdInv
    BY DEF TypeInv, TypeOK
  <1>2. NoFile \notin Inodes /\ (\A f \in Inodes : f \in Nat) /\ MaxInodes \in Nat
    BY HistoryAssumption DEF Inodes
  <1>3. path \in Inodes \cup {NoFile} /\ made \in Nat /\ files \in [Inodes -> SUBSET Entries]
    BY <1>1, <1>2 DEF DiskType
  <1>4. /\ pc \in [Shells -> Labels] /\ fd \in [Shells -> Inodes \cup {NoFile}]
        /\ orig \in [Shells -> (Inodes \cup {NoFile}) \X Nat]
        /\ tmp \in [Shells -> SUBSET Entries]
    BY <1>1 DEF SavingType
  <1>5. \A f \in Inodes : IsFiniteSet(files[f]) /\ Cardinality(files[f]) \in Nat
    BY <1>1, FS_CardinalityType DEF FiniteInv
  <1>6. \A s \in Shells : pc[s] \in {"append_lock", "append_write", "read", "rewrite_lock"}
                          => fd[s] \in Inodes
    BY <1>1, <1>4 DEF FdInv
  <1> QED  BY <1>1, <1>2, <1>3, <1>4, <1>5, <1>6

(* The appending save up to its write. *)
LEMMA AppendSteps ==
  ASSUME WrittenInv, NEW s \in Shells, AppendOpen(s) \/ AppendLock(s)
  PROVE  PathInv' /\ LockInv' /\ KeptInv'
  <1>0. TypeInv /\ LockInv /\ \A r \in Shells \ {s} : Same(r)
    BY StepsAreOwn DEF WrittenInv, SaveStep
  <1>1. /\ path \in Inodes \cup {NoFile} /\ pc \in [Shells -> Labels]
        /\ fd \in [Shells -> Inodes \cup {NoFile}]
        /\ pc[s] = "append_lock" => fd[s] \in Inodes
        /\ NoFile \notin Inodes /\ lock \in [Inodes -> SUBSET Shells]
    BY <1>0, StoredFacts DEF DiskType
  <1>2. UNCHANGED <<path, files, made, written, raced>>
    BY DEF AppendOpen, AppendLock, disk, ghosts
  <1>3. CASE AppendOpen(s)
    <2>1. /\ fd'[s] = path /\ pc'[s] = (IF path = NoFile THEN "rewrite" ELSE "append_lock")
          /\ lock' = lock
      BY <1>1, <1>3 DEF AppendOpen, Goto, disk
    <2>2. SaveInv(s)'
      BY <1>2, <2>1 DEF SaveInv, Start, Reading
    <2>3. LockInv'
      BY <1>0, <2>1, UnlockStays DEF Mutable
    <2> QED  BY <1>0, <1>2, <2>2, <2>3, CalmStep
  <1>4. CASE AppendLock(s)
    <2>1. pc[s] = "append_lock" /\ lock[fd[s]] = {} /\ fd' = fd
      BY <1>4 DEF AppendLock
    <2>2. CASE fd[s] = path /\ lock' = [lock EXCEPT ![path] = {s}] /\ Goto(s, "append_write")
      <3>1. pc'[s] = "append_write" /\ fd'[s] = path /\ path \in Inodes /\ path # NoFile
        BY <1>1, <2>1, <2>2 DEF Goto
      <3>2. SaveInv(s)'
        BY <1>2, <3>1 DEF SaveInv, Start, Reading
      <3>3. \A f \in Inodes : lock'[f] = IF f = path THEN {s} ELSE lock[f]
        BY <1>1, <2>2
      <3>4. \A f \in Inodes : \A r \in lock[f] \ {s} : r \in lock'[f]
        BY <2>1, <2>2, <3>3
      <3>5. \A f \in Inodes : pc'[s] \in Mutable /\ fd'[s] = f => s \in lock'[f]
        BY <3>1, <3>3
      <3>6. LockInv'
        BY <1>0, <3>4, <3>5, LockStays
      <3> QED  BY <1>0, <1>2, <3>2, <3>6, CalmStep
    <2>3. CASE Goto(s, "append") /\ lock' = lock
      <3>1. pc'[s] = "append"
        BY <1>1, <2>3 DEF Goto
      <3>2. SaveInv(s)'
        BY <3>1, StartSaving DEF Start
      <3>3. LockInv'
        BY <1>0, <2>3, <3>1, UnlockStays DEF Mutable
      <3> QED  BY <1>0, <1>2, <3>2, <3>3, CalmStep
    <2> QED  BY <1>4, <2>2, <2>3 DEF AppendLock
  <1> QED  BY <1>3, <1>4

(* A save that ends, or starts over, without having changed the disk. *)
LEMMA EndStep ==
  ASSUME WrittenInv, NEW s \in Shells, UNCHANGED <<path, files, made, written, raced>>,
         \A r \in Shells \ {s} : Same(r), pc'[s] \in Start, Unlock(s) \/ lock' = lock
  PROVE  PathInv' /\ LockInv' /\ KeptInv'
  <1>1. SaveInv(s)'
    BY StartSaving
  <1>2. pc'[s] \notin Mutable
    BY DEF Mutable, Start
  <1>3. LockInv'
    BY <1>2, UnlockStays DEF WrittenInv
  <1> QED  BY <1>1, <1>3, CalmStep

(* The write: the file at the path grows, and the shells that were about to  *)
(* rewrite it will notice.                                                   *)
LEMMA AppendWriteStep ==
  ASSUME WrittenInv, NEW s \in Shells, AppendWrite(s)
  PROVE  PathInv' /\ LockInv' /\ KeptInv'
  <1>0. TypeInv /\ PathInv /\ LockInv /\ KeptInv /\ \A r \in Shells \ {s} : Same(r)
    BY StepsAreOwn DEF WrittenInv, SaveStep
  <1>1. /\ TypeOK /\ DiskType /\ FiniteInv /\ pc \in [Shells -> Labels] /\ fd[s] \in Inodes
        /\ files \in [Inodes -> SUBSET Entries]
        /\ \A f \in Inodes : IsFiniteSet(files[f]) /\ Cardinality(files[f]) \in Nat
        /\ path \in Inodes \cup {NoFile} /\ NoFile \notin Inodes
        /\ orig \in [Shells -> (Inodes \cup {NoFile}) \X Nat]
    BY <1>0, StoredFacts DEF AppendWrite
  <1>2. /\ pc[s] = "append_write" /\ Unlock(s) /\ UNCHANGED <<path, made, raced>>
    BY DEF AppendWrite
  <1>3. CASE /\ pc' = [pc EXCEPT ![s] = "rewrite"] /\ UNCHANGED <<files, written>>
    <2>1. pc'[s] \in Start
      BY <1>1, <1>3 DEF Start
    <2> QED  BY <1>0, <1>2, <1>3, <2>1, EndStep
  <1>4. CASE /\ files' = [files EXCEPT ![fd[s]] = @ \cup UnsavedEntries(s)]
             /\ written' = written \cup TextsOf(UnsavedEntries(s))
             /\ EndSave(s, Len(new_items[s]))
    <2>1. pc'[s] = "idle"
      BY <1>1, <1>4 DEF EndSave, Goto
    <2>2. LockInv'
      BY <1>0, <1>2, <2>1, UnlockStays DEF Mutable
    <2>3. PathInv'
      BY <1>0, <1>2 DEF PathInv
    <2>4. ASSUME ~raced  PROVE  WrittenKept' /\ \A r \in Shells : SaveInv(r)'
      <3>1. WrittenKept /\ \A r \in Shells : SaveInv(r)
        BY <1>0, <2>4 DEF KeptInv
      <3>2. fd[s] = path /\ path \in Inodes /\ path # NoFile
        BY <1>1, <1>2, <3>1 DEF SaveInv
      <3>3. /\ files'[path] = files[path] \cup UnsavedEntries(s)
            /\ files[path] \in SUBSET files'[path]
        BY <1>1, <1>4, <3>2
      <3>4. WrittenKept'
        <4>1. written \subseteq TextsOf(files[path])
          BY <2>4, <3>1, <3>2 DEF WrittenKept, Content
        <4>2. TextsOf(files'[path]) = TextsOf(files[path]) \cup TextsOf(UnsavedEntries(s))
          BY <3>3 DEF TextsOf
        <4> QED  BY <1>2, <1>4, <3>2, <4>1, <4>2 DEF WrittenKept, Content
      <3>5. IsFiniteSet(files'[path])
        <4>1. IsFiniteSet(UnsavedEntries(s))
          BY <1>1, UnsavedTypes
        <4>2. IsFiniteSet(files[path])
          BY <1>1, <3>2
        <4>3. IsFiniteSet(files[path] \cup UnsavedEntries(s))
          BY <4>1, <4>2, FS_Union
        <4> QED  BY <3>3, <4>3
      <3>6. /\ Cardinality(files'[path]) \in Nat
            /\ Cardinality(files[path]) <= Cardinality(files'[path])
            /\ Cardinality(files'[path]) = Cardinality(files[path]) => files'[path] = files[path]
        BY <3>3, <3>5, FS_CardinalityType, FS_Subset
      <3>7. ASSUME NEW r \in Shells, r # s  PROVE  SaveInv(r)'
        <4>1. Same(r) /\ SaveInv(r)
          BY <1>0, <3>1, <3>7
        <4>2. pc[r] \notin Mutable
          <5>1. s \in lock[path]
            BY <1>0, <1>2, <3>2 DEF LockInv, Mutable
          <5>2. ASSUME pc[r] \in Mutable  PROVE  FALSE
            <6>1. fd[r] = path
              BY <4>1, <5>2 DEF SaveInv, Mutable
            <6>2. r \in lock[path]
              BY <1>0, <3>2, <5>2, <6>1 DEF LockInv
            <6> QED  BY <1>1, <3>2, <3>7, <5>1, <6>2, LockIsOfOne
          <5> QED  BY <5>2
        <4>3. orig[r][2] \in Nat
          BY <1>1
        <4>4. pc'[r] \in Reading => (path = orig[r][1] => Cardinality(files'[path]) >= orig[r][2])
          BY <1>1, <3>2, <3>6, <4>1, <4>3 DEF SaveInv, Same
        <4>5. ASSUME pc[r] \in {"reopen", "rewrite_lock"}, Id(path)' = orig[r]
              PROVE  Covers(r)'
          <5>1. Id(path)' = <<path, Cardinality(files'[path])>> /\ Id(path) = <<path, Cardinality(files[path])>>
            BY <1>2, <3>2 DEF Id
          <5>2. path = orig[r][1] /\ Cardinality(files'[path]) = orig[r][2]
            BY <4>5, <5>1
          <5>3. Cardinality(files[path]) >= orig[r][2]
            BY <4>1, <4>5, <5>2 DEF SaveInv, Reading
          <5>4. files'[path] = files[path]
            <6>1. Cardinality(files[path]) >= Cardinality(files'[path])
              BY <5>2, <5>3
            <6>2. Cardinality(files[path]) \in Nat
              BY <1>1, <3>2
            <6>3. Cardinality(files'[path]) = Cardinality(files[path])
              BY <3>6, <6>1, <6>2
            <6> QED  BY <3>6, <6>3
          <5>5. Id(path) = orig[r]
            BY <4>5, <5>1, <5>4
          <5>6. Covers(r)
            BY <4>1, <4>5, <5>5 DEF SaveInv
          <5> QED  BY <1>2, <4>1, <5>4, <5>6, SameUnsaved DEF Covers, Same
        <4> QED  BY <1>2, <4>1, <4>2, <4>4, <4>5 DEF SaveInv, Same, Mutable
      <3>8. SaveInv(s)'
        BY <2>1, StartSaving DEF Start
      <3> QED  BY <3>4, <3>7, <3>8
    <2> QED  BY <1>2, <2>2, <2>3, <2>4 DEF KeptInv
  <1> QED  BY <1>3, <1>4 DEF AppendWrite, Goto

(* The look at the file to rewrite, or a new one. *)
LEMMA RewriteOpenStep ==
  ASSUME WrittenInv, NEW s \in Shells, RewriteOpen(s)
  PROVE  PathInv' /\ LockInv' /\ KeptInv'
  <1>0. TypeInv /\ PathInv /\ LockInv /\ KeptInv /\ \A r \in Shells \ {s} : Same(r)
    BY StepsAreOwn DEF WrittenInv, SaveStep
  <1>1. /\ TypeOK /\ pc \in [Shells -> Labels] /\ files \in [Inodes -> SUBSET Entries]
        /\ fd \in [Shells -> Inodes \cup {NoFile}]
        /\ \A f \in Inodes : IsFiniteSet(files[f]) /\ Cardinality(files[f]) \in Nat
        /\ path \in Inodes \cup {NoFile} /\ NoFile \notin Inodes /\ made \in Nat
        /\ orig \in [Shells -> (Inodes \cup {NoFile}) \X Nat]
    BY <1>0, StoredFacts
  <1>2. UNCHANGED <<files, lock, written, raced>>
    BY DEF RewriteOpen
  <1>3. CASE /\ path # NoFile
             /\ fd' = [fd EXCEPT ![s] = path] /\ orig' = [orig EXCEPT ![s] = Id(path)]
             /\ Goto(s, "read") /\ UNCHANGED <<path, made>>
    <2>1. /\ fd'[s] = path /\ pc'[s] = "read" /\ orig'[s] = Id(path) /\ path \in Inodes
      BY <1>1, <1>3 DEF Goto
    <2>2. orig'[s][1] = path /\ orig'[s][2] = Cardinality(files[path])
      BY <1>3, <2>1 DEF Id
    <2>3. path <= made
      BY <1>0, <1>3 DEF PathInv
    <2>4. Cardinality(files'[path']) >= orig'[s][2]
      BY <1>1, <1>2, <1>3, <2>1, <2>2
    <2>5. SaveInv(s)'
      BY <1>3, <2>1, <2>2, <2>3, <2>4 DEF SaveInv, Start, Reading
    <2>6. LockInv'
      BY <1>0, <1>2, <2>1, UnlockStays DEF Mutable
    <2>7. PathInv' /\ KeptInv'
      BY <1>0, <1>2, <1>3, <2>5, CalmStep
    <2> QED  BY <2>6, <2>7
  \* No shell was past its look at a file that did not exist.
  <1>4. CASE /\ path = NoFile /\ made < MaxInodes /\ made' = made + 1 /\ path' = made'
             /\ fd' = [fd EXCEPT ![s] = path'] /\ orig' = [orig EXCEPT ![s] = <<path', 0>>]
             /\ Goto(s, "read")
    <2>1. /\ path' = made + 1 /\ path' \in Inodes /\ path' # NoFile
      BY <1>1, <1>4, HistoryAssumption DEF Inodes
    <2>2. fd'[s] = path' /\ pc'[s] = "read" /\ orig'[s] = <<path', 0>>
      BY <1>1, <1>4 DEF Goto
    <2>3. PathInv'
      BY <1>1, <1>4 DEF PathInv
    <2>4. LockInv'
      BY <1>0, <1>2, <2>2, UnlockStays DEF Mutable
    <2>5. Cardinality(files'[path']) >= 0
      BY <1>1, <1>2, <2>1
    <2>6. SaveInv(s)'
      BY <1>1, <1>4, <2>1, <2>2, <2>5 DEF SaveInv, Start, Reading
    <2>7. ASSUME ~raced  PROVE  WrittenKept' /\ \A r \in Shells : SaveInv(r)'
      <3>1. WrittenKept /\ \A r \in Shells : SaveInv(r)
        BY <1>0, <2>7 DEF KeptInv
      <3>2. written' = {}
        BY <1>2, <1>4, <2>7, <3>1 DEF WrittenKept, Content, TextsOf
      <3>3. ASSUME NEW r \in Shells, r # s  PROVE  SaveInv(r)'
        <4>1. pc'[r] = pc[r] /\ pc[r] \in Start
          BY <1>0, <1>4, <3>1, <3>3 DEF SaveInv, Same
        <4> QED  BY <4>1, StartSaving
      <3> QED  BY <2>6, <3>2, <3>3 DEF WrittenKept
    <2> QED  BY <1>2, <2>3, <2>4, <2>7 DEF KeptInv
  <1>5. CASE AbortSave(s) /\ UNCHANGED <<path, made>>
    <2>1. pc'[s] \in Start
      BY <1>1, <1>5 DEF AbortSave, EndSave, Goto, Start
    <2> QED  BY <1>0, <1>2, <1>5, <2>1, EndStep
  <1> QED  BY <1>3, <1>4, <1>5 DEF RewriteOpen

(* The texts that are written to the temporary file. *)
LEMMA ReadCovers ==
  ASSUME TypeInv, NEW s \in Shells, path \in Inodes,
         NEW S, S = Dedup({e \in files[path] : Stays(s, e)} \cup UnsavedEntries(s))
  PROVE  {t \in TextsOf(files[path]) : deleted[s][t] = "no"} \cup TextsOf(UnsavedEntries(s))
           \subseteq TextsOf(S)
  <1> DEFINE kept == {e \in files[path] : Stays(s, e)}
  <1>1. TypeOK /\ files[path] \in SUBSET Entries /\ IsFiniteSet(files[path])
    BY StoredFacts
  <1>2. kept \in SUBSET files[path]
    OBVIOUS
  <1>3. ASSUME NEW e \in files[path], deleted[s][e.text] = "no"  PROVE  e \in kept
    BY <1>3 DEF Stays
  <1>4. S = Dedup(kept \cup UnsavedEntries(s))
    OBVIOUS
  <1> HIDE DEF kept
  <1>5. IsFiniteSet(kept)
    BY <1>1, <1>2, FS_Subset
  <1>6. IsFiniteSet(UnsavedEntries(s)) /\ UnsavedEntries(s) \in SUBSET Entries
    BY <1>1, UnsavedTypes
  <1>7. IsFiniteSet(kept \cup UnsavedEntries(s)) /\ kept \cup UnsavedEntries(s) \in SUBSET Entries
    BY <1>1, <1>2, <1>5, <1>6, FS_Union
  <1>8. TextsOf(S) = TextsOf(kept \cup UnsavedEntries(s))
    BY <1>4, <1>7, DedupEntries
  <1>9. {t \in TextsOf(files[path]) : deleted[s][t] = "no"} \subseteq TextsOf(kept)
    BY <1>3 DEF TextsOf
  <1>10. TextsOf(kept \cup UnsavedEntries(s)) = TextsOf(kept) \cup TextsOf(UnsavedEntries(s))
    BY DEF TextsOf
  <1> QED  BY <1>8, <1>9, <1>10

LEMMA RewriteReadStep ==
  ASSUME WrittenInv, NEW s \in Shells, RewriteRead(s)
  PROVE  PathInv' /\ LockInv' /\ KeptInv'
  <1>0. TypeInv /\ LockInv /\ \A r \in Shells \ {s} : Same(r)
    BY StepsAreOwn DEF WrittenInv, SaveStep
  <1>1. /\ pc \in [Shells -> Labels] /\ fd[s] \in Inodes /\ pc[s] = "read"
        /\ tmp \in [Shells -> SUBSET Entries]
    BY <1>0, StoredFacts DEF RewriteRead
  <1>2. UNCHANGED <<path, files, made, lock, written, raced, deleted>>
    BY DEF RewriteRead, disk
  <1>3. CASE AbortSave(s)
    <2>1. pc'[s] \in Start
      BY <1>1, <1>3 DEF AbortSave, EndSave, Goto, Start
    <2> QED  BY <1>0, <1>2, <2>1, EndStep
  <1>4. CASE ~AbortSave(s)
    <2>1. /\ tmp' = [tmp EXCEPT ![s] =
                       Dedup({e \in files[fd[s]] : Stays(s, e)} \cup UnsavedEntries(s))]
          /\ pc' = [pc EXCEPT ![s] = "reopen"]
          /\ UNCHANGED <<fd, orig, new_items, first_unwritten>>
      BY <1>4 DEF RewriteRead, Goto
    <2>2. /\ pc'[s] = "reopen"
          /\ tmp'[s] = Dedup({e \in files[fd[s]] : Stays(s, e)} \cup UnsavedEntries(s))
      BY <1>1, <2>1
    <2>3. ASSUME SaveInv(s)  PROVE  SaveInv(s)'
      <3>1. /\ fd[s] = orig[s][1] /\ path # NoFile /\ orig[s][1] # NoFile /\ orig[s][1] <= made
            /\ path = orig[s][1] => Cardinality(files[path]) >= orig[s][2]
        BY <1>1, <2>3 DEF SaveInv, Start, Reading
      <3>2. ASSUME Id(path) = orig[s]  PROVE  Covers(s)'
        <4>1. path = fd[s] /\ path \in Inodes
          BY <1>1, <3>1, <3>2 DEF Id
        <4>2. {t \in TextsOf(files[path]) : deleted[s][t] = "no"} \cup TextsOf(UnsavedEntries(s))
                \subseteq TextsOf(tmp'[s])
          BY <1>0, <2>2, <4>1, ReadCovers
        <4>3. UnsavedEntries(s)' = UnsavedEntries(s)
          BY <2>1 DEF UnsavedEntries, Unsaved
        <4> QED  BY <1>2, <4>2, <4>3 DEF Covers
      <3>3. Id(path)' = Id(path)
        BY <1>2 DEF Id
      <3> QED  BY <1>2, <2>1, <2>2, <3>1, <3>2, <3>3 DEF SaveInv, Start, Reading
    <2>4. LockInv'
      BY <1>0, <1>2, <2>2, UnlockStays DEF Mutable
    <2> QED  BY <1>0, <1>2, <2>3, <2>4, CalmStep
  <1> QED  BY <1>3, <1>4

LEMMA RewriteLockSteps ==
  ASSUME WrittenInv, NEW s \in Shells, RewriteReopen(s) \/ RewriteLock(s)
  PROVE  PathInv' /\ LockInv' /\ KeptInv'
  <1>0. TypeInv /\ LockInv /\ \A r \in Shells \ {s} : Same(r)
    BY StepsAreOwn DEF WrittenInv, SaveStep
  <1>1. /\ pc \in [Shells -> Labels] /\ fd \in [Shells -> Inodes \cup {NoFile}]
        /\ pc[s] = "rewrite_lock" => fd[s] \in Inodes
        /\ path \in Inodes \cup {NoFile} /\ NoFile \notin Inodes
        /\ lock \in [Inodes -> SUBSET Shells]
    BY <1>0, StoredFacts DEF DiskType
  <1>2. UNCHANGED <<path, files, made, written, raced, deleted, orig, tmp, new_items, first_unwritten>>
    BY DEF RewriteReopen, RewriteLock, disk, ghosts, items
  <1>3. Id(path)' = Id(path) /\ Covers(s)' = Covers(s)
    <2>1. UnsavedEntries(s)' = UnsavedEntries(s)
      BY <1>2 DEF UnsavedEntries, Unsaved
    <2> QED  BY <1>2, <2>1 DEF Id, Covers
  <1>4. CASE RewriteReopen(s)
    <2>1. /\ pc[s] = "reopen" /\ fd'[s] = path /\ lock' = lock
          /\ pc'[s] = (IF path = NoFile THEN "rename" ELSE "rewrite_lock")
      BY <1>1, <1>4 DEF RewriteReopen, Goto, disk
    <2>2. ASSUME SaveInv(s)  PROVE  SaveInv(s)'
      <3>1. /\ path # NoFile /\ orig[s][1] # NoFile /\ orig[s][1] <= made
            /\ path = orig[s][1] => Cardinality(files[path]) >= orig[s][2]
            /\ Id(path) = orig[s] => Covers(s)
        BY <2>1, <2>2 DEF SaveInv, Start, Reading
      <3> QED  BY <1>2, <1>3, <2>1, <3>1 DEF SaveInv, Start, Reading
    <2>3. \A f \in Inodes : pc'[s] \in Mutable /\ fd'[s] = f => s \in lock'[f]
      BY <1>1, <2>1 DEF Mutable
    <2>4. LockInv'
      BY <1>0, <2>1, <2>3, LockStays
    <2> QED  BY <1>0, <1>2, <2>2, <2>4, CalmStep
  <1>5. CASE RewriteLock(s)
    <2>1. pc[s] = "rewrite_lock" /\ lock[fd[s]] = {} /\ fd' = fd /\ fd[s] \in Inodes
      BY <1>1, <1>5 DEF RewriteLock
    <2>2. CASE /\ Id(path) \in {orig[s], InvalidId} /\ lock' = [lock EXCEPT ![fd[s]] = {s}]
               /\ Goto(s, "rename")
      <3>1. pc'[s] = "rename"
        BY <1>1, <2>2 DEF Goto
      <3>2. ASSUME SaveInv(s)  PROVE  SaveInv(s)'
        <4>1. /\ path # NoFile /\ orig[s][1] # NoFile /\ orig[s][1] <= made
              /\ path = orig[s][1] => Cardinality(files[path]) >= orig[s][2]
              /\ path = orig[s][1] => fd[s] = path
              /\ Id(path) = orig[s] => Covers(s)
          BY <2>1, <3>2 DEF SaveInv, Start, Reading
        <4>2. Id(path)[1] = path /\ InvalidId[1] = NoFile
          BY <4>1 DEF Id, InvalidId
        <4>3. Id(path) = orig[s] /\ path = orig[s][1]
          BY <2>2, <4>1, <4>2
        <4> QED  BY <1>2, <1>3, <2>1, <3>1, <4>1, <4>3 DEF SaveInv, Start, Reading
      <3>3. \A f \in Inodes : lock'[f] = IF f = fd[s] THEN {s} ELSE lock[f]
        BY <1>1, <2>1, <2>2
      <3>4. \A f \in Inodes : \A r \in lock[f] \ {s} : r \in lock'[f]
        BY <2>1, <3>3
      <3>5. \A f \in Inodes : pc'[s] \in Mutable /\ fd'[s] = f => s \in lock'[f]
        BY <2>1, <3>3
      <3>6. LockInv'
        BY <1>0, <3>4, <3>5, LockStays
      <3> QED  BY <1>0, <1>2, <3>2, <3>6, CalmStep
    <2>3. CASE Goto(s, "rewrite") /\ lock' = lock
      <3>1. pc'[s] \in Start
        BY <1>1, <2>3 DEF Goto, Start
      <3> QED  BY <1>0, <1>2, <2>3, <3>1, EndStep
    <2> QED  BY <1>5, <2>2, <2>3 DEF RewriteLock
  <1> QED  BY <1>4, <1>5

(* The rename: the new file covers the one that had the name, which had not  *)
(* changed since it was read, and the other shells noted another inode.      *)
LEMMA RewriteRenameStep ==
  ASSUME WrittenInv, NEW s \in Shells, RewriteRename(s)
  PROVE  PathInv' /\ LockInv' /\ KeptInv'
  <1>0. TypeInv /\ PathInv /\ LockInv /\ KeptInv /\ \A r \in Shells \ {s} : Same(r)
    BY StepsAreOwn DEF WrittenInv, SaveStep
  <1>1. /\ DiskType /\ FiniteInv /\ pc \in [Shells -> Labels] /\ made \in Nat
        /\ files \in [Inodes -> SUBSET Entries]
        /\ path \in Inodes \cup {NoFile} /\ NoFile \notin Inodes
        /\ orig \in [Shells -> (Inodes \cup {NoFile}) \X Nat]
        /\ \A f \in Inodes : f \in Nat
    BY <1>0, StoredFacts
  <1>2. pc[s] = "rename" /\ Unlock(s) /\ raced' = raced /\ EndSave(s, Len(new_items[s]))
    BY DEF RewriteRename
  <1>3. pc'[s] = "idle"
    BY <1>1, <1>2 DEF EndSave, Goto
  <1>4. CASE UNCHANGED <<made, path, files, written>>
    <2>1. pc'[s] \in Start
      BY <1>3 DEF Start
    <2> QED  BY <1>0, <1>2, <1>4, <2>1, EndStep
  <1>5. CASE /\ made < MaxInodes /\ made' = made + 1 /\ path' = made'
             /\ files' = [Unlinked(s) EXCEPT ![made'] = tmp[s]]
             /\ written' = {t \in written : deleted[s][t] = "no"} \cup TextsOf(UnsavedEntries(s))
    <2>1. path' = made + 1 /\ path' \in Inodes /\ path' # NoFile
      BY <1>1, <1>5, HistoryAssumption DEF Inodes
    <2>2. files'[path'] = tmp[s]
      BY <1>5, <2>1 DEF Unlinked
    <2>3. PathInv'
      BY <1>1, <1>5 DEF PathInv
    <2>4. LockInv'
      BY <1>0, <1>2, <1>3, UnlockStays DEF Mutable
    <2>5. ASSUME ~raced  PROVE  WrittenKept' /\ \A r \in Shells : SaveInv(r)'
      <3>1. WrittenKept /\ \A r \in Shells : SaveInv(r)
        BY <1>0, <2>5 DEF KeptInv
      <3>2. fd[s] = path /\ Covers(s) /\ path # NoFile /\ path \in Inodes
        BY <1>1, <1>2, <3>1 DEF SaveInv, Start
      <3>3. WrittenKept'
        <4>1. written \subseteq TextsOf(files[path])
          BY <2>5, <3>1, <3>2 DEF WrittenKept, Content
        <4>2. written' \subseteq TextsOf(tmp[s])
          BY <1>5, <3>2, <4>1 DEF Covers
        <4> QED  BY <2>1, <2>2, <4>2 DEF WrittenKept, Content
      <3>4. ASSUME NEW r \in Shells, r # s  PROVE  SaveInv(r)'
        <4>1. Same(r) /\ SaveInv(r)
          BY <1>0, <3>1, <3>4
        <4>2. pc[r] \notin Mutable
          <5>1. s \in lock[path]
            BY <1>0, <1>2, <3>2 DEF LockInv, Mutable
          <5>2. ASSUME pc[r] \in Mutable  PROVE  FALSE
            <6>1. fd[r] = path
              BY <4>1, <5>2 DEF SaveInv, Mutable
            <6>2. r \in lock[path]
              BY <1>0, <3>2, <5>2, <6>1 DEF LockInv
            <6> QED  BY <1>1, <3>2, <3>4, <5>1, <6>2, LockIsOfOne
          <5> QED  BY <5>2
        <4>3. ASSUME pc[r] \in Reading
              PROVE  /\ orig[r][1] # NoFile /\ orig[r][1] <= made' /\ path' # orig[r][1]
                     /\ Id(path)' # orig[r]
          <5>1. orig[r][1] # NoFile /\ orig[r][1] <= made /\ orig[r][1] \in Inodes
            <6>1. orig[r][1] # NoFile /\ orig[r][1] <= made
              BY <4>1, <4>3 DEF SaveInv
            <6>2. orig[r][1] \in Inodes \cup {NoFile}
              BY <1>1
            <6> QED  BY <6>1, <6>2
          <5>2. orig[r][1] \in Nat /\ orig[r][1] <= made' /\ path' # orig[r][1]
            <6> DEFINE o == orig[r][1]
            <6>1. o \in Nat /\ o <= made
              BY <1>1, <5>1
            <6>2. path' = made + 1 /\ made' = made + 1 /\ made \in Nat
              BY <1>1, <1>5, <2>1
            <6> HIDE DEF o
            <6>3. o <= made' /\ path' # o
              BY <6>1, <6>2
            <6> QED  BY <6>1, <6>3 DEF o
          <5>3. Id(path)'[1] = path'
            BY <2>1 DEF Id
          <5> QED  BY <5>1, <5>2, <5>3
        <4> QED  BY <2>1, <4>1, <4>2, <4>3 DEF SaveInv, Same, Mutable, Reading
      <3>5. SaveInv(s)'
        BY <1>3, StartSaving DEF Start
      <3> QED  BY <3>3, <3>4, <3>5
    <2> QED  BY <1>2, <2>3, <2>4, <2>5 DEF KeptInv
  <1> QED  BY <1>4, <1>5 DEF RewriteRename

LEMMA WrittenInvInit == Init => WrittenInv
  <1> SUFFICES ASSUME Init  PROVE  PathInv /\ LockInv /\ KeptInv
    BY TypeInvInit DEF WrittenInv
  <1>1. \A s \in Shells : pc[s] = "idle"
    BY DEF Init
  <1>2. PathInv /\ LockInv
    BY <1>1 DEF Init, PathInv, LockInv, Mutable
  <1>3. \A s \in Shells : SaveInv(s)
    BY <1>1 DEF SaveInv, Start, Reading
  <1>4. WrittenKept
    BY DEF Init, WrittenKept
  <1> QED  BY <1>2, <1>3, <1>4 DEF KeptInv

LEMMA WrittenInvNext == WrittenInv /\ [Next]_vars => WrittenInv'
  <1> SUFFICES ASSUME WrittenInv, [Next]_vars  PROVE  PathInv' /\ LockInv' /\ KeptInv'
    BY TypeInvNext DEF WrittenInv
  <1>0. TypeInv /\ PathInv /\ LockInv /\ KeptInv
    BY DEF WrittenInv
  <1>1. ASSUME UNCHANGED <<path, made, files, lock, items, saving, written, raced>>
        PROVE  PathInv' /\ LockInv' /\ KeptInv'
    <2>1. \A r \in Shells : Same(r) /\ UNCHANGED <<path, files, made>>
      BY <1>1 DEF Same, items, saving
    <2>2. ASSUME NEW r \in Shells, SaveInv(r)  PROVE  SaveInv(r)'
      BY <2>1, <2>2, SameSaving
    <2>3. ~raced' => WrittenKept'
      BY <1>0, <1>1 DEF KeptInv, WrittenKept, Content
    <2>4. KeptInv'
      BY <1>0, <1>1, <2>2, <2>3 DEF KeptInv
    <2>5. PathInv'
      BY <1>0, <1>1 DEF PathInv
    <2>6. LockInv'
      BY <1>0, <1>1 DEF LockInv, saving
    <2> QED  BY <2>4, <2>5, <2>6
  <1>2. CASE UNCHANGED vars
    BY <1>1, <1>2 DEF vars, disk, ghosts
  <1>3. CASE Tick
    BY <1>1, <1>3 DEF Tick, ghosts
  <1>4. ASSUME NEW s \in Shells, LoadOld(s)  PROVE  PathInv' /\ LockInv' /\ KeptInv'
    BY <1>1, <1>4 DEF LoadOld, disk, ghosts
  <1>5. ASSUME NEW s \in Shells,
               \/ \E t \in Texts, m \in Modes, how \in {"detect", "plain", "sync"} :
                    AddCommand(s, t, m, how)
               \/ \E m \in Modes : DetectionEnds(s, m)
               \/ \E t \in Texts : Delete(s, t)
               \/ SaveNow(s) \/ ClearSession(s) \/ Incorporate(s)
        PROVE  PathInv' /\ LockInv' /\ KeptInv'
    <2>1. UNCHANGED <<disk, written, raced>> /\ pc'[s] \in Start /\ \A r \in Shells \ {s} : Same(r)
      BY <1>0, <1>5, OpsStart
    <2> QED  BY <2>1, EndStep DEF disk
  \* A clear beside a save is not covered; beside idle shells nothing is to be kept.
  <1>6. ASSUME NEW s \in Shells, Clear(s)  PROVE  PathInv' /\ LockInv' /\ KeptInv'
    <2>1. /\ pc[s] = "idle" /\ path' = NoFile /\ written' = {} /\ lock' = lock /\ pc' = pc /\ fd' = fd
          /\ raced' = (raced \/ \E r \in Shells \ {s} : pc[r] # "idle")
      BY <1>6 DEF Clear, UserOp, saving
    <2>2. PathInv' /\ LockInv'
      BY <1>0, <2>1 DEF PathInv, LockInv
    <2>3. WrittenKept'
      BY <2>1 DEF WrittenKept
    <2>4. ASSUME ~raced', NEW r \in Shells  PROVE  SaveInv(r)'
      <3>1. pc'[r] = "idle"
        BY <2>1, <2>4
      <3> QED  BY <3>1, StartSaving DEF Start
    <2> QED  BY <2>2, <2>3, <2>4 DEF KeptInv
  <1>7. ASSUME NEW s \in Shells, Crash(s)  PROVE  PathInv' /\ LockInv' /\ KeptInv'
    <2>1. UNCHANGED <<path, files, made, written, raced>> /\ Unlock(s)
      BY <1>7 DEF Crash
    <2>2. pc'[s] \in Start
      BY <1>0, <1>7, StoredFacts DEF Crash, Goto, Start
    <2>3. \A r \in Shells \ {s} : Same(r)
      BY <1>0, <1>7, StepsAreOwn
    <2> QED  BY <2>1, <2>2, <2>3, EndStep
  <1>8. ASSUME NEW s \in Shells, SaveStep(s)  PROVE  PathInv' /\ LockInv' /\ KeptInv'
    BY <1>8, AppendSteps, AppendWriteStep, RewriteOpenStep, RewriteReadStep, RewriteLockSteps,
       RewriteRenameStep DEF SaveStep
  <1> QED  BY <1>2, <1>3, <1>4, <1>5, <1>6, <1>7, <1>8 DEF Next

(* What a shell has written stays in the file, through the appends and the    *)
(* rewrites of others at the same time, failing calls and killed shells,      *)
(* until a shell deletes it; unless a shell clears the history while another  *)
(* one is saving.                                                             *)
THEOREM WhatIsWrittenStays == Spec => []WrittenKept
  <1>1. Init => WrittenInv
    BY WrittenInvInit
  <1>2. WrittenInv /\ [Next]_vars => WrittenInv'
    BY WrittenInvNext
  <1>3. WrittenInv => WrittenKept
    BY DEF WrittenInv, KeptInv, WrittenKept
  <1> QED  BY <1>1, <1>2, <1>3, PTL DEF Spec
=============================================================================
