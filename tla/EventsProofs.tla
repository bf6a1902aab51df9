----------------------------- MODULE EventsProofs -----------------------------
(***************************************************************************)
(* Proofs about Events, for any handlers, signals and bounds and any depth *)
(* of nesting: no signal and no event is lost or held twice, a call never  *)
(* waits for its own lock, and a handler that was removed is not started.  *)
(***************************************************************************)
EXTENDS Events, FiniteSetTheorems, SequenceTheorems, TLAPS

-----------------------------------------------------------------------------
(* Lists. *)

(* A set of numbers that is not empty has a least one. *)
LEMMA LeastNatural ==
  ASSUME NEW S \in SUBSET Nat, S # {}
  PROVE  \E x \in S : \A y \in S : x <= y
  <1>1. IsWellFoundedOn(OpToRel(<, Nat), Nat)
    BY NatLessThanWellFounded
  <1>2. PICK x \in S : \A y \in S : ~ (<<y, x>> \in OpToRel(<, Nat))
    BY <1>1, WFMin
  <1>3. \A y \in S : ~ (y < x)
    BY <1>2 DEF OpToRel
  <1> QED  BY <1>3

(* Counting the places among the first n. *)
LEMMA UpToCounts ==
  ASSUME NEW len \in Nat, NEW places \in SUBSET (1..len)
  PROVE  /\ IsFiniteSet(places) /\ Cardinality(places) \in Nat
         /\ \A n \in Nat : UpTo(n, places) \in 0..Cardinality(places)
         /\ UpTo(0, places) = 0 /\ UpTo(len, places) = Cardinality(places)
         /\ \A n \in Nat : UpTo(n + 1, places) =
              IF n + 1 \in places THEN UpTo(n, places) + 1 ELSE UpTo(n, places)
  <1>1. IsFiniteSet(1..len)
    BY FS_Interval
  <1>2. IsFiniteSet(places) /\ Cardinality(places) \in Nat
    BY <1>1, FS_Subset, FS_CardinalityType
  <1>3. ASSUME NEW n \in Nat
        PROVE  IsFiniteSet(places \cap (1..n)) /\ UpTo(n, places) \in 0..Cardinality(places)
    <2>1. places \cap (1..n) \in SUBSET places
      OBVIOUS
    <2>2. IsFiniteSet(places \cap (1..n)) /\ Cardinality(places \cap (1..n)) <= Cardinality(places)
      BY <2>1, <1>2, FS_Subset
    <2>3. Cardinality(places \cap (1..n)) \in Nat
      BY <2>2, FS_CardinalityType
    <2> QED  BY <2>2, <2>3, <1>2 DEF UpTo
  <1>4. UpTo(0, places) = 0
    <2>1. places \cap (1..0) = {}
      OBVIOUS
    <2> QED  BY <2>1, FS_EmptySet DEF UpTo
  <1>5. UpTo(len, places) = Cardinality(places)
    <2>1. places \cap (1..len) = places
      OBVIOUS
    <2> QED  BY <2>1 DEF UpTo
  <1>6. ASSUME NEW n \in Nat
        PROVE  UpTo(n + 1, places) =
                 IF n + 1 \in places THEN UpTo(n, places) + 1 ELSE UpTo(n, places)
    <2>1. CASE n + 1 \in places
      <3>1. places \cap (1..(n + 1)) = (places \cap (1..n)) \cup {n + 1} /\ n + 1 \notin places \cap (1..n)
        BY <2>1
      <3>2. Cardinality((places \cap (1..n)) \cup {n + 1}) = Cardinality(places \cap (1..n)) + 1
        BY <1>3, <3>1, FS_AddElement
      <3> QED  BY <2>1, <3>1, <3>2 DEF UpTo
    <2>2. CASE n + 1 \notin places
      <3>1. places \cap (1..(n + 1)) = places \cap (1..n)
        BY <2>2
      <3> QED  BY <2>2, <3>1 DEF UpTo
    <2> QED  BY <2>1, <2>2
  <1> QED  BY <1>2, <1>3, <1>4, <1>5, <1>6

(* There is a k-th place. *)
LEMMA KthPlace ==
  ASSUME NEW len \in Nat, NEW places \in SUBSET (1..len), NEW k \in 1..Cardinality(places)
  PROVE  \E i \in places : UpTo(i, places) = k
  <1> DEFINE Enough == {n \in Nat : UpTo(n, places) >= k}
  <1>1. Enough \in SUBSET Nat /\ len \in Enough
    BY UpToCounts
  <1>2. PICK n \in Enough : \A m \in Enough : n <= m
    <2> HIDE DEF Enough
    <2> QED  BY <1>1, LeastNatural
  <1>3. n \in Nat /\ UpTo(n, places) >= k
    BY <1>2
  <1>4. UpTo(0, places) = 0 /\ k \in Nat /\ k >= 1
    BY UpToCounts
  <1>5. n # 0
    BY <1>3, <1>4
  <1>6. n - 1 \in Nat /\ n - 1 \notin Enough /\ (n - 1) + 1 = n
    BY <1>2, <1>3, <1>5
  <1>7. UpTo(n - 1, places) < k
    <2>1. UpTo(n - 1, places) \in 0..Cardinality(places) /\ Cardinality(places) \in Nat
      BY <1>6, UpToCounts
    <2> QED  BY <1>4, <1>6, <2>1
  <1>8. UpTo((n - 1) + 1, places) =
          IF (n - 1) + 1 \in places THEN UpTo(n - 1, places) + 1 ELSE UpTo(n - 1, places)
    BY <1>6, UpToCounts
  <1>9. UpTo(n - 1, places) \in Nat /\ UpTo(n, places) \in Nat
    BY <1>3, <1>6, UpToCounts
  <1>10. n \in places /\ UpTo(n, places) = k
    BY <1>3, <1>4, <1>6, <1>7, <1>8, <1>9
  <1> QED  BY <1>10

(* Two places have different numbers. *)
LEMMA UpToOnce ==
  ASSUME NEW len \in Nat, NEW places \in SUBSET (1..len), NEW m \in places, NEW n \in places,
         m < n
  PROVE  UpTo(m, places) < UpTo(n, places)
  <1>1. m \in Nat /\ n - 1 \in Nat /\ m <= n - 1 /\ (n - 1) + 1 = n
    OBVIOUS
  <1>2. IsFiniteSet(places \cap (1..(n - 1)))
    <2>1. IsFiniteSet(1..(n - 1)) /\ places \cap (1..(n - 1)) \in SUBSET (1..(n - 1))
      BY FS_Interval
    <2> QED  BY <2>1, FS_Subset
  <1>3. places \cap (1..m) \in SUBSET (places \cap (1..(n - 1)))
    BY <1>1
  <1>4. UpTo(m, places) <= UpTo(n - 1, places)
    BY <1>2, <1>3, FS_Subset DEF UpTo
  <1>5. UpTo((n - 1) + 1, places) = UpTo(n - 1, places) + 1
    <2>1. UpTo((n - 1) + 1, places) =
            IF (n - 1) + 1 \in places THEN UpTo(n - 1, places) + 1 ELSE UpTo(n - 1, places)
      BY <1>1, UpToCounts
    <2> QED  BY <1>1, <2>1
  <1>6. UpTo(m, places) \in Nat /\ UpTo(n - 1, places) \in Nat
    <2>1. UpTo(m, places) \in 0..Cardinality(places) /\ UpTo(n - 1, places) \in 0..Cardinality(places)
      BY <1>1, UpToCounts
    <2> QED  BY <2>1
  <1> QED  BY <1>1, <1>4, <1>5, <1>6

LEMMA ToSetIs ==
  ASSUME NEW S, NEW seq \in Seq(S)
  PROVE  ToSet(seq) = {seq[n] : n \in 1..Len(seq)} /\ ToSet(seq) \in SUBSET S
  BY DEF ToSet

(* Only() keeps exactly the elements that are in the set. *)
LEMMA OnlyLemma ==
  ASSUME NEW T, NEW seq \in Seq(T), NEW S
  PROVE  Only(seq, S) \in Seq(T) /\ ToSet(Only(seq, S)) = ToSet(seq) \cap S
  <1> DEFINE places == {n \in DOMAIN seq : seq[n] \in S}
             place(k) == CHOOSE n \in places : UpTo(n, places) = k
             len == Cardinality(places)
  <1>1. Len(seq) \in Nat /\ DOMAIN seq = 1..Len(seq) /\ places \in SUBSET (1..Len(seq))
    OBVIOUS
  <1>2. len \in Nat /\ \A n \in Nat : UpTo(n, places) \in 0..len
    <2> HIDE DEF places
    <2> QED  BY <1>1, UpToCounts
  <1>3. ASSUME NEW k \in 1..len  PROVE  place(k) \in places
    <2>1. \E n \in places : UpTo(n, places) = k
      <3> HIDE DEF places
      <3> QED  BY <1>1, KthPlace
    <2> HIDE DEF places
    <2> QED  BY <2>1
  <1>4. ASSUME NEW n \in places  PROVE  \E k \in 1..len : place(k) = n
    <2>1. n \in 1..Len(seq) /\ UpTo(n, places) \in 0..len /\ UpTo(n - 1, places) \in 0..len
          /\ UpTo(n, places) = UpTo(n - 1, places) + 1
      <3>1. n \in 1..Len(seq) /\ n \in Nat /\ n - 1 \in Nat /\ (n - 1) + 1 = n
        BY <1>1
      <3>2. UpTo((n - 1) + 1, places) = UpTo(n - 1, places) + 1
        <4> HIDE DEF places
        <4> QED  BY <3>1, <1>1, UpToCounts
      <3> QED  BY <3>1, <3>2, <1>2
    <2> DEFINE k == UpTo(n, places)
    <2>2. k \in 1..len
      BY <2>1, <1>2
    <2>3. place(k) \in places /\ UpTo(place(k), places) = k
      <3> HIDE DEF places, k
      <3>1. n \in places /\ UpTo(n, places) = k
        BY DEF k
      <3> QED  BY <3>1
    <2>4. \A m \in places : UpTo(m, places) = k => m = n
      <3> SUFFICES ASSUME NEW m \in places, m # n  PROVE  UpTo(m, places) # UpTo(n, places)
        BY DEF k
      <3> HIDE DEF places, k
      <3>1. m \in Nat /\ n \in Nat /\ (m < n \/ n < m)
        BY <1>1
      <3>2. UpTo(m, places) \in Nat /\ UpTo(n, places) \in Nat
        BY <3>1, <1>2
      <3>3. UpTo(m, places) < UpTo(n, places) \/ UpTo(n, places) < UpTo(m, places)
        BY <3>1, <1>1, UpToOnce
      <3> QED  BY <3>2, <3>3
    <2> QED  BY <2>2, <2>3, <2>4
  <1>5. Only(seq, S) = [k \in 1..len |-> seq[place(k)]]
    BY DEF Only
  <1>6. \A k \in 1..len : seq[place(k)] \in T /\ seq[place(k)] \in S
    <2>1. \A n \in places : seq[n] \in T /\ seq[n] \in S
      BY <1>1
    <2> HIDE DEF place, places, len
    <2> QED  BY <2>1, <1>3
  <1> HIDE DEF place, len
  <1>7. Only(seq, S) \in Seq(T)
    BY <1>2, <1>5, <1>6, IsASeq
  <1>8. Len(Only(seq, S)) = len /\ \A k \in 1..len : Only(seq, S)[k] = seq[place(k)]
    BY <1>2, <1>5
  <1>9. ToSet(Only(seq, S)) = {seq[place(k)] : k \in 1..len}
    BY <1>7, <1>8, ToSetIs
  <1>10. {seq[place(k)] : k \in 1..len} = {seq[n] : n \in places}
    <2> HIDE DEF places
    <2> QED  BY <1>3, <1>4
  <1>11. {seq[n] : n \in places} = ToSet(seq) \cap S
    BY <1>1 DEF ToSet
  <1> QED  BY <1>7, <1>9, <1>10, <1>11

LEMMA TailLemma ==
  ASSUME NEW S, NEW seq \in Seq(S), seq # <<>>
  PROVE  /\ Head(seq) \in S /\ Tail(seq) \in Seq(S) /\ Head(seq) = seq[1] /\ Len(seq) \in Nat \ {0}
         /\ Len(Tail(seq)) = Len(seq) - 1
         /\ \A n \in 1..(Len(seq) - 1) : Tail(seq)[n] = seq[n + 1]
         /\ ToSet(seq) = {Head(seq)} \cup ToSet(Tail(seq))
  <1>1. /\ Head(seq) \in S /\ Tail(seq) \in Seq(S) /\ Head(seq) = seq[1]
        /\ Len(Tail(seq)) = Len(seq) - 1
        /\ \A n \in 1..(Len(seq) - 1) : Tail(seq)[n] = seq[n + 1]
    BY HeadTailProperties
  <1>2. Len(seq) \in Nat \ {0}
    BY EmptySeq, LenProperties
  <1>3. \A n \in 1..Len(seq) : n = 1 \/ (n - 1 \in 1..(Len(seq) - 1) /\ n = (n - 1) + 1)
    BY <1>2
  <1>4. \A n \in 1..(Len(seq) - 1) : n + 1 \in 1..Len(seq)
    BY <1>2
  <1>5. {seq[n] : n \in 1..Len(seq)} = {seq[1]} \cup {seq[n + 1] : n \in 1..(Len(seq) - 1)}
    <2>1. 1 \in 1..Len(seq)
      BY <1>2
    <2> QED  BY <2>1, <1>3, <1>4
  <1>6. ToSet(Tail(seq)) = {seq[n + 1] : n \in 1..(Len(seq) - 1)}
    <2>1. ToSet(Tail(seq)) = {Tail(seq)[n] : n \in 1..(Len(seq) - 1)}
      BY <1>1, ToSetIs
    <2> QED  BY <2>1, <1>1
  <1>7. ToSet(seq) = {seq[n] : n \in 1..Len(seq)}
    BY ToSetIs
  <1> QED  BY <1>1, <1>2, <1>5, <1>6, <1>7

LEMMA AppendLemma ==
  ASSUME NEW S, NEW seq \in Seq(S), NEW x \in S
  PROVE  /\ Append(seq, x) \in Seq(S) /\ Len(Append(seq, x)) = Len(seq) + 1
         /\ DOMAIN Append(seq, x) = 1..(Len(seq) + 1) /\ Len(seq) \in Nat
         /\ \A n \in 1..Len(seq) : Append(seq, x)[n] = seq[n]
         /\ Append(seq, x)[Len(seq) + 1] = x
         /\ ToSet(Append(seq, x)) = ToSet(seq) \cup {x}
  <1> DEFINE s == Append(seq, x)
             l == Len(seq)
  <1>1. /\ s \in Seq(S) /\ Len(s) = l + 1 /\ DOMAIN s = 1..(l + 1) /\ l \in Nat
        /\ \A n \in 1..l : s[n] = seq[n]
        /\ s[l + 1] = x
    BY AppendProperties
  <1>2. ToSet(s) = {s[n] : n \in 1..(l + 1)} /\ ToSet(seq) = {seq[n] : n \in 1..l}
    BY <1>1, ToSetIs
  <1> HIDE DEF s, l
  <1>3. \A n \in 1..(l + 1) : n \in 1..l \/ n = l + 1
    BY <1>1
  <1>4. \A n \in 1..l : n \in 1..(l + 1)
    BY <1>1
  <1>5. ToSet(s) = ToSet(seq) \cup {x}
    <2>1. l + 1 \in 1..(l + 1)
      BY <1>1
    <2> QED  BY <2>1, <1>1, <1>2, <1>3, <1>4
  <1> QED  BY <1>1, <1>5 DEF s, l

(* The numbers of the events in a list. *)
LEMMA IdsOfTail ==
  ASSUME NEW S, NEW seq \in Seq(S), seq # <<>>, Distinct(seq)
  PROVE  /\ IdsOf(seq) = {Head(seq).id} \cup IdsOf(Tail(seq))
         /\ Head(seq).id \notin IdsOf(Tail(seq))
         /\ Distinct(Tail(seq))
  <1> DEFINE s == Tail(seq)
             l == Len(seq) - 1
  <1>1. /\ s \in Seq(S) /\ Head(seq) = seq[1] /\ Len(seq) = l + 1 /\ l \in Nat /\ Len(s) = l
        /\ \A n \in 1..l : s[n] = seq[n + 1]
    BY TailLemma
  <1>2. DOMAIN s = 1..l /\ DOMAIN seq = 1..(l + 1)
    BY <1>1, LenProperties
  <1> HIDE DEF s, l
  <1>3. \A n \in 1..(l + 1) : n = 1 \/ (n - 1 \in 1..l /\ n = (n - 1) + 1)
    BY <1>1
  <1>4. \A n \in 1..l : n + 1 \in 1..(l + 1) /\ n + 1 # 1
    BY <1>1
  <1>5. 1 \in 1..(l + 1)
    BY <1>1
  <1>6. IdsOf(seq) = {seq[1].id} \cup IdsOf(s)
    <2>1. IdsOf(seq) = {seq[n].id : n \in 1..(l + 1)} /\ IdsOf(s) = {s[n].id : n \in 1..l}
      BY <1>2 DEF IdsOf
    <2>2. ASSUME NEW n \in 1..(l + 1)  PROVE  seq[n].id \in {seq[1].id} \cup {s[m].id : m \in 1..l}
      <3>1. CASE n = 1
        BY <3>1
      <3>2. CASE n - 1 \in 1..l /\ n = (n - 1) + 1
        <4>1. s[n - 1] = seq[n]
          BY <3>2, <1>1
        <4> QED  BY <3>2, <4>1
      <3> QED  BY <3>1, <3>2, <1>3
    <2>3. \A m \in 1..l : s[m].id \in {seq[n].id : n \in 1..(l + 1)}
      BY <1>1, <1>4
    <2> QED  BY <2>1, <2>2, <2>3, <1>5
  <1>7. seq[1].id \notin IdsOf(s)
    <2>1. \A n \in 1..l : seq[n + 1].id # seq[1].id
      BY <1>2, <1>4, <1>5 DEF Distinct
    <2> QED  BY <2>1, <1>1, <1>2 DEF IdsOf
  <1>8. Distinct(s)
    <2>1. \A m, n \in 1..l : m # n => m + 1 # n + 1
      OBVIOUS
    <2>2. ASSUME NEW m \in 1..l, NEW n \in 1..l, m # n  PROVE  s[m].id # s[n].id
      <3>1. m + 1 \in DOMAIN seq /\ n + 1 \in DOMAIN seq /\ m + 1 # n + 1
        BY <2>1, <2>2, <1>2, <1>4
      <3>2. seq[m + 1].id # seq[n + 1].id
        BY <3>1 DEF Distinct
      <3> QED  BY <3>2, <1>1
    <2> QED  BY <2>2, <1>2 DEF Distinct
  <1> QED  BY <1>1, <1>6, <1>7, <1>8 DEF s

LEMMA IdsOfAppend ==
  ASSUME NEW S, NEW seq \in Seq(S), NEW x \in S
  PROVE  /\ IdsOf(Append(seq, x)) = IdsOf(seq) \cup {x.id}
         /\ Distinct(seq) /\ x.id \notin IdsOf(seq) => Distinct(Append(seq, x))
  <1> DEFINE s == Append(seq, x)
             l == Len(seq)
  <1>1. /\ DOMAIN s = 1..(l + 1) /\ l \in Nat /\ DOMAIN seq = 1..l
        /\ \A n \in 1..l : s[n] = seq[n]
        /\ s[l + 1] = x
    BY AppendLemma, LenProperties
  <1> HIDE DEF s, l
  <1>2. \A n \in 1..(l + 1) : n \in 1..l \/ n = l + 1
    BY <1>1
  <1>3. \A n \in 1..l : n \in 1..(l + 1)
    BY <1>1
  <1>4. l + 1 \in 1..(l + 1)
    BY <1>1
  <1>5. IdsOf(s) = IdsOf(seq) \cup {x.id}
    BY <1>1, <1>2, <1>3, <1>4 DEF IdsOf
  <1>6. ASSUME Distinct(seq), x.id \notin IdsOf(seq)  PROVE  Distinct(s)
    BY <1>1, <1>2, <1>6 DEF Distinct, IdsOf
  <1> QED  BY <1>5, <1>6 DEF s

LEMMA IdsOfEmpty == IdsOf(<<>>) = {} /\ Distinct(<<>>)
  BY DEF IdsOf, Distinct

-----------------------------------------------------------------------------
(* The stack. *)

LEMMA WithLemma ==
  ASSUME NEW S, stack \in Seq(S), stack # <<>>, NEW c \in S
  PROVE  /\ Len(stack) \in Nat \ {0} /\ Top \in S
         /\ With(c) \in Seq(S) /\ Len(With(c)) = Len(stack) /\ With(c)[Len(stack)] = c
         /\ \A k \in 1..(Len(stack) - 1) : With(c)[k] = stack[k]
         /\ Below \in Seq(S) /\ Len(Below) = Len(stack) - 1
         /\ \A k \in 1..(Len(stack) - 1) : Below[k] = stack[k]
  <1>1. Len(stack) \in Nat \ {0} /\ \A k \in 1..Len(stack) : stack[k] \in S
    BY EmptySeq, LenProperties
  <1>2. Top \in S
    BY <1>1 DEF Top
  <1>3. /\ Below \in Seq(S) /\ Len(Below) = Len(stack) - 1
        /\ \A k \in 1..(Len(stack) - 1) : Below[k] = stack[k]
    <2>1. \A k \in 1..(Len(stack) - 1) : stack[k] \in S
      BY <1>1
    <2> DEFINE m == Len(stack) - 1
    <2>2. m \in Nat /\ Below = SubSeq(stack, 1, m)
      BY <1>1 DEF Below
    <2> HIDE DEF m
    <2>3. SubSeq(stack, 1, m) \in Seq(S)
      BY <2>1, <2>2, SubSeqProperties DEF m
    <2>4. Len(SubSeq(stack, 1, m)) = m
      BY <2>2
    <2>5. \A k \in 1..m : SubSeq(stack, 1, m)[k] = stack[k]
      BY <2>2
    <2> QED  BY <2>2, <2>3, <2>4, <2>5 DEF m
  <1>4. /\ With(c) \in Seq(S) /\ Len(With(c)) = Len(Below) + 1
        /\ \A k \in 1..Len(Below) : With(c)[k] = Below[k]
        /\ With(c)[Len(Below) + 1] = c
    <2> DEFINE b == Below
    <2>1. b \in Seq(S) /\ With(c) = Append(b, c)
      BY <1>3 DEF With
    <2> HIDE DEF b
    <2>2. /\ Append(b, c) \in Seq(S) /\ Len(Append(b, c)) = Len(b) + 1
          /\ \A k \in 1..Len(b) : Append(b, c)[k] = b[k]
          /\ Append(b, c)[Len(b) + 1] = c
      BY <2>1, AppendLemma
    <2> QED  BY <2>1, <2>2 DEF b
  <1> QED  BY <1>1, <1>2, <1>3, <1>4

-----------------------------------------------------------------------------
(* The ledger of events: which numbers are with the calls, in the list of   *)
(* blocked events, in transit between the two, and out.                     *)

HeldBy(call) ==
  IF call.kind = "delayed" THEN IdsOf(call.to_send) \cup ({call.next.id} \ {0}) ELSE {}

OnceIn(call) ==
  call.kind = "delayed" => Distinct(call.to_send) /\ call.next.id \notin IdsOf(call.to_send)

Ledger(calls, waits, transit, out, total) ==
  /\ Distinct(waits)
  /\ \A k \in 1..Len(calls) : OnceIn(calls[k])
  /\ \A j, k \in 1..Len(calls) : j # k => HeldBy(calls[j]) \cap HeldBy(calls[k]) = {}
  /\ \A k \in 1..Len(calls) : HeldBy(calls[k]) \cap (IdsOf(waits) \cup transit \cup out) = {}
  /\ IdsOf(waits) \cap (transit \cup out) = {} /\ transit \cap out = {}
  /\ \A n : n \in 1..total <=> \/ n \in transit \/ n \in out \/ n \in IdsOf(waits)
                               \/ \E k \in 1..Len(calls) : n \in HeldBy(calls[k])

LEMMA LedgerIsEventsAccounted ==
  ASSUME Len(stack) \in Nat, DOMAIN stack = 1..Len(stack)
  PROVE  dispatched \in SUBSET (1..raised) /\ EventsAccounted
         <=> Ledger(stack, blocked, {}, dispatched, raised)
  <1> DEFINE l == Len(stack)
  <1>1. \A k \in 1..l : Held(k) = HeldBy(stack[k])
    BY DEF Held, HeldBy
  <1>2. Held(0) = IdsOf(blocked)
    BY DEF Held
  <1>3. \A k \in 0..l : k = 0 \/ k \in 1..l
    OBVIOUS
  <1>4. 0 \in 0..l /\ \A k \in 1..l : k \in 0..l /\ k # 0
    OBVIOUS
  <1>5. (\A j, k \in 0..l : j # k => Held(j) \cap Held(k) = {})
        <=> /\ \A j, k \in 1..l : j # k => HeldBy(stack[j]) \cap HeldBy(stack[k]) = {}
            /\ \A k \in 1..l : HeldBy(stack[k]) \cap IdsOf(blocked) = {}
    <2> HIDE DEF l
    <2>1. ASSUME \A j, k \in 0..l : j # k => Held(j) \cap Held(k) = {}
          PROVE  /\ \A j, k \in 1..l : j # k => HeldBy(stack[j]) \cap HeldBy(stack[k]) = {}
                 /\ \A k \in 1..l : HeldBy(stack[k]) \cap IdsOf(blocked) = {}
      BY <2>1, <1>1, <1>2, <1>4
    <2>2. ASSUME /\ \A j, k \in 1..l : j # k => HeldBy(stack[j]) \cap HeldBy(stack[k]) = {}
                 /\ \A k \in 1..l : HeldBy(stack[k]) \cap IdsOf(blocked) = {},
                 NEW j \in 0..l, NEW k \in 0..l, j # k
          PROVE  Held(j) \cap Held(k) = {}
      <3>1. CASE j \in 1..l /\ k \in 1..l
        BY <2>2, <3>1, <1>1
      <3>2. CASE j = 0 /\ k \in 1..l
        BY <2>2, <3>2, <1>1, <1>2
      <3>3. CASE k = 0 /\ j \in 1..l
        BY <2>2, <3>3, <1>1, <1>2
      <3> QED  BY <2>2, <3>1, <3>2, <3>3, <1>3
    <2> QED  BY <2>1, <2>2
  <1>6. \A n : n \in UNION {Held(k) : k \in 0..l}
               <=> n \in IdsOf(blocked) \/ \E k \in 1..l : n \in HeldBy(stack[k])
    <2> HIDE DEF l
    <2>1. \A n : n \in UNION {Held(k) : k \in 0..l} <=> \E k \in 0..l : n \in Held(k)
      OBVIOUS
    <2>2. ASSUME NEW n, n \in IdsOf(blocked) \/ \E k \in 1..l : n \in HeldBy(stack[k])
          PROVE  \E k \in 0..l : n \in Held(k)
      BY <2>2, <1>1, <1>2, <1>4
    <2>3. ASSUME NEW n, NEW k \in 0..l, n \in Held(k)
          PROVE  n \in IdsOf(blocked) \/ \E j \in 1..l : n \in HeldBy(stack[j])
      BY <2>3, <1>1, <1>2, <1>3
    <2> QED  BY <2>1, <2>2, <2>3
  <1>7. (\A k \in DelayedCalls : /\ Distinct(stack[k].to_send)
                                 /\ stack[k].next.id \notin IdsOf(stack[k].to_send))
        <=> \A k \in 1..l : OnceIn(stack[k])
    BY DEF DelayedCalls, OnceIn
  <1> HIDE DEF l
  <1>8. ASSUME dispatched \in SUBSET (1..raised), EventsAccounted
        PROVE  Ledger(stack, blocked, {}, dispatched, raised)
    <2>1. \A n : n \in (1..raised) \ dispatched
                 <=> n \in IdsOf(blocked) \/ \E k \in 1..l : n \in HeldBy(stack[k])
      BY <1>6, <1>8 DEF EventsAccounted, l
    <2> QED  BY <1>5, <1>7, <1>8, <2>1 DEF EventsAccounted, Ledger, l
  <1>9. ASSUME Ledger(stack, blocked, {}, dispatched, raised)
        PROVE  dispatched \in SUBSET (1..raised) /\ EventsAccounted
    <2>1. dispatched \in SUBSET (1..raised)
      BY <1>9 DEF Ledger
    <2>2. UNION {Held(k) : k \in 0..l} = (1..raised) \ dispatched
      BY <1>6, <1>9 DEF Ledger, l
    <2> QED  BY <1>5, <1>7, <1>9, <2>1, <2>2 DEF EventsAccounted, Ledger, l
  <1> QED  BY <1>8, <1>9

(* A new event is in transit. *)
LEMMA LedgerNew ==
  ASSUME NEW S, NEW calls \in Seq(S), NEW waits, NEW out, NEW total \in Nat,
         Ledger(calls, waits, {}, out, total)
  PROVE  Ledger(calls, waits, {total + 1}, out, total + 1)
  <1>1. total + 1 \notin 1..total /\ \A n : n \in 1..(total + 1) <=> n \in 1..total \/ n = total + 1
    OBVIOUS
  <1>2. /\ total + 1 \notin out /\ total + 1 \notin IdsOf(waits)
        /\ \A k \in 1..Len(calls) : total + 1 \notin HeldBy(calls[k])
    BY <1>1 DEF Ledger
  <1>3. \A n : n \in 1..(total + 1) <=> \/ n \in {total + 1} \/ n \in out \/ n \in IdsOf(waits)
                                        \/ \E k \in 1..Len(calls) : n \in HeldBy(calls[k])
    <2>1. \A n : n \in 1..total <=> \/ n \in out \/ n \in IdsOf(waits)
                                    \/ \E k \in 1..Len(calls) : n \in HeldBy(calls[k])
      BY DEF Ledger
    <2> QED  BY <2>1, <1>1
  <1>4. /\ \A k \in 1..Len(calls) : HeldBy(calls[k]) \cap (IdsOf(waits) \cup {total + 1} \cup out) = {}
        /\ IdsOf(waits) \cap ({total + 1} \cup out) = {} /\ {total + 1} \cap out = {}
    <2> DEFINE t == total + 1
    <2>1. /\ \A k \in 1..Len(calls) : HeldBy(calls[k]) \cap (IdsOf(waits) \cup out) = {}
          /\ IdsOf(waits) \cap out = {}
      BY DEF Ledger
    <2>2. t \notin out /\ t \notin IdsOf(waits) /\ \A k \in 1..Len(calls) : t \notin HeldBy(calls[k])
      BY <1>2
    <2> HIDE DEF t
    <2>3. /\ \A k \in 1..Len(calls) : HeldBy(calls[k]) \cap (IdsOf(waits) \cup {t} \cup out) = {}
          /\ IdsOf(waits) \cap ({t} \cup out) = {} /\ {t} \cap out = {}
      BY <2>1, <2>2
    <2> QED  BY <2>3 DEF t
  <1>5. /\ Distinct(waits) /\ \A k \in 1..Len(calls) : OnceIn(calls[k])
        /\ \A j, k \in 1..Len(calls) : j # k => HeldBy(calls[j]) \cap HeldBy(calls[k]) = {}
    BY DEF Ledger
  <1> QED  BY <1>3, <1>4, <1>5 DEF Ledger

(* What is in transit is fired, or added to the events that wait. *)
LEMMA LedgerOut ==
  ASSUME NEW calls, NEW waits, NEW out, NEW total, NEW id, Ledger(calls, waits, {id}, out, total)
  PROVE  Ledger(calls, waits, {}, out \cup {id}, total)
  BY DEF Ledger

LEMMA LedgerWait ==
  ASSUME NEW calls, NEW S, NEW waits \in Seq(S), NEW out, NEW total, NEW e \in S,
         Ledger(calls, waits, {e.id}, out, total)
  PROVE  Ledger(calls, Append(waits, e), {}, out, total)
  <1> DEFINE w == Append(waits, e)
  <1>1. IdsOf(w) = IdsOf(waits) \cup {e.id} /\ (e.id \notin IdsOf(waits) => Distinct(w))
    BY IdsOfAppend DEF Ledger
  <1>2. e.id \notin IdsOf(waits)
    BY DEF Ledger
  <1> HIDE DEF w
  <1>3. Ledger(calls, w, {}, out, total)
    BY <1>1, <1>2 DEF Ledger
  <1> QED  BY <1>3 DEF w

(* A call that is added takes the events that wait and those in transit, or *)
(* none.                                                                    *)
LEMMA LedgerCall ==
  ASSUME NEW S, NEW calls \in Seq(S), NEW waits, NEW waits2, NEW transit, NEW out, NEW total,
         NEW c \in S, OnceIn(c), Distinct(waits2), IdsOf(waits2) \in SUBSET IdsOf(waits),
         HeldBy(c) = (IdsOf(waits) \ IdsOf(waits2)) \cup transit,
         Ledger(calls, waits, transit, out, total)
  PROVE  Ledger(Append(calls, c), waits2, {}, out, total)
  <1> DEFINE s == Append(calls, c)
             l == Len(calls)
  <1>1. /\ Len(s) = l + 1 /\ l \in Nat
        /\ \A k \in 1..l : s[k] = calls[k]
        /\ s[l + 1] = c
    BY AppendLemma
  <1>2. \A k \in 1..Len(s) : (k \in 1..l /\ s[k] = calls[k]) \/ (k = l + 1 /\ s[k] = c)
    <2> HIDE DEF s, l
    <2>1. \A k \in 1..(l + 1) : k \in 1..l \/ k = l + 1
      BY <1>1
    <2> QED  BY <2>1, <1>1
  <1>3. /\ \A k \in 1..l : k \in 1..Len(s) /\ k # l + 1 /\ s[k] = calls[k]
        /\ l + 1 \in 1..Len(s) /\ s[l + 1] = c
    <2> HIDE DEF s, l
    <2>1. \A k \in 1..l : k \in 1..(l + 1) /\ k # l + 1
      BY <1>1
    <2>2. l + 1 \in 1..(l + 1)
      BY <1>1
    <2> QED  BY <2>1, <2>2, <1>1
  <1> HIDE DEF s
  <1>4. \A k \in 1..Len(s) : OnceIn(s[k])
    BY <1>2 DEF Ledger
  <1>5. \A k \in 1..l : HeldBy(calls[k]) \cap HeldBy(c) = {}
    BY DEF Ledger
  <1>6. \A j, k \in 1..Len(s) : j # k => HeldBy(s[j]) \cap HeldBy(s[k]) = {}
    BY <1>2, <1>5 DEF Ledger
  <1>7. \A k \in 1..Len(s) : HeldBy(s[k]) \cap (IdsOf(waits2) \cup {} \cup out) = {}
    BY <1>2 DEF Ledger
  <1>8. \A n : (\E k \in 1..Len(s) : n \in HeldBy(s[k]))
               <=> n \in HeldBy(c) \/ \E k \in 1..l : n \in HeldBy(calls[k])
    BY <1>2, <1>3
  <1>9. Ledger(s, waits2, {}, out, total)
    BY <1>4, <1>6, <1>7, <1>8 DEF Ledger
  <1> QED  BY <1>9 DEF s

(* The call on top exchanges events for those in transit. *)
LEMMA LedgerWith ==
  ASSUME NEW S, stack \in Seq(S), stack # <<>>, NEW c \in S, NEW waits, NEW out, NEW total,
         NEW transit, NEW transit2,
         OnceIn(c), HeldBy(c) \cup transit2 = HeldBy(Top) \cup transit,
         HeldBy(c) \cap transit2 = {},
         Ledger(stack, waits, transit, out, total)
  PROVE  Ledger(With(c), waits, transit2, out, total)
  <1> DEFINE s == With(c)
             l == Len(stack)
  <1>1. /\ Len(s) = l /\ l \in Nat \ {0}
        /\ \A k \in 1..(l - 1) : s[k] = stack[k]
        /\ s[l] = c /\ stack[l] = Top
    BY WithLemma DEF Top
  <1>2. \A k \in 1..l : (k \in 1..(l - 1) /\ k # l /\ s[k] = stack[k]) \/ (k = l /\ s[k] = c)
    <2> HIDE DEF s, l
    <2>1. \A k \in 1..l : (k \in 1..(l - 1) /\ k # l) \/ k = l
      BY <1>1
    <2> QED  BY <2>1, <1>1
  <1>3. l \in 1..l /\ \A k \in 1..(l - 1) : k \in 1..l
    <2> HIDE DEF l
    <2> QED  BY <1>1
  <1> HIDE DEF s, l
  <1>4. \A k \in 1..l : OnceIn(s[k])
    BY <1>2 DEF Ledger, l
  <1>5. /\ \A k \in 1..(l - 1) : /\ HeldBy(stack[k]) \cap HeldBy(Top) = {}
                                 /\ HeldBy(stack[k]) \cap transit = {}
        /\ HeldBy(Top) \cap (IdsOf(waits) \cup transit \cup out) = {}
        /\ transit \cap (IdsOf(waits) \cup out) = {}
    <2>1. \A k \in 1..(l - 1) : k # l
      BY <1>1
    <2> QED  BY <2>1, <1>1, <1>3 DEF Ledger, l
  <1>6. /\ \A k \in 1..(l - 1) : /\ HeldBy(stack[k]) \cap HeldBy(c) = {}
                                 /\ HeldBy(stack[k]) \cap transit2 = {}
        /\ HeldBy(c) \cap (IdsOf(waits) \cup transit2 \cup out) = {}
        /\ transit2 \cap (IdsOf(waits) \cup out) = {}
    BY <1>5
  <1>7. \A j, k \in 1..l : j # k => HeldBy(s[j]) \cap HeldBy(s[k]) = {}
    BY <1>2, <1>3, <1>6 DEF Ledger, l
  <1>8. \A k \in 1..l : HeldBy(s[k]) \cap (IdsOf(waits) \cup transit2 \cup out) = {}
    <2>1. \A k \in 1..(l - 1) : HeldBy(stack[k]) \cap (IdsOf(waits) \cup out) = {}
      BY <1>3 DEF Ledger, l
    <2> QED  BY <1>2, <1>6, <2>1
  <1>9. \A n : n \in transit2 \/ (\E k \in 1..l : n \in HeldBy(s[k]))
               <=> n \in transit \/ \E k \in 1..l : n \in HeldBy(stack[k])
    <2>1. \A n : (\E k \in 1..l : n \in HeldBy(s[k]))
                 <=> n \in HeldBy(c) \/ \E k \in 1..(l - 1) : n \in HeldBy(stack[k])
      BY <1>1, <1>2, <1>3
    <2>2. \A k \in 1..l : k \in 1..(l - 1) \/ k = l
      BY <1>2
    <2>3. \A n : (\E k \in 1..l : n \in HeldBy(stack[k]))
                 <=> n \in HeldBy(Top) \/ \E k \in 1..(l - 1) : n \in HeldBy(stack[k])
      BY <2>2, <1>1, <1>3
    <2> QED  BY <2>1, <2>3
  <1>10. Ledger(s, waits, transit2, out, total)
    BY <1>1, <1>4, <1>6, <1>7, <1>8, <1>9 DEF Ledger, l
  <1> QED  BY <1>10 DEF s

(* The call on top ends, and what it held is in transit. *)
LEMMA LedgerBelow ==
  ASSUME NEW S, stack \in Seq(S), stack # <<>>, NEW waits, NEW out, NEW total,
         Ledger(stack, waits, {}, out, total)
  PROVE  Ledger(Below, waits, HeldBy(Top), out, total)
  <1> DEFINE s == Below
             l == Len(stack)
  <1>1. /\ Len(s) = l - 1 /\ l \in Nat \ {0}
        /\ \A k \in 1..(l - 1) : s[k] = stack[k]
        /\ stack[l] = Top
    <2>1. stack[1] \in S
      BY EmptySeq, ElementOfSeq
    <2> QED  BY <2>1, WithLemma DEF Top
  <1>2. l \in 1..l /\ \A k \in 1..(l - 1) : k \in 1..l /\ k # l
    BY <1>1
  <1>3. \A k \in 1..l : k \in 1..(l - 1) \/ k = l
    BY <1>1
  <1> HIDE DEF s, l
  <1>4. /\ \A k \in 1..(l - 1) : HeldBy(stack[k]) \cap HeldBy(Top) = {}
        /\ HeldBy(Top) \cap (IdsOf(waits) \cup out) = {}
    BY <1>1, <1>2 DEF Ledger, l
  <1>5. \A n : (\E k \in 1..l : n \in HeldBy(stack[k]))
               <=> n \in HeldBy(Top) \/ \E k \in 1..(l - 1) : n \in HeldBy(s[k])
    BY <1>1, <1>2, <1>3
  <1>6. \A k \in 1..(l - 1) : OnceIn(s[k]) /\ HeldBy(s[k]) \cap (IdsOf(waits) \cup out) = {}
    BY <1>1, <1>2 DEF Ledger, l
  <1>7. \A j, k \in 1..(l - 1) : j # k => HeldBy(s[j]) \cap HeldBy(s[k]) = {}
    BY <1>1, <1>2 DEF Ledger, l
  <1>8. Ledger(s, waits, HeldBy(Top), out, total)
    <2>1. \A n : n \in 1..total <=> \/ n \in HeldBy(Top) \/ n \in out \/ n \in IdsOf(waits)
                                    \/ \E k \in 1..Len(s) : n \in HeldBy(s[k])
      BY <1>1, <1>5 DEF Ledger, l
    <2>2. \A k \in 1..Len(s) : HeldBy(s[k]) \cap HeldBy(Top) = {}
      BY <1>1, <1>4
    <2> QED  BY <1>1, <1>4, <1>6, <1>7, <2>1, <2>2 DEF Ledger
  <1> QED  BY <1>8 DEF s

-----------------------------------------------------------------------------
(* The calls. *)

(* What is left to scan fits the place in acquire_pending(), BLOCKED_EVENTS *)
(* is locked while events are sent only, the event in hand has a number.    *)
CallOK(c) ==
  c.kind = "delayed" =>
    /\ c.pc \in {"count", "convert", "resized"} => c.scan = <<>>
    /\ c.pc = "clear" => c.scan # <<>>
    /\ c.guard => c.pc = "convert" /\ c.signals = <<>>
    /\ c.next.id = 0 => c.next = NoEvent

(* The calls that fire handlers of S only. *)
KnownBy(S) ==
  {c \in Run \cup Delayed : CallOK(c) /\ (c.kind = "run" => ToSet(c.todo) \in SUBSET S)}

Descs(events) == {events[n].desc : n \in DOMAIN events}

(* The signals that a call is going to look for, and those it carries. *)
Scans(c) == IF c.kind = "delayed" THEN ToSet(c.scan) ELSE {}
Carries(c) == IF c.kind = "delayed" THEN ToSet(c.signals) \cup Descs(c.to_send) ELSE {}
Scanned(calls) == UNION {Scans(calls[k]) : k \in 1..Len(calls)}
Carried(calls) == UNION {Carries(calls[k]) : k \in 1..Len(calls)}

NoGuards(calls) == \A k \in 1..Len(calls) : calls[k].kind = "delayed" => ~calls[k].guard

LEMMA KindOfCall ==
  ASSUME NEW S, NEW c \in KnownBy(S)
  PROVE  /\ CallOK(c)
         /\ c.kind = "delayed" => c \in Delayed
         /\ c.kind = "run" => c \in Run /\ ToSet(c.todo) \in SUBSET S
         /\ c.kind \in {"run", "delayed"}
  BY DEF KnownBy, Run, Delayed

LEMMA DescsOfTail ==
  ASSUME NEW S, NEW seq \in Seq(S), seq # <<>>
  PROVE  Descs(seq) = {Head(seq).desc} \cup Descs(Tail(seq))
  <1>1. /\ DOMAIN seq = 1..Len(seq) /\ Len(seq) \in Nat \ {0} /\ Head(seq) = seq[1]
        /\ DOMAIN Tail(seq) = 1..(Len(seq) - 1)
        /\ \A n \in 1..(Len(seq) - 1) : Tail(seq)[n] = seq[n + 1]
    BY TailLemma, LenProperties
  <1> DEFINE l == Len(seq)
             t == Tail(seq)
  <1>2. /\ 1 \in 1..l /\ \A n \in 1..l : n = 1 \/ (n - 1 \in 1..(l - 1) /\ n = (n - 1) + 1)
        /\ \A n \in 1..(l - 1) : n + 1 \in 1..l
    <2> HIDE DEF l
    <2> QED  BY <1>1 DEF l
  <1>3. Descs(seq) = {seq[n].desc : n \in 1..l} /\ Descs(t) = {t[n].desc : n \in 1..(l - 1)}
    BY <1>1 DEF Descs
  <1>4. \A n \in 1..(l - 1) : t[n] = seq[n + 1]
    BY <1>1
  <1>5. Head(seq) = seq[1]
    BY <1>1
  <1> HIDE DEF l, t
  <1>6. ASSUME NEW n \in 1..l
        PROVE  seq[n].desc \in {seq[1].desc} \cup {t[m].desc : m \in 1..(l - 1)}
    <2>1. CASE n = 1
      BY <2>1
    <2>2. CASE n - 1 \in 1..(l - 1) /\ n = (n - 1) + 1
      <3>1. t[n - 1] = seq[n]
        BY <2>2, <1>4
      <3> QED  BY <2>2, <3>1
    <2> QED  BY <2>1, <2>2, <1>2
  <1>7. \A m \in 1..(l - 1) : t[m].desc \in {seq[n].desc : n \in 1..l}
    BY <1>2, <1>4
  <1> QED  BY <1>2, <1>3, <1>5, <1>6, <1>7 DEF t

LEMMA DescsOfAppend ==
  ASSUME NEW S, NEW seq \in Seq(S), NEW x \in S
  PROVE  Descs(Append(seq, x)) = Descs(seq) \cup {x.desc}
  <1> DEFINE s == Append(seq, x)
             l == Len(seq)
  <1>1. /\ DOMAIN s = 1..(l + 1) /\ l \in Nat /\ DOMAIN seq = 1..l
        /\ \A n \in 1..l : s[n] = seq[n]
        /\ s[l + 1] = x
    BY AppendLemma, LenProperties
  <1> HIDE DEF s, l
  <1>2. /\ \A n \in 1..(l + 1) : n \in 1..l \/ n = l + 1
        /\ \A n \in 1..l : n \in 1..(l + 1)
        /\ l + 1 \in 1..(l + 1)
    BY <1>1
  <1>3. Descs(s) = Descs(seq) \cup {x.desc}
    BY <1>1, <1>2 DEF Descs
  <1> QED  BY <1>3 DEF s

(* The union over the calls, when one is added or the top one is replaced.  *)
LEMMA AddedCall ==
  ASSUME NEW S, NEW calls \in Seq(S), NEW c \in S
  PROVE  /\ Scanned(Append(calls, c)) = Scanned(calls) \cup Scans(c)
         /\ Carried(Append(calls, c)) = Carried(calls) \cup Carries(c)
         /\ NoGuards(Append(calls, c)) <=> NoGuards(calls) /\ (c.kind = "delayed" => ~c.guard)
  <1> DEFINE s == Append(calls, c)
             l == Len(calls)
  <1>1. /\ Len(s) = l + 1 /\ l \in Nat
        /\ \A n \in 1..l : s[n] = calls[n]
        /\ s[l + 1] = c
    BY AppendLemma
  <1> HIDE DEF s
  <1>2. /\ \A n \in 1..(l + 1) : n \in 1..l \/ n = l + 1
        /\ \A n \in 1..l : n \in 1..(l + 1)
        /\ l + 1 \in 1..(l + 1)
    <2> HIDE DEF l
    <2> QED  BY <1>1
  <1> HIDE DEF l
  <1>3. Scanned(s) = Scanned(calls) \cup Scans(c)
    <2>1. Scanned(s) = UNION {Scans(s[k]) : k \in 1..(l + 1)} /\ Scanned(calls) = UNION {Scans(calls[k]) : k \in 1..l}
      BY <1>1 DEF Scanned, l
    <2> QED  BY <2>1, <1>1, <1>2
  <1>4. Carried(s) = Carried(calls) \cup Carries(c)
    <2>1. Carried(s) = UNION {Carries(s[k]) : k \in 1..(l + 1)} /\ Carried(calls) = UNION {Carries(calls[k]) : k \in 1..l}
      BY <1>1 DEF Carried, l
    <2> QED  BY <2>1, <1>1, <1>2
  <1>5. NoGuards(s) <=> NoGuards(calls) /\ (c.kind = "delayed" => ~c.guard)
    BY <1>1, <1>2 DEF NoGuards, l
  <1> QED  BY <1>3, <1>4, <1>5 DEF s

LEMMA StackIsBelowAndTop ==
  ASSUME NEW S, stack \in Seq(S), stack # <<>>
  PROVE  /\ Below \in Seq(S) /\ Top \in S /\ stack = With(Top)
         /\ Scanned(stack) = Scanned(Below) \cup Scans(Top)
         /\ Carried(stack) = Carried(Below) \cup Carries(Top)
  <1>1. /\ Len(stack) \in Nat \ {0} /\ Top \in S
        /\ Below \in Seq(S) /\ Len(Below) = Len(stack) - 1
        /\ \A k \in 1..(Len(stack) - 1) : Below[k] = stack[k]
    <2>1. stack[1] \in S
      BY EmptySeq, ElementOfSeq
    <2> QED  BY <2>1, WithLemma
  <1>2. /\ With(Top) \in Seq(S) /\ Len(With(Top)) = Len(stack) /\ With(Top)[Len(stack)] = stack[Len(stack)]
        /\ \A k \in 1..(Len(stack) - 1) : With(Top)[k] = stack[k]
    BY <1>1, WithLemma DEF Top
  <1>3. \A k \in 1..Len(stack) : With(Top)[k] = stack[k]
    <2>1. \A k \in 1..Len(stack) : k \in 1..(Len(stack) - 1) \/ k = Len(stack)
      BY <1>1
    <2> QED  BY <2>1, <1>2
  <1>4. stack = With(Top)
    <2> DEFINE w == With(Top)
    <2>1. w \in Seq(S) /\ Len(w) = Len(stack) /\ \A k \in 1..Len(stack) : w[k] = stack[k]
      BY <1>2, <1>3
    <2> HIDE DEF w
    <2>2. w = stack
      BY <2>1, SeqEqual
    <2> QED  BY <2>2 DEF w
  <1>5. /\ Scanned(Append(Below, Top)) = Scanned(Below) \cup Scans(Top)
        /\ Carried(Append(Below, Top)) = Carried(Below) \cup Carries(Top)
    <2> DEFINE b == Below
               t == Top
    <2>1. b \in Seq(S) /\ t \in S
      BY <1>1
    <2> HIDE DEF b, t
    <2>2. /\ Scanned(Append(b, t)) = Scanned(b) \cup Scans(t)
          /\ Carried(Append(b, t)) = Carried(b) \cup Carries(t)
      BY <2>1, AddedCall
    <2> QED  BY <2>2 DEF b, t
  <1> QED  BY <1>1, <1>4, <1>5 DEF With

-----------------------------------------------------------------------------
(* fire(). *)

LEMMA RunFrameLemma ==
  ASSUME NEW S, NEW event \in Event, NEW known \in Seq(Handlers), ToSet(known) \in SUBSET S
  PROVE  LET c == RunFrame(event, known) IN
         /\ c \in KnownBy(S) /\ c.kind = "run"
         /\ HeldBy(c) = {} /\ OnceIn(c) /\ Scans(c) = {} /\ Carries(c) = {}
  <1> DEFINE todo == Only(known, {h \in Handlers : Desc[h] = event.desc})
             c == RunFrame(event, known)
  <1>1. todo \in Seq(Handlers) /\ ToSet(todo) \in SUBSET S
    <2>1. todo \in Seq(Handlers) /\ ToSet(todo) = ToSet(known) \cap {h \in Handlers : Desc[h] = event.desc}
      BY OnlyLemma
    <2> QED  BY <2>1
  <1>2. c = [kind |-> "run", event |-> event, handler |-> None, blocks |-> FALSE, one_shot |-> FALSE,
             todo |-> todo]
    BY DEF RunFrame
  <1> HIDE DEF todo, c
  <1>3. c \in Run /\ c.kind = "run" /\ c.todo = todo
    BY <1>1, <1>2 DEF Run
  <1>4. c \in KnownBy(S)
    BY <1>1, <1>3 DEF KnownBy, CallOK
  <1> QED  BY <1>3, <1>4 DEF HeldBy, OnceIn, Scans, Carries, c

LEMMA PushedCall ==
  ASSUME NEW S, NEW calls \in Seq(S), NEW c \in S, Scans(c) = {}, c.kind = "delayed" => ~c.guard
  PROVE  /\ Append(calls, c) \in Seq(S) /\ Scanned(Append(calls, c)) = Scanned(calls)
         /\ Carried(Append(calls, c)) = Carried(calls) \cup Carries(c)
         /\ NoGuards(calls) => NoGuards(Append(calls, c))
  <1>1. Append(calls, c) \in Seq(S)
    BY AppendLemma
  <1>2. /\ Scanned(Append(calls, c)) = Scanned(calls) \cup Scans(c)
        /\ Carried(Append(calls, c)) = Carried(calls) \cup Carries(c)
        /\ NoGuards(Append(calls, c)) <=> NoGuards(calls) /\ (c.kind = "delayed" => ~c.guard)
    BY AddedCall
  <1> QED  BY <1>1, <1>2

(* The event in hand is queued or dispatched. *)
LEMMA DeliverLemma ==
  ASSUME NEW S, NEW event \in Event, NEW calls \in Seq(KnownBy(S)),
         NEW known \in Seq(Handlers), ToSet(known) \in SUBSET S, blocked \in Seq(Event),
         NEW total, Ledger(calls, blocked, {event.id}, dispatched, total),
         Deliver(event, calls, known)
  PROVE  /\ stack' \in Seq(KnownBy(S)) /\ blocked' \in Seq(Event) /\ owed' \in SUBSET owed
         /\ Ledger(stack', blocked', {}, dispatched', total)
         /\ Scanned(stack') = Scanned(calls) /\ Carried(stack') = Carried(calls)
         /\ \A s \in owed' : s \in Descs(blocked) \cup {event.desc} => s \in Descs(blocked')
         /\ NoGuards(calls) => NoGuards(stack')
  <1> DEFINE c == RunFrame(event, known)
  <1>1. CASE IsBlocked(event.desc)
    <2>1. blocked' = Append(blocked, event) /\ stack' = calls /\ dispatched' = dispatched /\ owed' = owed
      BY <1>1 DEF Deliver
    <2>2. blocked' \in Seq(Event) /\ Descs(blocked') = Descs(blocked) \cup {event.desc}
      BY <2>1, AppendLemma, DescsOfAppend
    <2>3. Ledger(calls, Append(blocked, event), {}, dispatched, total)
      BY LedgerWait
    <2> QED  BY <2>1, <2>2, <2>3
  <1>2. CASE ~IsBlocked(event.desc)
    <2>1. /\ stack' = Append(calls, c) /\ dispatched' = dispatched \cup {event.id}
          /\ owed' = owed \ {event.desc} /\ blocked' = blocked
      BY <1>2 DEF Deliver
    <2>2. /\ c \in KnownBy(S) /\ c.kind = "run"
          /\ HeldBy(c) = {} /\ OnceIn(c) /\ Scans(c) = {} /\ Carries(c) = {}
      BY RunFrameLemma
    <2> HIDE DEF c
    <2> DEFINE s == Append(calls, c)
    <2>3. /\ s \in Seq(KnownBy(S)) /\ Scanned(s) = Scanned(calls)
          /\ Carried(s) = Carried(calls) /\ (NoGuards(calls) => NoGuards(s))
      <3>1. /\ s \in Seq(KnownBy(S)) /\ Scanned(s) = Scanned(calls)
            /\ Carried(s) = Carried(calls) \cup Carries(c) /\ (NoGuards(calls) => NoGuards(s))
        BY <2>2, PushedCall
      <3> HIDE DEF s
      <3> QED  BY <3>1, <2>2
    <2>4. Ledger(calls, blocked, {}, dispatched \cup {event.id}, total)
      BY LedgerOut
    <2>5. Ledger(Append(calls, c), blocked, {}, dispatched \cup {event.id}, total)
      <3>1. Distinct(blocked) /\ HeldBy(c) = (IdsOf(blocked) \ IdsOf(blocked)) \cup {}
        BY <2>2, <2>4 DEF Ledger
      <3> QED  BY <2>2, <2>4, <3>1, LedgerCall
    <2>6. Ledger(s, blocked, {}, dispatched \cup {event.id}, total)
      BY <2>5
    <2>7. stack' = s
      BY <2>1
    <2> HIDE DEF s
    <2> QED  BY <2>1, <2>3, <2>6, <2>7
  <1> QED  BY <1>1, <1>2

(* The events that waited, and the one in hand, are with the call. *)
LEMMA FireDelayedLemma ==
  ASSUME NEW S, NEW next \in Event \cup {NoEvent}, NEW calls \in Seq(KnownBy(S)),
         blocked \in Seq(Event), NEW total \in Nat, next.id = 0 => next = NoEvent,
         Ledger(calls, blocked, {next.id} \ {0}, dispatched, total),
         FireDelayed(calls, next)
  PROVE  /\ stack' \in Seq(KnownBy(S)) /\ blocked' \in Seq(Event) /\ owed' = owed
         /\ Ledger(stack', blocked', {}, dispatched', total)
         /\ Scanned(stack') = Scanned(calls) /\ Carried(stack') = Carried(calls) \cup Descs(blocked)
         /\ NoGuards(calls) => NoGuards(stack')
  <1> DEFINE c == DelayedFrame(next)
  <1>1. /\ stack' = Append(calls, c) /\ blocked' = <<>>
        /\ dispatched' = dispatched /\ owed' = owed
    BY DEF FireDelayed
  <1>2. c = [kind |-> "delayed", pc |-> "count", scan |-> <<>>, signals |-> <<>>,
             to_send |-> blocked, guard |-> FALSE, next |-> next]
    BY DEF DelayedFrame
  <1> HIDE DEF c
  <1>3. /\ c \in Delayed /\ c.kind = "delayed" /\ c.pc = "count" /\ c.scan = <<>>
        /\ c.signals = <<>> /\ c.to_send = blocked /\ c.guard = FALSE /\ c.next = next
    BY <1>2, EmptySeq DEF Delayed
  <1>4. c \in KnownBy(S)
    BY <1>3 DEF KnownBy, CallOK
  <1>5. ToSet(<<>>) = {}
    BY DEF ToSet
  <1>6. Scans(c) = {} /\ Carries(c) = Descs(blocked)
    BY <1>3, <1>5 DEF Scans, Carries
  <1>7. HeldBy(c) = IdsOf(blocked) \cup ({next.id} \ {0})
    BY <1>3 DEF HeldBy
  <1>8. Distinct(blocked) /\ OnceIn(c)
    <2>1. 0 \notin IdsOf(blocked)
      BY DEF Ledger
    <2>2. next.id \notin IdsOf(blocked) /\ Distinct(blocked)
      BY <2>1 DEF Ledger
    <2> QED  BY <1>3, <2>2 DEF OnceIn
  <1>9. /\ stack' \in Seq(KnownBy(S)) /\ Scanned(stack') = Scanned(calls)
        /\ Carried(stack') = Carried(calls) \cup Descs(blocked)
        /\ (NoGuards(calls) => NoGuards(stack'))
    <2> DEFINE s == Append(calls, c)
    <2>1. /\ s \in Seq(KnownBy(S)) /\ Scanned(s) = Scanned(calls)
          /\ Carried(s) = Carried(calls) \cup Carries(c) /\ (NoGuards(calls) => NoGuards(s))
      BY <1>3, <1>4, <1>6, PushedCall
    <2>2. stack' = s
      BY <1>1
    <2> HIDE DEF s
    <2> QED  BY <1>6, <2>1, <2>2
  <1>10. Ledger(Append(calls, c), <<>>, {}, dispatched, total)
    <2>1. HeldBy(c) = (IdsOf(blocked) \ IdsOf(<<>>)) \cup ({next.id} \ {0})
          /\ IdsOf(<<>>) \in SUBSET IdsOf(blocked) /\ Distinct(<<>>)
      BY <1>7, IdsOfEmpty
    <2> QED  BY <1>4, <1>8, <2>1, LedgerCall
  <1> QED  BY <1>1, <1>9, <1>10, EmptySeq

(* A new event. *)
LEMMA FireLemma ==
  ASSUME NEW S, NEW desc \in Signals \cup Named \cup Exits, NEW calls \in Seq(KnownBy(S)),
         NEW known \in Seq(Handlers), ToSet(known) \in SUBSET S, blocked \in Seq(Event),
         raised \in Nat, Ledger(calls, blocked, {}, dispatched, raised),
         Fire(desc, calls, known)
  PROVE  /\ stack' \in Seq(KnownBy(S)) /\ blocked' \in Seq(Event) /\ owed' \in SUBSET owed
         /\ raised' \in Nat /\ Ledger(stack', blocked', {}, dispatched', raised')
         /\ Scanned(stack') = Scanned(calls)
         /\ \A s \in owed' : s \in Descs(blocked) \cup Carried(calls)
                             => s \in Descs(blocked') \cup Carried(stack')
         /\ NoGuards(calls) => NoGuards(stack')
  <1> DEFINE event == [desc |-> desc, id |-> raised + 1]
  <1>1. event \in Event /\ event.id = raised + 1 /\ {event.id} \ {0} = {event.id}
    BY DEF Event
  <1>2. raised' = raised + 1
    BY DEF Fire
  <1>3. Ledger(calls, blocked, {event.id}, dispatched, raised + 1)
    <2>1. Ledger(calls, blocked, {raised + 1}, dispatched, raised + 1)
      BY LedgerNew
    <2> QED  BY <2>1, <1>1
  <1>4. Deliver(event, calls, known) \/ FireDelayed(calls, event)
    BY DEF Fire
  <1> HIDE DEF event
  <1>5. CASE Deliver(event, calls, known)
    <2> DEFINE t == raised + 1
    <2>1. Ledger(calls, blocked, {event.id}, dispatched, t) /\ t \in Nat /\ raised' = t
      BY <1>2, <1>3
    <2> HIDE DEF t
    <2>2. /\ stack' \in Seq(KnownBy(S)) /\ blocked' \in Seq(Event) /\ owed' \in SUBSET owed
          /\ Ledger(stack', blocked', {}, dispatched', t)
          /\ Scanned(stack') = Scanned(calls) /\ Carried(stack') = Carried(calls)
          /\ \A s \in owed' : s \in Descs(blocked) \cup {event.desc} => s \in Descs(blocked')
          /\ NoGuards(calls) => NoGuards(stack')
      BY <1>1, <1>5, <2>1, DeliverLemma
    <2> QED  BY <2>1, <2>2
  <1>6. CASE FireDelayed(calls, event)
    <2>1. Ledger(calls, blocked, {event.id} \ {0}, dispatched, raised + 1)
      BY <1>1, <1>3
    <2>2. raised + 1 \in Nat /\ event.id # 0 /\ event \in Event \cup {NoEvent}
      BY <1>1
    <2> QED  BY <1>1, <1>2, <1>6, <2>1, <2>2, FireDelayedLemma
  <1> QED  BY <1>4, <1>5, <1>6

-----------------------------------------------------------------------------
(* The invariant. *)

(* The types, and every call captured handlers that are known or removed.   *)
BaseInv ==
  /\ received \in SUBSET Signals /\ counter \in Nat /\ last_counter \in 0..counter
  /\ blocked \in Seq(Event)
  /\ handlers \in Seq(Handlers) /\ fired \in SUBSET Handlers /\ gone \in SUBSET Handlers
  /\ stack \in Seq(KnownBy(ToSet(handlers) \cup gone))
  /\ global \in Nat /\ scope \in BOOLEAN /\ cancel \in BOOLEAN /\ exited \in SUBSET Exits
  /\ raised \in Nat /\ owed \in SUBSET Signals

(* Only the call on top may hold the lock, and while it does the block that *)
(* it met is in place.                                                      *)
GuardInv ==
  /\ \A k \in 1..Len(stack) : stack[k].kind = "delayed" /\ stack[k].guard => k = Len(stack)
  /\ stack # <<>> /\ Top.kind = "delayed" /\ Top.guard => IsBlocked(None)

SignalInv ==
  /\ \A s \in received : counter # last_counter \/ s \in Scanned(stack)
  /\ \A s \in owed : s \in received \/ s \in Descs(blocked) \/ s \in Carried(stack)

LedgerInv == Ledger(stack, blocked, {}, dispatched, raised)

IInv == BaseInv /\ GuardInv /\ SignalInv /\ LedgerInv

Known == ToSet(handlers) \cup gone

LEMMA MoreKnown ==
  ASSUME NEW S, NEW T, S \in SUBSET T, NEW calls \in Seq(KnownBy(S))
  PROVE  calls \in Seq(KnownBy(T))
  <1>1. KnownBy(S) \in SUBSET KnownBy(T)
    BY DEF KnownBy
  <1> QED  BY <1>1, SeqMonotonic

LEMMA Unguarded ==
  ASSUME NEW S, stack' \in Seq(S), NoGuards(stack')
  PROVE  GuardInv'
  <1>1. \A k \in 1..Len(stack') : stack'[k].kind = "delayed" => ~stack'[k].guard
    BY DEF NoGuards
  <1>2. stack' # <<>> => Len(stack') \in 1..Len(stack')
    BY EmptySeq, LenProperties
  <1> QED  BY <1>1, <1>2 DEF GuardInv, Top

(* What is known of the stack when there is a call. *)
LEMMA TheTop ==
  ASSUME IInv, stack # <<>>
  PROVE  /\ Top \in KnownBy(Known) /\ CallOK(Top) /\ OnceIn(Top)
         /\ Top.kind = "delayed" => Top \in Delayed
         /\ Top.kind = "run" => Top \in Run /\ ToSet(Top.todo) \in SUBSET Known
         /\ Top.kind \in {"run", "delayed"}
         /\ Below \in Seq(KnownBy(Known)) /\ NoGuards(Below)
         /\ Scanned(stack) = Scanned(Below) \cup Scans(Top)
         /\ Carried(stack) = Carried(Below) \cup Carries(Top)
  <1>1. stack \in Seq(KnownBy(Known))
    BY DEF IInv, BaseInv, Known
  <1>2. /\ Below \in Seq(KnownBy(Known)) /\ Top \in KnownBy(Known)
        /\ Scanned(stack) = Scanned(Below) \cup Scans(Top)
        /\ Carried(stack) = Carried(Below) \cup Carries(Top)
    BY <1>1, StackIsBelowAndTop
  <1>3. /\ Len(stack) \in Nat \ {0} /\ Len(Below) = Len(stack) - 1
        /\ \A k \in 1..(Len(stack) - 1) : Below[k] = stack[k]
    BY <1>1, <1>2, WithLemma
  <1>4. OnceIn(Top)
    <2>1. Len(stack) \in 1..Len(stack)
      BY <1>3
    <2> QED  BY <2>1 DEF IInv, LedgerInv, Ledger, Top
  <1>5. NoGuards(Below)
    <2>1. \A k \in 1..(Len(stack) - 1) : k \in 1..Len(stack) /\ k # Len(stack)
      BY <1>3
    <2> QED  BY <1>3, <2>1 DEF NoGuards, IInv, GuardInv
  <1> QED  BY <1>2, <1>4, <1>5, KindOfCall

(* The call on top is replaced. *)
LEMMA Replaced ==
  ASSUME IInv, stack # <<>>, NEW c \in KnownBy(Known), c.kind = "delayed" => ~c.guard
  PROVE  /\ With(c) \in Seq(KnownBy(Known)) /\ NoGuards(With(c))
         /\ Scanned(With(c)) = Scanned(Below) \cup Scans(c)
         /\ Carried(With(c)) = Carried(Below) \cup Carries(c)
  <1> DEFINE b == Below
  <1>1. b \in Seq(KnownBy(Known)) /\ NoGuards(b) /\ With(c) = Append(b, c)
    BY TheTop DEF With
  <1> HIDE DEF b
  <1>2. Append(b, c) \in Seq(KnownBy(Known))
    BY <1>1, AppendLemma
  <1>3. /\ Scanned(Append(b, c)) = Scanned(b) \cup Scans(c)
        /\ Carried(Append(b, c)) = Carried(b) \cup Carries(c)
        /\ NoGuards(Append(b, c)) <=> NoGuards(b) /\ (c.kind = "delayed" => ~c.guard)
    BY <1>1, AddedCall
  <1>4. NoGuards(With(c))
    BY <1>1, <1>3
  <1>5. With(c) \in Seq(KnownBy(Known)) /\ Scanned(With(c)) = Scanned(b) \cup Scans(c)
        /\ Carried(With(c)) = Carried(b) \cup Carries(c)
    BY <1>1, <1>2, <1>3
  <1> QED  BY <1>4, <1>5 DEF b

LEMMA ReplaceStep ==
  ASSUME IInv, stack # <<>>, NEW c \in KnownBy(Known), c.kind = "delayed" => ~c.guard,
         OnceIn(c), HeldBy(c) = HeldBy(Top), stack' = With(c),
         UNCHANGED <<blocked, handlers, gone, dispatched, raised>>
  PROVE  /\ stack' \in Seq(KnownBy(ToSet(handlers) \cup gone)') /\ GuardInv' /\ LedgerInv'
         /\ Scanned(stack') = Scanned(Below) \cup Scans(c)
         /\ Carried(stack') = Carried(Below) \cup Carries(c)
  <1> DEFINE w == With(c)
  <1>1. /\ w \in Seq(KnownBy(Known)) /\ NoGuards(w)
        /\ Scanned(w) = Scanned(Below) \cup Scans(c)
        /\ Carried(w) = Carried(Below) \cup Carries(c)
    BY Replaced
  <1>2. Ledger(w, blocked, {}, dispatched, raised)
    <2>1. stack \in Seq(KnownBy(Known)) /\ Ledger(stack, blocked, {}, dispatched, raised)
      BY DEF IInv, BaseInv, Known, LedgerInv
    <2> QED  BY <2>1, LedgerWith
  <1>3. stack' = w
    OBVIOUS
  <1> HIDE DEF w
  <1>4. GuardInv'
    BY <1>1, <1>3, Unguarded
  <1>5. LedgerInv'
    BY <1>2, <1>3 DEF LedgerInv
  <1>6. stack' \in Seq(KnownBy(ToSet(handlers) \cup gone)')
    BY <1>1, <1>3 DEF Known
  <1> QED  BY <1>1, <1>3, <1>4, <1>5, <1>6

-----------------------------------------------------------------------------
(* The signal handler, and what leaves the stack alone. *)

LEMMA InitLemma == Init => IInv
  <1> SUFFICES ASSUME Init PROVE IInv
    OBVIOUS
  <1>1. stack = <<>> /\ Len(stack) = 0 /\ blocked = <<>>
    BY DEF Init
  <1>2. BaseInv
    <2>1. stack \in Seq(KnownBy(ToSet(handlers) \cup gone))
      BY <1>1, EmptySeq
    <2>2. handlers \in Seq(Handlers) /\ blocked \in Seq(Event)
      BY <1>1, EmptySeq DEF Init
    <2>3. /\ received \in SUBSET Signals /\ counter \in Nat /\ last_counter \in 0..counter
          /\ fired \in SUBSET Handlers /\ gone \in SUBSET Handlers
          /\ global \in Nat /\ exited \in SUBSET Exits
          /\ raised \in Nat /\ owed \in SUBSET Signals
      BY DEF Init
    <2>4. scope \in BOOLEAN /\ cancel \in BOOLEAN
      BY DEF Init
    <2> QED  BY <2>1, <2>2, <2>3, <2>4 DEF BaseInv
  <1>3. GuardInv
    BY <1>1 DEF GuardInv
  <1>4. SignalInv
    BY DEF Init, SignalInv
  <1>5. IdsOf(blocked) = {} /\ Distinct(blocked) /\ dispatched = {} /\ raised = 0
    BY <1>1, IdsOfEmpty DEF Init
  <1>6. LedgerInv
    BY <1>1, <1>5 DEF LedgerInv, Ledger
  <1> QED  BY <1>2, <1>3, <1>4, <1>6 DEF IInv

LEMMA MarkStep ==
  ASSUME IInv, NEW s \in Signals, Mark(s)
  PROVE  IInv'
  <1>1. /\ received' = received \cup {s} /\ counter' = counter + 1 /\ owed' = owed \cup {s}
        /\ UNCHANGED <<last_counter, blocked, handlers, fired, gone, stack, global, scope, cancel,
                       exited, raised, dispatched>>
    BY DEF Mark, registry, blocks
  <1>2. BaseInv'
    BY <1>1 DEF IInv, BaseInv
  <1>3. GuardInv' /\ LedgerInv'
    BY <1>1 DEF IInv, GuardInv, LedgerInv, Top, IsBlocked
  <1>4. counter' # last_counter'
    BY <1>1 DEF IInv, BaseInv
  <1>5. SignalInv'
    BY <1>1, <1>4 DEF IInv, SignalInv
  <1> QED  BY <1>2, <1>3, <1>5 DEF IInv

LEMMA AsideStep ==
  ASSUME IInv, Interrupt \/ EndScope \/ BlockGlobal \/ BlockErase \/ UNCHANGED vars
  PROVE  IInv'
  <1>1. /\ UNCHANGED <<received, counter, last_counter, blocked, handlers, fired, gone, stack,
                       exited, raised, dispatched, owed>>
        /\ global' \in Nat /\ scope' \in BOOLEAN /\ cancel' \in BOOLEAN
    <2>1. CASE Interrupt
      BY <2>1 DEF Interrupt, pending, registry, blocks, history, IInv, BaseInv
    <2>2. CASE EndScope
      BY <2>2 DEF EndScope, pending, registry, history, IInv, BaseInv
    <2>3. CASE BlockGlobal
      BY <2>3 DEF BlockGlobal, pending, registry, history, IInv, BaseInv
    <2>4. CASE BlockErase
      BY <2>4 DEF BlockErase, pending, registry, history, IInv, BaseInv
    <2>5. CASE UNCHANGED vars
      BY <2>5 DEF vars, pending, registry, blocks, history, IInv, BaseInv
    <2> QED  BY <2>1, <2>2, <2>3, <2>4, <2>5
  <1>2. BaseInv'
    BY <1>1 DEF IInv, BaseInv
  <1>3. LedgerInv' /\ SignalInv'
    BY <1>1 DEF IInv, LedgerInv, SignalInv
  <1>4. stack # <<>> /\ Top.kind = "delayed" => UNCHANGED <<global, scope>>
    BY DEF Interrupt, EndScope, BlockGlobal, BlockErase, Op, UserCode, InRun, vars, blocks
  <1>5. GuardInv'
    BY <1>1, <1>4 DEF IInv, GuardInv, Top, IsBlocked
  <1> QED  BY <1>2, <1>3, <1>5 DEF IInv

-----------------------------------------------------------------------------
(* Script code. *)

LEMMA NoGuardsInUserCode ==
  ASSUME IInv, UserCode
  PROVE  NoGuards(stack)
  <1>1. CASE stack = <<>>
    BY <1>1 DEF NoGuards
  <1>2. CASE InRun
    BY <1>2 DEF NoGuards, InRun, Top, IInv, GuardInv
  <1> QED  BY <1>1, <1>2 DEF UserCode

(* A new event, with the calls as they are: the rest of the action may have *)
(* added a handler.                                                         *)
LEMMA FireStepOf ==
  ASSUME IInv, NEW desc \in Signals \cup Named \cup Exits, NEW S, Known \in SUBSET S,
         NEW calls \in Seq(KnownBy(S)), NoGuards(calls),
         Scanned(calls) = Scanned(stack), Carried(calls) = Carried(stack),
         Ledger(calls, blocked, {}, dispatched, raised),
         NEW known \in Seq(Handlers), ToSet(known) \in SUBSET S,
         Fire(desc, calls, known), UNCHANGED pending
  PROVE  /\ stack' \in Seq(KnownBy(S)) /\ blocked' \in Seq(Event) /\ owed' \in SUBSET Signals
         /\ raised' \in Nat /\ GuardInv' /\ SignalInv' /\ LedgerInv'
  <1>1. blocked \in Seq(Event) /\ raised \in Nat /\ owed \in SUBSET Signals
    BY DEF IInv, BaseInv
  <1>2. /\ stack' \in Seq(KnownBy(S)) /\ blocked' \in Seq(Event) /\ owed' \in SUBSET owed
        /\ raised' \in Nat /\ Ledger(stack', blocked', {}, dispatched', raised')
        /\ Scanned(stack') = Scanned(calls)
        /\ \A s \in owed' : s \in Descs(blocked) \cup Carried(calls)
                            => s \in Descs(blocked') \cup Carried(stack')
        /\ NoGuards(stack')
    BY <1>1, FireLemma
  <1>3. GuardInv'
    BY <1>2, Unguarded
  <1>4. SignalInv'
    BY <1>2 DEF SignalInv, IInv, pending
  <1>5. LedgerInv'
    BY <1>2 DEF LedgerInv
  <1> QED  BY <1>1, <1>2, <1>3, <1>4, <1>5

LEMMA EventStep ==
  ASSUME IInv, NEW desc \in Named \cup Exits, Emit(desc) \/ (desc \in Exits /\ ProcessExit(desc))
  PROVE  IInv'
  <1>1. /\ UserCode /\ Fire(desc, stack, handlers)
        /\ UNCHANGED <<pending, handlers, fired, gone, global, scope, cancel>>
        /\ exited' \in SUBSET Exits
    BY DEF Emit, ProcessExit, Op, registry, blocks, IInv, BaseInv
  <1>2. /\ stack \in Seq(KnownBy(Known)) /\ handlers \in Seq(Handlers) /\ ToSet(handlers) \in SUBSET Known
        /\ Ledger(stack, blocked, {}, dispatched, raised)
    BY DEF IInv, BaseInv, Known, LedgerInv
  <1>3. /\ stack' \in Seq(KnownBy(Known)) /\ blocked' \in Seq(Event) /\ owed' \in SUBSET Signals
        /\ raised' \in Nat /\ GuardInv' /\ SignalInv' /\ LedgerInv'
    <2>1. NoGuards(stack) /\ desc \in Signals \cup Named \cup Exits /\ UNCHANGED pending
      BY <1>1, NoGuardsInUserCode
    <2> QED  BY <1>1, <1>2, <2>1, FireStepOf
  <1>4. BaseInv'
    BY <1>1, <1>3 DEF IInv, BaseInv, Known, pending
  <1> QED  BY <1>3, <1>4 DEF IInv

LEMMA DefineStep ==
  ASSUME IInv, NEW h \in Handlers, DefineFunction(h)
  PROVE  IInv'
  <1> DEFINE S == ToSet(Append(handlers, h)) \cup gone
  <1>1. /\ UserCode /\ handlers' = Append(handlers, h)
        /\ UNCHANGED <<pending, fired, gone, global, scope, cancel, exited>>
    BY DEF DefineFunction, Op, blocks
  <1>2. /\ handlers \in Seq(Handlers) /\ stack \in Seq(KnownBy(Known))
        /\ Ledger(stack, blocked, {}, dispatched, raised)
    BY DEF IInv, BaseInv, Known, LedgerInv
  <1>3. handlers' \in Seq(Handlers) /\ Known \in SUBSET S /\ ToSet(handlers') \in SUBSET S
        /\ S = (ToSet(handlers) \cup gone)'
    <2>1. Append(handlers, h) \in Seq(Handlers) /\ ToSet(Append(handlers, h)) = ToSet(handlers) \cup {h}
      BY <1>2, AppendLemma
    <2> QED  BY <1>1, <2>1 DEF Known
  <1> HIDE DEF S
  <1>4. stack \in Seq(KnownBy(S))
    BY <1>2, <1>3, MoreKnown
  <1>5. /\ stack' \in Seq(KnownBy(S)) /\ blocked' \in Seq(Event) /\ owed' \in SUBSET Signals
        /\ raised' \in Nat /\ GuardInv' /\ SignalInv' /\ LedgerInv'
    <2>1. CASE Desc[h] \in exited
      <3>1. Fire(Desc[h], stack, handlers') /\ Desc[h] \in Signals \cup Named \cup Exits
        BY <2>1 DEF DefineFunction, IInv, BaseInv
      <3>2. NoGuards(stack) /\ UNCHANGED pending
        BY <1>1, NoGuardsInUserCode
      <3> QED  BY <1>2, <1>3, <1>4, <3>1, <3>2, FireStepOf
    <2>2. CASE Desc[h] \notin exited
      <3>1. UNCHANGED <<received, counter, last_counter, blocked, stack, raised, dispatched, owed,
                        global, scope>>
        BY <2>2, <1>1 DEF DefineFunction, history, pending
      <3>2. /\ stack' \in Seq(KnownBy(S)) /\ blocked' \in Seq(Event) /\ owed' \in SUBSET Signals
            /\ raised' \in Nat
        BY <3>1, <1>4 DEF IInv, BaseInv
      <3>3. GuardInv'
        BY <3>1 DEF IInv, GuardInv, Top, IsBlocked
      <3>4. SignalInv' /\ LedgerInv'
        BY <3>1 DEF IInv, SignalInv, LedgerInv
      <3> QED  BY <3>2, <3>3, <3>4
    <2> QED  BY <2>1, <2>2
  <1>6. BaseInv'
    BY <1>1, <1>3, <1>5 DEF IInv, BaseInv, pending
  <1> QED  BY <1>5, <1>6 DEF IInv

(* Handlers that are removed are known as such. *)
LEMMA RemoveLemma ==
  ASSUME IInv, NEW which \in SUBSET Handlers, RemoveHandlers(which)
  PROVE  /\ handlers' \in Seq(Handlers) /\ gone' \in SUBSET Handlers
         /\ Known \in SUBSET (ToSet(handlers) \cup gone)'
  <1>1. handlers \in Seq(Handlers) /\ gone \in SUBSET Handlers
    BY DEF IInv, BaseInv
  <1>2. handlers' \in Seq(Handlers) /\ ToSet(handlers') = ToSet(handlers) \cap (Handlers \ which)
    <2>1. handlers' = Only(handlers, Handlers \ which)
      BY DEF RemoveHandlers
    <2> QED  BY <1>1, <2>1, OnlyLemma
  <1>3. ToSet(handlers) \in SUBSET Handlers
    BY <1>1, ToSetIs
  <1> QED  BY <1>1, <1>2, <1>3 DEF RemoveHandlers, Known

LEMMA EraseStep ==
  ASSUME IInv, NEW h \in Handlers, EraseFunction(h)
  PROVE  IInv'
  <1> DEFINE S == (ToSet(handlers) \cup gone)'
  <1>1. /\ RemoveHandlers({h})
        /\ UNCHANGED <<received, counter, last_counter, blocked, fired, stack, global, scope, cancel,
                       exited, raised, dispatched, owed>>
    BY DEF EraseFunction, pending, blocks, history
  <1>2. handlers' \in Seq(Handlers) /\ gone' \in SUBSET Handlers /\ Known \in SUBSET S
    BY <1>1, RemoveLemma
  <1>3. stack' \in Seq(KnownBy(S))
    <2> HIDE DEF S
    <2>1. stack \in Seq(KnownBy(Known))
      BY DEF IInv, BaseInv, Known
    <2> QED  BY <1>1, <1>2, <2>1, MoreKnown
  <1>4. BaseInv'
    BY <1>1, <1>2, <1>3 DEF IInv, BaseInv
  <1>5. GuardInv'
    BY <1>1 DEF IInv, GuardInv, Top, IsBlocked
  <1>6. SignalInv' /\ LedgerInv'
    BY <1>1 DEF IInv, SignalInv, LedgerInv
  <1> QED  BY <1>4, <1>5, <1>6 DEF IInv

LEMMA BlockLocalStep ==
  ASSUME IInv, BlockLocal
  PROVE  IInv'
  <1>1. UNCHANGED <<received, counter, last_counter, blocked, handlers, fired, gone, global, cancel,
                    exited, raised, dispatched, owed>>
    BY DEF BlockLocal, pending, registry, history
  <1>2. CASE stack = <<>>
    <2>1. stack' = stack /\ scope' = TRUE
      BY <1>2 DEF BlockLocal
    <2>2. BaseInv' /\ GuardInv' /\ SignalInv' /\ LedgerInv'
      BY <1>1, <1>2, <2>1 DEF IInv, BaseInv, GuardInv, SignalInv, LedgerInv
    <2> QED  BY <2>2 DEF IInv
  <1>3. CASE stack # <<>>
    <2> DEFINE c == [Top EXCEPT !.blocks = TRUE]
    <2>1. stack' = With(c) /\ scope' = scope /\ Top.kind = "run"
      BY <1>3 DEF BlockLocal, Op, UserCode, InRun
    <2>2. Top \in Run /\ ToSet(Top.todo) \in SUBSET Known
      BY <1>3, <2>1, TheTop
    <2>3. c \in Run /\ c.kind = "run" /\ c.todo = Top.todo
      BY <2>2 DEF Run
    <2> HIDE DEF c
    <2>4. c \in KnownBy(Known) /\ OnceIn(c) /\ HeldBy(c) = HeldBy(Top) /\ Scans(c) = Scans(Top)
          /\ Carries(c) = Carries(Top)
      BY <2>1, <2>2, <2>3 DEF KnownBy, CallOK, OnceIn, HeldBy, Scans, Carries
    <2>5. c.kind = "delayed" => ~c.guard
      BY <2>3
    <2>6. /\ stack' \in Seq(KnownBy(ToSet(handlers) \cup gone)') /\ GuardInv' /\ LedgerInv'
          /\ Scanned(stack') = Scanned(Below) \cup Scans(c)
          /\ Carried(stack') = Carried(Below) \cup Carries(c)
      BY <1>1, <1>3, <2>1, <2>4, <2>5, ReplaceStep
    <2>7. Scanned(stack') = Scanned(stack) /\ Carried(stack') = Carried(stack)
      BY <1>3, <2>4, <2>6, TheTop
    <2>8. BaseInv'
      BY <1>1, <2>1, <2>6 DEF IInv, BaseInv
    <2>9. SignalInv'
      BY <1>1, <2>7 DEF IInv, SignalInv
    <2> QED  BY <2>6, <2>8, <2>9 DEF IInv
  <1> QED  BY <1>2, <1>3

LEMMA ReadInputStep ==
  ASSUME IInv, ReadInput
  PROVE  IInv'
  <1>1. /\ stack = <<>> /\ cancel' = FALSE /\ FireDelayed(stack, NoEvent)
        /\ UNCHANGED <<received, counter, last_counter, handlers, fired, gone, global, scope, exited,
                       raised>>
    BY DEF ReadInput, pending, registry, blocks
  <1>2. /\ stack \in Seq(KnownBy(Known)) /\ blocked \in Seq(Event) /\ raised \in Nat
        /\ Ledger(stack, blocked, {}, dispatched, raised) /\ NoGuards(stack)
    BY <1>1 DEF IInv, BaseInv, Known, LedgerInv, NoGuards
  <1>3. NoEvent \in Event \cup {NoEvent} /\ {NoEvent.id} \ {0} = {}
        /\ (NoEvent.id = 0 => NoEvent = NoEvent)
    BY DEF NoEvent
  <1>4. /\ stack' \in Seq(KnownBy(Known)) /\ blocked' \in Seq(Event) /\ owed' = owed
        /\ Ledger(stack', blocked', {}, dispatched', raised)
        /\ Scanned(stack') = Scanned(stack) /\ Carried(stack') = Carried(stack) \cup Descs(blocked)
        /\ NoGuards(stack')
    <2> DEFINE n == NoEvent
    <2>1. n \in Event \cup {NoEvent} /\ (n.id = 0 => n = NoEvent)
          /\ Ledger(stack, blocked, {n.id} \ {0}, dispatched, raised)
      BY <1>2, <1>3
    <2>2. FireDelayed(stack, n)
      BY <1>1
    <2> HIDE DEF n
    <2> QED  BY <1>2, <2>1, <2>2, FireDelayedLemma
  <1>5. BaseInv'
    BY <1>1, <1>4 DEF IInv, BaseInv, Known
  <1>6. GuardInv'
    BY <1>4, Unguarded
  <1>7. SignalInv'
    BY <1>1, <1>4 DEF IInv, SignalInv
  <1>8. LedgerInv'
    BY <1>1, <1>4 DEF LedgerInv
  <1> QED  BY <1>5, <1>6, <1>7, <1>8 DEF IInv

-----------------------------------------------------------------------------
(* fire_delayed(). *)

(* A call of fire_delayed() that keeps its events and is given another      *)
(* place, other signals or another rest of the scan.                        *)
LEMMA ScanStep ==
  ASSUME IInv, stack # <<>>, Top.kind = "delayed", NEW c \in Delayed, CallOK(c), ~c.guard,
         c.kind = "delayed", c.to_send = Top.to_send, c.next = Top.next, stack' = With(c),
         UNCHANGED <<blocked, handlers, gone, dispatched, raised>>
  PROVE  /\ stack' \in Seq(KnownBy(ToSet(handlers) \cup gone)') /\ GuardInv' /\ LedgerInv'
         /\ Scanned(stack) = Scanned(Below) \cup ToSet(Top.scan)
         /\ Scanned(stack') = Scanned(Below) \cup ToSet(c.scan)
         /\ Carried(stack) = Carried(Below) \cup ToSet(Top.signals) \cup Descs(Top.to_send)
         /\ Carried(stack') = Carried(Below) \cup ToSet(c.signals) \cup Descs(Top.to_send)
  <1>1. /\ OnceIn(Top)
        /\ Scanned(stack) = Scanned(Below) \cup Scans(Top)
        /\ Carried(stack) = Carried(Below) \cup Carries(Top)
    BY TheTop
  <1>2. c \in KnownBy(Known)
    BY DEF KnownBy
  <1>3. OnceIn(c) /\ HeldBy(c) = HeldBy(Top)
    BY <1>1 DEF OnceIn, HeldBy
  <1>4. /\ stack' \in Seq(KnownBy(ToSet(handlers) \cup gone)') /\ GuardInv' /\ LedgerInv'
        /\ Scanned(stack') = Scanned(Below) \cup Scans(c)
        /\ Carried(stack') = Carried(Below) \cup Carries(c)
    BY <1>2, <1>3, ReplaceStep
  <1>5. /\ Scans(Top) = ToSet(Top.scan) /\ Scans(c) = ToSet(c.scan)
        /\ Carries(Top) = ToSet(Top.signals) \cup Descs(Top.to_send)
        /\ Carries(c) = ToSet(c.signals) \cup Descs(Top.to_send)
    BY DEF Scans, Carries
  <1> QED  BY <1>1, <1>4, <1>5

LEMMA LoadCountStep ==
  ASSUME IInv, LoadCount
  PROVE  IInv'
  <1>1. /\ stack # <<>> /\ Top.kind = "delayed" /\ Top.pc = "count"
        /\ UNCHANGED <<received, counter, blocked, handlers, fired, gone, global, scope, cancel, exited,
                       raised, dispatched, owed>>
    BY DEF LoadCount, InDelayed, registry, blocks, history
  <1>2. Top \in Delayed /\ Top.scan = <<>> /\ ~Top.guard /\ (Top.next.id = 0 => Top.next = NoEvent)
    BY <1>1, TheTop DEF CallOK
  <1>3. CASE counter = last_counter
    <2> DEFINE c == [Top EXCEPT !.pc = "convert"]
    <2>1. stack' = With(c) /\ last_counter' = last_counter
      BY <1>3 DEF LoadCount
    <2>2. /\ c \in Delayed /\ c.kind = "delayed" /\ c.pc = "convert" /\ c.scan = <<>> /\ ~c.guard
          /\ c.to_send = Top.to_send /\ c.next = Top.next /\ c.signals = Top.signals
      BY <1>1, <1>2 DEF Delayed
    <2> HIDE DEF c
    <2>3. CallOK(c)
      BY <1>2, <2>2 DEF CallOK
    <2>4. /\ stack' \in Seq(KnownBy(ToSet(handlers) \cup gone)') /\ GuardInv' /\ LedgerInv'
          /\ Scanned(stack') = Scanned(stack) /\ Carried(stack') = Carried(stack)
      BY <1>1, <1>2, <2>1, <2>2, <2>3, ScanStep
    <2>5. BaseInv' /\ SignalInv'
      BY <1>1, <2>1, <2>4 DEF IInv, BaseInv, SignalInv
    <2> QED  BY <2>4, <2>5 DEF IInv
  <1>4. CASE counter # last_counter
    <2> DEFINE c == AfterCount
    <2>1. stack' = With(c) /\ last_counter' = counter
      BY <1>4 DEF LoadCount
    <2>2. /\ c \in Delayed /\ c.kind = "delayed" /\ c.pc = "scan" /\ c.scan = SignalOrder /\ ~c.guard
          /\ c.to_send = Top.to_send /\ c.next = Top.next /\ c.signals = Top.signals
      BY <1>1, <1>2, SignalsAreListed DEF Delayed, AfterCount
    <2> HIDE DEF c
    <2>3. CallOK(c)
      BY <1>2, <2>2 DEF CallOK
    <2>4. /\ stack' \in Seq(KnownBy(ToSet(handlers) \cup gone)') /\ GuardInv' /\ LedgerInv'
          /\ Scanned(stack') = Scanned(Below) \cup Signals /\ Carried(stack') = Carried(stack)
      BY <1>1, <1>2, <2>1, <2>2, <2>3, ScanStep DEF Signals
    <2>5. BaseInv' /\ SignalInv'
      BY <1>1, <2>1, <2>4 DEF IInv, BaseInv, SignalInv
    <2> QED  BY <2>4, <2>5 DEF IInv
  <1> QED  BY <1>3, <1>4

LEMMA LoadSignalStep ==
  ASSUME IInv, LoadSignal
  PROVE  IInv'
  <1> DEFINE c == IF Top.scan = <<>> THEN [Top EXCEPT !.pc = "convert"]
                  ELSE IF Head(Top.scan) \in received THEN [Top EXCEPT !.pc = "clear"]
                  ELSE [Top EXCEPT !.scan = Tail(@)]
  <1>1. /\ stack # <<>> /\ Top.kind = "delayed" /\ Top.pc = "scan" /\ stack' = With(c)
        /\ UNCHANGED <<received, counter, last_counter, blocked, handlers, fired, gone, global, scope,
                       cancel, exited, raised, dispatched, owed>>
    BY DEF LoadSignal, InDelayed, pending, registry, blocks, history
  <1>2. Top \in Delayed /\ ~Top.guard /\ (Top.next.id = 0 => Top.next = NoEvent)
    BY <1>1, TheTop DEF CallOK
  <1>3. Top.scan \in Seq(Signals)
    BY <1>2 DEF Delayed
  <1>4. /\ c \in Delayed /\ c.kind = "delayed" /\ CallOK(c) /\ ~c.guard
        /\ c.to_send = Top.to_send /\ c.next = Top.next /\ c.signals = Top.signals
        /\ \A s \in ToSet(Top.scan) : s \in ToSet(c.scan) \/ s \notin received
    <2>1. CASE Top.scan = <<>>
      <3> DEFINE d == [Top EXCEPT !.pc = "convert"]
      <3>1. /\ d \in Delayed /\ d.kind = "delayed" /\ d.pc = "convert" /\ d.scan = Top.scan /\ ~d.guard
            /\ d.to_send = Top.to_send /\ d.next = Top.next /\ d.signals = Top.signals
        BY <1>1, <1>2 DEF Delayed
      <3>2. c = d
        BY <2>1
      <3> HIDE DEF c, d
      <3> QED  BY <1>2, <2>1, <3>1, <3>2 DEF CallOK
    <2>2. CASE Top.scan # <<>> /\ Head(Top.scan) \in received
      <3> DEFINE d == [Top EXCEPT !.pc = "clear"]
      <3>1. /\ d \in Delayed /\ d.kind = "delayed" /\ d.pc = "clear" /\ d.scan = Top.scan /\ ~d.guard
            /\ d.to_send = Top.to_send /\ d.next = Top.next /\ d.signals = Top.signals
        BY <1>1, <1>2 DEF Delayed
      <3>2. c = d
        BY <2>2
      <3> HIDE DEF c, d
      <3> QED  BY <1>2, <2>2, <3>1, <3>2 DEF CallOK
    <2>3. CASE Top.scan # <<>> /\ Head(Top.scan) \notin received
      <3> DEFINE d == [Top EXCEPT !.scan = Tail(@)]
      <3>1. Tail(Top.scan) \in Seq(Signals) /\ ToSet(Top.scan) = {Head(Top.scan)} \cup ToSet(Tail(Top.scan))
        BY <1>3, <2>3, TailLemma
      <3>2. /\ d \in Delayed /\ d.kind = "delayed" /\ d.pc = "scan" /\ d.scan = Tail(Top.scan) /\ ~d.guard
            /\ d.to_send = Top.to_send /\ d.next = Top.next /\ d.signals = Top.signals
        BY <1>1, <1>2, <3>1 DEF Delayed
      <3>3. c = d
        BY <2>3
      <3> HIDE DEF c, d
      <3> QED  BY <1>2, <2>3, <3>1, <3>2, <3>3 DEF CallOK
    <2> QED  BY <2>1, <2>2, <2>3
  <1> HIDE DEF c
  <1>5. /\ stack' \in Seq(KnownBy(ToSet(handlers) \cup gone)') /\ GuardInv' /\ LedgerInv'
        /\ Carried(stack') = Carried(stack)
        /\ Scanned(stack) = Scanned(Below) \cup ToSet(Top.scan)
        /\ Scanned(stack') = Scanned(Below) \cup ToSet(c.scan)
    BY <1>1, <1>4, ScanStep
  <1>6. BaseInv'
    BY <1>1, <1>5 DEF IInv, BaseInv
  <1>7. SignalInv'
    <2>1. \A s \in received : s \in Scanned(stack) => s \in Scanned(stack')
      BY <1>4, <1>5
    <2> QED  BY <1>1, <1>5, <2>1 DEF IInv, SignalInv
  <1> QED  BY <1>5, <1>6, <1>7 DEF IInv

LEMMA ClearSignalStep ==
  ASSUME IInv, ClearSignal
  PROVE  IInv'
  <1> DEFINE s0 == Head(Top.scan)
             c == [Top EXCEPT !.pc = "scan", !.scan = Tail(@), !.signals = Append(@, Head(Top.scan))]
  <1>1. /\ stack # <<>> /\ Top.kind = "delayed" /\ Top.pc = "clear" /\ stack' = With(c)
        /\ received' = received \ {s0}
        /\ UNCHANGED <<counter, last_counter, blocked, handlers, fired, gone, global, scope,
                       cancel, exited, raised, dispatched, owed>>
    BY DEF ClearSignal, InDelayed, registry, blocks, history
  <1>2. Top \in Delayed /\ ~Top.guard /\ (Top.next.id = 0 => Top.next = NoEvent) /\ Top.scan # <<>>
    BY <1>1, TheTop DEF CallOK
  <1>3. Top.scan \in Seq(Signals) /\ Top.signals \in Seq(Signals)
    BY <1>2 DEF Delayed
  <1>4. /\ s0 \in Signals /\ Tail(Top.scan) \in Seq(Signals)
        /\ ToSet(Top.scan) = {s0} \cup ToSet(Tail(Top.scan))
    BY <1>2, <1>3, TailLemma
  <1>5. /\ Append(Top.signals, s0) \in Seq(Signals)
        /\ ToSet(Append(Top.signals, s0)) = ToSet(Top.signals) \cup {s0}
    BY <1>3, <1>4, AppendLemma
  <1>6. /\ c \in Delayed /\ c.kind = "delayed" /\ c.pc = "scan" /\ c.scan = Tail(Top.scan) /\ ~c.guard
        /\ c.to_send = Top.to_send /\ c.next = Top.next /\ c.signals = Append(Top.signals, s0)
    BY <1>1, <1>2, <1>4, <1>5 DEF Delayed
  <1> HIDE DEF c, s0
  <1>7. CallOK(c)
    BY <1>2, <1>6 DEF CallOK
  <1>8. /\ stack' \in Seq(KnownBy(ToSet(handlers) \cup gone)') /\ GuardInv' /\ LedgerInv'
        /\ Scanned(stack) = Scanned(Below) \cup ToSet(Top.scan)
        /\ Scanned(stack') = Scanned(Below) \cup ToSet(c.scan)
        /\ Carried(stack) = Carried(Below) \cup ToSet(Top.signals) \cup Descs(Top.to_send)
        /\ Carried(stack') = Carried(Below) \cup ToSet(c.signals) \cup Descs(Top.to_send)
    BY <1>1, <1>6, <1>7, ScanStep
  <1>9. Scanned(stack) = Scanned(stack') \cup {s0} /\ Carried(stack') = Carried(stack) \cup {s0}
    BY <1>4, <1>5, <1>6, <1>8
  <1>10. BaseInv'
    BY <1>1, <1>8 DEF IInv, BaseInv
  <1>11. SignalInv'
    BY <1>1, <1>9 DEF IInv, SignalInv
  <1> QED  BY <1>8, <1>10, <1>11 DEF IInv

LEMMA ResizeStep ==
  ASSUME IInv, NEW desc \in Named, Resize(desc)
  PROVE  IInv'
  <1> DEFINE c == [Top EXCEPT !.pc = "resized"]
             calls == With(c)
  <1>1. /\ stack # <<>> /\ Top.kind = "delayed" /\ Top.pc = "convert" /\ Top.signals # <<>>
        /\ Fire(desc, calls, handlers)
        /\ UNCHANGED <<pending, handlers, fired, gone, global, scope, cancel, exited>>
    BY DEF Resize, InDelayed, registry, blocks
  <1>2. /\ Top \in Delayed /\ ~Top.guard /\ (Top.next.id = 0 => Top.next = NoEvent) /\ Top.scan = <<>>
        /\ OnceIn(Top)
    BY <1>1, TheTop DEF CallOK
  <1>3. /\ c \in Delayed /\ c.kind = "delayed" /\ c.pc = "resized" /\ c.scan = Top.scan /\ ~c.guard
        /\ c.to_send = Top.to_send /\ c.next = Top.next /\ c.signals = Top.signals
    BY <1>1, <1>2 DEF Delayed
  <1> HIDE DEF c
  <1>4. /\ c \in KnownBy(Known) /\ OnceIn(c) /\ HeldBy(c) = HeldBy(Top)
        /\ Scans(c) = Scans(Top) /\ Carries(c) = Carries(Top)
    BY <1>1, <1>2, <1>3 DEF KnownBy, CallOK, OnceIn, HeldBy, Scans, Carries
  <1>5. /\ calls \in Seq(KnownBy(Known)) /\ NoGuards(calls)
        /\ Scanned(calls) = Scanned(stack) /\ Carried(calls) = Carried(stack)
    <2>1. /\ calls \in Seq(KnownBy(Known)) /\ NoGuards(calls)
          /\ Scanned(calls) = Scanned(Below) \cup Scans(c)
          /\ Carried(calls) = Carried(Below) \cup Carries(c)
      BY <1>1, <1>3, <1>4, Replaced
    <2> QED  BY <1>1, <1>4, <2>1, TheTop
  <1>6. /\ stack \in Seq(KnownBy(Known)) /\ handlers \in Seq(Handlers) /\ ToSet(handlers) \in SUBSET Known
        /\ Ledger(stack, blocked, {}, dispatched, raised)
    BY DEF IInv, BaseInv, Known, LedgerInv
  <1>7. Ledger(calls, blocked, {}, dispatched, raised)
    BY <1>1, <1>4, <1>6, LedgerWith
  <1> HIDE DEF calls
  <1>8. /\ stack' \in Seq(KnownBy(Known)) /\ blocked' \in Seq(Event) /\ owed' \in SUBSET Signals
        /\ raised' \in Nat /\ GuardInv' /\ SignalInv' /\ LedgerInv'
    BY <1>1, <1>5, <1>6, <1>7, FireStepOf
  <1>9. BaseInv'
    BY <1>1, <1>8 DEF IInv, BaseInv, Known, pending
  <1> QED  BY <1>8, <1>9 DEF IInv

(* A signal becomes an event, with a number of its own. *)
LEMMA MakeEventStep ==
  ASSUME IInv, MakeEvent
  PROVE  IInv'
  <1> DEFINE s0 == Head(Top.signals)
             e == [desc |-> Head(Top.signals), id |-> raised + 1]
             c == [Top EXCEPT !.pc = "convert", !.signals = Tail(@), !.to_send = Append(@, e)]
  <1>1. /\ stack # <<>> /\ Top.kind = "delayed" /\ Top.pc \in {"convert", "resized"}
        /\ Top.signals # <<>> /\ stack' = With(c) /\ raised' = raised + 1
        /\ UNCHANGED <<received, counter, last_counter, blocked, handlers, fired, gone, global, scope,
                       cancel, exited, dispatched, owed>>
    BY DEF MakeEvent, InDelayed, pending, registry, blocks
  <1>2. /\ Top \in Delayed /\ ~Top.guard /\ (Top.next.id = 0 => Top.next = NoEvent) /\ Top.scan = <<>>
        /\ OnceIn(Top) /\ Top \in KnownBy(Known)
    BY <1>1, TheTop DEF CallOK
  <1>3. Top.signals \in Seq(Signals) /\ Top.to_send \in Seq(Event)
    BY <1>2 DEF Delayed
  <1>4. /\ s0 \in Signals /\ Tail(Top.signals) \in Seq(Signals)
        /\ ToSet(Top.signals) = {s0} \cup ToSet(Tail(Top.signals))
    BY <1>1, <1>3, TailLemma
  <1>5. raised \in Nat
    BY DEF IInv, BaseInv
  <1>6. e \in Event /\ e.id = raised + 1 /\ e.desc = s0
    BY <1>4, <1>5 DEF Event
  <1> HIDE DEF e
  <1>7. /\ Append(Top.to_send, e) \in Seq(Event)
        /\ Descs(Append(Top.to_send, e)) = Descs(Top.to_send) \cup {s0}
    BY <1>3, <1>6, AppendLemma, DescsOfAppend
  <1>8. /\ c \in Delayed /\ c.kind = "delayed" /\ c.pc = "convert" /\ c.scan = Top.scan /\ ~c.guard
        /\ c.to_send = Append(Top.to_send, e) /\ c.next = Top.next /\ c.signals = Tail(Top.signals)
    BY <1>1, <1>2, <1>4, <1>7 DEF Delayed
  <1> HIDE DEF c, s0
  <1>9. CallOK(c)
    BY <1>2, <1>8 DEF CallOK
  <1>10. c \in KnownBy(Known)
    BY <1>8, <1>9 DEF KnownBy
  <1>11. Ledger(stack, blocked, {e.id}, dispatched, raised + 1) /\ stack \in Seq(KnownBy(Known))
    <2>1. stack \in Seq(KnownBy(Known)) /\ Ledger(stack, blocked, {}, dispatched, raised)
      BY DEF IInv, BaseInv, Known, LedgerInv
    <2>2. Ledger(stack, blocked, {raised + 1}, dispatched, raised + 1)
      BY <1>5, <2>1, LedgerNew
    <2> QED  BY <1>6, <2>1, <2>2
  <1>12. e.id \notin HeldBy(Top) /\ e.id # 0
    <2>1. Len(stack) \in 1..Len(stack)
      BY <1>1, <1>11, EmptySeq, LenProperties
    <2>2. stack[Len(stack)] = Top
      BY DEF Top
    <2>3. HeldBy(Top) \cap {e.id} = {}
      BY <1>11, <2>1, <2>2 DEF Ledger
    <2> QED  BY <1>5, <1>6, <2>3
  <1>13. OnceIn(c) /\ HeldBy(c) = HeldBy(Top) \cup {e.id}
    <2>1. /\ IdsOf(c.to_send) = IdsOf(Top.to_send) \cup {e.id}
          /\ Distinct(Top.to_send) /\ e.id \notin IdsOf(Top.to_send) => Distinct(c.to_send)
      BY <1>3, <1>6, <1>8, IdsOfAppend
    <2>2. e.id \notin IdsOf(Top.to_send) /\ e.id # Top.next.id
      BY <1>1, <1>12 DEF HeldBy
    <2>3. Distinct(Top.to_send) /\ Top.next.id \notin IdsOf(Top.to_send)
      BY <1>1, <1>2 DEF OnceIn
    <2> QED  BY <1>1, <1>8, <2>1, <2>2, <2>3 DEF OnceIn, HeldBy
  <1>14. Ledger(With(c), blocked, {}, dispatched, raised + 1)
    <2>1. HeldBy(c) \cup {} = HeldBy(Top) \cup {e.id} /\ HeldBy(c) \cap {} = {}
      BY <1>13
    <2> QED  BY <1>1, <1>10, <1>11, <1>13, <2>1, LedgerWith
  <1>15. /\ With(c) \in Seq(KnownBy(Known)) /\ NoGuards(With(c))
         /\ Scanned(With(c)) = Scanned(Below) \cup Scans(c)
         /\ Carried(With(c)) = Carried(Below) \cup Carries(c)
    BY <1>1, <1>8, <1>10, Replaced
  <1>16. Scans(c) = Scans(Top) /\ Carries(c) = Carries(Top)
    BY <1>1, <1>4, <1>7, <1>8 DEF Scans, Carries
  <1>17. Scanned(With(c)) = Scanned(stack) /\ Carried(With(c)) = Carried(stack)
    BY <1>1, <1>15, <1>16, TheTop
  <1>18. GuardInv'
    BY <1>1, <1>15, Unguarded
  <1>19. stack' \in Seq(KnownBy(ToSet(handlers) \cup gone)')
    BY <1>1, <1>15 DEF Known
  <1>20. BaseInv'
    BY <1>1, <1>5, <1>19 DEF IInv, BaseInv
  <1>21. SignalInv' /\ LedgerInv'
    BY <1>1, <1>14, <1>17 DEF IInv, SignalInv, LedgerInv
  <1> QED  BY <1>18, <1>20, <1>21 DEF IInv

(* The next event that was taken is blocked again, or fired.                *)
LEMMA SendStep ==
  ASSUME IInv, Send
  PROVE  IInv'
  <1> DEFINE event == Head(Top.to_send)
  <1>1. /\ stack # <<>> /\ Top.kind = "delayed" /\ Top.pc = "convert" /\ Top.signals = <<>>
        /\ Top.to_send # <<>>
        /\ UNCHANGED <<received, counter, last_counter, handlers, fired, gone, global, scope,
                       cancel, exited, raised>>
    BY DEF Send, Sending, InDelayed, pending, registry, blocks
  <1>2. /\ Top \in Delayed /\ (Top.next.id = 0 => Top.next = NoEvent) /\ Top.scan = <<>>
        /\ OnceIn(Top) /\ Top \in KnownBy(Known)
        /\ Below \in Seq(KnownBy(Known)) /\ NoGuards(Below)
        /\ Scanned(stack) = Scanned(Below) \cup Scans(Top)
        /\ Carried(stack) = Carried(Below) \cup Carries(Top)
    BY <1>1, TheTop DEF CallOK
  <1>3. Top.to_send \in Seq(Event)
    BY <1>2 DEF Delayed
  <1>4. /\ event \in Event /\ Tail(Top.to_send) \in Seq(Event)
        /\ Descs(Top.to_send) = {event.desc} \cup Descs(Tail(Top.to_send))
        /\ IdsOf(Top.to_send) = {event.id} \cup IdsOf(Tail(Top.to_send))
        /\ event.id \notin IdsOf(Tail(Top.to_send)) /\ Distinct(Tail(Top.to_send))
    <2>1. Distinct(Top.to_send)
      BY <1>1, <1>2 DEF OnceIn
    <2> QED  BY <1>1, <1>3, <2>1, TailLemma, DescsOfTail, IdsOfTail
  <1> HIDE DEF event
  <1>5. /\ stack \in Seq(KnownBy(Known)) /\ handlers \in Seq(Handlers) /\ ToSet(handlers) \in SUBSET Known
        /\ Ledger(stack, blocked, {}, dispatched, raised) /\ blocked \in Seq(Event)
        /\ owed \in SUBSET Signals
    BY DEF IInv, BaseInv, Known, LedgerInv
  <1>6. event.id # 0
    <2>1. Len(stack) \in 1..Len(stack) /\ stack[Len(stack)] = Top
      BY <1>1, <1>5, EmptySeq, LenProperties DEF Top
    <2>2. event.id \in HeldBy(Top)
      BY <1>1, <1>4 DEF HeldBy
    <2>3. event.id \in 1..raised
      BY <1>5, <2>1, <2>2 DEF Ledger
    <2> QED  BY <2>3
  (* What is left of the call. *)
  <1>7. ASSUME NEW c \in Delayed, c.kind = "delayed", c.next = Top.next, c.scan = Top.scan,
               c.signals = Top.signals, c.to_send = Tail(Top.to_send), CallOK(c)
        PROVE  /\ c \in KnownBy(Known) /\ Ledger(With(c), blocked, {event.id}, dispatched, raised)
               /\ Scans(c) = Scans(Top)
               /\ Carries(Top) = Carries(c) \cup {event.desc}
    <2>1. c \in KnownBy(Known)
      BY <1>7 DEF KnownBy
    <2>2. Top.next.id \notin IdsOf(Top.to_send)
      BY <1>1, <1>2 DEF OnceIn
    <2>3. OnceIn(c) /\ HeldBy(c) \cap {event.id} = {} /\ HeldBy(c) \cup {event.id} = HeldBy(Top) \cup {}
      BY <1>1, <1>4, <1>6, <1>7, <2>2 DEF OnceIn, HeldBy
    <2>4. Ledger(With(c), blocked, {event.id}, dispatched, raised)
      BY <1>1, <1>5, <2>1, <2>3, LedgerWith
    <2> QED  BY <1>1, <1>4, <1>7, <2>1, <2>4 DEF Scans, Carries
  <1>8. CASE IsBlocked(event.desc)
    <2> DEFINE c == [Top EXCEPT !.to_send = Tail(@), !.guard = TRUE]
    <2>1. /\ stack' = With(c) /\ blocked' = Append(blocked, event)
          /\ dispatched' = dispatched /\ owed' = owed
      BY <1>8 DEF Send, event
    <2>2. /\ c \in Delayed /\ c.kind = "delayed" /\ c.pc = "convert" /\ c.scan = Top.scan /\ c.guard
          /\ c.to_send = Tail(Top.to_send) /\ c.next = Top.next /\ c.signals = Top.signals
      BY <1>1, <1>2, <1>4 DEF Delayed
    <2> HIDE DEF c
    <2>3. CallOK(c)
      BY <1>1, <1>2, <2>2 DEF CallOK
    <2>4. /\ c \in KnownBy(Known) /\ Ledger(With(c), blocked, {event.id}, dispatched, raised)
          /\ Scans(c) = Scans(Top) /\ Carries(Top) = Carries(c) \cup {event.desc}
      BY <1>7, <2>2, <2>3
    <2>5. /\ With(c) \in Seq(KnownBy(Known)) /\ Len(With(c)) = Len(stack) /\ Len(stack) \in Nat \ {0}
          /\ With(c)[Len(stack)] = c /\ Len(Below) = Len(stack) - 1
          /\ \A k \in 1..(Len(stack) - 1) : With(c)[k] = stack[k] /\ Below[k] = stack[k]
      BY <1>1, <1>5, <2>4, WithLemma
    <2>6. Ledger(With(c), Append(blocked, event), {}, dispatched, raised)
      BY <1>4, <1>5, <2>4, LedgerWait
    <2>7. LedgerInv'
      BY <1>1, <2>1, <2>6 DEF LedgerInv
    <2>8. Scanned(With(c)) = Scanned(Below) \cup Scans(c) /\ Carried(With(c)) = Carried(Below) \cup Carries(c)
      <3> DEFINE b == Below
      <3>1. b \in Seq(KnownBy(Known)) /\ With(c) = Append(b, c)
        BY <1>2 DEF With
      <3> HIDE DEF b
      <3>2. /\ Scanned(Append(b, c)) = Scanned(b) \cup Scans(c)
            /\ Carried(Append(b, c)) = Carried(b) \cup Carries(c)
        BY <2>4, <3>1, AddedCall
      <3>3. Scanned(With(c)) = Scanned(b) \cup Scans(c) /\ Carried(With(c)) = Carried(b) \cup Carries(c)
        BY <3>1, <3>2
      <3> QED  BY <3>3 DEF b
    <2>9. blocked' \in Seq(Event) /\ Descs(blocked') = Descs(blocked) \cup {event.desc}
      BY <1>4, <1>5, <2>1, AppendLemma, DescsOfAppend
    <2>10. SignalInv'
      <3>1. Scanned(stack') = Scanned(stack)
            /\ Carried(stack) \cup Descs(blocked) \in SUBSET (Carried(stack') \cup Descs(blocked'))
        BY <1>2, <2>1, <2>4, <2>8, <2>9
      <3> QED  BY <1>1, <2>1, <3>1 DEF IInv, SignalInv
    <2>11. BaseInv'
      <3>1. stack' \in Seq(KnownBy(ToSet(handlers) \cup gone)')
        BY <1>1, <2>1, <2>5 DEF Known
      <3> QED  BY <1>1, <2>1, <2>9, <3>1 DEF IInv, BaseInv
    <2>12. GuardInv'
      <3> DEFINE w == With(c)
                 l == Len(stack)
      <3>1. stack' = w /\ Len(w) = l /\ l \in Nat \ {0} /\ w[l] = c /\ c.kind = "delayed"
            /\ \A k \in 1..(l - 1) : w[k] = stack[k]
        BY <2>1, <2>2, <2>5
      <3>2. \A k \in 1..(l - 1) : stack[k].kind = "delayed" => ~stack[k].guard
        <4>1. \A k \in 1..(l - 1) : Below[k] = stack[k] /\ k \in 1..Len(Below)
          BY <2>5
        <4> QED  BY <1>2, <4>1 DEF NoGuards
      <3>3. \A k \in 1..l : k \in 1..(l - 1) \/ k = l
        BY <3>1
      <3>4. IsBlocked(None)
        BY <1>8 DEF IsBlocked
      <3>5. DOMAIN stack = 1..l /\ DOMAIN w = 1..l /\ stack[l] = Top
        BY <1>5, <2>5, LenProperties DEF Top
      <3> HIDE DEF w, l
      <3>6. \A k \in 1..l : stack[k].kind = "run" => w[k] = stack[k]
        BY <1>1, <3>1, <3>3, <3>5
      <3>7. IsBlocked(None)'
        BY <1>1, <3>1, <3>4, <3>5, <3>6 DEF IsBlocked
      <3> QED  BY <3>1, <3>2, <3>3, <3>7 DEF GuardInv
    <2> QED  BY <2>7, <2>10, <2>11, <2>12 DEF IInv
  <1>9. CASE ~IsBlocked(event.desc)
    <2> DEFINE c == [Top EXCEPT !.to_send = Tail(@)]
               calls == With(c)
    <2>1. Deliver(event, calls, handlers)
      BY <1>9 DEF Send, event
    <2>2. ~Top.guard
      BY <1>1, <1>9 DEF IInv, GuardInv, IsBlocked
    <2>3. /\ c \in Delayed /\ c.kind = "delayed" /\ c.pc = "convert" /\ c.scan = Top.scan /\ ~c.guard
          /\ c.to_send = Tail(Top.to_send) /\ c.next = Top.next /\ c.signals = Top.signals
      BY <1>1, <1>2, <1>4, <2>2 DEF Delayed
    <2> HIDE DEF c
    <2>4. CallOK(c)
      BY <1>2, <2>3 DEF CallOK
    <2>5. /\ c \in KnownBy(Known) /\ Ledger(calls, blocked, {event.id}, dispatched, raised)
          /\ Scans(c) = Scans(Top) /\ Carries(Top) = Carries(c) \cup {event.desc}
      BY <1>7, <2>3, <2>4
    <2>6. /\ calls \in Seq(KnownBy(Known)) /\ NoGuards(calls)
          /\ Scanned(calls) = Scanned(Below) \cup Scans(c)
          /\ Carried(calls) = Carried(Below) \cup Carries(c)
      BY <1>1, <2>3, <2>5, Replaced
    <2> HIDE DEF calls
    <2>7. /\ stack' \in Seq(KnownBy(Known)) /\ blocked' \in Seq(Event) /\ owed' \in SUBSET owed
          /\ Ledger(stack', blocked', {}, dispatched', raised)
          /\ Scanned(stack') = Scanned(calls) /\ Carried(stack') = Carried(calls)
          /\ \A s \in owed' : s \in Descs(blocked) \cup {event.desc} => s \in Descs(blocked')
          /\ NoGuards(stack')
      BY <1>4, <1>5, <2>1, <2>5, <2>6, DeliverLemma
    <2>8. BaseInv'
      BY <1>1, <2>7 DEF IInv, BaseInv, Known
    <2>9. GuardInv'
      BY <2>7, Unguarded
    <2>10. SignalInv'
      <3>1. Scanned(stack') = Scanned(stack) /\ Carried(stack) = Carried(stack') \cup {event.desc}
        BY <1>2, <2>5, <2>6, <2>7
      <3> QED  BY <1>1, <2>7, <3>1 DEF IInv, SignalInv
    <2>11. LedgerInv'
      BY <1>1, <2>7 DEF LedgerInv
    <2> QED  BY <2>8, <2>9, <2>10, <2>11 DEF IInv
  <1> QED  BY <1>8, <1>9

(* The call ends, and fire() goes on with the event it had in hand. *)
LEMMA EndDelayedStep ==
  ASSUME IInv, EndDelayed
  PROVE  IInv'
  <1> DEFINE calls == Below
             event == Top.next
  <1>1. /\ stack # <<>> /\ Top.kind = "delayed" /\ Top.pc = "convert" /\ Top.signals = <<>>
        /\ Top.to_send = <<>>
        /\ UNCHANGED <<received, counter, last_counter, handlers, fired, gone, global, scope,
                       cancel, exited, raised>>
    BY DEF EndDelayed, Sending, InDelayed, pending, registry, blocks
  <1>2. /\ Top \in Delayed /\ (event.id = 0 => event = NoEvent) /\ Top.scan = <<>>
        /\ calls \in Seq(KnownBy(Known)) /\ NoGuards(calls)
        /\ Scanned(stack) = Scanned(calls) \cup Scans(Top)
        /\ Carried(stack) = Carried(calls) \cup Carries(Top)
    <2>1. /\ Top \in Delayed /\ CallOK(Top)
          /\ calls \in Seq(KnownBy(Known)) /\ NoGuards(calls)
          /\ Scanned(stack) = Scanned(calls) \cup Scans(Top)
          /\ Carried(stack) = Carried(calls) \cup Carries(Top)
      BY <1>1, TheTop
    <2>2. (event.id = 0 => event = NoEvent) /\ Top.scan = <<>>
      BY <1>1, <2>1 DEF CallOK
    <2> QED  BY <2>1, <2>2
  <1>3. /\ stack \in Seq(KnownBy(Known)) /\ handlers \in Seq(Handlers) /\ ToSet(handlers) \in SUBSET Known
        /\ Ledger(stack, blocked, {}, dispatched, raised) /\ blocked \in Seq(Event)
        /\ owed \in SUBSET Signals
    BY DEF IInv, BaseInv, Known, LedgerInv
  <1>4. HeldBy(Top) = {event.id} \ {0} /\ Scans(Top) = {} /\ Carries(Top) = {}
    <2>1. IdsOf(<<>>) = {} /\ ToSet(<<>>) = {} /\ Descs(<<>>) = {}
      BY IdsOfEmpty DEF ToSet, Descs
    <2> QED  BY <1>1, <1>2, <2>1 DEF HeldBy, Scans, Carries
  <1>5. Ledger(calls, blocked, {event.id} \ {0}, dispatched, raised)
    <2>1. stack # <<>> /\ stack \in Seq(KnownBy(Known)) /\ Ledger(stack, blocked, {}, dispatched, raised)
      BY <1>1, <1>3
    <2>2. Ledger(calls, blocked, HeldBy(Top), dispatched, raised)
      BY <2>1, LedgerBelow
    <2> HIDE DEF calls, event
    <2> QED  BY <2>2, <1>4
  <1>6. Scanned(stack) = Scanned(calls) /\ Carried(stack) = Carried(calls)
    BY <1>2, <1>4
  <1>7. event \in Event \cup {NoEvent}
    BY <1>2 DEF Delayed
  <1>8. CASE event = NoEvent
    <2>1. /\ stack' = calls /\ blocked' = blocked /\ dispatched' = dispatched /\ owed' = owed
      BY <1>8 DEF EndDelayed
    <2>2. {event.id} \ {0} = {}
      BY <1>8 DEF NoEvent
    <2> HIDE DEF calls, event
    <2>3. BaseInv' /\ SignalInv' /\ LedgerInv'
      <3>1. BaseInv'
        BY <1>1, <1>2, <2>1 DEF IInv, BaseInv, Known
      <3>2. SignalInv'
        BY <1>1, <1>6, <2>1 DEF IInv, SignalInv
      <3>3. LedgerInv'
        BY <1>1, <1>5, <2>1, <2>2 DEF LedgerInv
      <3> QED  BY <3>1, <3>2, <3>3
    <2>4. GuardInv'
      BY <1>2, <2>1, Unguarded
    <2> QED  BY <2>3, <2>4 DEF IInv
  <1>9. CASE event # NoEvent
    <2>1. Deliver(event, calls, handlers)
      BY <1>9 DEF EndDelayed
    <2>2. event \in Event /\ {event.id} \ {0} = {event.id}
      BY <1>2, <1>7, <1>9
    <2> HIDE DEF calls, event
    <2>3. Ledger(calls, blocked, {event.id}, dispatched, raised)
      BY <1>5, <2>2
    <2>4. /\ stack' \in Seq(KnownBy(Known)) /\ blocked' \in Seq(Event) /\ owed' \in SUBSET owed
          /\ Ledger(stack', blocked', {}, dispatched', raised)
          /\ Scanned(stack') = Scanned(calls) /\ Carried(stack') = Carried(calls)
          /\ \A s \in owed' : s \in Descs(blocked) \cup {event.desc} => s \in Descs(blocked')
          /\ NoGuards(stack')
      BY <1>2, <1>3, <2>1, <2>2, <2>3, DeliverLemma
    <2>5. BaseInv'
      BY <1>1, <2>4 DEF IInv, BaseInv, Known
    <2>6. GuardInv'
      BY <2>4, Unguarded
    <2>7. SignalInv'
      BY <1>1, <1>6, <2>4 DEF IInv, SignalInv
    <2>8. LedgerInv'
      BY <1>1, <2>4 DEF LedgerInv
    <2> QED  BY <2>5, <2>6, <2>7, <2>8 DEF IInv
  <1> QED  BY <1>8, <1>9

-----------------------------------------------------------------------------
(* fire_internal(). *)

(* A call of fire_internal() that goes on. *)
LEMMA RunStep ==
  ASSUME IInv, stack # <<>>, Top.kind = "run", NEW c \in Run, c.kind = "run",
         ToSet(c.todo) \in SUBSET Known, stack' = With(c),
         fired' \in SUBSET Handlers,
         UNCHANGED <<pending, blocked, handlers, gone, blocks, cancel, exited, history>>
  PROVE  IInv'
  <1>1. UNCHANGED <<received, counter, last_counter, blocked, handlers, gone, global, scope, cancel,
                    exited, raised, dispatched, owed>>
    BY DEF pending, blocks, history
  <1>2. c \in KnownBy(Known)
    BY DEF KnownBy, CallOK
  <1>3. OnceIn(c) /\ HeldBy(c) = HeldBy(Top) /\ Scans(c) = Scans(Top) /\ Carries(c) = Carries(Top)
    BY DEF OnceIn, HeldBy, Scans, Carries
  <1>4. /\ stack' \in Seq(KnownBy(ToSet(handlers) \cup gone)') /\ GuardInv' /\ LedgerInv'
        /\ Scanned(stack') = Scanned(Below) \cup Scans(c)
        /\ Carried(stack') = Carried(Below) \cup Carries(c)
    BY <1>1, <1>2, <1>3, ReplaceStep
  <1>5. Scanned(stack') = Scanned(stack) /\ Carried(stack') = Carried(stack)
    BY <1>3, <1>4, TheTop
  <1>6. BaseInv'
    BY <1>1, <1>4 DEF IInv, BaseInv
  <1>7. SignalInv'
    BY <1>1, <1>5 DEF IInv, SignalInv
  <1> QED  BY <1>4, <1>6, <1>7 DEF IInv

LEMMA TakeHandlerStep ==
  ASSUME IInv, TakeHandler
  PROVE  IInv'
  <1> DEFINE next == IF Head(Top.todo) \in gone THEN None ELSE Head(Top.todo)
             c == [Top EXCEPT !.todo = Tail(@), !.handler = next]
  <1>1. /\ stack # <<>> /\ Top.kind = "run" /\ Top.todo # <<>> /\ stack' = With(c)
        /\ fired' = fired
        /\ UNCHANGED <<pending, blocked, handlers, gone, blocks, cancel, exited, history>>
    BY DEF TakeHandler, InRun, registry
  <1>2. Top \in Run /\ ToSet(Top.todo) \in SUBSET Known
    BY <1>1, TheTop
  <1>3. Top.todo \in Seq(Handlers)
    BY <1>2 DEF Run
  <1>4. /\ Head(Top.todo) \in Handlers /\ Tail(Top.todo) \in Seq(Handlers)
        /\ ToSet(Top.todo) = {Head(Top.todo)} \cup ToSet(Tail(Top.todo))
    BY <1>1, <1>3, TailLemma
  <1>5. next \in Handlers \cup {None}
    BY <1>4
  <1> HIDE DEF next
  <1>6. c \in Run /\ c.kind = "run" /\ c.todo = Tail(Top.todo)
    BY <1>2, <1>4, <1>5 DEF Run
  <1> HIDE DEF c
  <1>7. ToSet(c.todo) \in SUBSET Known
    BY <1>2, <1>4, <1>6
  <1>8. fired' \in SUBSET Handlers
    BY <1>1 DEF IInv, BaseInv
  <1> QED  BY <1>1, <1>6, <1>7, <1>8, RunStep

LEMMA HandlerReturnsStep ==
  ASSUME IInv, HandlerReturns
  PROVE  IInv'
  <1> DEFINE once == Top.one_shot \/ Top.handler \in OneShot
             c == [Top EXCEPT !.handler = None, !.blocks = FALSE,
                              !.one_shot = @ \/ Top.handler \in OneShot]
  <1>1. /\ stack # <<>> /\ Top.kind = "run" /\ Top.handler # None /\ stack' = With(c)
        /\ fired' = fired \cup {Top.handler}
        /\ UNCHANGED <<pending, blocked, handlers, gone, blocks, cancel, exited, history>>
    BY DEF HandlerReturns, InRun
  <1>2. Top \in Run /\ ToSet(Top.todo) \in SUBSET Known
    BY <1>1, TheTop
  <1>3. c \in Run /\ c.kind = "run" /\ c.todo = Top.todo
    BY <1>2 DEF Run
  <1> HIDE DEF c
  <1>4. ToSet(c.todo) \in SUBSET Known
    BY <1>2, <1>3
  <1>5. fired' \in SUBSET Handlers
    BY <1>1, <1>2 DEF Run, IInv, BaseInv
  <1> QED  BY <1>1, <1>3, <1>4, <1>5, RunStep

LEMMA EndRunStep ==
  ASSUME IInv, EndRun
  PROVE  IInv'
  <1> DEFINE S == (ToSet(handlers) \cup gone)'
             calls == Below
  <1>1. /\ stack # <<>> /\ Top.kind = "run" /\ stack' = calls
        /\ UNCHANGED <<received, counter, last_counter, blocked, fired, global, scope, cancel,
                       exited, raised, dispatched, owed>>
    BY DEF EndRun, InRun, pending, blocks, history
  <1>2. /\ calls \in Seq(KnownBy(Known)) /\ NoGuards(calls)
        /\ Scanned(stack) = Scanned(calls) \cup Scans(Top)
        /\ Carried(stack) = Carried(calls) \cup Carries(Top)
    BY <1>1, TheTop
  <1>3. Scans(Top) = {} /\ Carries(Top) = {} /\ HeldBy(Top) = {}
    BY <1>1 DEF Scans, Carries, HeldBy
  <1>4. handlers' \in Seq(Handlers) /\ gone' \in SUBSET Handlers /\ Known \in SUBSET S
    <2>1. CASE Top.one_shot
      <3>1. RemoveHandlers(ToSet(handlers) \cap fired \cap OneShot)
        BY <2>1 DEF EndRun
      <3>2. ToSet(handlers) \cap fired \cap OneShot \in SUBSET Handlers
        BY DEF IInv, BaseInv
      <3> QED  BY <3>1, <3>2, RemoveLemma
    <2>2. CASE ~Top.one_shot
      <3>1. UNCHANGED <<handlers, gone>>
        BY <2>2 DEF EndRun
      <3> QED  BY <3>1 DEF IInv, BaseInv, Known
    <2> QED  BY <2>1, <2>2
  <1>5. Ledger(calls, blocked, {}, dispatched, raised)
    <2>1. stack \in Seq(KnownBy(Known)) /\ Ledger(stack, blocked, {}, dispatched, raised)
      BY DEF IInv, BaseInv, Known, LedgerInv
    <2>2. Ledger(calls, blocked, HeldBy(Top), dispatched, raised)
      BY <1>1, <2>1, LedgerBelow
    <2> QED  BY <1>3, <2>2
  <1>6. Scanned(calls) = Scanned(stack) /\ Carried(calls) = Carried(stack)
    BY <1>2, <1>3
  <1> HIDE DEF S, calls
  <1>7. stack' \in Seq(KnownBy(S))
    BY <1>1, <1>2, <1>4, MoreKnown
  <1>8. BaseInv'
    BY <1>1, <1>4, <1>7 DEF IInv, BaseInv, S
  <1>9. GuardInv'
    BY <1>1, <1>2, Unguarded
  <1>10. SignalInv'
    BY <1>1, <1>6 DEF IInv, SignalInv
  <1>11. LedgerInv'
    BY <1>1, <1>5 DEF LedgerInv
  <1> QED  BY <1>8, <1>9, <1>10, <1>11 DEF IInv

-----------------------------------------------------------------------------
(* The theorems. *)

LEMMA NextLemma == IInv /\ [Next]_vars => IInv'
  <1> SUFFICES ASSUME IInv, [Next]_vars PROVE IInv'
    OBVIOUS
  <1>1. ASSUME NEW s \in Signals, Mark(s) PROVE IInv'
    BY <1>1, MarkStep
  <1>2. CASE Interrupt \/ EndScope \/ UNCHANGED vars
    BY <1>2, AsideStep
  <1>3. CASE Script
    <2>1. ASSUME NEW desc \in Named, Emit(desc) PROVE IInv'
      BY <2>1, EventStep
    <2>2. ASSUME NEW desc \in Exits, ProcessExit(desc) PROVE IInv'
      BY <2>2, EventStep
    <2>3. ASSUME NEW h \in Handlers, DefineFunction(h) PROVE IInv'
      BY <2>3, DefineStep
    <2>4. ASSUME NEW h \in Handlers, EraseFunction(h) PROVE IInv'
      BY <2>4, EraseStep
    <2>5. CASE BlockLocal
      BY <2>5, BlockLocalStep
    <2>6. CASE BlockGlobal \/ BlockErase
      BY <2>6, AsideStep
    <2> QED  BY <1>3, <2>1, <2>2, <2>3, <2>4, <2>5, <2>6 DEF Script
  <1>4. ASSUME NEW desc \in Named, Resize(desc) PROVE IInv'
    BY <1>4, ResizeStep
  <1>5. CASE ReadInput
    BY <1>5, ReadInputStep
  <1>6. CASE FireStep
    BY <1>6, LoadCountStep, LoadSignalStep, ClearSignalStep, MakeEventStep, SendStep, EndDelayedStep,
       TakeHandlerStep, HandlerReturnsStep, EndRunStep DEF FireStep
  <1> QED  BY <1>1, <1>2, <1>3, <1>4, <1>5, <1>6 DEF Next

(* The invariant is inductive. *)
LEMMA Inductive == Spec => []IInv
  <1> QED  BY InitLemma, NextLemma, PTL DEF Spec

LEMMA SignalInvIsSignalsAccounted ==
  ASSUME Len(stack) \in Nat, DOMAIN stack = 1..Len(stack), SignalInv
  PROVE  SignalsAccounted
  <1>1. ASSUME NEW s \in received, counter = last_counter
        PROVE  \E k \in DelayedCalls : s \in ToSet(stack[k].scan)
    <2>1. s \in Scanned(stack)
      BY <1>1 DEF SignalInv
    <2>2. PICK k \in 1..Len(stack) : s \in Scans(stack[k])
      BY <2>1 DEF Scanned
    <2> QED  BY <2>2 DEF Scans, DelayedCalls
  <1>2. ASSUME NEW s, s \in Carried(stack)
        PROVE  \E k \in DelayedCalls : \/ s \in ToSet(stack[k].signals)
                                       \/ \E n \in DOMAIN stack[k].to_send : stack[k].to_send[n].desc = s
    <2>1. PICK k \in 1..Len(stack) : s \in Carries(stack[k])
      BY <1>2 DEF Carried
    <2> QED  BY <2>1 DEF Carries, DelayedCalls, Descs
  <1>3. \A s : s \in Descs(blocked) => \E k \in DOMAIN blocked : blocked[k].desc = s
    BY DEF Descs
  <1>4. \A s \in received : \/ counter # last_counter
                            \/ \E k \in DelayedCalls : s \in ToSet(stack[k].scan)
    BY <1>1
  <1>5. \A s \in owed : \/ s \in received
                        \/ \E k \in DOMAIN blocked : blocked[k].desc = s
                        \/ \E k \in DelayedCalls : \/ s \in ToSet(stack[k].signals)
                                                   \/ \E n \in DOMAIN stack[k].to_send :
                                                        stack[k].to_send[n].desc = s
    BY <1>2, <1>3 DEF SignalInv
  <1> QED  BY <1>4, <1>5 DEF SignalsAccounted

(* For any signals, handlers and depth of nesting: a signal that the handler *)
(* of signals noted is noticed by the next acquire_pending(), is still ahead *)
(* of a scan, or is an event that has to be fired; and every event that was  *)
(* made is in BLOCKED_EVENTS, with one call of fire_delayed(), or was given  *)
(* to fire_internal() once.                                                  *)
THEOREM NothingIsForgotten == Spec => []NothingForgotten
  <1>1. IInv => NothingForgotten
    <2> SUFFICES ASSUME IInv PROVE NothingForgotten
      OBVIOUS
    <2>1. stack \in Seq(KnownBy(Known))
      BY DEF IInv, BaseInv, Known
    <2>2. Len(stack) \in Nat /\ DOMAIN stack = 1..Len(stack)
      BY <2>1
    <2>3. SignalsAccounted
      BY <2>2, SignalInvIsSignalsAccounted DEF IInv
    <2>4. dispatched \in SUBSET (1..raised) /\ EventsAccounted
      BY <2>2, LedgerIsEventsAccounted DEF IInv, LedgerInv
    <2>5. stack \in Seq(Run \cup Delayed)
      <3>1. KnownBy(Known) \in SUBSET (Run \cup Delayed)
        BY DEF KnownBy
      <3> QED  BY <2>1, <3>1, SeqMonotonic
    <2>6. TypeOK
      BY <2>4, <2>5 DEF TypeOK, IInv, BaseInv
    <2> QED  BY <2>3, <2>4, <2>6 DEF NothingForgotten
  <1> QED  BY <1>1, Inductive, PTL

(* fire_delayed() holds the lock of BLOCKED_EVENTS from the first event that *)
(* it blocks again; no call that could raise an event, and want that lock,   *)
(* is ever made above it.                                                    *)
THEOREM NeverWaitsForItself == Spec => []NoSelfDeadlock
  <1>1. IInv => NoSelfDeadlock
    <2> SUFFICES ASSUME IInv PROVE NoSelfDeadlock
      OBVIOUS
    <2>1. stack \in Seq(KnownBy(Known))
      BY DEF IInv, BaseInv, Known
    <2>2. DOMAIN stack = 1..Len(stack)
      BY <2>1
    <2> QED  BY <2>2 DEF IInv, GuardInv, NoSelfDeadlock, DelayedCalls
  <1> QED  BY <1>1, Inductive, PTL

(* fire_internal() starts handlers that are in EVENT_HANDLERS only: one that *)
(* was removed after it had been captured is skipped.                        *)
THEOREM RemovedNeverStarts == Spec => RemovedStaysQuiet
  <1> DEFINE Quiet == (InRun /\ Top.handler = None /\ stack' # Below /\ stack'[Len(stack)].handler # None)
                        => stack'[Len(stack)].handler \in ToSet(handlers)
  <1>1. IInv /\ [Next]_vars => [Quiet]_vars
    <2> SUFFICES ASSUME IInv, Next, InRun, Top.handler = None, stack' # Below,
                        stack'[Len(stack)].handler # None
                 PROVE  stack'[Len(stack)].handler \in ToSet(handlers)
      OBVIOUS
    <2>1. ~UserCode /\ stack # <<>> /\ Top.kind = "run"
      BY DEF UserCode, InRun
    <2>2. stack' # stack
      BY DEF Top
    <2>3. TakeHandler
      <3>1. ~Op
        BY <2>1 DEF Op
      <3>2. ~Script
        BY <2>1, <3>1 DEF Script, Emit, ProcessExit, DefineFunction, EraseFunction, BlockLocal,
              BlockGlobal, BlockErase
      <3>3. ~(\E s \in Signals : Mark(s)) /\ ~Interrupt /\ ~EndScope /\ ~ReadInput
        BY <2>1, <2>2 DEF Mark, Interrupt, EndScope, ReadInput
      <3>4. \A pc : ~InDelayed(pc)
        BY <2>1 DEF InDelayed
      <3>5. ~(\E desc \in Named : Resize(desc))
        BY <3>4 DEF Resize
      <3>6. ~(LoadCount \/ LoadSignal \/ ClearSignal \/ MakeEvent \/ Send \/ EndDelayed)
        BY <3>4 DEF LoadCount, LoadSignal, ClearSignal, MakeEvent, Send, EndDelayed, Sending
      <3>7. ~(HandlerReturns \/ EndRun)
        BY DEF HandlerReturns, EndRun
      <3> QED  BY <3>2, <3>3, <3>5, <3>6, <3>7 DEF Next, FireStep
    <2> DEFINE next == IF Head(Top.todo) \in gone THEN None ELSE Head(Top.todo)
               c == [Top EXCEPT !.todo = Tail(@), !.handler = next]
    <2>4. stack' = With(c) /\ Top.todo # <<>>
      BY <2>3 DEF TakeHandler
    <2>5. Top \in Run /\ ToSet(Top.todo) \in SUBSET Known
      BY <2>1, TheTop
    <2>6. Top.todo \in Seq(Handlers)
      BY <2>5 DEF Run
    <2>7. /\ Head(Top.todo) \in Handlers /\ Tail(Top.todo) \in Seq(Handlers)
          /\ ToSet(Top.todo) = {Head(Top.todo)} \cup ToSet(Tail(Top.todo))
      BY <2>4, <2>6, TailLemma
    <2>8. c \in Run \cup Delayed /\ c.handler = next
      BY <2>5, <2>7 DEF Run
    <2>9. stack \in Seq(Run \cup Delayed)
      <3>1. KnownBy(Known) \in SUBSET (Run \cup Delayed) /\ stack \in Seq(KnownBy(Known))
        BY DEF KnownBy, IInv, BaseInv, Known
      <3> QED  BY <3>1, SeqMonotonic
    <2> HIDE DEF c
    <2>10. With(c)[Len(stack)] = c
      BY <2>1, <2>8, <2>9, WithLemma
    <2>11. stack'[Len(stack)].handler = next
      BY <2>4, <2>8, <2>10
    <2> QED  BY <2>5, <2>7, <2>11 DEF Known
  <1> QED  BY <1>1, Inductive, PTL DEF Spec, RemovedStaysQuiet

=============================================================================
