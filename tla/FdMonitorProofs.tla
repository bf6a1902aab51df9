--------------------------- MODULE FdMonitorProofs ---------------------------
(***************************************************************************)
(* Proofs about FdMonitor, for any items and fds and any bounds: no output *)
(* is lost or mixed up, no item goes unwatched, and a capture that is      *)
(* finished is complete.                                                   *)
(***************************************************************************)
EXTENDS FdMonitor, SequenceTheorems, TLAPS

-----------------------------------------------------------------------------
(* The inductive invariant. *)

(* An item has an fd from add() until its capture is taken, and the fd     *)
(* reads from the pipe of that item and no other's.                        *)
FdInv ==
  /\ \A i \in Items : fd[i] # NoFd <=> i \in items \/ i = current
  /\ \A i \in Items : fd[i] # NoFd => reads[fd[i]] = i
  /\ \A i \in Items : child[i] = "none" => fd[i] = NoFd
  /\ main = "drain" => current # NoItem
  /\ main \in {"run", "spawn"} => current = NoItem
  /\ current \notin items

(* What the background thread knows is of the lap it is in, and a thread is  *)
(* started when there is none.                                              *)
LapInv ==
  /\ bg # "serving" => serving = {}
  /\ bg \in {"none", "starting", "top", "poll"} => ready = Nothing
  /\ bg \in {"none", "starting", "top"} => snapshot = {} /\ polled = {}
  /\ main = "spawn" => bg = "none"

(* The buffer is within its limit, and was discarded only because of what  *)
(* it was given.                                                           *)
LimitInv ==
  \A i \in Items :
    /\ ~discard[i] /\ Limit > 0 => Len(buffer[i]) <= Limit
    /\ discard[i] => Limit > 0 /\ Taken(i) + direct[i] > Limit

(* A capture that is over took all of a child that had exited. *)
DoneInv ==
  /\ \A i \in done : fd[i] = NoFd /\ child[i] # "none"
  /\ \A i \in done \ Lingering : child[i] = "closed" /\ pipe[i] = <<>>
  /\ current \in Items \ Lingering => child[current] = "closed"

-----------------------------------------------------------------------------
(* Pipes and buffers. *)

(* Chunks that are read from a pipe go on where the buffer ends. *)
LEMMA ReadKeepsOrder ==
  ASSUME NEW buf \in Seq(Nat), NEW t \in Nat, NEW n \in Nat, NEW data \in Seq(Nat),
         InOrder(buf, t), data = [k \in 1..n |-> t + k]
  PROVE  InOrder(buf \o data, t + n)
  <1> DEFINE all == buf \o data
             own == {k \in DOMAIN buf : buf[k] # 0}
             new == {k \in DOMAIN all : all[k] # 0}
             len == Len(buf)
  <1>1. /\ all \in Seq(Nat) /\ len \in Nat /\ DOMAIN all = 1..(len + n) /\ DOMAIN buf = 1..len
        /\ \A k \in 1..len : all[k] = buf[k]
        /\ \A k \in 1..n : all[len + k] = t + k
    BY ConcatProperties
  <1>2. \A k \in 1..(len + n) : k \in 1..len \/ \E j \in 1..n : k = len + j
    <2> SUFFICES ASSUME NEW k \in 1..(len + n), k \notin 1..len
                 PROVE  k - len \in 1..n /\ k = len + (k - len)
      OBVIOUS
    <2> HIDE DEF len
    <2> QED  BY <1>1
  <1>3. \A k \in new : (k \in own /\ all[k] = buf[k] /\ all[k] \in 1..t)
                       \/ \E j \in 1..n : k = len + j /\ all[k] = t + j
    <2>1. \A k \in own : buf[k] \in 1..t
      BY DEF InOrder
    <2>2. \A k \in new : k \in 1..(len + n) /\ all[k] # 0
      BY <1>1
    <2>3. ASSUME NEW k \in new, k \in 1..len  PROVE  k \in own /\ all[k] = buf[k]
      BY <2>3, <2>2, <1>1
    <2>4. ASSUME NEW j \in 1..n  PROVE  all[len + j] = t + j
      BY <1>1
    <2> HIDE DEF own, new, all, len
    <2> SUFFICES ASSUME NEW k \in new
                 PROVE  (k \in own /\ all[k] = buf[k] /\ all[k] \in 1..t)
                        \/ \E j \in 1..n : k = len + j /\ all[k] = t + j
      OBVIOUS
    <2>5. CASE k \in 1..len
      BY <2>5, <2>1, <2>3
    <2>6. CASE \E j \in 1..n : k = len + j
      BY <2>6, <2>4
    <2> QED  BY <2>2, <2>5, <2>6, <1>2
  <1>4. own \in SUBSET new /\ \A j \in 1..n : len + j \in new
    BY <1>1
  <1>5. {all[k] : k \in new} = 1..(t + n)
    <2>1. ASSUME NEW k \in new  PROVE  all[k] \in 1..(t + n)
      <3> HIDE DEF own, new, all, len
      <3>1. 1..t \in SUBSET 1..(t + n) /\ \A j \in 1..n : t + j \in 1..(t + n)
        OBVIOUS
      <3> QED  BY <3>1, <1>3
    <2>2. ASSUME NEW c \in 1..(t + n)  PROVE  \E k \in new : all[k] = c
      <3>1. CASE c \in 1..t
        <4>1. PICK k \in own : buf[k] = c
          BY <3>1 DEF InOrder
        <4> QED  BY <4>1, <1>1, <1>4
      <3>2. CASE c \notin 1..t
        <4>1. c - t \in 1..n /\ c = t + (c - t)
          BY <3>2
        <4>2. len + (c - t) \in new /\ all[len + (c - t)] = c
          BY <4>1, <1>1, <1>4
        <4> QED  BY <4>2
      <3> QED  BY <3>1, <3>2
    <2> HIDE DEF all, new
    <2> QED  BY <2>1, <2>2
  <1>6. \A j, k \in new : j < k => all[j] < all[k]
    <2> SUFFICES ASSUME NEW j \in new, NEW k \in new, j < k  PROVE  all[j] < all[k]
      OBVIOUS
    <2>1. CASE k \in own /\ all[k] = buf[k]
      <3>1. j \in own /\ all[j] = buf[j]
        <4> HIDE DEF all, len
        <4>1. k \in 1..len /\ j \in 1..(len + n)
          BY <2>1, <1>1
        <4>2. j \in 1..len
          BY <4>1, <1>1
        <4> QED  BY <4>2, <1>1
      <3> QED  BY <3>1, <2>1 DEF InOrder
    <2>2. CASE \E m \in 1..n : k = len + m /\ all[k] = t + m
      <3>1. PICK m \in 1..n : k = len + m /\ all[k] = t + m
        BY <2>2
      <3>2. CASE all[j] \in 1..t
        <4> HIDE DEF all, new, own, len
        <4> QED  BY <3>1, <3>2
      <3>3. CASE \E i \in 1..n : j = len + i /\ all[j] = t + i
        <4>1. PICK i \in 1..n : j = len + i /\ all[j] = t + i
          BY <3>3
        <4> HIDE DEF all, new, own, len
        <4>2. i < m
          BY <4>1, <3>1, <1>1
        <4> QED  BY <4>1, <4>2, <3>1
      <3> HIDE DEF all, new, own
      <3> QED  BY <3>2, <3>3, <1>3
    <2> QED  BY <1>3, <2>1, <2>2
  <1> QED  BY <1>5, <1>6 DEF InOrder

(* A chunk of a builtin is none of the child's. *)
LEMMA BuiltinKeepsOrder ==
  ASSUME NEW buf \in Seq(Nat), NEW t \in Nat, InOrder(buf, t)
  PROVE  InOrder(buf \o <<0>>, t)
  <1> DEFINE all == buf \o <<0>>
             len == Len(buf)
  <1>1. /\ all \in Seq(Nat) /\ len \in Nat /\ DOMAIN all = 1..(len + 1) /\ DOMAIN buf = 1..len
        /\ \A k \in 1..len : all[k] = buf[k]
        /\ all[len + 1] = 0
    BY ConcatProperties
  <1>2. {k \in DOMAIN all : all[k] # 0} = {k \in DOMAIN buf : buf[k] # 0}
    <2> HIDE DEF all, len
    <2> QED  BY <1>1
  <1>3. \A k \in {k \in DOMAIN buf : buf[k] # 0} : all[k] = buf[k]
    BY <1>1
  <1>4. {all[k] : k \in {k \in DOMAIN buf : buf[k] # 0}} = 1..t
    <2> HIDE DEF all
    <2> QED  BY <1>3 DEF InOrder
  <1>5. \A j, k \in {k \in DOMAIN buf : buf[k] # 0} : j < k => all[j] < all[k]
    <2> HIDE DEF all
    <2> QED  BY <1>3 DEF InOrder
  <1> QED  BY <1>2, <1>4, <1>5 DEF InOrder

(* The two halves of a sequence. *)
LEMMA Halves ==
  ASSUME NEW S, NEW p \in Seq(S), NEW n \in 1..Len(p)
  PROVE  /\ SubSeq(p, 1, n) \in Seq(S) /\ Len(SubSeq(p, 1, n)) = n
         /\ DOMAIN SubSeq(p, 1, n) = 1..n /\ \A k \in 1..n : SubSeq(p, 1, n)[k] = p[k]
         /\ SubSeq(p, n + 1, Len(p)) \in Seq(S)
         /\ Len(SubSeq(p, n + 1, Len(p))) = Len(p) - n
         /\ DOMAIN SubSeq(p, n + 1, Len(p)) = 1..(Len(p) - n)
         /\ \A k \in 1..(Len(p) - n) : SubSeq(p, n + 1, Len(p))[k] = p[n + k]
  OBVIOUS

(* What is left of a pipe that was read goes on where the read ended. *)
LEMMA RestOfPipe ==
  ASSUME NEW p \in Seq(Nat), NEW t \in Nat, NEW n \in 1..Len(p),
         \A k \in 1..Len(p) : p[k] = t + k
  PROVE  LET rest == SubSeq(p, n + 1, Len(p))
             data == SubSeq(p, 1, n)
         IN /\ rest \in Seq(Nat) /\ Len(rest) = Len(p) - n
            /\ rest = [k \in 1..Len(rest) |-> t + n + k]
            /\ data \in Seq(Nat) /\ Len(data) = n
            /\ data = [k \in 1..n |-> t + k]
  <1> DEFINE rest == SubSeq(p, n + 1, Len(p))
             data == SubSeq(p, 1, n)
  <1>1. Len(p) \in Nat /\ n \in Nat /\ n <= Len(p) /\ \A k \in 1..Len(p) : p[k] = t + k
    OBVIOUS
  <1>2. /\ rest \in Seq(Nat) /\ Len(rest) = Len(p) - n /\ DOMAIN rest = 1..(Len(p) - n)
        /\ \A k \in 1..(Len(p) - n) : rest[k] = p[n + k]
    OBVIOUS
  <1>3. /\ data \in Seq(Nat) /\ Len(data) = n /\ DOMAIN data = 1..n
        /\ \A k \in 1..n : data[k] = p[k]
    OBVIOUS
  <1>4. \A k \in 1..(Len(p) - n) : n + k \in 1..Len(p) /\ t + (n + k) = t + n + k
    BY <1>1
  <1>5. \A k \in 1..n : k \in 1..Len(p)
    BY <1>1
  <1>6. rest = [k \in 1..Len(rest) |-> t + n + k]
    <2>1. \A k \in 1..(Len(p) - n) : rest[k] = t + n + k
      BY <1>1, <1>2, <1>4
    <2> HIDE DEF rest
    <2> QED  BY <2>1, <1>2
  <1>7. data = [k \in 1..n |-> t + k]
    <2>1. \A k \in 1..n : data[k] = t + k
      BY <1>1, <1>3, <1>5
    <2> HIDE DEF data
    <2> QED  BY <2>1, <1>3
  <1> HIDE DEF rest, data
  <1>8. QED  BY <1>2, <1>3, <1>6, <1>7 DEF rest, data

-----------------------------------------------------------------------------
(* The output: what reading, builtins and children do to it. *)

OutputInv == OutputType /\ NothingLost /\ LimitInv

(* append() takes all of the data, or discards, for good. *)
LEMMA AddedLemma ==
  ASSUME NEW buf \in Seq(Chunks), NEW disc \in BOOLEAN, NEW data \in Seq(Chunks)
  PROVE  LET new == Added(buf, disc, data) IN
         /\ new.buf \in Seq(Chunks) /\ new.disc \in BOOLEAN
         /\ disc => new.disc
         /\ ~new.disc => /\ new.buf = buf \o data
                         /\ Limit > 0 => Len(new.buf) <= Limit
         /\ new.disc /\ ~disc => Limit > 0 /\ Len(buf) + Len(data) > Limit
  <1>1. /\ buf \o data \in Seq(Chunks) /\ Len(buf \o data) = Len(buf) + Len(data)
        /\ Len(buf) \in Nat /\ Len(data) \in Nat /\ <<>> \in Seq(Chunks)
    BY ConcatProperties
  <1> QED  BY <1>1, Bounds DEF Added

(* The same for one item: `data` goes to its buffer. *)
LEMMA Append1Lemma ==
  ASSUME OutputType, NEW i \in Items, NEW data \in Seq(Chunks), Append1(i, data)
  PROVE  /\ buffer' \in [Items -> Seq(Chunks)] /\ discard' \in [Items -> BOOLEAN]
         /\ \A j \in Items \ {i} : buffer'[j] = buffer[j] /\ discard'[j] = discard[j]
         /\ discard[i] => discard'[i]
         /\ ~discard'[i] => /\ buffer'[i] = buffer[i] \o data
                            /\ Limit > 0 => Len(buffer'[i]) <= Limit
         /\ discard'[i] /\ ~discard[i] => Limit > 0 /\ Len(buffer[i]) + Len(data) > Limit
  <1> DEFINE new == Added(buffer[i], discard[i], data)
  <1>1. buffer[i] \in Seq(Chunks) /\ discard[i] \in BOOLEAN
    BY DEF OutputType
  <1>2. /\ buffer' = [buffer EXCEPT ![i] = new.buf]
        /\ discard' = [discard EXCEPT ![i] = new.disc]
    BY DEF Append1
  <1>3. /\ new.buf \in Seq(Chunks) /\ new.disc \in BOOLEAN
        /\ discard[i] => new.disc
        /\ ~new.disc => /\ new.buf = buffer[i] \o data
                        /\ Limit > 0 => Len(new.buf) <= Limit
        /\ new.disc /\ ~discard[i] => Limit > 0 /\ Len(buffer[i]) + Len(data) > Limit
    BY <1>1, AddedLemma
  <1> HIDE DEF new
  <1> QED  BY <1>2, <1>3 DEF OutputType

(* What is known of one item's output. *)
Stream(i) ==
  /\ pipe[i] \in Seq(1..MaxWrites) /\ Len(pipe[i]) <= Capacity
  /\ wrote[i] \in 0..MaxWrites /\ direct[i] \in 0..MaxDirect
  /\ buffer[i] \in Seq(Chunks) /\ discard[i] \in BOOLEAN
  /\ pipe[i] = [n \in 1..Len(pipe[i]) |-> Taken(i) + n]
  /\ ~discard[i] => InOrder(buffer[i], Taken(i)) /\ Len(buffer[i]) = Taken(i) + direct[i]
  /\ ~discard[i] /\ Limit > 0 => Len(buffer[i]) <= Limit
  /\ discard[i] => Limit > 0 /\ Taken(i) + direct[i] > Limit

LEMMA OutputIsStreams ==
  OutputInv <=> /\ pipe = [i \in Items |-> pipe[i]] /\ wrote = [i \in Items |-> wrote[i]]
                /\ direct = [i \in Items |-> direct[i]] /\ buffer = [i \in Items |-> buffer[i]]
                /\ discard = [i \in Items |-> discard[i]]
                /\ \A i \in Items : Stream(i)
  BY DEF OutputInv, OutputType, NothingLost, LimitInv, Stream

(* No more has been taken than was written: the last chunk in a pipe is     *)
(* the last that was written, and the first one is a chunk.                 *)
LEMMA TakenIsNat ==
  ASSUME NEW i \in Items, Stream(i)
  PROVE  Taken(i) \in Nat /\ Len(pipe[i]) \in Nat /\ wrote[i] = Taken(i) + Len(pipe[i])
  <1>1. Len(pipe[i]) \in Nat /\ wrote[i] \in Nat /\ Taken(i) \in Int
    BY Bounds DEF Stream, Taken
  <1>2. CASE Len(pipe[i]) = 0
    BY <1>1, <1>2 DEF Taken
  <1>3. CASE Len(pipe[i]) > 0
    <2>1. 1 \in 1..Len(pipe[i])
      BY <1>1, <1>3
    <2>2. pipe[i][1] \in 1..MaxWrites
      BY <2>1, ElementOfSeq DEF Stream
    <2>3. pipe[i][1] = Taken(i) + 1
      BY <2>1 DEF Stream
    <2>4. Taken(i) + 1 >= 1
      BY <2>2, <2>3, Bounds
    <2> QED  BY <1>1, <2>4 DEF Taken
  <1> QED  BY <1>1, <1>2, <1>3

(* A stream stays one if nothing happens to it. *)
LEMMA StreamUnchanged ==
  ASSUME NEW i \in Items, Stream(i), pipe'[i] = pipe[i], wrote'[i] = wrote[i],
         direct'[i] = direct[i], buffer'[i] = buffer[i], discard'[i] = discard[i]
  PROVE  Stream(i)'
  BY DEF Stream, Taken

LEMMA ReadKeepsOutput ==
  ASSUME OutputInv, NEW i \in Items, reads[fd[i]] = i, ReadOnce(i), UNCHANGED <<wrote, direct>>
  PROVE  OutputInv' /\ \A j \in Items \ {i} : pipe'[j] = pipe[j]
  <1>0. Stream(i) /\ OutputType
    BY OutputIsStreams DEF OutputInv
  <1>1. CASE pipe[i] = <<>>
    <2>1. UNCHANGED <<pipe, buffer, discard>>
      BY <1>1 DEF ReadOnce
    <2> QED  BY <2>1 DEF OutputInv, OutputType, NothingLost, LimitInv, Taken
  <1>2. CASE pipe[i] # <<>>
    <2>1. PICK n \in 1..Len(pipe[i]) :
            /\ pipe' = [pipe EXCEPT ![i] = SubSeq(@, n + 1, Len(@))]
            /\ Append1(i, SubSeq(pipe[i], 1, n))
      BY <1>2 DEF ReadOnce
    <2> DEFINE t == Taken(i)
               data == SubSeq(pipe[i], 1, n)
               rest == SubSeq(pipe[i], n + 1, Len(pipe[i]))
    <2>2. /\ t \in Nat /\ Len(pipe[i]) \in Nat /\ wrote[i] = t + Len(pipe[i])
          /\ n \in Nat /\ n <= Len(pipe[i])
      BY <1>0, TakenIsNat
    <2>3. /\ pipe[i] \in Seq(Nat) /\ \A k \in 1..Len(pipe[i]) : pipe[i][k] = t + k
      BY <1>0, SeqMonotonic, Bounds DEF Stream
    <2>4. /\ Len(rest) = Len(pipe[i]) - n
          /\ rest = [k \in 1..Len(rest) |-> t + n + k]
          /\ Len(data) = n
          /\ data = [k \in 1..n |-> t + k] /\ data \in Seq(Nat)
      <3> DEFINE p == pipe[i]
      <3>1. p \in Seq(Nat) /\ n \in 1..Len(p) /\ t \in Nat /\ \A k \in 1..Len(p) : p[k] = t + k
        BY <2>2, <2>3
      <3> HIDE DEF p, t
      <3>2. /\ SubSeq(p, n + 1, Len(p)) = [k \in 1..Len(SubSeq(p, n + 1, Len(p))) |-> t + n + k]
            /\ Len(SubSeq(p, n + 1, Len(p))) = Len(p) - n
            /\ SubSeq(p, 1, n) = [k \in 1..n |-> t + k]
            /\ Len(SubSeq(p, 1, n)) = n /\ SubSeq(p, 1, n) \in Seq(Nat)
        BY <3>1, RestOfPipe
      <3> QED  BY <3>2 DEF p
    <2>5. rest \in Seq(1..MaxWrites) /\ data \in Seq(1..MaxWrites)
      BY <1>0, Halves DEF Stream
    <2>6. data \in Seq(Chunks)
      BY <2>5, SeqMonotonic, Bounds DEF Chunks
    <2>7. pipe' \in [Items -> Seq(1..MaxWrites)] /\ pipe'[i] = rest
          /\ \A j \in Items \ {i} : pipe'[j] = pipe[j]
      BY <1>0, <2>1, <2>5 DEF OutputType
    <2> HIDE DEF data, rest
    <2>8. Taken(i)' = t + n /\ t + n \in Nat
      <3>1. Taken(i)' = wrote[i] - Len(rest)
        BY <2>7 DEF Taken
      <3>2. Len(rest) = Len(pipe[i]) - n
        BY <2>4
      <3>3. \A w, l, k, m \in Nat : w = k + l /\ m <= l => w - (l - m) = k + m /\ k + m \in Nat
        OBVIOUS
      <3>4. wrote[i] \in Nat /\ Len(pipe[i]) \in Nat
        BY <1>0, Bounds DEF Stream
      <3>5. wrote[i] - (Len(pipe[i]) - n) = t + n /\ t + n \in Nat
        <4> HIDE DEF t
        <4> QED  BY <3>3, <3>4, <2>2
      <3> HIDE DEF t
      <3> QED  BY <3>1, <3>2, <3>5
    <2>9. /\ buffer' \in [Items -> Seq(Chunks)] /\ discard' \in [Items -> BOOLEAN]
          /\ \A j \in Items \ {i} : buffer'[j] = buffer[j] /\ discard'[j] = discard[j]
          /\ discard[i] => discard'[i]
          /\ ~discard'[i] => /\ buffer'[i] = buffer[i] \o data
                             /\ Limit > 0 => Len(buffer'[i]) <= Limit
          /\ discard'[i] /\ ~discard[i] => Limit > 0 /\ Len(buffer[i]) + Len(data) > Limit
      <3>1. Append1(i, data)
        BY <2>1 DEF data
      <3> QED  BY <3>1, <1>0, <2>6, Append1Lemma
    <2>10. Stream(i)'
      <3>1. pipe'[i] = [k \in 1..Len(pipe'[i]) |-> Taken(i)' + k]
        BY <2>4, <2>7, <2>8
      <3>2. Len(pipe'[i]) <= Capacity
        BY <1>0, <2>2, <2>4, <2>7, Bounds DEF Stream
      <3>3. ASSUME ~discard'[i]
            PROVE  InOrder(buffer'[i], t + n) /\ Len(buffer'[i]) = t + n + direct[i]
        <4>1. ~discard[i] /\ buffer'[i] = buffer[i] \o data
          BY <2>9, <3>3
        <4>2. InOrder(buffer[i], t) /\ Len(buffer[i]) = t + direct[i] /\ direct[i] \in Nat
          BY <4>1, <1>0, Bounds DEF Stream
        <4>3. buffer[i] \in Seq(Nat) /\ buffer[i] \in Seq(Chunks)
          BY <1>0, SeqMonotonic, Bounds DEF Stream, Chunks
        <4>4. InOrder(buffer[i] \o data, t + n)
          <5> DEFINE b == buffer[i]
          <5>1. /\ b \in Seq(Nat) /\ InOrder(b, t) /\ t \in Nat /\ n \in Nat
                /\ data \in Seq(Nat) /\ data = [k \in 1..n |-> t + k]
            BY <4>2, <4>3, <2>2, <2>4
          <5> HIDE DEF b, t
          <5> QED  BY <5>1, ReadKeepsOrder DEF b
        <4>5. Len(buffer'[i]) = Len(buffer[i]) + n
          BY <4>1, <4>3, <2>4, <2>6, ConcatProperties
        <4> HIDE DEF t
        <4> QED  BY <4>1, <4>2, <4>4, <4>5, <2>2
      <3>4. ASSUME discard'[i]  PROVE  Limit > 0 /\ t + n + direct[i] > Limit
        <4>1. discard[i] => Limit > 0 /\ t + direct[i] > Limit
          BY <1>0 DEF Stream
        <4>2. ~discard[i] => Limit > 0 /\ t + direct[i] + n > Limit
          BY <1>0, <2>4, <2>9, <3>4 DEF Stream
        <4>3. direct[i] \in Nat /\ Limit \in Nat
          BY <1>0, Bounds DEF Stream
        <4> HIDE DEF t
        <4> QED  BY <4>1, <4>2, <4>3, <2>2
      <3> HIDE DEF t
      <3> QED  BY <1>0, <2>5, <2>7, <2>8, <2>9, <3>1, <3>2, <3>3, <3>4 DEF Stream
    <2>11. ASSUME NEW j \in Items \ {i}  PROVE  Stream(j)'
      BY <2>7, <2>9, StreamUnchanged, OutputIsStreams
    <2>12. \A j \in Items : Stream(j)'
      BY <2>10, <2>11
    <2>13. wrote' \in [Items -> 0..MaxWrites] /\ direct' \in [Items -> 0..MaxDirect]
      BY <1>0 DEF OutputType
    <2>14. OutputInv'
      BY <2>7, <2>9, <2>12, <2>13 DEF OutputInv, OutputType, NothingLost, LimitInv, Stream
    <2> QED  BY <2>7, <2>14
  <1> QED  BY <1>1, <1>2

LEMMA BuiltinKeepsOutput ==
  ASSUME OutputInv, NEW i \in Items, DirectAppend(i)
  PROVE  OutputInv'
  <1>0. /\ Stream(i) /\ OutputType
        /\ direct[i] < MaxDirect /\ direct' = [direct EXCEPT ![i] = @ + 1] /\ Append1(i, <<0>>)
        /\ UNCHANGED <<pipe, wrote>>
    BY OutputIsStreams DEF OutputInv, DirectAppend, pipes
  <1>1. Taken(i) \in Nat /\ Taken(i)' = Taken(i) /\ direct[i] \in Nat /\ direct'[i] = direct[i] + 1
    BY <1>0, TakenIsNat, Bounds DEF Taken, OutputType
  <1>2. direct' \in [Items -> 0..MaxDirect] /\ \A j \in Items \ {i} : direct'[j] = direct[j]
    BY <1>0, Bounds DEF OutputType
  <1>3. <<0>> \in Seq(Chunks) /\ Len(<<0>>) = 1
    BY Bounds DEF Chunks
  <1>4. /\ buffer' \in [Items -> Seq(Chunks)] /\ discard' \in [Items -> BOOLEAN]
        /\ \A j \in Items \ {i} : buffer'[j] = buffer[j] /\ discard'[j] = discard[j]
        /\ discard[i] => discard'[i]
        /\ ~discard'[i] => /\ buffer'[i] = buffer[i] \o <<0>>
                           /\ Limit > 0 => Len(buffer'[i]) <= Limit
        /\ discard'[i] /\ ~discard[i] => Limit > 0 /\ Len(buffer[i]) + Len(<<0>>) > Limit
    BY <1>0, <1>3, Append1Lemma
  <1>5. Stream(i)'
    <2>1. ASSUME ~discard'[i]
          PROVE  InOrder(buffer'[i], Taken(i)) /\ Len(buffer'[i]) = Taken(i) + direct'[i]
      <3>1. ~discard[i] /\ buffer'[i] = buffer[i] \o <<0>>
        BY <1>4, <2>1
      <3>2. InOrder(buffer[i], Taken(i)) /\ Len(buffer[i]) = Taken(i) + direct[i]
        BY <3>1, <1>0 DEF Stream
      <3>3. buffer[i] \in Seq(Nat) /\ buffer[i] \in Seq(Chunks)
        BY <1>0, SeqMonotonic, Bounds DEF Stream, Chunks
      <3>4. InOrder(buffer'[i], Taken(i))
        BY <3>1, <3>2, <3>3, <1>1, BuiltinKeepsOrder
      <3>5. Len(buffer'[i]) = Len(buffer[i]) + 1
        BY <3>1, <3>3, <1>3, ConcatProperties
      <3> QED  BY <3>2, <3>4, <3>5, <1>1
    <2>2. ASSUME discard'[i]  PROVE  Limit > 0 /\ Taken(i) + direct'[i] > Limit
      <3>1. discard[i] => Limit > 0 /\ Taken(i) + direct[i] > Limit
        BY <1>0 DEF Stream
      <3>2. ~discard[i] => Limit > 0 /\ Taken(i) + direct[i] + 1 > Limit
        BY <1>0, <1>3, <1>4, <2>2 DEF Stream
      <3> QED  BY <3>1, <3>2, <1>1, Bounds
    <2>3. /\ pipe'[i] = pipe[i] /\ wrote'[i] = wrote[i] /\ direct'[i] \in 0..MaxDirect
          /\ buffer'[i] \in Seq(Chunks) /\ discard'[i] \in BOOLEAN
      BY <1>0, <1>2, <1>4
    <2> QED  BY <1>0, <1>1, <1>4, <2>1, <2>2, <2>3 DEF Stream
  <1>6. ASSUME NEW j \in Items \ {i}  PROVE  Stream(j)'
    BY <1>0, <1>2, <1>4, StreamUnchanged, OutputIsStreams
  <1>7. \A j \in Items : Stream(j)'
    BY <1>5, <1>6
  <1> QED
    BY <1>0, <1>2, <1>4, <1>7 DEF OutputInv, OutputType, NothingLost, LimitInv, Stream

LEMMA WriteKeepsOutput ==
  ASSUME OutputInv, NEW i \in Items, Write(i)
  PROVE  OutputInv' /\ \A j \in Items \ {i} : pipe'[j] = pipe[j]
  <1>0. Stream(i) /\ OutputType
    BY OutputIsStreams DEF OutputInv
  <1>1. /\ wrote[i] < MaxWrites /\ Len(pipe[i]) < Capacity
        /\ wrote' = [wrote EXCEPT ![i] = @ + 1]
        /\ pipe' = [pipe EXCEPT ![i] = Append(@, wrote[i] + 1)]
        /\ UNCHANGED <<direct, buffer, discard>>
    BY DEF Write, buffers
  <1>2. Taken(i) \in Nat /\ Len(pipe[i]) \in Nat /\ wrote[i] = Taken(i) + Len(pipe[i])
    BY <1>0, TakenIsNat
  <1>3. wrote[i] \in Nat /\ wrote[i] + 1 \in 1..MaxWrites
    BY <1>0, <1>1, Bounds DEF Stream
  <1>4. /\ wrote' \in [Items -> 0..MaxWrites] /\ wrote'[i] = wrote[i] + 1
        /\ \A j \in Items \ {i} : wrote'[j] = wrote[j]
    BY <1>0, <1>1, <1>3, Bounds DEF OutputType
  <1>5. /\ Append(pipe[i], wrote[i] + 1) \in Seq(1..MaxWrites)
        /\ Len(Append(pipe[i], wrote[i] + 1)) = Len(pipe[i]) + 1
        /\ \A k \in 1..Len(pipe[i]) : Append(pipe[i], wrote[i] + 1)[k] = pipe[i][k]
        /\ Append(pipe[i], wrote[i] + 1)[Len(pipe[i]) + 1] = wrote[i] + 1
        /\ DOMAIN Append(pipe[i], wrote[i] + 1) = 1..(Len(pipe[i]) + 1)
    BY <1>0, <1>3, AppendProperties DEF Stream
  <1>6. /\ pipe' \in [Items -> Seq(1..MaxWrites)] /\ pipe'[i] = Append(pipe[i], wrote[i] + 1)
        /\ \A j \in Items \ {i} : pipe'[j] = pipe[j]
    BY <1>0, <1>1, <1>5 DEF OutputType
  <1>7. Taken(i)' = Taken(i)
    <2>1. Len(pipe'[i]) = Len(pipe[i]) + 1
      BY <1>5, <1>6
    <2>2. wrote'[i] - Len(pipe'[i]) = wrote[i] - Len(pipe[i])
      BY <2>1, <1>2, <1>3, <1>4
    <2> QED  BY <2>2 DEF Taken
  <1>8. pipe'[i] = [k \in 1..Len(pipe'[i]) |-> Taken(i) + k]
    <2>1. \A k \in 1..Len(pipe[i]) : pipe[i][k] = Taken(i) + k
      BY <1>0 DEF Stream
    <2>2. wrote[i] + 1 = Taken(i) + (Len(pipe[i]) + 1)
      BY <1>2
    <2>3. \A k \in 1..(Len(pipe[i]) + 1) : k \in 1..Len(pipe[i]) \/ k = Len(pipe[i]) + 1
      BY <1>2
    <2>4. \A k \in 1..(Len(pipe[i]) + 1) : pipe'[i][k] = Taken(i) + k
      BY <2>1, <2>2, <2>3, <1>5, <1>6
    <2> QED  BY <2>4, <1>5, <1>6
  <1>9. Stream(i)'
    <2>1. Len(pipe'[i]) <= Capacity
      BY <1>1, <1>2, <1>5, <1>6, Bounds
    <2>2. pipe'[i] \in Seq(1..MaxWrites) /\ wrote'[i] \in 0..MaxWrites
      BY <1>4, <1>6
    <2> QED  BY <1>0, <1>1, <1>7, <1>8, <2>1, <2>2 DEF Stream
  <1>10. ASSUME NEW j \in Items \ {i}  PROVE  Stream(j)'
    BY <1>1, <1>4, <1>6, StreamUnchanged, OutputIsStreams
  <1>11. \A j \in Items : Stream(j)'
    BY <1>9, <1>10
  <1> QED
    BY <1>0, <1>1, <1>4, <1>6, <1>11 DEF OutputInv, OutputType, NothingLost, LimitInv, Stream

LEMMA RestKeepsOutput ==
  ASSUME OutputInv, UNCHANGED <<pipe, wrote, direct, buffer, discard>>
  PROVE  OutputInv'
  BY DEF OutputInv, OutputType, NothingLost, LimitInv, Taken

-----------------------------------------------------------------------------
(* The monitor, its thread and the main thread. *)

(* The types of what is not output. *)
ControlType ==
  /\ ThreadType
  /\ fd \in [Items -> Fds \cup {NoFd}]
  /\ reads \in [Fds -> Items \cup {NoItem}]
  /\ child \in [Items -> {"none", "writing", "closed"}]
  /\ main \in {"run", "spawn", "post", "drain"}
  /\ current \in Items \cup {NoItem} /\ done \subseteq Items

ControlInv == ControlType /\ ItemsWatched /\ FdInv /\ LapInv

(* An fd belongs to one item. *)
LEMMA FdIsOfOneItem ==
  ASSUME ControlInv, NEW i \in Items, NEW j \in Items, fd[i] = fd[j], fd[i] # NoFd
  PROVE  i = j
  BY DEF ControlInv, FdInv

LEMMA AddKeepsControl ==
  ASSUME ControlInv, NEW i \in Items, NEW f \in Fds, Add(i, f)
  PROVE  ControlInv'
  <1>1. /\ main = "run" /\ i \notin items /\ child[i] = "none" /\ reads[f] = NoItem
        /\ reads' = [reads EXCEPT ![f] = i] /\ fd' = [fd EXCEPT ![i] = f]
        /\ child' = [child EXCEPT ![i] = "writing"] /\ items' = items \cup {i}
        /\ running' = TRUE /\ main' = IF running THEN "post" ELSE "spawn"
        /\ UNCHANGED <<signalled, bg, snapshot, polled, ready, serving, current, done>>
    BY DEF Add, thread
  <1>2. ControlType'
    BY <1>1 DEF ControlInv, ControlType, ThreadType
  <1>3. ItemsWatched'
    BY <1>1 DEF ControlInv, ItemsWatched
  <1>4. FdInv'
    <2>1. f # NoFd /\ i # NoItem /\ current = NoItem /\ fd[i] = NoFd
      BY <1>1, NoFdIsNone, NoItemIsNone DEF ControlInv, FdInv
    <2>2. ASSUME NEW j \in Items, j # i, fd[j] # NoFd  PROVE  fd[j] # f
      BY <2>2, <1>1, NoItemIsNone DEF ControlInv, FdInv
    <2>3. /\ fd'[i] = f /\ reads'[f] = i /\ child'[i] = "writing"
          /\ \A j \in Items \ {i} : fd'[j] = fd[j] /\ child'[j] = child[j]
          /\ \A e \in Fds \ {f} : reads'[e] = reads[e]
      BY <1>1 DEF ControlInv, ControlType
    <2>4. \A j \in Items : fd'[j] # NoFd <=> j \in items' \/ j = current'
      BY <2>1, <2>3, <1>1 DEF ControlInv, FdInv
    <2>5. \A j \in Items : fd'[j] # NoFd => reads'[fd'[j]] = j
      BY <2>1, <2>2, <2>3, <1>1 DEF ControlInv, ControlType, FdInv
    <2> QED  BY <2>1, <2>3, <2>4, <2>5, <1>1 DEF ControlInv, FdInv
  <1>5. LapInv'
    BY <1>1 DEF ControlInv, LapInv, ItemsWatched
  <1> QED  BY <1>2, <1>3, <1>4, <1>5 DEF ControlInv

LEMMA FinishKeepsControl ==
  ASSUME ControlInv, NEW i \in Items, Finish(i)
  PROVE  ControlInv'
  <1>1. /\ main = "run" /\ i \in items /\ items' = items \ {i} /\ current' = i /\ main' = "post"
        /\ UNCHANGED <<running, signalled, bg, snapshot, polled, ready, serving, fd, reads,
                       child, done>>
    BY DEF Finish, thread, pipes
  <1>2. current = NoItem /\ i # NoItem
    BY <1>1, NoItemIsNone DEF ControlInv, FdInv
  <1>3. ControlType'
    BY <1>1 DEF ControlInv, ControlType, ThreadType
  <1>4. ItemsWatched'
    BY <1>1 DEF ControlInv, ItemsWatched
  <1>5. FdInv'
    BY <1>1, <1>2, NoItemIsNone DEF ControlInv, FdInv
  <1>6. LapInv'
    BY <1>1 DEF ControlInv, LapInv
  <1> QED  BY <1>3, <1>4, <1>5, <1>6 DEF ControlInv

(* Without an fd there is nothing to drain, and with one it is closed. *)
LEMMA DrainKeepsControl ==
  ASSUME ControlInv, Drain
  PROVE  ControlInv'
  <1>1. CASE UNCHANGED <<reads, fd, mainVars>>
    BY <1>1 DEF Drain, monitor, thread, mainVars, ControlInv, ControlType, ThreadType,
                ItemsWatched, FdInv, LapInv
  <1>2. CASE /\ reads' = [f \in Fds |-> IF f = fd[current] THEN NoItem ELSE reads[f]]
             /\ fd' = [fd EXCEPT ![current] = NoFd]
             /\ done' = done \cup {current}
             /\ current' = NoItem /\ main' = "run"
    <2>1. /\ main = "drain" /\ current \in Items /\ fd[current] # NoFd /\ current \notin items
          /\ UNCHANGED <<items, running, signalled, bg, snapshot, polled, ready, serving, child>>
      BY DEF Drain, monitor, thread, ControlInv, ControlType, FdInv
    <2>2. ControlType'
      BY <1>2, <2>1 DEF ControlInv, ControlType, ThreadType
    <2>3. ItemsWatched'
      BY <1>2, <2>1 DEF ControlInv, ItemsWatched
    <2>4. FdInv'
      <3>1. /\ fd'[current] = NoFd
            /\ \A j \in Items \ {current} : fd'[j] = fd[j]
        BY <1>2, <2>1 DEF ControlInv, ControlType
      <3>2. \A j \in Items \ {current} : fd[j] # NoFd => fd[j] # fd[current]
        BY <2>1, FdIsOfOneItem
      <3>3. \A j \in Items \ {current} : fd[j] # NoFd => reads'[fd[j]] = reads[fd[j]]
        BY <3>2, <1>2 DEF ControlInv, ControlType
      <3>4. \A j \in Items : fd'[j] # NoFd <=> j \in items' \/ j = current'
        BY <3>1, <1>2, <2>1, NoItemIsNone DEF ControlInv, FdInv
      <3>5. \A j \in Items : fd'[j] # NoFd => reads'[fd'[j]] = j
        BY <3>1, <3>3 DEF ControlInv, FdInv
      <3>6. current' \notin items'
        BY <1>2, <2>1, NoItemIsNone DEF ControlInv, ControlType, ThreadType
      <3> QED  BY <3>1, <3>4, <3>5, <3>6, <1>2, <2>1 DEF ControlInv, FdInv
    <2>5. LapInv'
      BY <1>2, <2>1 DEF ControlInv, LapInv
    <2> QED  BY <2>2, <2>3, <2>4, <2>5 DEF ControlInv
  <1> QED  BY <1>1, <1>2 DEF Drain

(* The rest of the main thread and of the children. *)
LEMMA OthersKeepControl ==
  ASSUME ControlInv,
         \/ \E i \in Items : DirectAppend(i) \/ Write(i) \/ Close(i)
         \/ SpawnThread \/ PostChange \/ UNCHANGED vars
  PROVE  ControlInv'
  <1>1. ASSUME NEW i \in Items, DirectAppend(i) \/ Write(i)  PROVE  ControlInv'
    BY <1>1 DEF DirectAppend, Write, monitor, thread, pipes, mainVars, ControlInv, ControlType,
                ThreadType, ItemsWatched, FdInv, LapInv
  <1>2. ASSUME NEW i \in Items, Close(i)  PROVE  ControlInv'
    <2>1. /\ child' \in [Items -> {"none", "writing", "closed"}]
          /\ \A j \in Items : child'[j] = "none" => child[j] = "none"
      BY <1>2 DEF Close, ControlInv, ControlType
    <2> QED
      BY <1>2, <2>1 DEF Close, monitor, thread, mainVars, ControlInv, ControlType,
                        ThreadType, ItemsWatched, FdInv, LapInv
  <1>3. CASE SpawnThread
    <2>1. bg = "none"
      BY <1>3 DEF SpawnThread, ControlInv, LapInv
    <2> QED
      BY <1>3, <2>1 DEF SpawnThread, monitor, mainVars, pipes, ControlInv, ControlType,
                        ThreadType, ItemsWatched, FdInv, LapInv
  <1>4. CASE PostChange
    BY <1>4 DEF PostChange, thread, pipes, ControlInv, ControlType,
                ThreadType, ItemsWatched, FdInv, LapInv
  <1>5. CASE UNCHANGED vars
    BY <1>5 DEF vars, monitor, thread, pipes, mainVars, ControlInv, ControlType, ThreadType,
                ItemsWatched, FdInv, LapInv
  <1> QED  BY <1>1, <1>2, <1>3, <1>4, <1>5

LEMMA ThreadKeepsControl ==
  ASSUME ControlInv, ThreadStep
  PROVE  ControlInv'
  <1>0. /\ UNCHANGED <<items, fd, reads, child, main, current, done>>
        /\ FdInv' /\ (ThreadType' => ControlType')
    <2>1. UNCHANGED <<items, fd, reads, child, main, current, done>>
      BY DEF ThreadStep, ThreadStarts, Snapshot, Poll, Relock, EndLap, Serve, monitor, pipes,
             mainVars
    <2> QED  BY <2>1 DEF ControlInv, ControlType, FdInv
  <1>1. CASE ThreadStarts
    BY <1>0, <1>1 DEF ThreadStarts, monitor, ControlInv, ControlType, ThreadType, ItemsWatched, LapInv
  <1>2. CASE Snapshot
    <2>1. /\ bg = "top" /\ bg' = "poll" /\ snapshot' = {i \in items : fd[i] # NoFd}
          /\ polled' = {fd[i] : i \in snapshot'}
          /\ UNCHANGED <<running, signalled, ready, serving>>
      BY <1>2 DEF Snapshot, monitor
    <2>2. snapshot' = items /\ items \in SUBSET Items
      BY <2>1 DEF ControlInv, FdInv, ControlType, ThreadType
    <2>3. polled' \in SUBSET Fds
      BY <2>1, <2>2 DEF ControlInv, ControlType
    <2>4. ready = Nothing /\ serving = {}
      BY <2>1 DEF ControlInv, LapInv
    <2>5. ThreadType'
      BY <2>1, <2>2, <2>3, <2>4, <1>0 DEF ControlInv, ControlType, ThreadType, Nothing
    <2> QED  BY <2>1, <2>2, <2>4, <2>5, <1>0 DEF ControlInv, ItemsWatched, LapInv
  <1>3. CASE Poll
    <2>1. /\ bg = "poll" /\ bg' = "relock"
          /\ ready' = [fds |-> {f \in polled : Readable(f)}, signaller |-> signalled]
          /\ UNCHANGED <<running, signalled, snapshot, polled, serving>>
      BY <1>3 DEF Poll, monitor
    <2>2. ready' \in [fds : SUBSET polled, signaller : BOOLEAN]
      BY <2>1 DEF ControlInv, ControlType, ThreadType
    <2> QED
      BY <2>1, <2>2, <1>0 DEF ControlInv, ControlType, ThreadType, ItemsWatched, LapInv
  <1>4. CASE Relock
    BY <1>0, <1>4 DEF Relock, monitor, ControlInv, ControlType, ThreadType, ItemsWatched, LapInv
  <1>5. ASSUME NEW i \in Items, Serve(i)  PROVE  ControlInv'
    BY <1>0, <1>5 DEF Serve, monitor, ControlInv, ControlType, ThreadType, ItemsWatched, LapInv
  <1>6. CASE EndLap
    <2>1. /\ bg = "serving" /\ serving = {} /\ UNCHANGED serving
          /\ ready' = Nothing /\ snapshot' = {} /\ polled' = {}
          /\ signalled' \in BOOLEAN
          /\ \/ items = {} /\ running' = FALSE /\ bg' = "none"
             \/ bg' = "top" /\ UNCHANGED running
      BY <1>6 DEF EndLap, ControlInv, ControlType, ThreadType
    <2>2. main # "spawn" /\ running
      BY <2>1 DEF ControlInv, ItemsWatched, LapInv
    <2>3. ThreadType'
      BY <2>1, <1>0 DEF ControlInv, ControlType, ThreadType, Nothing
    <2> QED  BY <2>1, <2>2, <2>3, <1>0 DEF ControlInv, ItemsWatched, LapInv
  <1> QED  BY <1>1, <1>2, <1>3, <1>4, <1>5, <1>6 DEF ThreadStep

-----------------------------------------------------------------------------
(* The theorems. *)

LEMMA InitHolds ==
  ASSUME Init
  PROVE  ControlInv /\ OutputInv /\ DoneInv
  <1>1. ControlInv
    <2>1. ControlType
      BY DEF Init, ControlType, ThreadType, Nothing
    <2>2. FdInv
      BY NoItemIsNone DEF Init, FdInv
    <2>3. ItemsWatched /\ LapInv
      BY DEF Init, ItemsWatched, LapInv
    <2> QED  BY <2>1, <2>2, <2>3 DEF ControlInv
  <1>2. OutputInv
    <2>1. OutputType
      BY Bounds DEF Init, OutputType, Chunks
    <2>2. \A i \in Items : Taken(i) = 0 /\ Len(pipe[i]) = 0 /\ ~discard[i]
      BY DEF Init, Taken
    <2>3. InOrder(<<>>, 0)
      BY DEF InOrder
    <2>4. NothingLost
      <3> SUFFICES ASSUME NEW i \in Items
                   PROVE  /\ pipe[i] = [n \in 1..Len(pipe[i]) |-> Taken(i) + n]
                          /\ InOrder(buffer[i], Taken(i)) /\ Len(buffer[i]) = Taken(i) + direct[i]
        BY DEF NothingLost
      <3>1. pipe[i] = <<>> /\ buffer[i] = <<>> /\ direct[i] = 0
        BY DEF Init
      <3> QED  BY <3>1, <2>2, <2>3
    <2>5. LimitInv
      BY <2>2, Bounds DEF Init, LimitInv
    <2> QED  BY <2>1, <2>4, <2>5 DEF OutputInv
  <1>3. DoneInv
    BY NoItemIsNone DEF Init, DoneInv
  <1> QED  BY <1>1, <1>2, <1>3

LEMMA NextKeepsControl ==
  ASSUME ControlInv, [Next]_vars
  PROVE  ControlInv'
  BY AddKeepsControl, FinishKeepsControl, DrainKeepsControl, OthersKeepControl,
     ThreadKeepsControl DEF Next

(* A step reads from the pipe of an item that has its fd, or writes to one, *)
(* or leaves all output alone.                                              *)
LEMMA NextKeepsOutput ==
  ASSUME ControlInv, OutputInv, [Next]_vars
  PROVE  OutputInv'
  <1>1. ASSUME NEW i \in Items, fd[i] # NoFd  PROVE  reads[fd[i]] = i
    BY <1>1 DEF ControlInv, FdInv
  <1>2. ASSUME NEW i \in Items, DirectAppend(i)  PROVE  OutputInv'
    BY <1>2, BuiltinKeepsOutput
  <1>3. ASSUME NEW i \in Items, Write(i)  PROVE  OutputInv'
    BY <1>3, WriteKeepsOutput
  <1>4. CASE Drain
    <2>1. CASE fd[current] # NoFd /\ ReadOnce(current)
      <3>1. current \in Items
        BY <1>4 DEF Drain, ControlInv, ControlType, FdInv
      <3> QED  BY <1>1, <1>4, <2>1, <3>1, ReadKeepsOutput DEF Drain
    <2>2. CASE UNCHANGED <<pipe, buffer, discard>>
      BY <1>4, <2>2, RestKeepsOutput DEF Drain
    <2> QED  BY <1>4, <2>1, <2>2 DEF Drain
  <1>5. ASSUME NEW i \in Items, Serve(i)  PROVE  OutputInv'
    <2>1. CASE fd[i] # NoFd /\ ReadOnce(i)
      BY <1>1, <1>5, <2>1, ReadKeepsOutput DEF Serve
    <2>2. CASE UNCHANGED <<pipe, buffer, discard>>
      BY <1>5, <2>2, RestKeepsOutput DEF Serve
    <2> QED  BY <1>5, <2>1, <2>2 DEF Serve
  <1>6. CASE \/ \E i \in Items : (\E f \in Fds : Add(i, f)) \/ Finish(i) \/ Close(i)
             \/ SpawnThread \/ PostChange \/ ThreadStarts \/ Snapshot \/ Poll \/ Relock \/ EndLap
             \/ UNCHANGED vars
    <2>1. UNCHANGED <<pipe, wrote, direct, buffer, discard>>
      BY <1>6 DEF Add, Finish, Close, SpawnThread, PostChange, ThreadStarts, Snapshot, Poll,
                  Relock, EndLap, vars, pipes, buffers
    <2> QED  BY <2>1, RestKeepsOutput
  <1> QED  BY <1>2, <1>3, <1>4, <1>5, <1>6 DEF Next, ThreadStep

(* A capture that is over stays as it is: nobody has its fd, and its child  *)
(* has closed the pipe.                                                     *)
LEMMA NextKeepsDone ==
  ASSUME ControlInv, OutputInv, DoneInv, [Next]_vars
  PROVE  DoneInv'
  <1>1. ASSUME NEW i \in Items, fd[i] # NoFd, ReadOnce(i), UNCHANGED <<wrote, direct>>
        PROVE  \A j \in Items \ {i} : pipe'[j] = pipe[j]
    BY <1>1, ReadKeepsOutput DEF ControlInv, FdInv
  <1>2. \A i \in done : i \in Items /\ i \notin items /\ i # current
    BY DEF ControlInv, ControlType, FdInv, DoneInv
  <1>3. ASSUME NEW i \in Items, NEW f \in Fds, Add(i, f)  PROVE  DoneInv'
    <2>1. /\ i \notin done /\ current = NoItem /\ UNCHANGED <<pipe, current, done>>
          /\ \A j \in Items \ {i} : fd'[j] = fd[j] /\ child'[j] = child[j]
      BY <1>3 DEF Add, ControlInv, ControlType, FdInv
    <2> QED  BY <2>1, <1>2, NoItemIsNone DEF DoneInv
  <1>4. ASSUME NEW i \in Items, Finish(i)  PROVE  DoneInv'
    BY <1>4 DEF Finish, pipes, DoneInv
  <1>5. ASSUME NEW i \in Items, Write(i)  PROVE  DoneInv'
    <2>1. i \notin done /\ \A j \in Items \ {i} : pipe'[j] = pipe[j]
      BY <1>5, WriteKeepsOutput DEF Write
    <2> QED  BY <1>2, <1>5, <2>1 DEF Write, mainVars, DoneInv
  <1>6. ASSUME NEW i \in Items, Close(i)  PROVE  DoneInv'
    <2>1. /\ \A j \in Items : child'[j] = child[j] \/ child'[j] = "closed"
          /\ UNCHANGED <<fd, pipe, current, done>>
      BY <1>6 DEF Close, mainVars, ControlInv, ControlType
    <2> QED  BY <1>2, <2>1 DEF DoneInv
  <1>7. CASE Drain
    <2>1. main = "drain" /\ current \in Items /\ fd[current] # NoFd /\ UNCHANGED child
      BY <1>7 DEF Drain, ControlInv, ControlType, FdInv
    <2>2. CASE ReadOnce(current) /\ UNCHANGED <<reads, fd, mainVars>>
      <3>1. \A j \in done : pipe'[j] = pipe[j]
        BY <1>1, <1>2, <1>7, <2>1, <2>2 DEF Drain
      <3> QED  BY <3>1, <2>1, <2>2 DEF DoneInv, mainVars
    <2>3. CASE /\ pipe[reads[fd[current]]] = <<>> /\ fd' = [fd EXCEPT ![current] = NoFd]
               /\ done' = done \cup {current} /\ current' = NoItem
               /\ UNCHANGED pipe
      <3>1. pipe[current] = <<>> /\ fd'[current] = NoFd /\ child[current] # "none"
        BY <2>1, <2>3 DEF ControlInv, ControlType, FdInv
      <3>2. \A j \in Items \ {current} : fd'[j] = fd[j]
        BY <2>3 DEF ControlInv, ControlType
      <3> QED  BY <3>1, <3>2, <1>2, <2>1, <2>3, NoItemIsNone DEF DoneInv
    <2> QED  BY <1>7, <2>1, <2>2, <2>3 DEF Drain
  <1>8. ASSUME NEW i \in Items, Serve(i)  PROVE  DoneInv'
    <2>1. UNCHANGED <<fd, child, current, done>>
      BY <1>8 DEF Serve, mainVars
    <2>2. \A j \in done : pipe'[j] = pipe[j]
      <3>1. CASE fd[i] # NoFd /\ ReadOnce(i)
        <4>1. \A j \in Items \ {i} : pipe'[j] = pipe[j]
          BY <1>1, <1>8, <3>1 DEF Serve
        <4>2. i \notin done
          BY <3>1 DEF DoneInv
        <4> QED  BY <4>1, <4>2, <1>2
      <3>2. CASE UNCHANGED pipe
        BY <3>2
      <3> QED  BY <1>8, <3>1, <3>2 DEF Serve
    <2> QED  BY <2>1, <2>2 DEF DoneInv
  <1>9. CASE \/ \E i \in Items : DirectAppend(i)
             \/ SpawnThread \/ PostChange \/ ThreadStarts \/ Snapshot \/ Poll \/ Relock \/ EndLap
             \/ UNCHANGED vars
    <2>1. UNCHANGED <<fd, pipe, child, current, done>>
      BY <1>9 DEF DirectAppend, SpawnThread, PostChange, ThreadStarts, Snapshot, Poll, Relock,
                  EndLap, vars, pipes, mainVars
    <2> QED  BY <2>1 DEF DoneInv
  <1> QED  BY <1>3, <1>4, <1>5, <1>6, <1>7, <1>8, <1>9 DEF Next, ThreadStep

IInv == ControlInv /\ OutputInv /\ DoneInv

LEMMA Invariance == Spec => []IInv
  <1>1. Init => IInv
    BY InitHolds DEF IInv
  <1>2. IInv /\ [Next]_vars => IInv'
    BY NextKeepsControl, NextKeepsOutput, NextKeepsDone DEF IInv
  <1> QED  BY <1>1, <1>2, PTL DEF Spec

(* For any captures and fds, which are used again: what children write is   *)
(* in their own item's buffer and pipe, once and in order, whoever reads it *)
(* (the background thread or the main thread that finishes), and no item is *)
(* left that no thread polls or is about to.                                *)
THEOREM AlwaysConsistent == Spec => []ItemsConsistent
  <1>1. IInv => ItemsConsistent
    BY DEF IInv, ControlInv, ControlType, OutputInv, ItemsConsistent, TypeOK
  <1> QED  BY <1>1, Invariance, PTL

(* complete_and_take_buffer() of a child that has exited takes all that the *)
(* child and the builtins wrote, or has discarded it, which happens exactly *)
(* if it exceeds the limit.                                                 *)
THEOREM FinishedIsComplete == Spec => []CaptureComplete
  <1>1. IInv => CaptureComplete
    <2> SUFFICES ASSUME ControlInv, OutputInv, DoneInv, NEW i \in done, i \notin Lingering
                 PROVE  /\ ~discard[i] => Len(buffer[i]) = wrote[i] + direct[i]
                        /\ discard[i] <=> Limit > 0 /\ wrote[i] + direct[i] > Limit
      BY DEF IInv, CaptureComplete
    <2>1. i \in Items /\ pipe[i] = <<>> /\ Stream(i)
      BY OutputIsStreams DEF ControlInv, ControlType, DoneInv
    <2>2. Taken(i) = wrote[i] /\ wrote[i] \in Nat /\ direct[i] \in Nat
      BY <2>1, Bounds DEF Taken, Stream
    <2>3. ~discard[i] => /\ Len(buffer[i]) = wrote[i] + direct[i]
                         /\ Limit > 0 => Len(buffer[i]) <= Limit
      BY <2>1, <2>2 DEF Stream
    <2>4. discard[i] => Limit > 0 /\ wrote[i] + direct[i] > Limit
      BY <2>1, <2>2 DEF Stream
    <2> QED  BY <2>2, <2>3, <2>4, Bounds
  <1> QED  BY <1>1, Invariance, PTL
=============================================================================
