------------------------- MODULE TopicMonitorProofs -------------------------
(***************************************************************************)
(* Theorems about TopicMonitor, for any number of topics, threads, posters *)
(* and posts.                                                              *)
(***************************************************************************)
EXTENDS TopicMonitor, TLAPS

(* Who holds the mutex across a step: only a thread between its test and   *)
(* its CAS, or one that comes back from a failed CAS; while it is held     *)
(* nobody is reader, and the generations it compared are the current ones. *)
LockInv ==
  /\ \A th \in Threads : pc[th] = "cas" => lock = th /\ input[th] = current
  /\ lock # NoThread => pc[lock] \in {"try", "cas"} /\ ~hasReader

IInv ==
  /\ TypeOK
  /\ Balanced
  /\ LockInv
  /\ SleepersCovered
  /\ AssertionsHold

USE DistinctMarks, MaxPostsIsNat

(* Pending posts never move a generation back. *)
LEMMA PublishedLemma ==
  ASSUME TypeOK
  PROVE  /\ Published \in Generations
         /\ \A t \in Topics : current[t] <= Published[t]
         /\ status \cap Topics = {} => Published = current
BY DEF TypeOK, Published, Generations

(* Notifying moves only sleepers, and only to "try". *)
LEMMA NotifyLemma ==
  ASSUME NEW at \in [Threads -> PCs]
  PROVE  /\ NotifyAll(at) \in [Threads -> PCs]
         /\ \A th \in Threads :
              /\ NotifyAll(at)[th] # "cv"
              /\ at[th] # "cv" => NotifyAll(at)[th] = at[th]
              /\ at[th] = "cv" => NotifyAll(at)[th] = "try"
BY DEF NotifyAll, PCs

(* Applying pending posts, whatever the caller does next. *)
LEMMA ApplyLemma ==
  ASSUME TypeOK, NEW at \in [Threads -> PCs], ApplyPending(at)
  PROVE  /\ current' = Published
         /\ current' \in Generations
         /\ status' \in SUBSET (Topics \cup {NEEDS_WAKEUP})
         /\ pc' \in [Threads -> PCs]
         /\ \A th \in Threads :
              /\ at[th] # "cv" => pc'[th] = at[th]
              /\ at[th] = "cv" => pc'[th] \in {"cv", "try"}
              /\ pc'[th] = "cv" => at[th] = "cv" /\ status' = status /\ current' = current
         /\ status' \cap Topics = {}
         /\ NEEDS_WAKEUP \in status' => status' = status
         /\ Balanced => (NEEDS_WAKEUP \in status' <=> NEEDS_WAKEUP \in status)
<1>1. CASE status \cap Topics = {}
  BY <1>1, PublishedLemma DEF ApplyPending, TypeOK
<1>2. CASE status \cap Topics # {}
  BY <1>2, PublishedLemma, NotifyLemma DEF ApplyPending, TypeOK, Balanced
<1>. QED
  BY <1>1, <1>2

(* The invariant holds initially. *)
LEMMA InitInvariant == Init => IInv
<1>. SUFFICES ASSUME Init PROVE IInv
  OBVIOUS
<1>0. Zero \in Generations /\ "idle" \in PCs
  BY DEF Zero, Generations, PCs
<1>1. TypeOK
  <2>1. status \subseteq Topics \cup {NEEDS_WAKEUP} /\ current \in Generations
    BY <1>0 DEF Init
  <2>2. hasReader \in BOOLEAN /\ lock \in Threads \cup {NoThread} /\ sema \in Nat
    BY DEF Init
  <2>3. pc \in [Threads -> PCs] /\ want \in [Threads -> SUBSET Topics]
    BY <1>0 DEF Init
  <2>4. waiting \in [Threads -> BOOLEAN] /\ result \in [Threads -> BOOLEAN]
    BY DEF Init
  <2>5. gens \in [Threads -> Generations] /\ input \in [Threads -> Generations]
    BY <1>0 DEF Init
  <2>6. ppc \in [Posters -> {"idle", "sema"}] /\ posts \in 0..MaxPosts
    BY DEF Init
  <2>. QED
    BY <2>1, <2>2, <2>3, <2>4, <2>5, <2>6 DEF TypeOK
<1>2. Reading = {} /\ Waking = {}
  BY DEF Init, Reading, Waking
<1>3. Balanced
  BY <1>2 DEF Init, Balanced, AtMostOne
<1>4. LockInv /\ SleepersCovered
  BY DEF Init, LockInv, SleepersCovered
<1>5. AssertionsHold
  BY DEF Init, AssertionsHold, Zero
<1>. QED
  BY <1>1, <1>3, <1>4, <1>5 DEF IInv

(* Steps that leave the reader, the semaphore and the posters alone leave  *)
(* the balance alone.                                                      *)
LEMMA BalancedFrame ==
  ASSUME Balanced,
         hasReader' = hasReader, sema' = sema, ppc' = ppc,
         NEEDS_WAKEUP \in status' => status' = status,
         NEEDS_WAKEUP \in status' <=> NEEDS_WAKEUP \in status,
         \A th \in Threads : /\ pc'[th] = "sema" <=> pc[th] = "sema"
                             /\ pc'[th] = "woken" <=> pc[th] = "woken"
  PROVE  Balanced'
<1>1. Reading' = Reading /\ Waking' = Waking
  BY DEF Reading, Waking
<1>2. (\E th \in Reading' : pc'[th] = "sema") <=> (\E th \in Reading : pc[th] = "sema")
  BY <1>1 DEF Reading
<1>. QED
  BY <1>1, <1>2 DEF Balanced, AtMostOne

(* The reader asleep is owed a wakeup that is not requested any more as    *)
(* soon as a topic is pending, and a condition-variable sleeper has a      *)
(* reader: the second half of SleepersCovered follows from the rest.       *)
SleepersFresh ==
  \A th \in Threads : pc[th] = "cv" => hasReader /\ input[th] = current

(* Sleepers that have a reader are covered when the semaphore balances. *)
LEMMA CoveredLemma == Balanced /\ SleepersFresh => SleepersCovered
<1>. SUFFICES ASSUME Balanced, SleepersFresh,
                     NEW th \in Threads, pc[th] \in {"cv", "sema"}, status \cap Topics # {}
              PROVE  sema = 1 \/ Waking # {} \/ \E r \in Threads : pc[r] = "woken"
  BY DEF SleepersCovered, SleepersFresh
<1>1. NEEDS_WAKEUP \notin status
  BY DEF Balanced
<1>2. PICK r \in Reading : TRUE
  BY DEF Balanced, Reading, SleepersFresh
<1>. QED
  BY <1>1, <1>2 DEF Balanced, Reading

(* Every step keeps the types. *)
LEMMA TypeStep == TypeOK /\ [Next]_vars => TypeOK'
<1>. SUFFICES ASSUME TypeOK, [Next]_vars PROVE TypeOK'
  OBVIOUS
<1>. USE DEF TypeOK
<1>z. Zero \in Generations
  BY DEF Zero, Generations
<1>p. Published \in Generations
  BY PublishedLemma
<1>c. ASSUME NEW th \in Threads, NEW now \in Generations, Compare(th, now)
      PROVE  /\ gens' \in [Threads -> Generations]
             /\ input' \in [Threads -> Generations]
             /\ want' \in [Threads -> SUBSET Topics]
             /\ waiting' \in [Threads -> BOOLEAN]
             /\ result' \in [Threads -> BOOLEAN]
             /\ AfterCompare(th, now) \in {"try", "idle"}
  <2>1. Changed(th, now) \in BOOLEAN
    BY DEF Changed
  <2>2. [t \in Topics |-> IF t \in want[th] THEN now[t] ELSE gens[th][t]] \in Generations
    BY DEF Generations
  <2>3. AfterCompare(th, now) \in {"try", "idle"}
    BY DEF AfterCompare
  <2>4. gens' \in [Threads -> Generations] /\ result' \in [Threads -> BOOLEAN]
    BY <1>c, <2>1, <2>2 DEF Compare
  <2>5. CASE AfterCompare(th, now) = "idle"
    <3>1. input' \in [Threads -> Generations] /\ want' \in [Threads -> SUBSET Topics]
      BY <1>c, <1>z, <2>5 DEF Compare, Drop
    <3>2. waiting' \in [Threads -> BOOLEAN]
      BY <1>c, <2>5 DEF Compare, Drop
    <3>. QED
      BY <2>4, <2>5, <3>1, <3>2
  <2>6. CASE AfterCompare(th, now) = "try"
    BY <1>c, <2>3, <2>4, <2>6 DEF Compare
  <2>. QED
    BY <2>3, <2>5, <2>6
<1>1. ASSUME NEW p \in Posters, NEW t \in Topics, Post(p, t) PROVE TypeOK'
  BY <1>1 DEF Post, data, local
<1>2. ASSUME NEW p \in Posters, SemaPost(p) PROVE TypeOK'
  BY <1>2 DEF SemaPost, data, local
<1>3. ASSUME NEW th \in Threads, Snapshot(th) PROVE TypeOK'
  BY <1>3, <1>p, ApplyLemma DEF Snapshot, poster
<1>4. ASSUME NEW th \in Threads, NEW topics \in SUBSET Topics, NEW wait \in BOOLEAN,
             Call(th, topics, wait)
      PROVE  TypeOK'
  BY <1>4 DEF Call, data, poster, PCs
<1>5. ASSUME NEW th \in Threads, NoneValid(th) PROVE TypeOK'
  BY <1>5, <1>z DEF NoneValid, Drop, data, poster, PCs
<1>6. ASSUME NEW th \in Threads, CheckFirst(th) PROVE TypeOK'
  <2>1. [pc EXCEPT ![th] = AfterCompare(th, Published)] \in [Threads -> PCs]
    BY <1>6, <1>c, <1>p DEF CheckFirst, PCs
  <2>. QED
    BY <1>6, <1>c, <1>p, <2>1, ApplyLemma DEF CheckFirst, poster
<1>7. ASSUME NEW th \in Threads, TryUpdate(th) PROVE TypeOK'
  <2>1. CASE Published # input[th]
    <3>1. [pc EXCEPT ![th] = AfterCompare(th, Published)] \in [Threads -> PCs]
      BY <1>7, <2>1, <1>c, <1>p DEF TryUpdate, PCs
    <3>. QED
      BY <1>7, <2>1, <1>c, <1>p, <3>1, ApplyLemma DEF TryUpdate, poster
  <2>2. CASE Published = input[th]
    <3>1. [pc EXCEPT ![th] = IF hasReader THEN "cv" ELSE "cas"] \in [Threads -> PCs]
      BY DEF PCs
    <3>. QED
      BY <1>7, <2>2, <3>1, ApplyLemma DEF TryUpdate, poster, local
  <2>. QED
    BY <2>1, <2>2
<1>8. ASSUME NEW th \in Threads, BecomeReader(th) PROVE TypeOK'
  BY <1>8 DEF BecomeReader, local, poster, PCs
<1>9. ASSUME NEW th \in Threads, SpuriousWakeup(th) PROVE TypeOK'
  BY <1>9 DEF SpuriousWakeup, data, local, poster, PCs
<1>10. ASSUME NEW th \in Threads, SemaWait(th) PROVE TypeOK'
  BY <1>10 DEF SemaWait, data, local, poster, PCs
<1>11. ASSUME NEW th \in Threads, StepDown(th) PROVE TypeOK'
  <2>1. CASE current = input[th]
    <3>1. [pc EXCEPT ![th] = "try"] \in [Threads -> PCs]
      BY DEF PCs
    <3>2. NotifyAll([pc EXCEPT ![th] = "try"]) \in [Threads -> PCs]
      BY <3>1, NotifyLemma
    <3>3. pc' \in [Threads -> PCs] /\ UNCHANGED <<status, current, sema, want, waiting, gens, result, ppc, posts>>
      BY <1>11, <2>1, <3>2 DEF StepDown, local, poster
    <3>4. hasReader' \in BOOLEAN /\ lock' \in Threads \cup {NoThread} /\ input' \in [Threads -> Generations]
      BY <1>11, <2>1 DEF StepDown, local
    <3>. QED
      BY <3>3, <3>4
  <2>2. CASE current # input[th]
    <3>1. [pc EXCEPT ![th] = AfterCompare(th, current)] \in [Threads -> PCs]
      BY <1>11, <2>2, <1>c DEF StepDown, PCs
    <3>2. current \in Generations /\ Compare(th, current)
      BY <1>11, <2>2 DEF StepDown
    <3>3. pc' \in [Threads -> PCs]
      <4>1. pc' = NotifyAll([pc EXCEPT ![th] = AfterCompare(th, current)])
        BY <1>11, <2>2 DEF StepDown
      <4>. QED
        BY <3>1, <4>1, NotifyLemma
    <3>4. /\ hasReader' = FALSE
          /\ status' = status /\ sema' = sema /\ current' = current
          /\ lock' = lock /\ ppc' = ppc /\ posts' = posts
      BY <1>11 DEF StepDown, poster
    <3>5. /\ gens' \in [Threads -> Generations] /\ input' \in [Threads -> Generations]
          /\ want' \in [Threads -> SUBSET Topics] /\ waiting' \in [Threads -> BOOLEAN]
          /\ result' \in [Threads -> BOOLEAN]
      BY <3>2, <1>c
    <3>. QED
      BY <3>3, <3>4, <3>5
  <2>. QED
    BY <2>1, <2>2
<1>12. CASE UNCHANGED vars
  BY <1>12 DEF vars, data, local, poster
<1>. HIDE DEF TypeOK
<1>. QED
  BY <1>1, <1>2, <1>3, <1>4, <1>5, <1>6, <1>7, <1>8, <1>9, <1>10, <1>11, <1>12
     DEF Next, ThreadStep

(* What Compare does to the thread that runs it, whose list is not ahead.  *)
LEMMA CompareLemma ==
  ASSUME TypeOK, NEW th \in Threads, NEW now \in Generations, Compare(th, now)
  PROVE  /\ \A o \in Threads : o # th =>
              /\ gens'[o] = gens[o] /\ input'[o] = input[o]
              /\ want'[o] = want[o] /\ waiting'[o] = waiting[o]
         /\ \A t \in Topics : gens'[th][t] \in {gens[th][t], now[t]}
         /\ input'[th] \in {now, Zero}
<1>1. \A o \in Threads : o # th => gens'[o] = gens[o]
  BY DEF Compare, TypeOK
<1>2. \A t \in Topics : gens'[th][t] \in {gens[th][t], now[t]}
  BY DEF Compare, TypeOK
<1>3. CASE AfterCompare(th, now) = "idle"
  BY <1>1, <1>2, <1>3 DEF Compare, Drop, TypeOK
<1>4. CASE AfterCompare(th, now) # "idle"
  BY <1>1, <1>2, <1>4 DEF Compare, TypeOK
<1>. QED
  BY <1>3, <1>4

(* The loop of check() is left, or gone round again. *)
LEMMA AfterCompareLemma ==
  ASSUME NEW th, NEW now
  PROVE  AfterCompare(th, now) \in {"try", "idle"}
BY DEF AfterCompare

(* Every step keeps the invariant. *)
LEMMA InvariantStep == IInv /\ [Next]_vars => IInv'
<1>. SUFFICES ASSUME IInv, [Next]_vars PROVE IInv'
  OBVIOUS
<1>t. TypeOK /\ TypeOK'
  BY TypeStep DEF IInv
<1>. USE <1>t DEF IInv
<1>z. Zero \in Generations /\ \A t \in Topics : Zero[t] = 0
  BY DEF Zero, Generations
<1>p. Published \in Generations
  BY PublishedLemma
<1>s. ASSUME Balanced', LockInv', AssertionsHold', SleepersFresh' PROVE IInv'
  <2>1. SleepersCovered'
    BY <1>s, CoveredLemma, PTL
  <2>. QED
    BY <1>s, <2>1
<1>f. SleepersFresh
  BY DEF SleepersCovered, SleepersFresh
<1>1. ASSUME NEW p \in Posters, NEW t \in Topics, Post(p, t) PROVE IInv'
  <2>. USE <1>1 DEF Post, data, local
  <2>1. /\ Reading' = Reading
        /\ NEEDS_WAKEUP \notin status'
        /\ NEEDS_WAKEUP \in status => Waking' = {p}
        /\ NEEDS_WAKEUP \notin status => Waking' = Waking
    BY DEF Reading, Waking, TypeOK, Balanced
  <2>2. Balanced'
    BY <2>1 DEF Balanced, AtMostOne, Reading
  <2>3. LockInv' /\ AssertionsHold' /\ SleepersFresh'
    BY <1>f, <2>1 DEF LockInv, AssertionsHold, SleepersFresh
  <2>. QED
    BY <1>s, <2>2, <2>3
<1>2. ASSUME NEW p \in Posters, SemaPost(p) PROVE IInv'
  <2>. USE <1>2 DEF SemaPost, data, local
  <2>1. /\ Reading' = Reading /\ Waking = {p} /\ Waking' = {}
        /\ NEEDS_WAKEUP \notin status /\ sema = 0 /\ sema' = 1
    BY DEF Reading, Waking, TypeOK, Balanced, AtMostOne
  <2>2. Balanced'
    BY <2>1 DEF Balanced, AtMostOne
  <2>3. LockInv' /\ AssertionsHold' /\ SleepersFresh'
    BY <1>f DEF LockInv, AssertionsHold, SleepersFresh
  <2>. QED
    BY <1>s, <2>2, <2>3
<1>10. ASSUME NEW th \in Threads, SemaWait(th) PROVE IInv'
  <2>. USE <1>10 DEF SemaWait, data, local, poster
  <2>1. /\ Reading = {th} /\ Reading' = Reading /\ Waking' = {} /\ Waking = {}
        /\ NEEDS_WAKEUP \notin status /\ sema = 1 /\ sema' = 0
        /\ pc'[th] = "woken"
    BY DEF Reading, Waking, TypeOK, Balanced, AtMostOne, PCs
  <2>2. Balanced'
    BY <2>1 DEF Balanced, AtMostOne
  <2>3. LockInv' /\ SleepersFresh'
    BY <1>f DEF LockInv, SleepersFresh, TypeOK
  <2>4. AssertionsHold'
    BY <2>1 DEF AssertionsHold, TypeOK, Balanced
  <2>. QED
    BY <1>s, <2>2, <2>3, <2>4
<1>a. ASSUME NEW at \in [Threads -> PCs], NEW th \in Threads, ApplyPending(at),
             \A o \in Threads : o # th => at[o] = pc[o],
             pc[th] \notin {"sema", "woken"}, at[th] \notin {"sema", "woken"},
             UNCHANGED <<sema, hasReader, ppc>>
      PROVE  Balanced'
  <2>1. \A o \in Threads : /\ pc'[o] = "sema" <=> pc[o] = "sema"
                           /\ pc'[o] = "woken" <=> pc[o] = "woken"
    BY <1>a, ApplyLemma
  <2>. QED
    BY <1>a, <2>1, ApplyLemma, BalancedFrame
<1>l. lock = NoThread => \A o \in Threads : pc[o] # "cas"
  BY DEF LockInv
<1>g. \A t \in Topics : current[t] <= Published[t] /\ current[t] \in Nat /\ Published[t] \in Nat
  BY PublishedLemma DEF TypeOK, Generations
<1>3. ASSUME NEW th \in Threads, Snapshot(th) PROVE IInv'
  <2>. USE <1>3 DEF Snapshot, poster
  <2>1. Balanced'
    BY <1>a DEF TypeOK
  <2>2. LockInv' /\ SleepersFresh'
    BY <1>f, <1>l, ApplyLemma DEF LockInv, SleepersFresh, TypeOK
  <2>3. ASSUME NEW o \in Threads, NEW t \in Topics
        PROVE  gens'[o][t] <= current'[t] /\ input'[o][t] <= current'[t]
    BY <1>g, ApplyLemma DEF AssertionsHold, TypeOK, Generations
  <2>4. AssertionsHold'
    BY <2>3, <1>l, ApplyLemma DEF AssertionsHold, TypeOK
  <2>. QED
    BY <1>s, <2>1, <2>2, <2>4
<1>4. ASSUME NEW th \in Threads, NEW topics \in SUBSET Topics, NEW wait \in BOOLEAN,
             Call(th, topics, wait)
      PROVE  IInv'
  <2>. USE <1>4 DEF Call, data, poster
  <2>1. Balanced'
    BY BalancedFrame DEF TypeOK
  <2>2. LockInv' /\ SleepersFresh' /\ AssertionsHold'
    BY <1>f DEF LockInv, SleepersFresh, AssertionsHold, TypeOK
  <2>. QED
    BY <1>s, <2>1, <2>2
<1>5. ASSUME NEW th \in Threads, NoneValid(th) PROVE IInv'
  <2>. USE <1>5 DEF NoneValid, Drop, data, poster
  <2>1. Balanced'
    BY BalancedFrame DEF TypeOK
  <2>2. LockInv' /\ SleepersFresh'
    BY <1>f DEF LockInv, SleepersFresh, TypeOK
  <2>3. AssertionsHold'
    BY <1>g, <1>z DEF AssertionsHold, TypeOK
  <2>. QED
    BY <1>s, <2>1, <2>2, <2>3
<1>c. ASSUME NEW th \in Threads, NEW now \in Generations, Compare(th, now),
             \A t \in Topics : now[t] <= current'[t] /\ current[t] <= current'[t]
      PROVE  \A o \in Threads, t \in Topics :
               gens'[o][t] <= current'[t] /\ input'[o][t] <= current'[t]
  <2>. SUFFICES ASSUME NEW o \in Threads, NEW t \in Topics
                PROVE  gens'[o][t] <= current'[t] /\ input'[o][t] <= current'[t]
    OBVIOUS
  <2>1. /\ current[t] \in Nat /\ current'[t] \in Nat /\ now[t] \in Nat
        /\ gens[o][t] \in Nat /\ input[o][t] \in Nat
        /\ gens[o][t] <= current[t] /\ input[o][t] <= current[t]
    BY DEF TypeOK, Generations, AssertionsHold
  <2>2. CASE o = th
    BY <1>c, <1>z, <2>1, <2>2, CompareLemma
  <2>3. CASE o # th
    BY <1>c, <2>1, <2>3, CompareLemma
  <2>. QED
    BY <2>2, <2>3
<1>6. ASSUME NEW th \in Threads, CheckFirst(th) PROVE IInv'
  <2>. DEFINE at == [pc EXCEPT ![th] = AfterCompare(th, Published)]
  <2>1. /\ pc[th] = "check" /\ lock = NoThread /\ ApplyPending(at) /\ Compare(th, Published)
        /\ UNCHANGED <<sema, hasReader, lock, ppc>>
    BY <1>6 DEF CheckFirst, poster
  <2>2. at \in [Threads -> PCs] /\ at[th] \in {"try", "idle"}
    BY AfterCompareLemma DEF TypeOK, PCs
  <2>3. \A o \in Threads : o # th => at[o] = pc[o]
    BY DEF TypeOK
  <2>. HIDE DEF at
  <2>4. Balanced'
    BY <1>a, <2>1, <2>2, <2>3
  <2>5. LockInv' /\ SleepersFresh'
    BY <1>f, <1>l, <1>p, <2>1, <2>2, <2>3, ApplyLemma, CompareLemma DEF LockInv, SleepersFresh
  <2>6. AssertionsHold'
    BY <1>c, <1>g, <1>l, <1>p, <2>1, <2>2, <2>3, ApplyLemma DEF AssertionsHold
  <2>. QED
    BY <1>s, <2>4, <2>5, <2>6
<1>7. ASSUME NEW th \in Threads, TryUpdate(th) PROVE IInv'
  <2>0. /\ pc[th] = "try" /\ lock \in {NoThread, th}
        /\ UNCHANGED <<sema, hasReader, ppc>>
        /\ \A o \in Threads : o # th => pc[o] # "cas"
    BY <1>7 DEF TryUpdate, poster, LockInv
  <2>1. CASE Published # input[th]
    <3>. DEFINE at == [pc EXCEPT ![th] = AfterCompare(th, Published)]
    <3>1. ApplyPending(at) /\ Compare(th, Published) /\ lock' = NoThread
      BY <1>7, <2>1 DEF TryUpdate
    <3>2. at \in [Threads -> PCs] /\ at[th] \in {"try", "idle"}
      BY AfterCompareLemma DEF TypeOK, PCs
    <3>3. \A o \in Threads : o # th => at[o] = pc[o]
      BY DEF TypeOK
    <3>. HIDE DEF at
    <3>4. Balanced'
      BY <1>a, <2>0, <3>1, <3>2, <3>3
    <3>5. LockInv' /\ SleepersFresh'
      BY <1>f, <1>p, <2>0, <3>1, <3>2, <3>3, ApplyLemma, CompareLemma DEF LockInv, SleepersFresh
    <3>6. AssertionsHold'
      BY <1>c, <1>g, <1>p, <2>0, <3>1, <3>2, <3>3, ApplyLemma DEF AssertionsHold
    <3>. QED
      BY <1>s, <3>4, <3>5, <3>6
  <2>2. CASE Published = input[th]
    <3>. DEFINE at == [pc EXCEPT ![th] = IF hasReader THEN "cv" ELSE "cas"]
    <3>1. /\ ApplyPending(at) /\ UNCHANGED <<gens, input>>
          /\ lock' = IF hasReader THEN NoThread ELSE th
      BY <1>7, <2>2 DEF TryUpdate, local
    <3>2. /\ at \in [Threads -> PCs]
          /\ hasReader => at[th] = "cv"
          /\ ~hasReader => at[th] = "cas"
      BY DEF TypeOK, PCs
    <3>3. \A o \in Threads : o # th => at[o] = pc[o]
      BY DEF TypeOK
    <3>. HIDE DEF at
    <3>4. Balanced'
      BY <1>a, <2>0, <3>1, <3>2, <3>3
    <3>5. current' = input[th]
      BY <2>2, <3>1, <3>2, ApplyLemma
    <3>6. LockInv' /\ SleepersFresh'
      BY <1>f, <2>0, <3>1, <3>2, <3>3, <3>5, ApplyLemma DEF LockInv, SleepersFresh
    <3>7. ASSUME NEW o \in Threads, NEW t \in Topics
          PROVE  gens'[o][t] <= current'[t] /\ input'[o][t] <= current'[t]
      <4>1. current'[t] = Published[t] /\ gens'[o] = gens[o] /\ input'[o] = input[o]
        BY <3>1, <3>2, ApplyLemma
      <4>2. /\ gens[o][t] \in Nat /\ input[o][t] \in Nat
            /\ gens[o][t] <= current[t] /\ input[o][t] <= current[t]
        BY DEF AssertionsHold, TypeOK, Generations
      <4>. QED
        BY <1>g, <4>1, <4>2
    <3>8. ~hasReader => NEEDS_WAKEUP \notin status'
      BY <3>1, <3>2, ApplyLemma DEF Balanced, Reading
    <3>9. ASSUME NEW o \in Threads
          PROVE  /\ pc'[o] = "woken" => hasReader'
                 /\ pc'[o] = "cas" => lock' = o /\ NEEDS_WAKEUP \notin status'
      <4>1. CASE o = th
        BY <2>0, <3>1, <3>2, <3>8, <4>1, ApplyLemma DEF AssertionsHold
      <4>2. CASE o # th
        BY <2>0, <3>1, <3>2, <3>3, <4>2, ApplyLemma DEF AssertionsHold
      <4>. QED
        BY <4>1, <4>2
    <3>10. AssertionsHold'
      BY <3>7, <3>9 DEF AssertionsHold
    <3>. QED
      BY <1>s, <3>4, <3>6, <3>10
  <2>. QED
    BY <2>1, <2>2
<1>8. ASSUME NEW th \in Threads, BecomeReader(th) PROVE IInv'
  <2>0. pc[th] = "cas" /\ lock = th /\ ~hasReader /\ UNCHANGED <<sema, current, gens, input, ppc>>
    BY <1>8 DEF BecomeReader, LockInv, local, poster
  <2>1. CASE status = {}
    <3>. USE <1>8, <2>0, <2>1 DEF BecomeReader
    <3>1. /\ Reading = {} /\ Reading' = {th} /\ Waking' = Waking /\ Waking = {} /\ sema = 0
          /\ status' = {NEEDS_WAKEUP} /\ pc'[th] = "sema"
      BY DEF Reading, Waking, Balanced, TypeOK
    <3>2. Balanced'
      BY <3>1 DEF Balanced, AtMostOne
    <3>3. \A o \in Threads : o # th => pc[o] # "cas"
      BY DEF LockInv
    <3>4. LockInv' /\ SleepersFresh'
      BY <1>f, <3>3 DEF LockInv, SleepersFresh, TypeOK
    <3>5. AssertionsHold'
      BY <3>3 DEF AssertionsHold, TypeOK
    <3>. QED
      BY <1>s, <3>2, <3>4, <3>5
  <2>2. CASE status # {}
    <3>. USE <1>8, <2>0, <2>2 DEF BecomeReader
    <3>1. Balanced'
      BY BalancedFrame DEF TypeOK
    <3>2. LockInv' /\ SleepersFresh' /\ AssertionsHold'
      BY <1>f DEF LockInv, SleepersFresh, AssertionsHold, TypeOK
    <3>. QED
      BY <1>s, <3>1, <3>2
  <2>. QED
    BY <2>1, <2>2
<1>9. ASSUME NEW th \in Threads, SpuriousWakeup(th) PROVE IInv'
  <2>. USE <1>9 DEF SpuriousWakeup, data, local, poster
  <2>1. Balanced'
    BY BalancedFrame DEF TypeOK
  <2>2. LockInv' /\ SleepersFresh' /\ AssertionsHold'
    BY <1>f DEF LockInv, SleepersFresh, AssertionsHold, TypeOK
  <2>. QED
    BY <1>s, <2>1, <2>2
<1>11. ASSUME NEW th \in Threads, StepDown(th) PROVE IInv'
  <2>0. /\ pc[th] = "woken" /\ lock = NoThread /\ lock' = NoThread /\ hasReader' = FALSE
        /\ UNCHANGED <<status, sema, current, ppc>>
        /\ NEEDS_WAKEUP \notin status /\ Waking = {} /\ sema = 0 /\ Reading = {th}
    BY <1>11 DEF StepDown, poster, Balanced, Reading, AtMostOne
  <2>1. PICK at \in [Threads -> PCs] :
          /\ pc' = NotifyAll(at)
          /\ at[th] \in {"try", "idle"}
          /\ \A o \in Threads : o # th => at[o] = pc[o]
    <3>1. CASE current = input[th]
      <4>1. [pc EXCEPT ![th] = "try"] \in [Threads -> PCs]
        BY DEF TypeOK, PCs
      <4>. QED
        BY <1>11, <3>1, <4>1 DEF StepDown, TypeOK
    <3>2. CASE current # input[th]
      <4>1. [pc EXCEPT ![th] = AfterCompare(th, current)] \in [Threads -> PCs]
        BY AfterCompareLemma DEF TypeOK, PCs
      <4>2. pc' = NotifyAll([pc EXCEPT ![th] = AfterCompare(th, current)])
        BY <1>11, <3>2 DEF StepDown
      <4>. QED
        BY <4>1, <4>2, AfterCompareLemma DEF TypeOK
    <3>. QED
      BY <3>1, <3>2
  <2>2. /\ \A o \in Threads : pc'[o] \notin {"sema", "woken", "cas", "cv"}
        /\ Reading' = {} /\ Waking' = {}
    BY <1>l, <2>0, <2>1, NotifyLemma DEF Reading, Waking
  <2>3. Balanced'
    BY <2>0, <2>2 DEF Balanced, AtMostOne
  <2>4. LockInv' /\ SleepersFresh'
    BY <2>0, <2>2 DEF LockInv, SleepersFresh
  <2>5. \A o \in Threads, t \in Topics :
          gens'[o][t] <= current'[t] /\ input'[o][t] <= current'[t]
    <3>1. CASE current = input[th]
      BY <1>11, <2>0, <3>1 DEF StepDown, local, AssertionsHold
    <3>2. CASE current # input[th]
      <4>1. current \in Generations /\ Compare(th, current)
        BY <1>11, <3>2 DEF StepDown, TypeOK
      <4>2. \A t \in Topics : current[t] <= current'[t]
        BY <2>0 DEF TypeOK, Generations
      <4>. QED
        BY <1>c, <4>1, <4>2
    <3>. QED
      BY <3>1, <3>2
  <2>6. AssertionsHold'
    BY <2>2, <2>5 DEF AssertionsHold
  <2>. QED
    BY <1>s, <2>3, <2>4, <2>6
<1>12. CASE UNCHANGED vars
  <2>. USE <1>12 DEF vars, data, local, poster
  <2>1. Balanced'
    BY BalancedFrame
  <2>2. LockInv' /\ SleepersFresh' /\ AssertionsHold'
    BY <1>f DEF LockInv, SleepersFresh, AssertionsHold
  <2>. QED
    BY <1>s, <2>1, <2>2
<1>. HIDE DEF IInv
<1>. QED
  BY <1>1, <1>2, <1>3, <1>4, <1>5, <1>6, <1>7, <1>8, <1>9, <1>10, <1>11, <1>12
     DEF Next, ThreadStep

(* In every reachable state the variables have their types, ... *)
THEOREM TypeCorrect == Spec => []TypeOK
<1>1. IInv => TypeOK
  BY DEF IInv
<1>. QED
  BY <1>1, InitInvariant, InvariantStep, PTL DEF Spec

(* ... every commitment to sema_.wait() is balanced by exactly one post    *)
(* (topic_monitor.rs, comment of sema_), ...                               *)
THEOREM SemaphoreBalanced == Spec => []Balanced
<1>1. IInv => Balanced
  BY DEF IInv
<1>. QED
  BY <1>1, InitInvariant, InvariantStep, PTL DEF Spec

(* ... nobody sleeps on stale generations without a wakeup under way, ...  *)
THEOREM NoStaleSleeper == Spec => []SleepersCovered
<1>1. IInv => SleepersCovered
  BY DEF IInv
<1>. QED
  BY <1>1, InitInvariant, InvariantStep, PTL DEF Spec

(* ... and the assertions of check() and await_gens() do not fire.         *)
THEOREM AssertionsNeverFire == Spec => []AssertionsHold
<1>1. IInv => AssertionsHold
  BY DEF IInv
<1>. QED
  BY <1>1, InitInvariant, InvariantStep, PTL DEF Spec

-----------------------------------------------------------------------------
(* The monitor implements TopicPromise.                                    *)

(* Only calls that wait get past the first turn of check()'s loop. *)
AwaitInv == \A th \in Threads : pc[th] \notin {"idle", "check"} => waiting[th]

(* Every step keeps AwaitInv. *)
LEMMA AwaitStep == TypeOK /\ AwaitInv /\ [Next]_vars => AwaitInv'
<1>. SUFFICES ASSUME TypeOK, AwaitInv, [Next]_vars PROVE AwaitInv'
  OBVIOUS
<1>. USE DEF AwaitInv
<1>w. ASSUME NEW th \in Threads, NEW now, Compare(th, now)
      PROVE  /\ \A o \in Threads : o # th => waiting'[o] = waiting[o]
             /\ AfterCompare(th, now) = "idle" \/ waiting'[th]
  <2>1. CASE AfterCompare(th, now) = "idle"
    BY <1>w, <2>1 DEF Compare, Drop, TypeOK
  <2>2. CASE AfterCompare(th, now) # "idle"
    BY <1>w, <2>2 DEF Compare, AfterCompare
  <2>. QED
    BY <2>1, <2>2
<1>p. Published \in Generations
  BY PublishedLemma
<1>1. ASSUME NEW p \in Posters, NEW t \in Topics, Post(p, t) PROVE AwaitInv'
  BY <1>1 DEF Post, data, local
<1>2. ASSUME NEW p \in Posters, SemaPost(p) PROVE AwaitInv'
  BY <1>2 DEF SemaPost, data, local
<1>3. ASSUME NEW th \in Threads, Snapshot(th) PROVE AwaitInv'
  BY <1>3, ApplyLemma DEF Snapshot, TypeOK
<1>4. ASSUME NEW th \in Threads, NEW topics \in SUBSET Topics, NEW wait \in BOOLEAN,
             Call(th, topics, wait)
      PROVE  AwaitInv'
  BY <1>4 DEF Call, TypeOK
<1>5. ASSUME NEW th \in Threads, NoneValid(th) PROVE AwaitInv'
  BY <1>5 DEF NoneValid, Drop, TypeOK
<1>m. ASSUME NEW th \in Threads, NEW now, Compare(th, now), NEW at \in [Threads -> PCs],
             at[th] = AfterCompare(th, now), \A o \in Threads : o # th => at[o] = pc[o],
             \A o \in Threads : at[o] # "cv" => pc'[o] = at[o],
             \A o \in Threads : at[o] = "cv" => pc'[o] \in {"cv", "try"}
      PROVE  AwaitInv'
  <2>1. at[th] \in {"try", "idle"}
    BY <1>m, AfterCompareLemma
  <2>2. waiting'[th] \/ pc'[th] = "idle"
    BY <1>m, <1>w, <2>1
  <2>. QED
    BY <1>m, <1>w, <2>2
<1>a. ASSUME NEW th \in Threads, NEW now
      PROVE  /\ [pc EXCEPT ![th] = AfterCompare(th, now)] \in [Threads -> PCs]
             /\ [pc EXCEPT ![th] = AfterCompare(th, now)][th] = AfterCompare(th, now)
             /\ \A o \in Threads : o # th =>
                  [pc EXCEPT ![th] = AfterCompare(th, now)][o] = pc[o]
  BY AfterCompareLemma DEF TypeOK, PCs
<1>b. ASSUME NEW th \in Threads, ApplyPending([pc EXCEPT ![th] = AfterCompare(th, Published)]),
             Compare(th, Published)
      PROVE  AwaitInv'
  <2>. DEFINE at == [pc EXCEPT ![th] = AfterCompare(th, Published)]
  <2>1. /\ at \in [Threads -> PCs] /\ at[th] = AfterCompare(th, Published)
        /\ \A o \in Threads : o # th => at[o] = pc[o]
        /\ ApplyPending(at)
    BY <1>a, <1>b
  <2>. HIDE DEF at
  <2>. QED
    BY <1>b, <1>m, <2>1, ApplyLemma
<1>6. ASSUME NEW th \in Threads, CheckFirst(th) PROVE AwaitInv'
  BY <1>6, <1>b DEF CheckFirst
<1>7. ASSUME NEW th \in Threads, TryUpdate(th) PROVE AwaitInv'
  <2>1. CASE Published # input[th]
    BY <1>7, <1>b, <2>1 DEF TryUpdate
  <2>2. CASE Published = input[th]
    <3>. DEFINE at == [pc EXCEPT ![th] = IF hasReader THEN "cv" ELSE "cas"]
    <3>1. /\ at \in [Threads -> PCs] /\ \A o \in Threads : o # th => at[o] = pc[o]
          /\ waiting[th]
      BY <1>7 DEF TypeOK, PCs, TryUpdate
    <3>2. ApplyPending(at) /\ waiting' = waiting
      BY <1>7, <2>2 DEF TryUpdate, local
    <3>. HIDE DEF at
    <3>. QED
      BY <3>1, <3>2, ApplyLemma
  <2>. QED
    BY <2>1, <2>2
<1>8. ASSUME NEW th \in Threads, BecomeReader(th) PROVE AwaitInv'
  BY <1>8 DEF BecomeReader, local, TypeOK
<1>9. ASSUME NEW th \in Threads, SpuriousWakeup(th) PROVE AwaitInv'
  BY <1>9 DEF SpuriousWakeup, local, TypeOK
<1>10. ASSUME NEW th \in Threads, SemaWait(th) PROVE AwaitInv'
  BY <1>10 DEF SemaWait, local, TypeOK
<1>11. ASSUME NEW th \in Threads, StepDown(th) PROVE AwaitInv'
  <2>1. CASE current = input[th]
    <3>. DEFINE at == [pc EXCEPT ![th] = "try"]
    <3>1. at \in [Threads -> PCs] /\ \A o \in Threads : o # th => at[o] = pc[o]
      BY DEF TypeOK, PCs
    <3>2. waiting' = waiting /\ waiting[th] /\ pc' = NotifyAll(at)
      BY <1>11, <2>1 DEF StepDown, local
    <3>. HIDE DEF at
    <3>3. \A o \in Threads : pc'[o] = at[o] \/ at[o] = "cv"
      BY <3>1, <3>2, NotifyLemma
    <3>4. ASSUME NEW o \in Threads, pc'[o] \notin {"idle", "check"} PROVE waiting'[o]
      <4>1. CASE o = th
        BY <3>2, <4>1
      <4>2. CASE o # th
        <5>1. pc[o] \notin {"idle", "check"}
          BY <3>1, <3>3, <3>4, <4>2
        <5>. QED
          BY <3>2, <5>1
      <4>. QED
        BY <4>1, <4>2
    <3>. QED
      BY <3>4
  <2>2. CASE current # input[th]
    <3>. DEFINE at == [pc EXCEPT ![th] = AfterCompare(th, current)]
    <3>1. Compare(th, current) /\ pc' = NotifyAll(at)
      BY <1>11, <2>2 DEF StepDown
    <3>2. /\ at \in [Threads -> PCs] /\ at[th] = AfterCompare(th, current)
          /\ \A o \in Threads : o # th => at[o] = pc[o]
      BY <1>a
    <3>. HIDE DEF at
    <3>. QED
      BY <1>m, <3>1, <3>2, NotifyLemma
  <2>. QED
    BY <2>1, <2>2
<1>12. CASE UNCHANGED vars
  BY <1>12 DEF vars, local
<1>. HIDE DEF AwaitInv
<1>. QED
  BY <1>1, <1>2, <1>3, <1>4, <1>5, <1>6, <1>7, <1>8, <1>9, <1>10, <1>11, <1>12
     DEF Next, ThreadStep

(* Every step is a step of the promise or leaves its variables alone. *)
Calling == [th \in Threads |-> pc[th] # "idle"]

LEMMA RefinementStep ==
  IInv /\ AwaitInv /\ [Next]_vars => [Abstract!Next]_(Abstract!vars)
<1>. SUFFICES ASSUME IInv, AwaitInv, [Next]_vars
              PROVE  Abstract!Next \/ UNCHANGED Abstract!vars
  OBVIOUS
<1>t. TypeOK /\ TypeOK'
  BY TypeStep DEF IInv
<1>. USE <1>t
<1>p. /\ Published \in Generations /\ current \in Generations
      /\ \A t \in Topics : /\ current[t] \in Nat /\ Published[t] \in Nat
                           /\ current[t] <= Published[t]
  BY PublishedLemma DEF TypeOK, Generations
<1>q. status' \cap Topics = status \cap Topics /\ current' = current => Published' = Published
  BY DEF Published
<1>1. ASSUME NEW p \in Posters, NEW t \in Topics, Post(p, t) PROVE Abstract!Post(t)
  <2>1. /\ Published'[t] = current[t] + 1
        /\ Published' = [Published EXCEPT ![t] = current[t] + 1]
    <3>1. /\ current' = current /\ t \in status'
          /\ \A u \in Topics : u # t => (u \in status' <=> u \in status)
      BY <1>1 DEF Post, data
    <3>. QED
      BY <3>1 DEF Published
  <2>3. Calling' = Calling
    BY <1>1 DEF Post, Calling
  <2>. QED
    BY <1>1, <2>1, <2>3 DEF Post, data, local, Calling, Abstract!Post, Abstract!call
<1>2. ASSUME NEW p \in Posters, SemaPost(p) PROVE UNCHANGED Abstract!vars
  BY <1>2, <1>q DEF SemaPost, data, local, Abstract!vars
<1>c. ASSUME NEW at \in [Threads -> PCs], ApplyPending(at)
      PROVE  /\ current' = Published /\ Published' = Published
             /\ Calling' = [th \in Threads |-> at[th] # "idle"]
  BY <1>c, <1>p, ApplyLemma DEF Calling, Published, Generations
<1>3. ASSUME NEW th \in Threads, Snapshot(th) PROVE Abstract!Snapshot(th)
  <2>1. current' = Published /\ Published' = Published /\ Calling' = Calling
    BY <1>3, <1>c DEF Snapshot, Calling, TypeOK
  <2>. QED
    BY <1>3, <2>1 DEF Snapshot, poster, Abstract!Snapshot, Calling
<1>4. ASSUME NEW th \in Threads, NEW topics \in SUBSET Topics, NEW wait \in BOOLEAN,
             Call(th, topics, wait)
      PROVE  Abstract!Call(th, topics, wait)
  <2>1. Published' = Published /\ Calling' = [Calling EXCEPT ![th] = TRUE]
    BY <1>4, <1>q DEF Call, data, Calling, TypeOK
  <2>. QED
    BY <1>4, <2>1 DEF Call, data, poster, Abstract!Call, Calling
<1>5. ASSUME NEW th \in Threads, NoneValid(th) PROVE Abstract!Answer(th)
  <2>1. Published' = Published /\ Calling' = [Calling EXCEPT ![th] = FALSE]
    BY <1>5, <1>q DEF NoneValid, data, Calling, TypeOK
  <2>2. gens' = [gens EXCEPT ![th] = [t \in Topics |-> IF t \in want[th] THEN current[t] ELSE @[t]]]
    BY <1>5 DEF NoneValid, TypeOK, Generations
  <2>. QED
    BY <1>5, <2>1, <2>2 DEF NoneValid, data, poster, Drop, Abstract!Answer, Calling
<1>m. ASSUME NEW th \in Threads, NEW now \in {Published, current}, Compare(th, now),
             current' = now, UNCHANGED <<Published, posts>>, Calling[th],
             Calling' = [Calling EXCEPT ![th] = AfterCompare(th, now) # "idle"],
             now = Published \/ waiting[th]
      PROVE  Abstract!Next \/ UNCHANGED Abstract!vars
  <2>1. CASE AfterCompare(th, now) = "idle"
    <3>1. /\ Calling' = [Calling EXCEPT ![th] = FALSE]
          /\ Changed(th, now) \/ (now = Published /\ ~Changed(th, now) /\ ~waiting[th])
      BY <1>m, <2>1 DEF AfterCompare
    <3>2. /\ result' = [result EXCEPT ![th] = Changed(th, now)]
          /\ gens' = [gens EXCEPT ![th] =
                        [t \in Topics |-> IF t \in want[th] THEN now[t] ELSE @[t]]]
          /\ want' = [want EXCEPT ![th] = {}]
          /\ waiting' = [waiting EXCEPT ![th] = FALSE]
      BY <1>m, <2>1 DEF Compare, Drop
    <3>3. Abstract!Answer(th)
      BY <1>m, <3>1, <3>2 DEF Abstract!Answer, Changed, Calling
    <3>. QED
      BY <3>3 DEF Abstract!Next
  <2>2. CASE AfterCompare(th, now) # "idle"
    <3>1. waiting[th] /\ ~Changed(th, now)
      BY <2>2 DEF AfterCompare
    <3>2. UNCHANGED <<want, waiting, result>>
      BY <1>m, <2>2 DEF Compare, TypeOK
    <3>3. \A t \in want[th] : gens[th][t] = now[t]
      <4>1. \A t \in want[th] : ~(gens[th][t] < now[t])
        BY <3>1 DEF Changed
      <4>2. \A t \in Topics : gens[th][t] \in Nat /\ gens[th][t] <= current[t]
        BY DEF IInv, AssertionsHold, TypeOK, Generations
      <4>3. want[th] \subseteq Topics
        BY DEF TypeOK
      <4>. QED
        BY <1>m, <1>p, <4>1, <4>2, <4>3
    <3>4. [t \in Topics |-> IF t \in want[th] THEN now[t] ELSE gens[th][t]] = gens[th]
      BY <3>3 DEF TypeOK, Generations
    <3>5. gens' = gens
      BY <1>m, <3>4 DEF Compare, TypeOK
    <3>6. Calling' = Calling
      BY <1>m, <2>2 DEF Calling
    <3>7. CASE now = Published
      BY <1>m, <3>2, <3>5, <3>6, <3>7
         DEF Abstract!Next, Abstract!Show, Abstract!call, Calling
    <3>8. CASE now = current
      BY <1>m, <3>2, <3>5, <3>6, <3>8 DEF Abstract!vars, Calling
    <3>. QED
      BY <1>m, <3>7, <3>8
  <2>. QED
    BY <2>1, <2>2
<1>b. ASSUME NEW th \in Threads, ApplyPending([pc EXCEPT ![th] = AfterCompare(th, Published)]),
             Compare(th, Published), pc[th] # "idle", posts' = posts
      PROVE  Abstract!Next \/ UNCHANGED Abstract!vars
  <2>. DEFINE at == [pc EXCEPT ![th] = AfterCompare(th, Published)]
  <2>1. at \in [Threads -> PCs] /\ ApplyPending(at)
    BY <1>b, AfterCompareLemma DEF TypeOK, PCs
  <2>2. Calling' = [o \in Threads |-> at[o] # "idle"]
    <3>. HIDE DEF at
    <3>. QED
      BY <2>1, <1>c
  <2>3. Calling[th] /\ Calling' = [Calling EXCEPT ![th] = AfterCompare(th, Published) # "idle"]
    BY <1>b, <2>2 DEF Calling, TypeOK
  <2>4. current' = Published /\ Published' = Published
    <3>. HIDE DEF at
    <3>. QED
      BY <2>1, <1>c
  <2>. QED
    BY <1>b, <1>m, <2>3, <2>4
<1>6. ASSUME NEW th \in Threads, CheckFirst(th)
      PROVE  Abstract!Next \/ UNCHANGED Abstract!vars
  BY <1>6, <1>b DEF CheckFirst, poster
<1>7. ASSUME NEW th \in Threads, TryUpdate(th)
      PROVE  Abstract!Next \/ UNCHANGED Abstract!vars
  <2>1. CASE Published # input[th]
    BY <1>7, <1>b, <2>1 DEF TryUpdate, poster
  <2>2. CASE Published = input[th]
    <3>. DEFINE at == [pc EXCEPT ![th] = IF hasReader THEN "cv" ELSE "cas"]
    <3>1. /\ at \in [Threads -> PCs] /\ ApplyPending(at) /\ posts' = posts /\ UNCHANGED local
          /\ pc[th] = "try"
      BY <1>7, <2>2 DEF TryUpdate, poster, TypeOK, PCs
    <3>2. [o \in Threads |-> at[o] # "idle"] = Calling
      BY <3>1 DEF Calling, TypeOK
    <3>3. current' = Published /\ Published' = Published /\ Calling' = Calling
      <4>. HIDE DEF at
      <4>. QED
        BY <3>1, <3>2, <1>c
    <3>. QED
      BY <3>1, <3>3 DEF local, Abstract!Next, Abstract!Show, Abstract!call, Calling
  <2>. QED
    BY <2>1, <2>2
<1>8. ASSUME NEW th \in Threads, BecomeReader(th) PROVE UNCHANGED Abstract!vars
  <2>1. status' \cap Topics = status \cap Topics /\ current' = current
    BY <1>8 DEF BecomeReader
  <2>2. Calling' = Calling
    BY <1>8 DEF BecomeReader, Calling, TypeOK
  <2>. QED
    BY <1>8, <1>q, <2>1, <2>2 DEF BecomeReader, local, poster, Abstract!vars, Calling
<1>9. ASSUME NEW th \in Threads, SpuriousWakeup(th) PROVE UNCHANGED Abstract!vars
  <2>1. Calling' = Calling
    BY <1>9 DEF SpuriousWakeup, Calling, TypeOK
  <2>. QED
    BY <1>9, <1>q, <2>1 DEF SpuriousWakeup, data, local, poster, Abstract!vars, Calling
<1>10. ASSUME NEW th \in Threads, SemaWait(th) PROVE UNCHANGED Abstract!vars
  <2>1. Calling' = Calling
    BY <1>10 DEF SemaWait, Calling, TypeOK
  <2>. QED
    BY <1>10, <1>q, <2>1 DEF SemaWait, data, local, poster, Abstract!vars, Calling
<1>11. ASSUME NEW th \in Threads, StepDown(th)
       PROVE  Abstract!Next \/ UNCHANGED Abstract!vars
  <2>1. /\ Published' = Published /\ current' = current /\ posts' = posts
        /\ pc[th] = "woken" /\ waiting[th] /\ Calling[th]
    BY <1>11, <1>q DEF StepDown, poster, AwaitInv, Calling
  <2>2. CASE current = input[th]
    <3>1. UNCHANGED local /\ pc' = NotifyAll([pc EXCEPT ![th] = "try"])
      BY <1>11, <2>2 DEF StepDown
    <3>2. Calling' = Calling
      BY <2>1, <3>1 DEF NotifyAll, Calling, TypeOK
    <3>. QED
      BY <2>1, <3>1, <3>2 DEF local, Abstract!vars, Calling
  <2>3. CASE current # input[th]
    <3>1. /\ Compare(th, current)
          /\ pc' = NotifyAll([pc EXCEPT ![th] = AfterCompare(th, current)])
      BY <1>11, <2>3 DEF StepDown
    <3>2. Calling' = [Calling EXCEPT ![th] = AfterCompare(th, current) # "idle"]
      BY <2>1, <3>1, AfterCompareLemma DEF NotifyAll, Calling, TypeOK
    <3>. QED
      BY <1>m, <2>1, <3>1, <3>2
  <2>. QED
    BY <2>2, <2>3
<1>12. CASE UNCHANGED vars
  <2>1. Published' = Published /\ Calling' = Calling
    BY <1>12, <1>q DEF vars, data, Calling
  <2>. QED
    BY <1>12, <2>1 DEF vars, data, local, poster, Abstract!vars, Calling
<1>. QED
  BY <1>1, <1>2, <1>3, <1>4, <1>5, <1>6, <1>7, <1>8, <1>9, <1>10, <1>11, <1>12
     DEF Next, ThreadStep, Abstract!Next

(* The monitor keeps the safety part of the promise, for any number of     *)
(* topics, threads and posters: at each post the generation passes         *)
(* everything ever returned, and an answer is right at one moment of its   *)
(* call.  (That due answers come is liveness, and left to TLC.)            *)
THEOREM ImplementsPromise == Spec => Abstract!Safety
<1>1. Init => Abstract!Init
  BY DEF Init, Abstract!Init, Published, Zero
<1>2. Init => AwaitInv
  BY DEF Init, AwaitInv
<1>3. IInv => TypeOK
  BY DEF IInv
<1>. QED
  BY <1>1, <1>2, <1>3, InitInvariant, InvariantStep, AwaitStep, RefinementStep, PTL
     DEF Spec, Abstract!Safety

(* The invariants of the monitor in one, as the run checks it.             *)
THEOREM AlwaysConsistent == Spec => []MonitorConsistent
  BY TypeCorrect, SemaphoreBalanced, NoStaleSleeper, AssertionsNeverFire, PTL
     DEF MonitorConsistent
=============================================================================
