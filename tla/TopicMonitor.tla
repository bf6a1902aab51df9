---------------------------- MODULE TopicMonitor ----------------------------
(***************************************************************************)
(* The topic monitor: src/src/topic_monitor.rs.                            *)
(*                                                                         *)
(* post() runs in signal handlers, so it may only touch an atomic byte     *)
(* (status_) and a binary semaphore (sema_).  Threads query generations    *)
(* under a mutex (data_); of the threads that wait, one becomes the reader *)
(* and sleeps on the semaphore, the others sleep on a condition variable   *)
(* (data_notifier_) until the reader, or a thread that applied a post,     *)
(* notifies them.                                                          *)
(*                                                                         *)
(* Grain.  A CAS loop is one step (an iteration that fails changes         *)
(* nothing).  A critical section is one step, except that the reader's CAS *)
(* is apart from the test before it: a post can land between the two.  In  *)
(* post(), the CAS and sema_.post() are two steps: threads run in between. *)
(***************************************************************************)
EXTENDS Naturals

CONSTANTS
  Topics,      \* enum Topic
  Threads,     \* threads that query
  Posters,     \* contexts that post: signal handlers, internal processes' threads
  NEEDS_WAKEUP,\* the msb of status_
  NoThread,    \* the mutex is free
  MaxPosts     \* bound on the number of posts (and so on generations)

ASSUME DistinctMarks == NEEDS_WAKEUP \notin Topics /\ NoThread \notin Threads
ASSUME MaxPostsIsNat == MaxPosts \in Nat

VARIABLES
  status,     \* status_: the bits that are set
  current,    \* data_.current
  hasReader,  \* data_.has_reader
  lock,       \* holder of data_'s mutex
  sema,       \* value of sema_
  pc,         \* where each thread is
  want,       \* valid topics of the list passed to check()
  waiting,    \* the `wait` argument
  gens,       \* the list each thread keeps between calls
  input,      \* `current` in check(), `input_gens` in await_gens()
  result,     \* what check() returned
  ppc,        \* "sema": the poster's CAS cleared NEEDS_WAKEUP, sema_.post() is due
  posts       \* posts so far, capped by MaxPosts

data == <<current, hasReader, lock>>
local == <<want, waiting, gens, input, result>>
poster == <<ppc, posts>>
vars == <<status, sema, pc, data, local, poster>>

PCs == {"idle", "check", "try", "cas", "cv", "sema", "woken"}
Generations == [Topics -> Nat]

TypeOK ==
  /\ status \subseteq Topics \cup {NEEDS_WAKEUP}
  /\ current \in Generations
  /\ hasReader \in BOOLEAN
  /\ lock \in Threads \cup {NoThread}
  /\ sema \in Nat
  /\ pc \in [Threads -> PCs]
  /\ want \in [Threads -> SUBSET Topics]
  /\ waiting \in [Threads -> BOOLEAN]
  /\ gens \in [Threads -> Generations]
  /\ input \in [Threads -> Generations]
  /\ result \in [Threads -> BOOLEAN]
  /\ ppc \in [Posters -> {"idle", "sema"}]
  /\ posts \in 0..MaxPosts

Zero == [t \in Topics |-> 0]

Init ==
  /\ status = {}
  /\ current = Zero
  /\ hasReader = FALSE
  /\ lock = NoThread
  /\ sema = 0
  /\ pc = [th \in Threads |-> "idle"]
  /\ want = [th \in Threads |-> {}]
  /\ waiting = [th \in Threads |-> FALSE]
  /\ gens = [th \in Threads |-> Zero]
  /\ input = [th \in Threads |-> Zero]
  /\ result = [th \in Threads |-> FALSE]
  /\ ppc = [p \in Posters |-> "idle"]
  /\ posts = 0

-----------------------------------------------------------------------------
(* Posting. *)

(* Mutant: the wakeup bit is cleared and nobody is woken. *)
PostDropsWakeup(p, t) ==
  /\ posts < MaxPosts /\ posts' = posts + 1
  /\ ppc[p] = "idle"
  /\ status' = (status \ {NEEDS_WAKEUP}) \cup {t}
  /\ UNCHANGED <<ppc, sema, pc, data, local>>

(* post(): CAS the topic's bit in and NEEDS_WAKEUP out.  If the bit was    *)
(* already set nothing more happens; if a thread waits, it must be woken.  *)
Post(p, t) ==
  /\ posts < MaxPosts
  /\ posts' = posts + 1
  /\ ppc[p] = "idle"
  /\ status' = (status \ {NEEDS_WAKEUP}) \cup {t}
  /\ ppc' = [ppc EXCEPT ![p] =
               IF t \notin status /\ NEEDS_WAKEUP \in status THEN "sema" ELSE "idle"]
  /\ UNCHANGED <<sema, pc, data, local>>

(* post(): sema_.post(). *)
SemaPost(p) ==
  /\ ppc[p] = "sema"
  /\ sema' = sema + 1
  /\ ppc' = [ppc EXCEPT ![p] = "idle"]
  /\ UNCHANGED <<status, pc, data, local, posts>>

-----------------------------------------------------------------------------
(* Querying. *)

(* What updated_gens_in_data() returns: the posts in status_ are applied,  *)
(* none are when it is 0 or NEEDS_WAKEUP.                                  *)
Published == [t \in Topics |-> IF t \in status THEN current[t] + 1 ELSE current[t]]

(* data_notifier_.notify_all(): sleepers go back for the lock. *)
NotifyAll(at) == [th \in Threads |-> IF at[th] = "cv" THEN "try" ELSE at[th]]

(* Mutant: the new generations are returned and not stored. *)
ApplyForgetsStore(at) ==
  /\ UNCHANGED current
  /\ IF status \cap Topics = {}
       THEN UNCHANGED status /\ pc' = at
       ELSE status' = {} /\ pc' = NotifyAll(at)

(* updated_gens_in_data(), with the lock held; `at` is where the threads   *)
(* are, without the effect of notify_all().                                *)
ApplyPending(at) ==
  /\ current' = Published
  /\ IF status \cap Topics = {}
       THEN UNCHANGED status /\ pc' = at
       ELSE status' = {} /\ pc' = NotifyAll(at)

(* Does a valid topic of the thread's list lie behind `now`? *)
Changed(th, now) == \E t \in want[th] : gens[th][t] < now[t]

(* check() returns: its arguments and locals are gone. *)
Drop(th) ==
  /\ input' = [input EXCEPT ![th] = Zero]
  /\ want' = [want EXCEPT ![th] = {}]
  /\ waiting' = [waiting EXCEPT ![th] = FALSE]

(* The loop of check() meets `now`: the valid topics are updated; then it  *)
(* returns, unless the caller waits and nothing changed.                   *)
AfterCompare(th, now) ==
  IF waiting[th] /\ ~Changed(th, now) THEN "try" ELSE "idle"

Compare(th, now) ==
  /\ gens' = [gens EXCEPT ![th] =
                [t \in Topics |-> IF t \in want[th] THEN now[t] ELSE @[t]]]
  /\ result' = [result EXCEPT ![th] =
                  IF AfterCompare(th, now) = "idle" THEN Changed(th, now) ELSE @]
  /\ IF AfterCompare(th, now) = "idle"
       THEN Drop(th)
       ELSE input' = [input EXCEPT ![th] = now] /\ UNCHANGED <<want, waiting>>

(* current_generations() *)
Snapshot(th) ==
  /\ pc[th] = "idle"
  /\ lock = NoThread
  /\ ApplyPending(pc)
  /\ gens' = [gens EXCEPT ![th] = Published]
  /\ UNCHANGED <<sema, hasReader, lock, want, waiting, input, result, poster>>

(* check() is entered with the list the thread kept, some topics valid. *)
Call(th, topics, wait) ==
  /\ pc[th] = "idle"
  /\ want' = [want EXCEPT ![th] = topics]
  /\ waiting' = [waiting EXCEPT ![th] = wait]
  /\ result' = [result EXCEPT ![th] = FALSE]
  /\ pc' = [pc EXCEPT ![th] = "check"]
  /\ UNCHANGED <<status, sema, data, gens, input, poster>>

(* check(): no valid topic. *)
NoneValid(th) ==
  /\ pc[th] = "check"
  /\ want[th] = {}
  /\ pc' = [pc EXCEPT ![th] = "idle"]
  /\ result' = [result EXCEPT ![th] = FALSE]
  /\ Drop(th)
  /\ UNCHANGED <<status, sema, data, gens, poster>>

(* check(): updated_gens() and the first turn of the loop. *)
CheckFirst(th) ==
  /\ pc[th] = "check"
  /\ want[th] # {}
  /\ lock = NoThread
  /\ ApplyPending([pc EXCEPT ![th] = AfterCompare(th, Published)])
  /\ Compare(th, Published)
  /\ UNCHANGED <<sema, hasReader, lock, poster>>

(* try_update_gens_maybe_becoming_reader(), up to the CAS.  Newer          *)
(* generations end it; a reader in place means sleeping on the condition   *)
(* variable; otherwise the thread keeps the lock and tries to be reader.   *)
(* After a failed CAS it comes back here with the lock.                    *)
TryUpdate(th) ==
  /\ pc[th] = "try"
  /\ lock \in {NoThread, th}
  /\ IF Published # input[th]
       THEN /\ ApplyPending([pc EXCEPT ![th] = AfterCompare(th, Published)])
            /\ Compare(th, Published)
            /\ lock' = NoThread
       ELSE /\ ApplyPending([pc EXCEPT ![th] = IF hasReader THEN "cv" ELSE "cas"])
            /\ lock' = IF hasReader THEN NoThread ELSE th
            /\ UNCHANGED local
  /\ UNCHANGED <<sema, hasReader, poster>>

(* The CAS 0 -> NEEDS_WAKEUP. *)
BecomeReader(th) ==
  /\ pc[th] = "cas"
  /\ IF status = {}
       THEN /\ status' = {NEEDS_WAKEUP}
            /\ hasReader' = TRUE
            /\ lock' = NoThread
            /\ pc' = [pc EXCEPT ![th] = "sema"]
       ELSE /\ pc' = [pc EXCEPT ![th] = "try"]
            /\ UNCHANGED <<status, hasReader, lock>>
  /\ UNCHANGED <<sema, current, local, poster>>

(* A condition variable may wake without a notification. *)
SpuriousWakeup(th) ==
  /\ pc[th] = "cv"
  /\ pc' = [pc EXCEPT ![th] = "try"]
  /\ UNCHANGED <<status, sema, data, local, poster>>

(* await_gens(): sema_.wait() returns. *)
SemaWait(th) ==
  /\ pc[th] = "sema"
  /\ sema > 0
  /\ sema' = sema - 1
  /\ pc' = [pc EXCEPT ![th] = "woken"]
  /\ UNCHANGED <<status, data, local, poster>>

(* await_gens(): the reader takes the lock, reads data.current without     *)
(* applying what is pending, steps down and notifies the sleepers.  If the *)
(* generations are still its own it goes round again.                      *)
StepDown(th) ==
  /\ pc[th] = "woken"
  /\ lock = NoThread
  /\ hasReader' = FALSE
  /\ IF current = input[th]
       THEN /\ pc' = NotifyAll([pc EXCEPT ![th] = "try"])
            /\ UNCHANGED local
       ELSE /\ pc' = NotifyAll([pc EXCEPT ![th] = AfterCompare(th, current)])
            /\ Compare(th, current)
  /\ UNCHANGED <<status, sema, current, lock, poster>>

-----------------------------------------------------------------------------
ThreadStep(th) ==
  \/ NoneValid(th)
  \/ CheckFirst(th)
  \/ TryUpdate(th)
  \/ BecomeReader(th)
  \/ SemaWait(th)
  \/ StepDown(th)

Next ==
  \/ \E p \in Posters : SemaPost(p) \/ \E t \in Topics : Post(p, t)
  \/ \E th \in Threads :
       \/ Snapshot(th)
       \/ \E topics \in SUBSET Topics, wait \in BOOLEAN : Call(th, topics, wait)
       \/ ThreadStep(th)
       \/ SpuriousWakeup(th)

(* A thread that can step does, and a signal handler runs to its end. *)
Fairness ==
  /\ \A p \in Posters : WF_vars(SemaPost(p))
  /\ \A th \in Threads : WF_vars(ThreadStep(th))

Spec == Init /\ [][Next]_vars /\ Fairness

-----------------------------------------------------------------------------
(* Properties. *)

(* A commitment to sema_.wait() is balanced by exactly one post to sema_   *)
(* (comment of sema_, lines 332-334): while there is a reader, the wakeup  *)
(* is in exactly one place - still to be requested (NEEDS_WAKEUP set, and  *)
(* no other bit), in a poster between its CAS and sema_.post(), in the     *)
(* semaphore, or consumed - and without a reader it is nowhere, so no      *)
(* stray token can wake a later reader early.                              *)
Reading == {th \in Threads : pc[th] \in {"sema", "woken"}}
Waking == {p \in Posters : ppc[p] = "sema"}
AtMostOne(S) == \A x, y \in S : x = y

Balanced ==
  /\ NEEDS_WAKEUP \in status => status = {NEEDS_WAKEUP}
  /\ AtMostOne(Reading)
  /\ hasReader <=> Reading # {}
  /\ AtMostOne(Waking)
  /\ sema \in {0, 1}
  /\ (\E th \in Reading : pc[th] = "sema") <=>
       (NEEDS_WAKEUP \in status \/ Waking # {} \/ sema = 1)
  /\ NEEDS_WAKEUP \in status => Waking = {} /\ sema = 0
  /\ Waking # {} => sema = 0

(* Nobody sleeps on stale data: a thread on the condition variable has a   *)
(* reader that will notify it, the generations it saw are still the        *)
(* current ones, and while a topic is pending the reader is being woken.   *)
SleepersCovered ==
  \A th \in Threads :
    /\ pc[th] = "cv" => hasReader /\ input[th] = current
    /\ pc[th] \in {"cv", "sema"} /\ status \cap Topics # {} =>
         sema = 1 \/ Waking # {} \/ \E r \in Threads : pc[r] = "woken"

(* The assertions of check() and await_gens(): no list is ahead of the     *)
(* published generations, and only the reader steps down.                  *)
AssertionsHold ==
  \A th \in Threads :
    /\ \A t \in Topics : gens[th][t] <= current[t] /\ input[th][t] <= current[t]
    /\ pc[th] = "woken" => hasReader
    /\ pc[th] = "cas" => lock = th /\ NEEDS_WAKEUP \notin status

(* The monitor keeps the promise of TopicPromise: generations pass         *)
(* everything seen at each post, answers are right at one moment of the    *)
(* call, and a call whose answer is due returns.                           *)
Abstract == INSTANCE TopicPromise WITH
              published <- Published,
              seen <- current,
              calling <- [th \in Threads |-> pc[th] # "idle"]

Promise == Abstract!Spec

(* The state is of its types, the semaphore binary, every sleeper covered  *)
(* by a reader, and no assertion of topic_monitor.rs fails.                *)
MonitorConsistent == TypeOK /\ Balanced /\ SleepersCovered /\ AssertionsHold
=============================================================================
