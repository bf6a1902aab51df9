---------------------------- MODULE TopicPromise ----------------------------
(***************************************************************************)
(* What the topic monitor of src/src/topic_monitor.rs promises its callers *)
(* (module comment, lines 3-21): every topic has a generation; posts may   *)
(* be coalesced, but after a post the generation is larger than any value  *)
(* a query has returned; and a caller can block until one of a set of      *)
(* topics has moved past the generations it holds.                         *)
(*                                                                         *)
(* No lock, semaphore, condition variable or status byte appears here:     *)
(* TopicMonitor implements this module (property Promise there).           *)
(***************************************************************************)
EXTENDS Naturals

CONSTANTS Topics, Threads

VARIABLES
  posts,      \* how many posts have happened
  published,  \* the generation a query may now return, per topic
  seen,       \* the largest generation any query has returned, per topic
  calling,    \* is the thread inside check()?
  want,       \* the valid topics of the thread's list
  waiting,    \* the `wait` argument of its call
  gens,       \* the thread's own list of generations
  result      \* what its last call returned

vars == <<posts, published, seen, calling, want, waiting, gens, result>>
call == <<calling, want, waiting, gens, result>>

Init ==
  /\ posts = 0
  /\ published = [t \in Topics |-> 0]
  /\ seen = [t \in Topics |-> 0]
  /\ calling = [th \in Threads |-> FALSE]
  /\ want = [th \in Threads |-> {}]
  /\ waiting = [th \in Threads |-> FALSE]
  /\ gens = [th \in Threads |-> [t \in Topics |-> 0]]
  /\ result = [th \in Threads |-> FALSE]

(* A post moves the topic's generation just past what has been seen: posts *)
(* that nobody saw in between count as one, and none is without effect.    *)
Post(t) ==
  /\ posts' = posts + 1
  /\ published' = [published EXCEPT ![t] = seen[t] + 1]
  /\ UNCHANGED <<seen, call>>

(* Some thread applies the pending posts. *)
Show ==
  /\ seen' = published
  /\ UNCHANGED <<posts, published, call>>

(* A thread fetches the current generations. *)
Snapshot(th) ==
  /\ ~calling[th]
  /\ seen' = published
  /\ gens' = [gens EXCEPT ![th] = published]
  /\ UNCHANGED <<posts, published, calling, want, waiting, result>>

Call(th, topics, wait) ==
  /\ ~calling[th]
  /\ calling' = [calling EXCEPT ![th] = TRUE]
  /\ want' = [want EXCEPT ![th] = topics]
  /\ waiting' = [waiting EXCEPT ![th] = wait]
  /\ result' = [result EXCEPT ![th] = FALSE]
  /\ UNCHANGED <<posts, published, seen, gens>>

(* The call returns: TRUE with the newer generations if a topic of the     *)
(* list has moved, FALSE if none has and the caller would not wait.  A     *)
(* list without valid topics returns FALSE at once.                        *)
Answer(th) ==
  LET moved(visible) == \E t \in want[th] : gens[th][t] < visible[t] IN
  /\ calling[th]
  /\ \E visible \in {seen, published} :
       /\ seen' = visible
       /\ \/ moved(visible)
          \/ visible = published /\ ~moved(visible) /\ ~waiting[th]
          \/ visible = seen /\ want[th] = {}
       /\ result' = [result EXCEPT ![th] = moved(visible)]
       /\ gens' = [gens EXCEPT ![th] =
                     [t \in Topics |-> IF t \in want[th] THEN visible[t] ELSE @[t]]]
  /\ calling' = [calling EXCEPT ![th] = FALSE]
  /\ want' = [want EXCEPT ![th] = {}]
  /\ waiting' = [waiting EXCEPT ![th] = FALSE]
  /\ UNCHANGED <<posts, published>>

Next ==
  \/ \E t \in Topics : Post(t)
  \/ Show
  \/ \E th \in Threads :
       \/ Snapshot(th)
       \/ \E topics \in SUBSET Topics, wait \in BOOLEAN : Call(th, topics, wait)
       \/ Answer(th)

Safety == Init /\ [][Next]_vars

(* A call whose answer is due is answered: no post is lost on a sleeper. *)
Spec == Safety /\ \A th \in Threads : WF_vars(Answer(th))
=============================================================================
