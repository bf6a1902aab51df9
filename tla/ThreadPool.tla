----------------------------- MODULE ThreadPool -----------------------------
(***************************************************************************)
(* The thread pool of src/src/threads.rs (ThreadPool, WorkerThread): a     *)
(* queue of work items, threads made on demand up to a limit that urgent   *)
(* items ("cant_wait") disregard, and threads that linger for a while      *)
(* when their exit would leave fewer than the soft minimum.                *)
(*                                                                         *)
(* Grain: a critical section is one step.  Callers hold IO_THREAD_POOL's   *)
(* mutex through perform(), so calls do not overlap; but the caller acts   *)
(* (wakes or spawns) after it released the pool's own mutex.               *)
(***************************************************************************)
EXTENDS Naturals, Sequences, SequencesExt, FiniteSets

CONSTANTS
  Workers,      \* thread identities, used again after an exit
  Items,        \* work items
  Urgent,       \* the items performed with cant_wait
  SoftMin,      \* soft_min_threads
  MaxThreads    \* max_threads

ASSUME UrgentItems == Urgent \subseteq Items
ASSUME Limits == SoftMin \in Nat /\ MaxThreads \in Nat \ {0}
ASSUME FiniteThreads == IsFiniteSet(Workers)

VARIABLES
  queue,      \* request_queue
  total,      \* total_threads
  waiting,    \* waiting_threads
  action,     \* what perform() has decided and not done yet
  worker,     \* where each thread is
  job,        \* the item a busy thread runs
  performed, started, finished,  \* items by their progress
  unserved    \* items enqueued without any thread being provided for them

poolVars == <<queue, total, waiting, action, worker, job, performed, started,
          finished, unserved>>

NoItem == "none"
(* "none": no such thread; "ready": about to dequeue; "woken": its wait on *)
(* the condition variable ended and it needs the mutex.                    *)
WorkerStates == {"none", "ready", "waiting", "woken", "busy"}
In(state) == {w \in Workers : worker[w] = state}

PoolTypeOK ==
  /\ queue \in Seq(Items)
  /\ total \in Nat /\ waiting \in Nat
  /\ action \in {"none", "wake", "spawn"}
  /\ worker \in [Workers -> WorkerStates]
  /\ job \in [Workers -> Items \cup {NoItem}]
  /\ finished \subseteq started /\ started \subseteq performed
  /\ performed \subseteq Items
  /\ unserved \subseteq performed

PoolInit ==
  /\ queue = <<>> /\ total = 0 /\ waiting = 0
  /\ action = "none"
  /\ worker = [w \in Workers |-> "none"]
  /\ job = [w \in Workers |-> NoItem]
  /\ performed = {} /\ started = {} /\ finished = {} /\ unserved = {}

-----------------------------------------------------------------------------
(* Performing. *)

(* Mutant: any waiting thread is enough, however long the queue. *)
DecideAnyWaiter(i) ==
  IF waiting > 0 THEN "wake"
  ELSE IF i \in Urgent \/ total < MaxThreads THEN "spawn"
  ELSE "none"

(* The ThreadAction of perform_inner(), with the item on the queue. *)
Decide(i) ==
  IF waiting >= Len(queue) + 1 THEN "wake"
  ELSE IF i \in Urgent \/ total < MaxThreads THEN "spawn"
  ELSE "none"

(* perform_inner(), under the mutex. *)
Enqueue(i) ==
  /\ action = "none"
  /\ i \notin performed
  /\ performed' = performed \cup {i}
  /\ queue' = Append(queue, i)
  /\ action' = Decide(i)
  /\ total' = IF Decide(i) = "spawn" THEN total + 1 ELSE total
  /\ unserved' = IF Decide(i) = "none" THEN unserved \cup {i} ELSE unserved
  /\ UNCHANGED <<waiting, worker, job, started, finished>>

(* notify_one(): some thread that waits is woken, if there is one.         *)
Wake ==
  /\ action = "wake"
  /\ action' = "none"
  /\ IF In("waiting") = {}
       THEN UNCHANGED worker
       ELSE \E w \in In("waiting") : worker' = [worker EXCEPT ![w] = "woken"]
  /\ UNCHANGED <<queue, total, waiting, job, performed, started, finished, unserved>>

(* spawn_thread() succeeds. *)
Spawn(w) ==
  /\ action = "spawn"
  /\ worker[w] = "none"
  /\ worker' = [worker EXCEPT ![w] = "ready"]
  /\ action' = "none"
  /\ UNCHANGED <<queue, total, waiting, job, performed, started, finished, unserved>>

(* Mutant: the count is not restored. *)
SpawnFailsKeepCount ==
  /\ action = "spawn"
  /\ total > 1
  /\ unserved' = unserved \cup ToSet(queue)
  /\ action' = "none"
  /\ UNCHANGED <<queue, total, waiting, worker, job, performed, started, finished>>

(* spawn_thread() fails.  The code expects this only where other threads   *)
(* exist (comment in perform_inner), and so does the model.                *)
SpawnFails ==
  /\ action = "spawn"
  /\ total > 1
  /\ total' = total - 1
  /\ unserved' = unserved \cup ToSet(queue)
  /\ action' = "none"
  /\ UNCHANGED <<queue, waiting, worker, job, performed, started, finished>>

-----------------------------------------------------------------------------
(* Working: dequeue_work_or_commit_to_exit() and the loop around it. *)

(* The end of the critical section: take the first item, or exit. *)
TakeOrExit(w) ==
  IF queue # <<>>
    THEN /\ queue' = Tail(queue)
         /\ job' = [job EXCEPT ![w] = Head(queue)]
         /\ started' = started \cup {Head(queue)}
         /\ worker' = [worker EXCEPT ![w] = "busy"]
         /\ UNCHANGED total
    ELSE /\ worker' = [worker EXCEPT ![w] = "none"]
         /\ total' = total - 1
         /\ UNCHANGED <<queue, job, started>>

(* Mutant: the decision to wait does not look at the queue. *)
DequeueWaitsFirst(w) ==
  /\ worker[w] = "ready"
  /\ IF total = SoftMin
       THEN /\ waiting' = waiting + 1
            /\ worker' = [worker EXCEPT ![w] = "waiting"]
            /\ UNCHANGED <<queue, job, started, total>>
       ELSE TakeOrExit(w) /\ UNCHANGED waiting
  /\ UNCHANGED <<action, performed, finished, unserved>>

(* With nothing to do, a thread waits if its exit would leave too few.     *)
Dequeue(w) ==
  /\ worker[w] = "ready"
  /\ IF queue = <<>> /\ total = SoftMin
       THEN /\ waiting' = waiting + 1
            /\ worker' = [worker EXCEPT ![w] = "waiting"]
            /\ UNCHANGED <<queue, job, started, total>>
       ELSE TakeOrExit(w) /\ UNCHANGED waiting
  /\ UNCHANGED <<action, performed, finished, unserved>>

(* The wait times out (or ends for no reason). *)
EndWait(w) ==
  /\ worker[w] = "waiting"
  /\ worker' = [worker EXCEPT ![w] = "woken"]
  /\ UNCHANGED <<queue, total, waiting, action, job, performed, started, finished, unserved>>

(* The mutex is held again.  A thread that was woken or timed out still    *)
(* counts as waiting until here.                                           *)
Resume(w) ==
  /\ worker[w] = "woken"
  /\ waiting' = waiting - 1
  /\ TakeOrExit(w)
  /\ UNCHANGED <<action, performed, finished, unserved>>

Finish(w) ==
  /\ worker[w] = "busy"
  /\ finished' = finished \cup {job[w]}
  /\ job' = [job EXCEPT ![w] = NoItem]
  /\ worker' = [worker EXCEPT ![w] = "ready"]
  /\ UNCHANGED <<queue, total, waiting, action, performed, started, unserved>>

-----------------------------------------------------------------------------
PoolNext ==
  \/ \E i \in Items : Enqueue(i)
  \/ Wake \/ SpawnFails
  \/ \E w \in Workers : Spawn(w) \/ Dequeue(w) \/ EndWait(w) \/ Resume(w) \/ Finish(w)

(* Callers complete perform(), threads run and work items end.  Nothing is *)
(* asked of EndWait: work must not depend on the timeout of a wait.        *)
PoolFairness ==
  /\ WF_poolVars(Wake \/ SpawnFails \/ \E w \in Workers : Spawn(w))
  /\ \A w \in Workers : WF_poolVars(Dequeue(w) \/ Resume(w) \/ Finish(w))

PoolSpec == PoolInit /\ [][PoolNext]_poolVars /\ PoolFairness

-----------------------------------------------------------------------------
(* Properties. *)

(* The two counters agree with the threads: total_threads counts those     *)
(* that have not committed to exit and the one about to be spawned,        *)
(* waiting_threads those inside the wait.  Only urgent items push the      *)
(* pool over its limit.                                                    *)
Live == Workers \ In("none")
Sleeping == In("waiting") \cup In("woken")
Spawning == IF action = "spawn" THEN 1 ELSE 0
CountersExact ==
  /\ total = Cardinality(Live) + Spawning
  /\ waiting = Cardinality(Sleeping)
  /\ total <= MaxThreads + Cardinality(performed \cap Urgent)

(* Threads that will take an item without first ending another. *)
Free == In("ready") \cup Sleeping
FreeSoon == Cardinality(Free) + Spawning

(* No item is left behind: while items are queued some thread is on its    *)
(* way to them - not asleep - or perform() is about to send one.           *)
SomeoneComes ==
  queue # <<>> =>
    action # "none" \/ In("ready") \cup In("woken") \cup In("busy") # {}

(* cant_wait: while no item had to be queued without a thread for it, each *)
(* queued item has a free thread, so urgent work never waits for a busy    *)
(* thread ("deferring creation of a new thread might lead to a deadlock",  *)
(* iothread_perform_cant_wait).  At the limit an urgent item can queue     *)
(* behind an ordinary one.                                                 *)
ThreadPerItem == unserved = {} => Len(queue) <= FreeSoon

(* Every item is eventually run, with waits that never time out. *)
AllRun == \A i \in Items : i \in performed ~> i \in finished

(* The state is of its types, the counters of ThreadPoolData are exact, and*)
(* no queued item is left without a thread on its way.                     *)
PoolConsistent == PoolTypeOK /\ CountersExact /\ SomeoneComes
=============================================================================
