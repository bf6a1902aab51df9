------------------------------ MODULE Debounce ------------------------------
(***************************************************************************)
(* Debounce of src/src/threads.rs, with the queue that takes its results   *)
(* to the main thread (MAIN_THREAD_QUEUE, NOTIFY_SIGNALLER).  The reader   *)
(* uses one for autosuggestions, one for highlighting and one for history. *)
(*                                                                         *)
(* The main thread hands in requests; at most one is kept, the newest.  A  *)
(* background thread, known by its token, runs them; if it is late it is   *)
(* abandoned and another one takes over.                                   *)
(*                                                                         *)
(* Grain: a critical section, an access to the signaller, or a handler is  *)
(* one step.  The pool (ThreadPool) is taken by its promise: each item     *)
(* handed to it is eventually run.                                         *)
(***************************************************************************)
EXTENDS Naturals, Sequences

CONSTANTS
  MaxRequests,  \* bound on the calls of perform()
  HasTimeout,   \* is `timeout` non-zero?
  Hanging       \* the requests whose handler may never return

ASSUME MaxRequestsIsNat == MaxRequests \in Nat
ASSUME HasTimeoutIsBool == HasTimeout \in BOOLEAN

RequestIds == 1..MaxRequests
Tokens == 1..MaxRequests     \* at most one thread per call
NoToken == 0
NoRequest == 0

VARIABLES
  next_req, active_token, next_token,
  late,       \* is start_time longer than `timeout` ago?
  thread,     \* the thread of each token
  request,    \* the request it runs
  main_queue, \* MAIN_THREAD_QUEUE: requests whose handler has returned
  signalled,  \* NOTIFY_SIGNALLER is readable
  mainpc, batch,  \* the main thread, and the callbacks it still has to run
  requested,  \* how many requests were made
  newest,     \* the newest request whose completion has run
  abandoned   \* the tokens that were taken from a running thread

data == <<next_req, active_token, next_token, late>>
mainq == <<main_queue, signalled>>
main == <<mainpc, batch, newest>>
debounceVars == <<data, thread, request, mainq, main, requested, abandoned>>

DebounceTypeOK ==
  /\ next_req \in RequestIds \cup {NoRequest}
  /\ active_token \in Tokens \cup {NoToken}
  /\ next_token \in 1..requested + 1
  /\ late \in BOOLEAN
  /\ thread \in [Tokens -> {"none", "pooled", "handler", "push", "post", "loop", "gone"}]
  /\ request \in [Tokens -> RequestIds \cup {NoRequest}]
  /\ main_queue \in Seq(RequestIds) /\ signalled \in BOOLEAN
  /\ mainpc \in {"idle", "consumed", "callbacks"} /\ batch \in Seq(RequestIds)
  /\ requested \in 0..MaxRequests /\ newest \in 0..MaxRequests
  /\ abandoned \subseteq Tokens

DebounceInit ==
  /\ next_req = NoRequest /\ active_token = NoToken /\ next_token = 1
  /\ late = FALSE
  /\ thread = [t \in Tokens |-> "none"]
  /\ request = [t \in Tokens |-> NoRequest]
  /\ main_queue = <<>> /\ signalled = FALSE
  /\ mainpc = "idle" /\ batch = <<>>
  /\ requested = 0 /\ newest = 0 /\ abandoned = {}

-----------------------------------------------------------------------------
(* Requests. *)

(* Time passes: Instant::now() - start_time exceeds the timeout. *)
Expire ==
  /\ HasTimeout /\ active_token # NoToken /\ ~late
  /\ late' = TRUE
  /\ UNCHANGED <<next_req, active_token, next_token, thread, request, mainq, main,
                 requested, abandoned>>

(* perform_inner(): the request replaces the one that waits.  A late       *)
(* thread loses its token; without an active thread one is asked for.      *)
DebouncePerform(r) ==
  LET abandon == active_token # NoToken /\ late
      spawn == active_token = NoToken \/ abandon
  IN
  /\ mainpc \in {"idle", "callbacks"}
  /\ r = requested + 1 /\ r <= MaxRequests
  /\ requested' = r
  /\ next_req' = r
  /\ abandoned' = IF abandon THEN abandoned \cup {active_token} ELSE abandoned
  /\ IF spawn
       THEN /\ active_token' = next_token
            /\ next_token' = next_token + 1
            /\ late' = FALSE
            /\ thread' = [thread EXCEPT ![next_token] = "pooled"]
       ELSE UNCHANGED <<active_token, next_token, late, thread>>
  /\ UNCHANGED <<request, mainq, main>>

-----------------------------------------------------------------------------
(* The background thread of token t; its first step comes from the pool. *)

Idle(t) == thread[t] \in {"pooled", "loop"}

(* Mutant: the token stays active when its thread goes. *)
RunNextKeepsToken(t) ==
  /\ Idle(t)
  /\ IF next_req # NoRequest
       THEN /\ request' = [request EXCEPT ![t] = next_req]
            /\ next_req' = NoRequest
            /\ late' = FALSE
            /\ thread' = [thread EXCEPT ![t] = "handler"]
       ELSE /\ thread' = [thread EXCEPT ![t] = "gone"]
            /\ UNCHANGED <<request, next_req, late>>
  /\ UNCHANGED <<active_token, next_token, mainq, main, requested, abandoned>>

(* Mutant: the request is left in place while it runs. *)
RunNextLeavesRequest(t) ==
  /\ Idle(t)
  /\ IF next_req # NoRequest /\ next_req # request[t]
       THEN /\ request' = [request EXCEPT ![t] = next_req]
            /\ late' = FALSE
            /\ thread' = [thread EXCEPT ![t] = "handler"]
            /\ UNCHANGED active_token
       ELSE /\ active_token' = IF t = active_token THEN NoToken ELSE active_token
            /\ thread' = [thread EXCEPT ![t] = "gone"]
            /\ UNCHANGED <<request, late>>
  /\ UNCHANGED <<next_req, next_token, mainq, main, requested, abandoned>>

(* run_next(), under the mutex: whoever comes takes the request; only a    *)
(* thread that finds none looks at its token, and ends.                    *)
RunNext(t) ==
  /\ Idle(t)
  /\ IF next_req # NoRequest
       THEN /\ request' = [request EXCEPT ![t] = next_req]
            /\ next_req' = NoRequest
            /\ late' = FALSE
            /\ thread' = [thread EXCEPT ![t] = "handler"]
            /\ UNCHANGED active_token
       ELSE /\ active_token' = IF t = active_token THEN NoToken ELSE active_token
            /\ thread' = [thread EXCEPT ![t] = "gone"]
            /\ UNCHANGED <<request, next_req, late>>
  /\ UNCHANGED <<next_token, mainq, main, requested, abandoned>>

(* The rest of the work item: the handler returns, ...                     *)
HandlerReturns(t) ==
  /\ thread[t] = "handler"
  /\ thread' = [thread EXCEPT ![t] = "push"]
  /\ UNCHANGED <<data, request, mainq, main, requested, abandoned>>

(* ... its result goes on the queue, ...                                   *)
Push(t) ==
  /\ thread[t] = "push"
  /\ main_queue' = Append(main_queue, request[t])
  /\ thread' = [thread EXCEPT ![t] = "post"]
  /\ UNCHANGED <<data, request, signalled, main, requested, abandoned>>

(* Mutant: the signaller is posted only for the first result on the queue. *)
PostIfFirst(t) ==
  /\ thread[t] = "post"
  /\ signalled' = (signalled \/ Len(main_queue) = 1)
  /\ thread' = [thread EXCEPT ![t] = "loop"]
  /\ request' = [request EXCEPT ![t] = NoRequest]
  /\ UNCHANGED <<data, main_queue, main, requested, abandoned>>

(* ... and then the signaller is posted. *)
Post(t) ==
  /\ thread[t] = "post"
  /\ signalled' = TRUE
  /\ thread' = [thread EXCEPT ![t] = "loop"]
  /\ request' = [request EXCEPT ![t] = NoRequest]
  /\ UNCHANGED <<data, main_queue, main, requested, abandoned>>

-----------------------------------------------------------------------------
(* iothread_service_main(), when the reader finds the signaller readable.  *)

Consume ==
  /\ mainpc = "idle" /\ signalled
  /\ signalled' = FALSE
  /\ mainpc' = "consumed"
  /\ UNCHANGED <<data, thread, request, main_queue, batch, newest, requested, abandoned>>

Take ==
  /\ mainpc = "consumed"
  /\ batch' = main_queue
  /\ main_queue' = <<>>
  /\ mainpc' = "callbacks"
  /\ UNCHANGED <<data, thread, request, signalled, newest, requested, abandoned>>

(* Mutant: the event is consumed again after the last callback. *)
CallbackConsumes ==
  /\ mainpc = "callbacks"
  /\ IF batch = <<>>
       THEN mainpc' = "idle" /\ signalled' = FALSE /\ UNCHANGED <<batch, newest>>
       ELSE /\ batch' = Tail(batch)
            /\ newest' = IF Head(batch) > newest THEN Head(batch) ELSE newest
            /\ UNCHANGED <<mainpc, signalled>>
  /\ UNCHANGED <<data, thread, request, main_queue, requested, abandoned>>

(* The completions of the batch, in order. *)
Callback ==
  /\ mainpc = "callbacks"
  /\ IF batch = <<>>
       THEN mainpc' = "idle" /\ UNCHANGED <<batch, newest>>
       ELSE /\ batch' = Tail(batch)
            /\ newest' = IF Head(batch) > newest THEN Head(batch) ELSE newest
            /\ UNCHANGED mainpc
  /\ UNCHANGED <<data, thread, request, mainq, requested, abandoned>>

-----------------------------------------------------------------------------
ThreadStep(t) == RunNext(t) \/ Push(t) \/ Post(t)

DebounceNext ==
  \/ Expire
  \/ \E r \in RequestIds : DebouncePerform(r)
  \/ \E t \in Tokens : ThreadStep(t) \/ HandlerReturns(t)
  \/ Consume \/ Take \/ Callback

(* Threads run, handlers that do not hang return, time passes and the main *)
(* thread serves the signaller.                                            *)
DebounceFairness ==
  /\ \A t \in Tokens : WF_debounceVars(ThreadStep(t))
  /\ \A t \in Tokens : WF_debounceVars(HandlerReturns(t) /\ request[t] \notin Hanging)
  /\ WF_debounceVars(Expire)
  /\ WF_debounceVars(Consume \/ Take \/ Callback)

DebounceSpec == DebounceInit /\ [][DebounceNext]_debounceVars /\ DebounceFairness

-----------------------------------------------------------------------------
(* Properties. *)

(* A request that waits has a thread that will come for it: there is an    *)
(* active token, and its thread has not gone.  (An abandoned thread that   *)
(* comes back may take the request first; the active one then ends.)       *)
PendingHasThread ==
  /\ next_req # NoRequest => active_token # NoToken
  /\ active_token # NoToken => thread[active_token] \notin {"none", "gone"}

(* No result stays on the queue unannounced: consuming comes before        *)
(* taking because posting comes after pushing.                             *)
NoResultStranded ==
  main_queue # <<>> =>
    signalled \/ mainpc = "consumed" \/ \E t \in Tokens : thread[t] = "post"

(* A request is taken at most once, and never after a newer one.           *)
TakenInOrder ==
  [][\A t \in Tokens : request'[t] \notin {request[t], NoRequest} =>
       newest < request'[t] /\ \A u \in Tokens : request[u] < request'[t]]_debounceVars

(* As long as no thread was abandoned one thread at most is at work, and   *)
(* results arrive in the order of the requests.                            *)
InOrderUnlessAbandoned ==
  abandoned = {} =>
    /\ \A t \in Tokens : thread[t] \notin {"none", "gone"} => t = active_token
    /\ \A i \in 1..Len(batch \o main_queue) :
         /\ newest < (batch \o main_queue)[i]
         /\ \A k \in 1..i - 1 : (batch \o main_queue)[k] < (batch \o main_queue)[i]

(* The result of the last request is delivered, if no handler hangs.       *)
LastDelivered ==
  \A r \in RequestIds : requested = r ~> newest = r \/ requested > r

(* The state is of its types, a waiting request has a thread, and threads  *)
(* that are not abandoned work one at a time.                              *)
RequestsConsistent == DebounceTypeOK /\ PendingHasThread /\ InOrderUnlessAbandoned
=============================================================================
