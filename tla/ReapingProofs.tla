---------------------------- MODULE ReapingProofs ----------------------------
(***************************************************************************)
(* Theorems about Reaping, for any jobs, pipelines and pids: no news of a  *)
(* child is missed, every exit is announced once, and a pipeline has its   *)
(* leader while processes join it.                                         *)
(***************************************************************************)
EXTENDS Reaping, TLAPS

(* Generations: nobody holds one that was not seen, and at most one post   *)
(* is ahead of what was seen (the promise of the monitor).                 *)
GensInv ==
  \A t \in Topics :
    /\ seen[t] <= published[t] /\ published[t] <= seen[t] + 1
    /\ reapgens[t] <= seen[t]
    /\ \A p \in Procs : gens[p][t] <= seen[t]

(* How far each process has been launched. *)
StageInv ==
  /\ \A p \in Procs :
       /\ iproc[p] \in {"forking", "forked"} => p \in External
       /\ iproc[p] \in {"performing", "running", "exited"} => p \notin External
       /\ pid[p] # None => p \in External /\ iproc[p] \in {"forked", "posted"}
  /\ \A j \in Jobs : next[j] >= 1

(* Only a child that lives has a stop or a continue to report. *)
KernelInv == \A k \in Pids : kern[k] \in {"free", "zombie"} => report[k] = "none"

(* News that the handler of SIGCHLD has announced, or that an internal     *)
(* process has posted, is ahead of the generation of its process, also of  *)
(* one that is being launched or whose turn in the loops is to come.       *)
NewsInv ==
  \A p \in Procs \ completed :
    /\ /\ pid[p] # None /\ ~sigchld
       /\ kern[pid[p]] = "zombie" \/ report[pid[p]] # "none"
       => gens[p]["sigchld"] < published["sigchld"]
    /\ p \notin External /\ iproc[p] = "posted"
       => gens[p]["internal_exit"] < published["internal_exit"]

IInv == TypeOK /\ GensInv /\ StageInv /\ KernelInv /\ NewsInv /\ ExitAnnouncedOnce

USE OneJobPerProcess, PipelinesNonEmpty, SignalsBounded

-----------------------------------------------------------------------------
(* The processes of a pipeline are processes, of its job and of no other. *)
LEMMA ProcLemma ==
  /\ \A j \in Jobs : \A p \in ToSet(Pipeline[j]) : p \in Procs /\ JobOf(p) = j
  /\ \A j \in Jobs : \A i \in 1..Len(Pipeline[j]) : Pipeline[j][i] \in ToSet(Pipeline[j])
  /\ \A p \in Procs : JobOf(p) \in Jobs /\ p \in ToSet(Pipeline[JobOf(p)])
<1>1. \A j \in Jobs : \A p \in ToSet(Pipeline[j]) : p \in Procs
  BY DEF Procs
<1>2. \A j \in Jobs : \A p \in ToSet(Pipeline[j]) : JobOf(p) = j
  <2>. SUFFICES ASSUME NEW j \in Jobs, NEW p \in ToSet(Pipeline[j]) PROVE JobOf(p) = j
    OBVIOUS
  <2>1. \A k \in Jobs : p \in ToSet(Pipeline[k]) => k = j
    OBVIOUS
  <2>. QED
    BY <2>1 DEF JobOf
<1>3. \A j \in Jobs : \A i \in 1..Len(Pipeline[j]) : Pipeline[j][i] \in ToSet(Pipeline[j])
  BY DEF ToSet
<1>4. \A p \in Procs : JobOf(p) \in Jobs /\ p \in ToSet(Pipeline[JobOf(p)])
  BY <1>2 DEF Procs
<1>. QED
  BY <1>1, <1>2, <1>3, <1>4

(* The order of launches is one of the places of the pipeline, in which    *)
(* all places but the deferred one keep their order.                       *)
LEMMA RankLemma ==
  ASSUME NEW j \in Jobs
  PROVE  /\ Deferred(j) \subseteq 1..Len(Pipeline[j])
         /\ \A i \in 1..Len(Pipeline[j]) : Rank(j, i) \in 1..Len(Pipeline[j])
         /\ \A h, i \in 1..Len(Pipeline[j]) : Rank(j, h) = Rank(j, i) => h = i
         /\ \A h, i \in 1..Len(Pipeline[j]) : i < h /\ i \notin Deferred(j) => Rank(j, i) < Rank(j, h)
<1>1. Len(Pipeline[j]) \in Nat /\ Len(Pipeline[j]) > 0
  OBVIOUS
<1>2. \A d \in Deferred(j) : d \in 1..(Len(Pipeline[j]) - 1)
  BY DEF Deferred
<1>3. ASSUME NEW d \in Deferred(j), NEW e \in Deferred(j)  PROVE  d = e
  <2>1. /\ Pipeline[j][d] \notin External /\ \A i \in (d + 1)..Len(Pipeline[j]) : Pipeline[j][i] \in External
        /\ Pipeline[j][e] \notin External /\ \A i \in (e + 1)..Len(Pipeline[j]) : Pipeline[j][i] \in External
        /\ d \in 1..(Len(Pipeline[j]) - 1) /\ e \in 1..(Len(Pipeline[j]) - 1)
    BY DEF Deferred
  <2>2. ~(d < e) /\ ~(e < d)
    BY <1>1, <2>1
  <2>. QED
    BY <1>1, <2>1, <2>2
<1>4. CASE Deferred(j) = {}
  BY <1>1, <1>4 DEF Rank
<1>5. CASE Deferred(j) # {}
  <2>1. PICK d \in 1..(Len(Pipeline[j]) - 1) : Deferred(j) = {d}
    BY <1>2, <1>3, <1>5
  <2>2. \A i \in 1..Len(Pipeline[j]) :
          Rank(j, i) = IF i = d THEN Len(Pipeline[j]) ELSE IF d < i THEN i - 1 ELSE i
    BY <2>1 DEF Rank
  <2>. QED
    BY <1>1, <2>1, <2>2
<1>. QED
  BY <1>4, <1>5

(* Who can be launched is a process of a job under construction. *)
LEMMA LaunchableLemma ==
  ASSUME TypeOK, NEW j \in Jobs, NEW p, Launchable(j, p)
  PROVE  /\ p \in Procs /\ JobOf(p) = j /\ j \in jobList /\ j \notin constructed
         /\ next[j] \in 1..Len(Pipeline[j])
         /\ \E i \in 1..Len(Pipeline[j]) : Rank(j, i) = next[j] /\ p = Pipeline[j][i]
<1>1. PICK i \in 1..Len(Pipeline[j]) : Due(j, i) /\ p = Pipeline[j][i]
  BY DEF Launchable
<1>. QED
  BY <1>1, ProcLemma, RankLemma DEF Due

(* A post moves its topic past all that anybody holds, and no other one. *)
LEMMA PostLemma ==
  ASSUME TypeOK, GensInv, NEW t \in Topics, Monitor!Post(t), UNCHANGED <<gens, reapgens>>
  PROVE  /\ GensInv' /\ UNCHANGED seen
         /\ posts' \in Nat /\ published' \in [Topics -> Nat]
         /\ \A u \in Topics : published[u] <= published'[u]
         /\ \A p \in Procs : gens[p][t] < published'[t]
<1>1. /\ published' = [published EXCEPT ![t] = seen[t] + 1] /\ UNCHANGED seen
      /\ posts' = posts + 1
  BY DEF Monitor!Post
<1>2. posts' \in Nat /\ published' \in [Topics -> Nat]
  BY <1>1 DEF TypeOK
<1>3. \A u \in Topics : published[u] <= published'[u] /\ published'[u] <= seen[u] + 1
                        /\ seen[u] <= published'[u]
  BY <1>1 DEF TypeOK, GensInv
<1>4. GensInv'
  BY <1>1, <1>3 DEF GensInv
<1>5. \A p \in Procs : gens[p][t] < published'[t]
  BY <1>1 DEF TypeOK, GensInv
<1>. QED
  BY <1>1, <1>2, <1>3, <1>4, <1>5

(* The invariant holds initially. *)
LEMMA InitInvariant == Init => IInv
<1>. SUFFICES ASSUME Init PROVE IInv
  OBVIOUS
<1>1. Zero \in [Topics -> Nat] /\ \A t \in Topics : Zero[t] = 0
  BY DEF Zero
<1>a. 0 \in 0..MaxSignals /\ 0 \in 0..2 /\ 0 \in Nat /\ 1 \in Nat
  OBVIOUS
<1>b. /\ posts \in Nat /\ published \in [Topics -> Nat] /\ seen \in [Topics -> Nat]
      /\ reapgens \in [Topics -> Nat]
  BY <1>1, <1>a DEF Init
<1>c. gens \in [Procs -> [Topics -> Nat]]
  BY <1>1 DEF Init
<1>d. next \in [Jobs -> Nat] /\ fired \in [Procs -> 0..2] /\ signals \in 0..MaxSignals
  BY <1>a DEF Init
<1>2. TypeOK
  BY <1>b, <1>c, <1>d DEF Init, TypeOK, ProcStages, States
<1>3. GensInv
  BY <1>1 DEF Init, GensInv
<1>4. StageInv /\ KernelInv /\ NewsInv /\ ExitAnnouncedOnce
  BY DEF Init, StageInv, KernelInv, NewsInv, ExitAnnouncedOnce
<1>. QED
  BY <1>2, <1>3, <1>4 DEF IInv

-----------------------------------------------------------------------------
(* Each step keeps the invariant: of the kernel, the children and the      *)
(* signal handlers first.  A change of a child raises SIGCHLD.             *)
LEMMA ChildKeeps ==
  ASSUME IInv, NEW k \in Pids, Exit(k) \/ StopOrContinue(k)
  PROVE  IInv'
<1>1. TypeOK /\ GensInv /\ StageInv /\ KernelInv /\ NewsInv /\ ExitAnnouncedOnce
  BY DEF IInv
<1>2. UNCHANGED <<topics, jobs, exits, main>> /\ sigchld' = TRUE
  BY DEF Exit, StopOrContinue
<1>a. signals' \in 0..MaxSignals
  <2>1. signals \in 0..MaxSignals
    BY <1>1 DEF TypeOK
  <2>2. signals' = signals \/ (signals < MaxSignals /\ signals' = signals + 1)
    BY DEF Exit, StopOrContinue
  <2>. QED
    BY <2>1, <2>2
<1>b. /\ kern' \in [Pids -> {"free", "running", "stopped", "zombie"}]
      /\ report' \in [Pids -> {"none", "stopped", "continued"}]
  BY <1>1 DEF Exit, StopOrContinue, TypeOK
<1>3. /\ kern' \in [Pids -> {"free", "running", "stopped", "zombie"}]
      /\ report' \in [Pids -> {"none", "stopped", "continued"}]
      /\ signals' \in 0..MaxSignals
  BY <1>a, <1>b
<1>4. TypeOK'
  BY <1>1, <1>2, <1>3 DEF TypeOK, topics, jobs, exits, main
<1>5. GensInv' /\ StageInv' /\ NewsInv' /\ ExitAnnouncedOnce'
  BY <1>1, <1>2 DEF GensInv, StageInv, NewsInv, ExitAnnouncedOnce, topics, jobs, exits, main
<1>6. KernelInv'
  BY <1>1 DEF Exit, StopOrContinue, KernelInv, TypeOK
<1>. QED
  BY <1>4, <1>5, <1>6 DEF IInv

(* The handlers post, which puts every process behind on the topic. *)
LEMMA HandlerKeeps ==
  ASSUME IInv, HandleSigchld \/ HandleSigint
  PROVE  IInv'
<1>1. TypeOK /\ GensInv /\ StageInv /\ KernelInv /\ NewsInv /\ ExitAnnouncedOnce
  BY DEF IInv
<1>2. UNCHANGED <<kern, report, jobs, exits, main>>
  BY DEF HandleSigchld, HandleSigint, kernel
<1>3. PICK t \in {"sigchld", "sighupint"} :
        /\ Monitor!Post(t)
        /\ \/ t = "sigchld" /\ sigchld' = FALSE /\ UNCHANGED signals
           \/ UNCHANGED sigchld /\ signals' = signals + 1 /\ signals < MaxSignals
  BY DEF HandleSigchld, HandleSigint, kernel
<1>4. /\ GensInv' /\ UNCHANGED seen
      /\ posts' \in Nat /\ published' \in [Topics -> Nat]
      /\ \A u \in Topics : published[u] <= published'[u]
      /\ \A p \in Procs : gens[p][t] < published'[t]
  BY <1>1, <1>2, <1>3, PostLemma DEF Topics, jobs, main
<1>a. signals \in 0..MaxSignals /\ sigchld \in BOOLEAN
  BY <1>1 DEF TypeOK
<1>b. sigchld' \in BOOLEAN
  BY <1>a DEF HandleSigchld, HandleSigint, kernel
<1>c. signals' = signals \/ (signals < MaxSignals /\ signals' = signals + 1)
  BY <1>3
<1>d. signals' \in 0..MaxSignals
  BY <1>a, <1>c
<1>5. sigchld' \in BOOLEAN /\ signals' \in 0..MaxSignals
  BY <1>b, <1>d
<1>6. TypeOK'
  BY <1>1, <1>2, <1>4, <1>5 DEF TypeOK, jobs, exits, main
<1>7. StageInv' /\ KernelInv' /\ ExitAnnouncedOnce'
  BY <1>1, <1>2 DEF StageInv, KernelInv, ExitAnnouncedOnce, jobs, exits
<1>8. NewsInv'
  <2>1. \A p \in Procs : gens'[p] = gens[p] /\ pid'[p] = pid[p] /\ iproc'[p] = iproc[p]
    BY <1>2 DEF jobs
  <2>2. completed' = completed
    BY <1>2 DEF jobs
  <2>3. \A p \in Procs, u \in Topics : gens[p][u] \in Nat /\ published[u] \in Nat /\ published'[u] \in Nat
    BY <1>1, <1>4 DEF TypeOK
  <2>4. {"sigchld", "internal_exit"} \subseteq Topics
    BY DEF Topics
  <2>. QED
    BY <1>1, <1>2, <1>3, <1>4, <2>1, <2>2, <2>3, <2>4 DEF NewsInv
<1>. QED
  BY <1>4, <1>6, <1>7, <1>8 DEF IInv

(* An internal process ends: first its flag, then its post. *)
LEMMA InternalKeeps ==
  ASSUME IInv, NEW p \in Procs, InternalExits(p) \/ InternalPosts(p)
  PROVE  IInv'
<1>1. TypeOK /\ GensInv /\ StageInv /\ KernelInv /\ NewsInv /\ ExitAnnouncedOnce
  BY DEF IInv
<1>2. UNCHANGED <<kernel, signals, jobList, constructed, grouped, next, pid, gens, completed, stopped,
                  exits, main>>
  BY DEF InternalExits, InternalPosts
<1>3. /\ iproc' \in [Procs -> ProcStages] /\ p \notin External
      /\ \A q \in Procs : q # p => iproc'[q] = iproc[q]
  BY <1>1 DEF InternalExits, InternalPosts, TypeOK, ProcStages, StageInv
<1>4. CASE InternalExits(p)
  <2>1. UNCHANGED topics /\ iproc'[p] = "exited" /\ iproc[p] = "running"
    BY <1>1, <1>4 DEF InternalExits, TypeOK
  <2>2. TypeOK'
    BY <1>1, <1>2, <1>3, <2>1 DEF TypeOK, topics, kernel, exits, main
  <2>. QED
    BY <1>1, <1>2, <1>3, <2>1, <2>2
       DEF IInv, GensInv, StageInv, KernelInv, NewsInv, ExitAnnouncedOnce, topics, kernel, exits, main
<1>5. CASE InternalPosts(p)
  <2>1. iproc'[p] = "posted" /\ iproc[p] = "exited" /\ Monitor!Post("internal_exit")
    BY <1>1, <1>5 DEF InternalPosts, TypeOK
  <2>2. /\ GensInv' /\ UNCHANGED seen
        /\ posts' \in Nat /\ published' \in [Topics -> Nat]
        /\ \A u \in Topics : published[u] <= published'[u]
        /\ \A q \in Procs : gens[q]["internal_exit"] < published'["internal_exit"]
    BY <1>1, <1>2, <2>1, PostLemma DEF Topics, main
  <2>3. TypeOK'
    BY <1>1, <1>2, <1>3, <2>2 DEF TypeOK, kernel, exits, main
  <2>4. StageInv' /\ KernelInv' /\ ExitAnnouncedOnce'
    BY <1>1, <1>2, <1>3, <2>1 DEF StageInv, KernelInv, ExitAnnouncedOnce, kernel, exits
  <2>5. NewsInv'
    <3>1. \A q \in Procs : gens[q]["sigchld"] \in Nat /\ published["sigchld"] \in Nat
                           /\ published'["sigchld"] \in Nat
                           /\ published["sigchld"] <= published'["sigchld"]
      BY <1>1, <2>2 DEF TypeOK, Topics
    <3>. QED
      BY <1>1, <1>2, <2>2, <3>1 DEF NewsInv, kernel
  <2>. QED
    BY <2>2, <2>3, <2>4, <2>5 DEF IInv
<1>. QED
  BY <1>4, <1>5

-----------------------------------------------------------------------------
(* Launching.  A process records its generations before it has a pid.      *)
LEMMA StartJobKeeps ==
  ASSUME IInv, NEW j \in Jobs, StartJob(j) \/ Construct(j)
  PROVE  IInv'
<1>1. TypeOK /\ GensInv /\ StageInv /\ KernelInv /\ NewsInv /\ ExitAnnouncedOnce
  BY DEF IInv
<1>2. /\ UNCHANGED <<topics, kernel, signals, next, pid, iproc, gens, completed, stopped,
                     exits, pc, reapgens, todo, cleaning>>
      /\ \/ jobList' = jobList \cup {j} /\ UNCHANGED <<constructed, fg>>
         \/ /\ j \in jobList /\ constructed' = constructed \cup {j} /\ UNCHANGED jobList
            /\ fg' \in {None, j}
      /\ grouped' \subseteq grouped \cup {j}
  BY DEF StartJob, Construct, main
<1>3. TypeOK'
  <2>1. grouped' \subseteq Jobs
    BY <1>1, <1>2 DEF TypeOK
  <2>. QED
    BY <1>1, <1>2, <2>1 DEF TypeOK, topics, kernel, exits
<1>4. GensInv' /\ StageInv' /\ KernelInv' /\ NewsInv'
  BY <1>1, <1>2 DEF GensInv, StageInv, KernelInv, NewsInv, topics, kernel
<1>5. ExitAnnouncedOnce'
  BY <1>1, <1>2 DEF ExitAnnouncedOnce, exits
<1>. QED
  BY <1>3, <1>4, <1>5 DEF IInv

LEMMA RecordKeeps ==
  ASSUME IInv, NEW j \in Jobs, NEW p \in Procs, RecordGenerations(j, p) \/ RunInternal(j, p)
  PROVE  IInv'
<1>1. TypeOK /\ GensInv /\ StageInv /\ KernelInv /\ NewsInv /\ ExitAnnouncedOnce
  BY DEF IInv
<1>2. /\ UNCHANGED <<posts, published, kernel, signals, jobList, constructed, grouped, pid, completed,
                     stopped, exits, fg, reapgens, todo, cleaning>>
      /\ seen' = published /\ gens' = [gens EXCEPT ![p] = published]
  BY DEF RecordGenerations, RunInternal, main
<1>3. PICK stage \in {"forking", "performing", "running"} :
        /\ iproc' = [iproc EXCEPT ![p] = stage]
        /\ pid[p] = None
        /\ stage = "forking" <=> p \in External
  <2>1. CASE RecordGenerations(j, p)
    <3>1. iproc[p] = "unlaunched"
      BY <2>1 DEF RecordGenerations
    <3>2. pid[p] = None
      BY <1>1, <3>1 DEF StageInv
    <3>. QED
      BY <2>1, <3>2 DEF RecordGenerations
  <2>2. CASE RunInternal(j, p)
    <3>1. iproc[p] = "performing"
      BY <2>2 DEF RunInternal
    <3>2. p \notin External /\ pid[p] = None
      BY <1>1, <3>1 DEF StageInv
    <3>. QED
      BY <2>2, <3>2 DEF RunInternal
  <2>. QED
    BY <2>1, <2>2
<1>a. next' = next \/ next' = [next EXCEPT ![j] = @ + 1]
  BY DEF RecordGenerations, RunInternal
<1>b. next \in [Jobs -> Nat]
  BY <1>1 DEF TypeOK
<1>4. next' \in [Jobs -> Nat] /\ \A i \in Jobs : next'[i] >= next[i]
  <2>1. CASE next' = next
    BY <1>b, <2>1
  <2>2. CASE next' = [next EXCEPT ![j] = @ + 1]
    BY <1>b, <2>2
  <2>. QED
    BY <1>a, <2>1, <2>2
<1>5. iproc' \in [Procs -> ProcStages] /\ pc' \in States
  BY <1>1, <1>3 DEF RecordGenerations, RunInternal, TypeOK, ProcStages, States, main
<1>6. TypeOK'
  BY <1>1, <1>2, <1>4, <1>5 DEF TypeOK, kernel, exits
<1>7. GensInv'
  <2>1. \A t \in Topics, q \in Procs :
          gens'[q][t] = gens[q][t] \/ gens'[q][t] = published[t]
    BY <1>1, <1>2 DEF TypeOK
  <2>2. \A t \in Topics, q \in Procs :
          gens[q][t] \in Nat /\ published[t] \in Nat /\ seen[t] \in Nat /\ reapgens[t] \in Nat
    BY <1>1 DEF TypeOK
  <2>. QED
    BY <1>1, <1>2, <2>1, <2>2 DEF GensInv
<1>8. StageInv'
  <2>1. \A i \in Jobs : next'[i] >= 1
    BY <1>1, <1>4 DEF StageInv, TypeOK
  <2>. QED
    BY <1>1, <1>2, <1>3, <2>1 DEF StageInv, TypeOK
<1>9. NewsInv'
  <2>1. \A q \in Procs : q # p => gens'[q] = gens[q] /\ iproc'[q] = iproc[q]
    BY <1>1, <1>2, <1>3 DEF TypeOK
  <2>2. iproc'[p] # "posted"
    BY <1>1, <1>3 DEF TypeOK
  <2>. QED
    BY <1>1, <1>2, <1>3, <2>1, <2>2 DEF NewsInv, kernel
<1>10. KernelInv' /\ ExitAnnouncedOnce'
  BY <1>1, <1>2 DEF KernelInv, ExitAnnouncedOnce, kernel, exits
<1>. QED
  BY <1>6, <1>7, <1>8, <1>9, <1>10 DEF IInv

(* A pid that is given to a new child has nothing to report any more.      *)
LEMMA ForkKeeps ==
  ASSUME IInv, NEW j \in Jobs, NEW p \in Procs, NEW k \in Pids, Fork(j, p, k)
  PROVE  IInv'
<1>1. TypeOK /\ GensInv /\ StageInv /\ KernelInv /\ NewsInv /\ ExitAnnouncedOnce
  BY DEF IInv
<1>2. /\ UNCHANGED <<topics, sigchld, signals, jobList, constructed, grouped, next, gens, completed,
                     stopped, exits, main>>
      /\ kern' = [kern EXCEPT ![k] = "running"] /\ report' = [report EXCEPT ![k] = "none"]
      /\ pid' = [pid EXCEPT ![p] = k] /\ iproc' = [iproc EXCEPT ![p] = "forked"]
      /\ iproc[p] = "forking"
  BY DEF Fork
<1>3. JobOf(p) = j /\ j \notin constructed /\ p \in External
  BY <1>1, LaunchableLemma DEF Fork, StageInv
<1>4. TypeOK'
  <2>1. iproc' \in [Procs -> ProcStages] /\ pid' \in [Procs -> Pids \cup {None}]
    BY <1>1, <1>2 DEF TypeOK, ProcStages
  <2>2. /\ kern' \in [Pids -> {"free", "running", "stopped", "zombie"}]
        /\ report' \in [Pids -> {"none", "stopped", "continued"}]
    BY <1>1, <1>2 DEF TypeOK
  <2>. QED
    BY <1>1, <1>2, <2>1, <2>2 DEF TypeOK, topics, exits, main
<1>5. GensInv' /\ KernelInv'
  BY <1>1, <1>2 DEF GensInv, KernelInv, topics, main, TypeOK
<1>6. StageInv'
  BY <1>1, <1>2, <1>3 DEF StageInv, TypeOK
<1>7. NewsInv'
  <2>1. \A q \in Procs : pid'[q] = k \/ (pid'[q] = pid[q] /\ q # p)
    BY <1>1, <1>2 DEF TypeOK
  <2>2. kern'[k] = "running" /\ report'[k] = "none"
    BY <1>1, <1>2 DEF TypeOK
  <2>3. \A i \in Pids : i # k => kern'[i] = kern[i] /\ report'[i] = report[i]
    BY <1>1, <1>2 DEF TypeOK
  <2>4. \A q \in Procs : pid'[q] # None => pid'[q] \in Pids
    BY <1>4 DEF TypeOK
  <2>5. \A q \in Procs : q \notin External => iproc'[q] = iproc[q]
    BY <1>1, <1>2, <1>3 DEF TypeOK
  <2>. QED
    BY <1>1, <1>2, <2>1, <2>2, <2>3, <2>4, <2>5 DEF NewsInv, topics
<1>8. ExitAnnouncedOnce'
  <2>1. \A q \in Procs : q # p => pid'[q] = pid[q]
    BY <1>1, <1>2 DEF TypeOK
  <2>. QED
    BY <1>1, <1>2, <1>3, <2>1 DEF ExitAnnouncedOnce, exits
<1>. QED
  BY <1>4, <1>5, <1>6, <1>7, <1>8 DEF IInv

(* The other ends of a launch; none gives a pid. *)
LEMMA LaunchedKeeps ==
  ASSUME IInv, NEW j \in Jobs, NEW p \in Procs, ShortCircuit(j, p) \/ SetPid(j, p)
  PROVE  IInv'
<1>1. TypeOK /\ GensInv /\ StageInv /\ KernelInv /\ NewsInv /\ ExitAnnouncedOnce
  BY DEF IInv
<1>2. /\ UNCHANGED <<topics, kernel, signals, jobList, constructed, grouped, pid, gens, stopped, exits,
                     fg, reapgens, todo, cleaning>>
      /\ next' = [next EXCEPT ![j] = @ + 1]
      /\ completed' \subseteq Procs /\ completed \subseteq completed'
      /\ pc' \in States
  BY <1>1 DEF ShortCircuit, SetPid, main, TypeOK, States
<1>3. /\ \/ UNCHANGED iproc
         \/ p \in External /\ iproc[p] = "forked" /\ iproc' = [iproc EXCEPT ![p] = "posted"]
  BY <1>1 DEF ShortCircuit, SetPid, StageInv
<1>4. next' \in [Jobs -> Nat] /\ \A i \in Jobs : next'[i] >= 1
  BY <1>1, <1>2 DEF TypeOK, StageInv
<1>5. iproc' \in [Procs -> ProcStages] /\ \A q \in Procs : q \notin External => iproc'[q] = iproc[q]
  BY <1>1, <1>3 DEF TypeOK, ProcStages
<1>6. TypeOK'
  BY <1>1, <1>2, <1>4, <1>5 DEF TypeOK, topics, kernel, exits
<1>7. GensInv' /\ KernelInv'
  BY <1>1, <1>2 DEF GensInv, KernelInv, topics, kernel
<1>8. StageInv'
  BY <1>1, <1>2, <1>3, <1>4 DEF StageInv, TypeOK
<1>9. NewsInv'
  BY <1>1, <1>2, <1>5 DEF NewsInv, topics, kernel
<1>10. ExitAnnouncedOnce'
  BY <1>1, <1>2 DEF ExitAnnouncedOnce, exits
<1>. QED
  BY <1>6, <1>7, <1>8, <1>9, <1>10 DEF IInv

LEMMA LaunchFailsKeeps ==
  ASSUME IInv, NEW j \in Jobs, NEW i \in 1..Len(Pipeline[j]), LaunchFails(j, i)
  PROVE  IInv'
<1>1. TypeOK /\ GensInv /\ StageInv /\ KernelInv /\ NewsInv /\ ExitAnnouncedOnce
  BY DEF IInv
<1>2. /\ UNCHANGED <<topics, kernel, signals, constructed, grouped, pid, iproc, gens, stopped, exits,
                     fg, reapgens, todo, cleaning>>
      /\ next' = [next EXCEPT ![j] = Len(Pipeline[j]) + 1]
      /\ jobList' \in {jobList, jobList \ {j}} /\ pc' = "eval"
      /\ j \notin constructed
  BY DEF LaunchFails, Due
<1>3. PICK from \in AbortFrom(j, i) :
        completed' = completed \cup {Pipeline[j][h] : h \in
          (IF i \in Deferred(j) THEN {} ELSE from..Len(Pipeline[j]))
            \cup (IF next[j] > 1 THEN Deferred(j) ELSE {})}
  BY DEF LaunchFails
<1>4. completed' \subseteq Procs /\ completed \subseteq completed'
  <2>1. from \in 1..Len(Pipeline[j]) /\ Deferred(j) \subseteq 1..Len(Pipeline[j])
    BY RankLemma DEF AbortFrom
  <2>2. \A h \in from..Len(Pipeline[j]) : h \in 1..Len(Pipeline[j])
    BY <2>1
  <2>3. \A h \in 1..Len(Pipeline[j]) : Pipeline[j][h] \in Procs
    BY ProcLemma
  <2>4. completed \subseteq Procs
    BY <1>1 DEF TypeOK
  <2>. QED
    BY <1>3, <2>1, <2>2, <2>3, <2>4
<1>5. next' \in [Jobs -> Nat] /\ \A h \in Jobs : next'[h] >= 1
  BY <1>1, <1>2 DEF TypeOK, StageInv
<1>6. completed' \subseteq Procs /\ completed \subseteq completed' /\ jobList' \subseteq Jobs
  BY <1>1, <1>2, <1>4 DEF TypeOK
<1>7. TypeOK'
  BY <1>1, <1>2, <1>5, <1>6 DEF TypeOK, topics, kernel, exits, States
<1>8. GensInv' /\ StageInv' /\ KernelInv'
  BY <1>1, <1>2, <1>5 DEF GensInv, StageInv, KernelInv, topics, kernel
<1>9. NewsInv'
  BY <1>1, <1>2, <1>6 DEF NewsInv, topics, kernel
<1>10. ExitAnnouncedOnce'
  BY <1>1, <1>2 DEF ExitAnnouncedOnce, exits
<1>. QED
  BY <1>7, <1>8, <1>9, <1>10 DEF IInv

(* SIGCONT to stopped children: either nothing changes or SIGCHLD pends.   *)
LEMMA ContinueLemma ==
  ASSUME TypeOK, KernelInv, NEW group,
         \A k \in group : kern[k] = "stopped",
         group \subseteq Pids,
         kern' = [k \in Pids |-> IF k \in group THEN "running" ELSE kern[k]],
         report' = [k \in Pids |-> IF k \in group THEN "continued" ELSE report[k]],
         sigchld' = (sigchld \/ group # {})
  PROVE  /\ kern' \in [Pids -> {"free", "running", "stopped", "zombie"}]
         /\ report' \in [Pids -> {"none", "stopped", "continued"}]
         /\ sigchld' \in BOOLEAN
         /\ KernelInv'
         /\ sigchld' \/ (~sigchld /\ UNCHANGED <<kern, report>>)
<1>1. /\ kern' \in [Pids -> {"free", "running", "stopped", "zombie"}]
      /\ report' \in [Pids -> {"none", "stopped", "continued"}]
  BY DEF TypeOK
<1>2. sigchld' \in BOOLEAN
  BY DEF TypeOK
<1>3. KernelInv'
  BY DEF KernelInv
<1>4. ASSUME ~sigchld' PROVE ~sigchld /\ UNCHANGED <<kern, report>>
  <2>1. ~sigchld /\ group = {}
    BY <1>4
  <2>. QED
    BY <2>1 DEF TypeOK
<1>. QED
  BY <1>1, <1>2, <1>3, <1>4

LEMMA ResumeKeeps ==
  ASSUME IInv, NEW j \in Jobs, Resume(j)
  PROVE  IInv'
<1>1. TypeOK /\ GensInv /\ StageInv /\ KernelInv /\ NewsInv /\ ExitAnnouncedOnce
  BY DEF IInv
<1>. DEFINE group == {k \in {pid[p] : p \in ExternalProcs(j) \ completed} : kern[k] = "stopped"}
<1>2. group \subseteq Pids
  <2>1. \A p \in ExternalProcs(j) : pid[p] \in Pids
    BY <1>1, ProcLemma DEF ExternalProcs, TypeOK
  <2>. QED
    BY <2>1
<1>3. /\ kern' = [k \in Pids |-> IF k \in group THEN "running" ELSE kern[k]]
      /\ report' = [k \in Pids |-> IF k \in group THEN "continued" ELSE report[k]]
      /\ sigchld' = (sigchld \/ group # {})
      /\ \A k \in group : kern[k] = "stopped"
  BY DEF Resume
<1>. HIDE DEF group
<1>4. /\ kern' \in [Pids -> {"free", "running", "stopped", "zombie"}]
      /\ report' \in [Pids -> {"none", "stopped", "continued"}]
      /\ sigchld' \in BOOLEAN
      /\ KernelInv'
      /\ sigchld' \/ (~sigchld /\ UNCHANGED <<kern, report>>)
  BY <1>1, <1>2, <1>3, ContinueLemma
<1>5. /\ UNCHANGED <<topics, signals, jobList, constructed, grouped, next, pid, iproc, gens, completed,
                     exits, pc, reapgens, todo, cleaning>>
      /\ stopped' = stopped \ ToSet(Pipeline[j]) /\ fg' = j
  BY DEF Resume
<1>6. TypeOK'
  BY <1>1, <1>4, <1>5 DEF TypeOK, topics, exits
<1>7. GensInv' /\ StageInv' /\ ExitAnnouncedOnce'
  BY <1>1, <1>5 DEF GensInv, StageInv, ExitAnnouncedOnce, topics, exits
<1>8. NewsInv'
  BY <1>1, <1>4, <1>5 DEF NewsInv, topics
<1>. QED
  BY <1>4, <1>6, <1>7, <1>8 DEF IInv

LEMMA DisownKeeps ==
  ASSUME IInv, NEW j \in Jobs, Disown(j)
  PROVE  IInv'
<1>1. TypeOK /\ GensInv /\ StageInv /\ KernelInv /\ NewsInv /\ ExitAnnouncedOnce
  BY DEF IInv
<1>. DEFINE group == {k \in {pid[p] : p \in ExternalProcs(j) \ completed} : kern[k] = "stopped"}
<1>a. {pid[p] : p \in ExternalProcs(j)} \subseteq Pids
  <2>1. \A p \in ExternalProcs(j) : pid[p] \in Pids
    BY <1>1, ProcLemma DEF ExternalProcs, TypeOK
  <2>. QED
    BY <2>1
<1>2. group \subseteq Pids /\ \A k \in group : kern[k] = "stopped"
  BY <1>a
<1>3. \/ /\ kern' = [k \in Pids |-> IF k \in group THEN "running" ELSE kern[k]]
         /\ report' = [k \in Pids |-> IF k \in group THEN "continued" ELSE report[k]]
         /\ sigchld' = (sigchld \/ group # {})
      \/ UNCHANGED kernel
  BY DEF Disown
<1>. HIDE DEF group
<1>4. /\ kern' \in [Pids -> {"free", "running", "stopped", "zombie"}]
      /\ report' \in [Pids -> {"none", "stopped", "continued"}]
      /\ sigchld' \in BOOLEAN
      /\ KernelInv'
      /\ sigchld' \/ (~sigchld /\ UNCHANGED <<kern, report>>)
  <2>1. CASE UNCHANGED kernel
    BY <1>1, <2>1 DEF kernel, TypeOK, KernelInv
  <2>2. CASE ~UNCHANGED kernel
    BY <1>1, <1>2, <1>3, <2>2, ContinueLemma
  <2>. QED
    BY <2>1, <2>2
<1>5. /\ UNCHANGED <<topics, signals, jobs, events, fired, main>>
      /\ disowning' = disowning \cup {j}
      /\ disowned' = disowned \cup {pid[p] : p \in ExternalProcs(j)}
  BY DEF Disown
<1>6. TypeOK'
  BY <1>1, <1>4, <1>5, <1>a DEF TypeOK, topics, jobs, main
<1>7. GensInv' /\ StageInv' /\ ExitAnnouncedOnce'
  BY <1>1, <1>5 DEF GensInv, StageInv, ExitAnnouncedOnce, topics, jobs, main
<1>8. NewsInv'
  BY <1>1, <1>4, <1>5 DEF NewsInv, topics, jobs
<1>. QED
  BY <1>4, <1>6, <1>7, <1>8 DEF IInv

-----------------------------------------------------------------------------
(* Reaping: the looks at the topics. *)
LEMMA LookKeeps ==
  ASSUME IInv, AwaitForeground \/ StartReap \/ NothingToReap \/ FoundChange
  PROVE  IInv'
<1>1. TypeOK /\ GensInv /\ StageInv /\ KernelInv /\ NewsInv /\ ExitAnnouncedOnce
  BY DEF IInv
<1>2. /\ UNCHANGED <<posts, published, kernel, signals, jobs, exits, cleaning>>
      /\ seen' = seen \/ seen' = published
      /\ reapgens' = reapgens \/ (reapgens' = published /\ seen' = published)
      /\ fg' \in {fg, None}
  BY DEF AwaitForeground, StartReap, NothingToReap, FoundChange, topics
<1>3. pc' \in States
  BY <1>1 DEF AwaitForeground, StartReap, NothingToReap, FoundChange, TypeOK, States, AfterMark
<1>4. todo' \subseteq Procs
  <2>1. ListedProcs \subseteq Procs
    BY <1>1, ProcLemma DEF ListedProcs, TypeOK
  <2>. QED
    BY <1>1, <2>1 DEF AwaitForeground, StartReap, NothingToReap, FoundChange, TypeOK
<1>5. TypeOK'
  BY <1>1, <1>2, <1>3, <1>4 DEF TypeOK, kernel, jobs, exits
<1>6. GensInv'
  <2>1. \A t \in Topics :
          /\ published[t] \in Nat /\ seen[t] \in Nat /\ reapgens[t] \in Nat
          /\ \A p \in Procs : gens[p][t] \in Nat
    BY <1>1 DEF TypeOK
  <2>. QED
    BY <1>1, <1>2, <2>1 DEF GensInv, jobs
<1>7. StageInv' /\ KernelInv' /\ NewsInv' /\ ExitAnnouncedOnce'
  BY <1>1, <1>2 DEF StageInv, KernelInv, NewsInv, ExitAnnouncedOnce, kernel, jobs, exits
<1>. QED
  BY <1>5, <1>6, <1>7 DEF IInv

(* What waitpid() tells of a child is told once, and a child that exited   *)
(* leaves its process completed.                                           *)
LEMMA WaitpidLemma ==
  ASSUME TypeOK, KernelInv, NEW p \in Procs, pid[p] \in Pids, Waitpid(p)
  PROVE  /\ kern' \in [Pids -> {"free", "running", "stopped", "zombie"}]
         /\ report' \in [Pids -> {"none", "stopped", "continued"}]
         /\ completed' \subseteq Procs /\ completed \subseteq completed'
         /\ stopped' \subseteq Procs
         /\ KernelInv'
         /\ kern'[pid[p]] # "zombie" /\ report'[pid[p]] = "none"
         /\ \A k \in Pids : k # pid[p] => kern'[k] = kern[k] /\ report'[k] = report[k]
<1>. DEFINE k == pid[p]
<1>1. CASE kern[k] = "zombie"
  <2>1. /\ kern' = [kern EXCEPT ![k] = "free"] /\ completed' = completed \cup {p}
        /\ UNCHANGED <<report, stopped>>
    BY <1>1 DEF Waitpid
  <2>. QED
    BY <1>1, <2>1 DEF TypeOK, KernelInv
<1>2. CASE kern[k] \in {"running", "stopped"} /\ report[k] \in {"stopped", "continued"}
  <2>1. /\ report' = [report EXCEPT ![k] = "none"]
        /\ UNCHANGED <<kern, completed>>
        /\ stopped' \in {stopped \cup {p}, stopped \ {p}}
    BY <1>2 DEF Waitpid
  <2>. QED
    BY <1>2, <2>1 DEF TypeOK, KernelInv
<1>3. CASE kern[k] # "zombie" /\ ~(kern[k] \in {"running", "stopped"} /\ report[k] \in {"stopped", "continued"})
  <2>1. UNCHANGED <<kern, report, completed, stopped>>
    BY <1>3 DEF Waitpid
  <2>2. report[k] = "none"
    BY <1>3 DEF TypeOK, KernelInv
  <2>. QED
    BY <1>3, <2>1, <2>2 DEF TypeOK, KernelInv
<1>. QED
  BY <1>1, <1>2, <1>3

(* The first loop.  A process that takes the generations which were found  *)
(* without asking waitpid() had them already.                              *)
LEMMA ReapExternalKeeps ==
  ASSUME IInv, NEW p \in Procs, ReapExternal(p)
  PROVE  IInv'
<1>1. TypeOK /\ GensInv /\ StageInv /\ KernelInv /\ NewsInv /\ ExitAnnouncedOnce
  BY DEF IInv
<1>2. /\ UNCHANGED <<topics, sigchld, signals, jobList, constructed, grouped, next, pid, iproc, exits, pc,
                     fg, reapgens, cleaning>>
      /\ todo' = todo \ {p} /\ pid[p] # None
  BY DEF ReapExternal
<1>3. p \in External /\ pid[p] \in Pids
  BY <1>1, <1>2 DEF StageInv, TypeOK
<1>a. "sighupint" \in Topics /\ "sigchld" \in Topics /\ "internal_exit" \in Topics
  BY DEF Topics
<1>4. CASE ~CanReap(p)
  <2>1. UNCHANGED <<gens, kern, report, completed, stopped>>
    BY <1>4 DEF ReapExternal
  <2>2. TypeOK'
    BY <1>1, <1>2, <2>1 DEF TypeOK, topics, exits
  <2>. QED
    BY <1>1, <1>2, <2>1, <2>2
       DEF IInv, GensInv, StageInv, KernelInv, NewsInv, ExitAnnouncedOnce, topics, exits
<1>5. CASE CanReap(p)
  <2>1. gens' = [gens EXCEPT ![p]["sighupint"] = reapgens["sighupint"],
                             ![p]["sigchld"] = reapgens["sigchld"]]
    BY <1>5 DEF ReapExternal
  <2>2. \/ gens[p]["sigchld"] = reapgens["sigchld"] /\ UNCHANGED <<kern, report, completed, stopped>>
        \/ Waitpid(p)
    BY <1>5 DEF ReapExternal
  <2>3. /\ gens' \in [Procs -> [Topics -> Nat]]
        /\ gens'[p]["sigchld"] = reapgens["sigchld"]
        /\ \A q \in Procs : q # p => gens'[q] = gens[q]
        /\ \A q \in Procs, t \in Topics : gens'[q][t] = gens[q][t] \/ gens'[q][t] = reapgens[t]
    BY <1>1, <1>a, <2>1 DEF TypeOK
  <2>4. /\ kern' \in [Pids -> {"free", "running", "stopped", "zombie"}]
        /\ report' \in [Pids -> {"none", "stopped", "continued"}]
        /\ completed' \subseteq Procs /\ completed \subseteq completed'
        /\ stopped' \subseteq Procs
        /\ KernelInv'
    BY <1>1, <1>3, <2>2, WaitpidLemma DEF TypeOK, KernelInv
  <2>5. TypeOK'
    BY <1>1, <1>2, <2>3, <2>4 DEF TypeOK, topics, exits
  <2>6. GensInv'
    <3>1. \A t \in Topics : seen'[t] = seen[t] /\ published'[t] = published[t]
                            /\ reapgens'[t] = reapgens[t]
      BY <1>2 DEF topics
    <3>. QED
      BY <1>1, <2>3, <3>1 DEF GensInv
  <2>7. StageInv' /\ ExitAnnouncedOnce'
    BY <1>1, <1>2 DEF StageInv, ExitAnnouncedOnce, exits
  <2>8. NewsInv'
    <3>1. \A q \in Procs : q \notin External => gens'[q] = gens[q]
      BY <1>3, <2>3
    <3>2. UNCHANGED <<published, sigchld, pid, iproc>>
      BY <1>2 DEF topics
    <3>3. CASE gens[p]["sigchld"] = reapgens["sigchld"] /\ UNCHANGED <<kern, report, completed, stopped>>
      <4>1. \A q \in Procs : gens'[q]["sigchld"] = gens[q]["sigchld"]
        BY <2>3, <3>3
      <4>. QED
        BY <1>1, <3>1, <3>2, <3>3, <4>1 DEF NewsInv
    <3>4. CASE Waitpid(p)
      <4>1. /\ kern'[pid[p]] # "zombie" /\ report'[pid[p]] = "none"
            /\ \A k \in Pids : k # pid[p] => kern'[k] = kern[k] /\ report'[k] = report[k]
        BY <1>1, <1>3, <3>4, WaitpidLemma
      <4>2. \A q \in Procs : pid[q] # None => pid[q] \in Pids
        BY <1>1 DEF TypeOK
      <4>. QED
        BY <1>1, <2>3, <2>4, <3>1, <3>2, <4>1, <4>2 DEF NewsInv
    <3>. QED
      BY <2>2, <3>3, <3>4
  <2>. QED
    BY <2>4, <2>5, <2>6, <2>7, <2>8 DEF IInv
<1>. QED
  BY <1>4, <1>5

(* The second loop: as much of internal processes. *)
LEMMA ReapInternalKeeps ==
  ASSUME IInv, NEW p \in Procs, ReapInternal(p)
  PROVE  IInv'
<1>1. TypeOK /\ GensInv /\ StageInv /\ KernelInv /\ NewsInv /\ ExitAnnouncedOnce
  BY DEF IInv
<1>2. /\ UNCHANGED <<topics, kernel, signals, jobList, constructed, grouped, next, pid, iproc, stopped,
                     exits, pc, fg, reapgens, cleaning>>
      /\ todo' = todo \ {p} /\ pid[p] = None
  BY DEF ReapInternal
<1>a. "sighupint" \in Topics /\ "sigchld" \in Topics /\ "internal_exit" \in Topics
  BY DEF Topics
<1>3. CASE ~CanReap(p)
  <2>1. UNCHANGED <<gens, completed>>
    BY <1>3 DEF ReapInternal
  <2>2. TypeOK'
    BY <1>1, <1>2, <2>1 DEF TypeOK, topics, kernel, exits
  <2>. QED
    BY <1>1, <1>2, <2>1, <2>2
       DEF IInv, GensInv, StageInv, KernelInv, NewsInv, ExitAnnouncedOnce, topics, kernel, exits
<1>4. CASE CanReap(p)
  <2>1. gens' = [gens EXCEPT ![p]["sighupint"] = reapgens["sighupint"],
                             ![p]["internal_exit"] = reapgens["internal_exit"]]
    BY <1>4 DEF ReapInternal
  <2>2. /\ completed' \subseteq Procs /\ completed \subseteq completed'
        /\ p \notin completed' /\ iproc[p] = "posted"
           => gens[p]["internal_exit"] = reapgens["internal_exit"]
    BY <1>1, <1>4 DEF ReapInternal, TypeOK
  <2>3. /\ gens' \in [Procs -> [Topics -> Nat]]
        /\ gens'[p]["internal_exit"] = reapgens["internal_exit"]
        /\ \A q \in Procs : q # p => gens'[q] = gens[q]
        /\ \A q \in Procs, t \in Topics : gens'[q][t] = gens[q][t] \/ gens'[q][t] = reapgens[t]
    BY <1>1, <1>a, <2>1 DEF TypeOK
  <2>4. TypeOK'
    BY <1>1, <1>2, <2>2, <2>3 DEF TypeOK, topics, kernel, exits
  <2>5. GensInv'
    <3>1. \A t \in Topics : seen'[t] = seen[t] /\ published'[t] = published[t]
                            /\ reapgens'[t] = reapgens[t]
      BY <1>2 DEF topics
    <3>. QED
      BY <1>1, <2>3, <3>1 DEF GensInv
  <2>6. StageInv' /\ KernelInv' /\ ExitAnnouncedOnce'
    BY <1>1, <1>2 DEF StageInv, KernelInv, ExitAnnouncedOnce, kernel, exits
  <2>7. NewsInv'
    <3>1. UNCHANGED <<published, sigchld, kern, report, pid, iproc>>
      BY <1>2 DEF topics, kernel
    <3>. QED
      BY <1>1, <1>2, <2>2, <2>3, <3>1 DEF NewsInv
  <2>. QED
    BY <2>4, <2>5, <2>6, <2>7 DEF IInv
<1>. QED
  BY <1>3, <1>4

LEMMA ReapDisownedKeeps ==
  ASSUME IInv, ReapDisowned
  PROVE  IInv'
<1>1. TypeOK /\ GensInv /\ StageInv /\ KernelInv /\ NewsInv /\ ExitAnnouncedOnce
  BY DEF IInv
<1>2. /\ UNCHANGED <<topics, report, sigchld, signals, jobs, disowning, events, fired, fg, todo,
                     cleaning>>
      /\ disowned' = {k \in disowned : kern[k] \in {"running", "stopped"}}
      /\ kern' = [k \in Pids |-> IF k \in disowned /\ kern[k] = "zombie" THEN "free" ELSE kern[k]]
      /\ pc' \in {"eval", "clean"} /\ reapgens' = Zero
  BY DEF ReapDisowned
<1>3. kern' \in [Pids -> {"free", "running", "stopped", "zombie"}]
      /\ \A k \in Pids : kern'[k] = kern[k] \/ (kern'[k] = "free" /\ kern[k] = "zombie")
  BY <1>1, <1>2 DEF TypeOK
<1>4. reapgens' \in [Topics -> Nat] /\ \A t \in Topics : reapgens'[t] = 0
  BY <1>2 DEF Zero
<1>5. disowned' \subseteq Pids /\ pc' \in States
  BY <1>1, <1>2 DEF TypeOK, States
<1>6. TypeOK'
  BY <1>1, <1>2, <1>3, <1>4, <1>5 DEF TypeOK, topics, jobs
<1>7. GensInv'
  <2>1. \A t \in Topics : seen[t] \in Nat
    BY <1>1 DEF TypeOK
  <2>. QED
    BY <1>1, <1>2, <1>4, <2>1 DEF GensInv, topics, jobs
<1>8. StageInv' /\ KernelInv' /\ ExitAnnouncedOnce'
  BY <1>1, <1>2, <1>3 DEF StageInv, KernelInv, ExitAnnouncedOnce, jobs
<1>9. NewsInv'
  <2>1. \A q \in Procs : pid[q] # None => pid[q] \in Pids
    BY <1>1 DEF TypeOK
  <2>. QED
    BY <1>1, <1>2, <1>3, <2>1 DEF NewsInv, topics, jobs
<1>. QED
  BY <1>6, <1>7, <1>8, <1>9 DEF IInv

-----------------------------------------------------------------------------
(* Cleaning.  A job that leaves is disowned or its exits are announced.    *)
LEMMA CleanKeeps ==
  ASSUME IInv, Clean
  PROVE  IInv'
<1>1. TypeOK /\ GensInv /\ StageInv /\ KernelInv /\ NewsInv /\ ExitAnnouncedOnce
  BY DEF IInv
<1>. DEFINE kept == {j \in jobList : j \notin disowning \/ j \notin constructed}
            done == {j \in kept : j \in constructed /\ JobCompleted(j)}
            new == {p \in UNION {ExternalProcs(j) : j \in kept} :
                      p \in completed /\ p \notin events /\ fired[p] = 0}
<1>2. /\ UNCHANGED <<topics, kernel, signals, constructed, grouped, next, pid, iproc, gens, completed,
                     stopped, disowned, disowning, fired, fg, reapgens, todo>>
      /\ pc' = "eval"
  BY DEF Clean
<1>3. \/ UNCHANGED <<jobList, events, cleaning>>
      \/ jobList' = kept \ done /\ events' = events \cup new /\ cleaning' = (new # {})
  BY DEF Clean
<1>4. new \subseteq Procs /\ kept \ done \subseteq jobList
  BY <1>1, ProcLemma DEF ExternalProcs, TypeOK
<1>5. \A p \in Procs :
        JobOf(p) \in jobList \ (kept \ done) /\ JobOf(p) \in constructed /\ JobOf(p) \notin disowning
        /\ pid[p] # None
        => p \in new \/ p \in events \/ fired[p] # 0
  <2>. SUFFICES ASSUME NEW p \in Procs, JobOf(p) \in done, pid[p] # None
                PROVE  p \in new \/ p \in events \/ fired[p] # 0
    OBVIOUS
  <2>1. p \in ExternalProcs(JobOf(p)) /\ p \in completed
    BY ProcLemma DEF ExternalProcs, JobCompleted
  <2>. QED
    BY <2>1
<1>6. \A p \in new : p \notin events /\ fired[p] = 0
  OBVIOUS
<1>. HIDE DEF kept, done, new
<1>7. TypeOK'
  <2>1. jobList' \subseteq Jobs /\ events' \subseteq Procs
    BY <1>1, <1>3, <1>4 DEF TypeOK
  <2>2. cleaning' \in BOOLEAN
    BY <1>1, <1>3 DEF TypeOK
  <2>. QED
    BY <1>1, <1>2, <2>1, <2>2 DEF TypeOK, topics, kernel, States
<1>8. GensInv' /\ StageInv' /\ KernelInv' /\ NewsInv'
  BY <1>1, <1>2 DEF GensInv, StageInv, KernelInv, NewsInv, topics, kernel
<1>9. ExitAnnouncedOnce'
  <2>1. CASE UNCHANGED <<jobList, events, cleaning>>
    BY <1>1, <1>2, <2>1 DEF ExitAnnouncedOnce
  <2>2. CASE jobList' = kept \ done /\ events' = events \cup new
    <3>1. \A p \in Procs : fired'[p] + (IF p \in events' THEN 1 ELSE 0) <= 1
      BY <1>1, <1>2, <1>6, <2>2 DEF ExitAnnouncedOnce
    <3>2. \A p \in Procs : fired[p] # 0 => fired[p] = 1
      <4>1. \A p \in Procs : fired[p] \in {0, 1, 2}
        BY <1>1 DEF TypeOK
      <4>2. \A p \in Procs : fired[p] <= 1
        <5>1. \A p \in Procs : fired[p] + (IF p \in events THEN 1 ELSE 0) <= 1
          BY <1>1 DEF ExitAnnouncedOnce
        <5>. QED
          BY <4>1, <5>1
      <4>. QED
        BY <4>1, <4>2
    <3>3. ASSUME NEW p \in Procs, JobOf(p) \in constructed' \ (jobList' \cup disowning'), pid'[p] # None
          PROVE  fired'[p] = 1 \/ p \in events'
      <4>1. CASE JobOf(p) \in jobList
        BY <1>2, <1>5, <2>2, <3>2, <3>3, <4>1
      <4>2. CASE JobOf(p) \notin jobList
        BY <1>1, <1>2, <2>2, <3>3, <4>2 DEF ExitAnnouncedOnce
      <4>. QED
        BY <4>1, <4>2
    <3>. QED
      BY <3>1, <3>3 DEF ExitAnnouncedOnce
  <2>. QED
    BY <1>3, <2>1, <2>2
<1>. QED
  BY <1>7, <1>8, <1>9 DEF IInv

LEMMA FireKeeps ==
  ASSUME IInv, NEW p \in Procs, FireEvent(p)
  PROVE  IInv'
<1>1. TypeOK /\ GensInv /\ StageInv /\ KernelInv /\ NewsInv /\ ExitAnnouncedOnce
  BY DEF IInv
<1>2. /\ UNCHANGED <<topics, kernel, signals, jobs, disowned, disowning, pc, fg, reapgens, todo>>
      /\ p \in events /\ events' = events \ {p} /\ fired' = [fired EXCEPT ![p] = @ + 1]
      /\ cleaning' = (events' # {})
  BY DEF FireEvent
<1>3. fired[p] = 0
  <2>1. fired[p] \in {0, 1, 2}
    BY <1>1 DEF TypeOK
  <2>2. fired[p] + 1 <= 1
    BY <1>1, <1>2 DEF ExitAnnouncedOnce
  <2>. QED
    BY <2>1, <2>2
<1>4. /\ fired'[p] = 1 /\ fired' \in [Procs -> 0..2]
      /\ \A q \in Procs : q # p => fired'[q] = fired[q]
  BY <1>1, <1>2, <1>3 DEF TypeOK
<1>5. TypeOK'
  <2>1. events' \subseteq Procs /\ cleaning' \in BOOLEAN
    BY <1>1, <1>2 DEF TypeOK
  <2>. QED
    BY <1>1, <1>2, <1>4, <2>1 DEF TypeOK, topics, kernel, jobs
<1>6. GensInv' /\ StageInv' /\ KernelInv' /\ NewsInv'
  BY <1>1, <1>2 DEF GensInv, StageInv, KernelInv, NewsInv, topics, kernel, jobs
<1>7. ExitAnnouncedOnce'
  BY <1>1, <1>2, <1>4 DEF ExitAnnouncedOnce, jobs
<1>. QED
  BY <1>5, <1>6, <1>7 DEF IInv

-----------------------------------------------------------------------------
(* Every step, and so every behaviour, keeps the invariant. *)
LEMMA StepInvariant == IInv /\ [Next]_vars => IInv'
<1>. SUFFICES ASSUME IInv, [Next]_vars PROVE IInv'
  OBVIOUS
<1>1. CASE UNCHANGED vars
  <2>1. UNCHANGED <<topics, kernel, signals, jobs, exits, main>>
    BY <1>1 DEF vars
  <2>. QED
    BY <2>1 DEF IInv, TypeOK, GensInv, StageInv, KernelInv, NewsInv, ExitAnnouncedOnce,
                topics, kernel, jobs, exits, main
<1>2. CASE MainStep
  <2>1. CASE \E j \in Jobs, p \in Procs : RecordGenerations(j, p) \/ RunInternal(j, p)
    BY <2>1, RecordKeeps
  <2>2. CASE \E j \in Jobs, p \in Procs : ShortCircuit(j, p) \/ SetPid(j, p)
    BY <2>2, LaunchedKeeps
  <2>3. CASE \E j \in Jobs, p \in Procs, k \in Pids : Fork(j, p, k)
    BY <2>3, ForkKeeps
  <2>4. CASE \E j \in Jobs : Construct(j)
    BY <2>4, StartJobKeeps
  <2>5. CASE AwaitForeground \/ NothingToReap \/ FoundChange
    BY <2>5, LookKeeps
  <2>6. CASE \E p \in Procs : ReapExternal(p)
    BY <2>6, ReapExternalKeeps
  <2>7. CASE \E p \in Procs : ReapInternal(p)
    BY <2>7, ReapInternalKeeps
  <2>8. CASE \E p \in Procs : FireEvent(p)
    BY <2>8, FireKeeps
  <2>9. CASE ReapDisowned
    BY <2>9, ReapDisownedKeeps
  <2>10. CASE Clean
    BY <2>10, CleanKeeps
  <2>. QED
    BY <1>2, <2>1, <2>2, <2>3, <2>4, <2>5, <2>6, <2>7, <2>8, <2>9, <2>10 DEF MainStep
<1>3. CASE \E j \in Jobs : StartJob(j)
  BY <1>3, StartJobKeeps
<1>4. CASE \E j \in Jobs : Resume(j)
  BY <1>4, ResumeKeeps
<1>5. CASE \E j \in Jobs : Disown(j)
  BY <1>5, DisownKeeps
<1>6. CASE \E j \in Jobs : \E i \in 1..Len(Pipeline[j]) : LaunchFails(j, i)
  BY <1>6, LaunchFailsKeeps
<1>7. CASE StartReap
  BY <1>7, LookKeeps
<1>8. CASE \E k \in Pids : Exit(k) \/ StopOrContinue(k)
  BY <1>8, ChildKeeps
<1>9. CASE HandleSigchld \/ HandleSigint
  BY <1>9, HandlerKeeps
<1>10. CASE \E p \in Procs : InternalExits(p) \/ InternalPosts(p)
  BY <1>10, InternalKeeps
<1>. QED
  BY <1>1, <1>2, <1>3, <1>4, <1>5, <1>6, <1>7, <1>8, <1>9, <1>10 DEF Next

(* Types, generations, stages and news stay consistent, for any jobs,      *)
(* pipelines and pids (the launches and the reaping of src/src/exec.rs and *)
(* src/src/proc.rs).                                                       *)
THEOREM Invariance == Spec => []IInv
<1>. QED
  BY InitInvariant, StepInvariant, PTL DEF Spec

(* No exit, stop or continue is missed: the process whose news has been    *)
(* announced is behind on its topic (process_mark_finished_children).      *)
THEOREM NoNewsIsMissed == Spec => []NoMissedNews
<1>1. IInv => NoMissedNews
  <2>. SUFFICES ASSUME IInv, NEW p \in Procs, Waits(p), HasNews(p)
                PROVE  gens[p][IF p \in External THEN "sigchld" ELSE "internal_exit"]
                         < published[IF p \in External THEN "sigchld" ELSE "internal_exit"]
    BY DEF NoMissedNews
  <2>1. p \in Procs \ completed
    BY DEF Waits
  <2>. QED
    BY <2>1 DEF IInv, NewsInv, HasNews
<1>. QED
  BY <1>1, Invariance, PTL

(* The exit of each process of a job is announced by process_exit once,    *)
(* and before the job leaves the list (process_clean_after_marking).       *)
THEOREM ExitsAreAnnouncedOnce == Spec => []ExitAnnouncedOnce
<1>1. IInv => ExitAnnouncedOnce
  BY DEF IInv
<1>. QED
  BY <1>1, Invariance, PTL

-----------------------------------------------------------------------------
(* The leader of a pipeline under construction.  First how far a pipeline  *)
(* was launched: a process with a pid is not behind the next one, and an   *)
(* external process that was given up is of a pipeline that was.  A job    *)
(* that is still to come has no pid, and a group has a child as leader.    *)
LaunchInv ==
  /\ \A p \in Procs \cap External : iproc[p] \in {"forked", "posted"} => pid[p] # None
  /\ \A j \in Jobs : \A i \in 1..Len(Pipeline[j]) :
       /\ pid[Pipeline[j][i]] # None => Rank(j, i) <= next[j]
       /\ Pipeline[j][i] \in External \cap completed /\ pid[Pipeline[j][i]] = None
          => next[j] > Len(Pipeline[j])

ToCome == {j \in Jobs \ (jobList \cup constructed) : next[j] = 1}
GroupInv ==
  /\ \A j \in ToCome : \A i \in 1..Len(Pipeline[j]) : pid[Pipeline[j][i]] = None
  /\ \A j \in grouped : Pipeline[j][1] \in External

(* Nobody completes a leader while its pipeline is under construction.     *)
LeadersWait ==
  \A j \in grouped \ constructed : Pgid(j) # None => Pipeline[j][1] \notin completed

(* As long as nothing was disowned, a pid is of one process which fish     *)
(* waits for, and the kernel does not give it to another one.              *)
OwnersInv ==
  disowning = {} =>
    /\ disowned = {}
    /\ \A p \in Procs \ completed : pid[p] # None => kern[pid[p]] # "free"
    /\ \A p, q \in Procs \ completed : pid[p] # None /\ pid[p] = pid[q] => p = q

LeaderInv == LaunchInv /\ GroupInv /\ LeadersWait /\ OwnersInv

(* The leader of a group is one of the processes of its job. *)
LEMMA LeaderLemma ==
  ASSUME TypeOK, NEW j \in grouped
  PROVE  /\ j \in Jobs /\ 1 \in 1..Len(Pipeline[j])
         /\ Pipeline[j][1] \in Procs /\ JobOf(Pipeline[j][1]) = j
         /\ Pgid(j) = pid[Pipeline[j][1]]
<1>1. j \in Jobs
  BY DEF TypeOK
<1>2. 1 \in 1..Len(Pipeline[j])
  BY <1>1
<1>. QED
  BY <1>1, <1>2, ProcLemma DEF Pgid

(* A step that gives no pid, completes only processes that have none, and  *)
(* frees no pid while nothing was disowned.                                *)
Quiet ==
  /\ UNCHANGED pid
  /\ constructed \subseteq constructed'
  /\ \A j \in Jobs : next[j] <= next'[j]
  /\ jobList \subseteq jobList' \cup constructed' \cup {j \in Jobs : next'[j] > 1}
  /\ \A j \in grouped' \ grouped : j \in ToCome /\ Pipeline[j][1] \in External
  /\ \A p \in Procs \cap External :
       iproc'[p] \in {"forked", "posted"} => iproc[p] \in {"forked", "posted"}
  /\ completed \subseteq completed'
  /\ \A p \in (completed' \ completed) \cap External \cap Procs :
       pid[p] = None /\ next'[JobOf(p)] > Len(Pipeline[JobOf(p)])
  /\ disowning' = {} => /\ disowning = {} /\ (disowned = {} => disowned' = {} /\ UNCHANGED kern)
                     \/ /\ disowning = {} /\ UNCHANGED disowned
                        /\ \A k \in Pids : kern[k] # "free" => kern'[k] # "free"

LEMMA QuietKeeps ==
  ASSUME TypeOK, TypeOK', StageInv, LeaderInv, Quiet
  PROVE  LeaderInv'
<1>1. LaunchInv /\ GroupInv /\ LeadersWait /\ OwnersInv
  BY DEF LeaderInv
<1>2. LaunchInv'
  <2>1. \A p \in Procs \cap External : iproc'[p] \in {"forked", "posted"} => pid'[p] # None
    BY <1>1 DEF LaunchInv, Quiet
  <2>2. ASSUME NEW j \in Jobs, NEW i \in 1..Len(Pipeline[j])
        PROVE  /\ pid'[Pipeline[j][i]] # None => Rank(j, i) <= next'[j]
               /\ Pipeline[j][i] \in External \cap completed' /\ pid'[Pipeline[j][i]] = None
                  => next'[j] > Len(Pipeline[j])
    <3>1. /\ next[j] \in Nat /\ next'[j] \in Nat /\ next[j] <= next'[j]
          /\ Rank(j, i) \in Nat /\ Len(Pipeline[j]) \in Nat
      BY RankLemma DEF TypeOK, Quiet
    <3>2. Pipeline[j][i] \in Procs /\ JobOf(Pipeline[j][i]) = j
      BY ProcLemma
    <3>3. UNCHANGED pid
      BY DEF Quiet
    <3>4. pid[Pipeline[j][i]] # None => Rank(j, i) <= next[j]
      BY <1>1 DEF LaunchInv
    <3>5. CASE Pipeline[j][i] \in completed
      <4>1. Pipeline[j][i] \in External /\ pid[Pipeline[j][i]] = None => next[j] > Len(Pipeline[j])
        BY <1>1, <3>5 DEF LaunchInv
      <4>. QED
        BY <3>1, <3>3, <3>4, <4>1
    <3>6. CASE Pipeline[j][i] \notin completed
      <4>1. Pipeline[j][i] \in External \cap completed' => next'[j] > Len(Pipeline[j])
        BY <3>2, <3>6 DEF Quiet
      <4>. QED
        BY <3>1, <3>3, <3>4, <4>1
    <3>. QED
      BY <3>5, <3>6
  <2>. QED
    BY <2>1, <2>2 DEF LaunchInv
<1>3. GroupInv'
  <2>1. ToCome' \subseteq ToCome
    <3>. SUFFICES ASSUME NEW j \in Jobs, j \notin jobList', j \notin constructed', next'[j] = 1
                  PROVE  j \in ToCome
      BY DEF ToCome
    <3>1. j \notin jobList /\ j \notin constructed
      BY DEF Quiet
    <3>2. next[j] = 1
      BY DEF Quiet, StageInv, TypeOK
    <3>. QED
      BY <3>1, <3>2 DEF ToCome
  <2>2. \A j \in ToCome' : \A i \in 1..Len(Pipeline[j]) : pid'[Pipeline[j][i]] = None
    BY <1>1, <2>1 DEF GroupInv, Quiet
  <2>3. \A j \in grouped' : Pipeline[j][1] \in External
    BY <1>1 DEF GroupInv, Quiet
  <2>. QED
    BY <2>2, <2>3 DEF GroupInv
<1>5. LeadersWait'
  <2>. SUFFICES ASSUME NEW j \in grouped' \ constructed', Pgid(j)' # None
                PROVE  Pipeline[j][1] \notin completed'
    BY DEF LeadersWait
  <2>1. pid[Pipeline[j][1]] # None /\ UNCHANGED pid /\ j \in Jobs /\ j \notin constructed
    BY DEF Quiet, Pgid, TypeOK
  <2>2. 1 \in 1..Len(Pipeline[j])
    BY <2>1
  <2>3. j \in grouped
    <3>1. ASSUME j \notin grouped  PROVE  FALSE
      <4>1. j \in ToCome
        BY <3>1 DEF Quiet
      <4>. QED
        BY <1>1, <2>1, <2>2, <4>1 DEF GroupInv
    <3>. QED
      BY <3>1
  <2>4. Pipeline[j][1] \notin completed /\ Pipeline[j][1] \in Procs \cap External
    BY <1>1, <2>1, <2>3, LeaderLemma DEF LeadersWait, GroupInv
  <2>. QED
    BY <2>1, <2>4 DEF Quiet
<1>4. OwnersInv'
  <2>. SUFFICES ASSUME disowning' = {}
                PROVE  /\ disowned' = {}
                       /\ \A p \in Procs \ completed' : pid'[p] # None => kern'[pid'[p]] # "free"
                       /\ \A p, q \in Procs \ completed' : pid'[p] # None /\ pid'[p] = pid'[q] => p = q
    BY DEF OwnersInv
  <2>1. /\ disowning = {} /\ disowned = {}
        /\ \A p \in Procs \ completed : pid[p] # None => kern[pid[p]] # "free"
        /\ \A p, q \in Procs \ completed : pid[p] # None /\ pid[p] = pid[q] => p = q
    BY <1>1 DEF OwnersInv, Quiet
  <2>2. disowned' = {} /\ \A k \in Pids : kern[k] # "free" => kern'[k] # "free"
    BY <2>1 DEF Quiet
  <2>3. UNCHANGED pid /\ completed \subseteq completed'
    BY DEF Quiet
  <2>4. \A p \in Procs : pid[p] # None => pid[p] \in Pids
    BY DEF TypeOK
  <2>. QED
    BY <2>1, <2>2, <2>3, <2>4
<1>. QED
  BY <1>2, <1>3, <1>4, <1>5 DEF LeaderInv

(* A fork: the pid was free, so nobody whom fish waits for has it. *)
LEMMA ForkKeepsLeader ==
  ASSUME IInv, IInv', LeaderInv, NEW j \in Jobs, NEW p \in Procs, NEW k \in Pids, Fork(j, p, k)
  PROVE  LeaderInv'
<1>1. /\ TypeOK /\ StageInv /\ StageInv' /\ TypeOK'
      /\ LaunchInv /\ GroupInv /\ LeadersWait /\ OwnersInv
  BY DEF IInv, LeaderInv
<1>2. /\ Launchable(j, p) /\ iproc[p] = "forking" /\ kern[k] = "free"
      /\ kern' = [kern EXCEPT ![k] = "running"] /\ pid' = [pid EXCEPT ![p] = k]
      /\ iproc' = [iproc EXCEPT ![p] = "forked"]
      /\ UNCHANGED <<jobList, constructed, grouped, next, completed, disowned, disowning>>
  BY DEF Fork, exits
<1>3. /\ JobOf(p) = j /\ next[j] \in 1..Len(Pipeline[j]) /\ j \in jobList
      /\ \E i \in 1..Len(Pipeline[j]) : Rank(j, i) = next[j] /\ p = Pipeline[j][i]
  BY <1>1, <1>2, LaunchableLemma
<1>a. PICK at \in 1..Len(Pipeline[j]) : Rank(j, at) = next[j] /\ p = Pipeline[j][at]
  BY <1>3
<1>4. p \in External /\ pid[p] = None
  BY <1>1, <1>2 DEF StageInv
<1>5. p \notin completed
  <2>1. p \in External \cap completed => next[j] > Len(Pipeline[j])
    BY <1>1, <1>4, <1>a DEF LaunchInv
  <2>. QED
    BY <1>3, <1>4, <2>1
<1>6. /\ pid'[p] = k /\ kern'[k] = "running"
      /\ \A q \in Procs \ {p} : pid'[q] = pid[q]
      /\ \A m \in Pids : kern[m] # "free" => kern'[m] # "free"
  BY <1>1, <1>2 DEF TypeOK
<1>7. LaunchInv'
  <2>1. \A q \in Procs \cap External : iproc'[q] \in {"forked", "posted"} => pid'[q] # None
    <3>1. SUFFICES ASSUME NEW q \in Procs \cap External, iproc'[q] \in {"forked", "posted"}, pid'[q] = None
                   PROVE  FALSE
      OBVIOUS
    <3>2. CASE q = p
      BY <1>6, <3>1, <3>2, NoneIsNoPid
    <3>3. CASE q # p
      BY <1>1, <1>2, <1>6, <3>1, <3>3 DEF TypeOK, LaunchInv
    <3>. QED
      BY <3>2, <3>3
  <2>2. ASSUME NEW h \in Jobs, NEW i \in 1..Len(Pipeline[h])
        PROVE  /\ pid'[Pipeline[h][i]] # None => Rank(h, i) <= next'[h]
               /\ Pipeline[h][i] \in External \cap completed' /\ pid'[Pipeline[h][i]] = None
                  => next'[h] > Len(Pipeline[h])
    <3>1. Pipeline[h][i] \in Procs /\ JobOf(Pipeline[h][i]) = h
      BY ProcLemma
    <3>2. CASE Pipeline[h][i] = p
      <4>1. h = j /\ i = at
        BY <1>3, <1>a, <3>1, <3>2, OnePlacePerProcess
      <4>2. Rank(h, i) <= next[h]
        BY <1>3, <1>a, <4>1
      <4>. QED
        BY <1>2, <1>5, <3>2, <4>2
    <3>3. CASE Pipeline[h][i] # p
      BY <1>1, <1>2, <1>6, <3>1, <3>3 DEF LaunchInv
    <3>. QED
      BY <3>2, <3>3
  <2>. QED
    BY <2>1, <2>2 DEF LaunchInv
<1>b. GroupInv'
  <2>1. ASSUME NEW h \in ToCome', NEW i \in 1..Len(Pipeline[h])
        PROVE  pid'[Pipeline[h][i]] = None
    <3>1. h \in ToCome /\ h \in Jobs /\ h # j
      BY <1>2, <1>3 DEF ToCome
    <3>2. Pipeline[h][i] \in Procs /\ JobOf(Pipeline[h][i]) = h
      BY <3>1, ProcLemma
    <3>3. Pipeline[h][i] # p
      BY <1>3, <3>1, <3>2
    <3>. QED
      BY <1>1, <1>6, <3>1, <3>2, <3>3 DEF GroupInv
  <2>. QED
    BY <1>1, <1>2, <2>1 DEF GroupInv
<1>8. LeadersWait'
  <2>. SUFFICES ASSUME NEW h \in grouped \ constructed, Pgid(h)' # None
                PROVE  Pipeline[h][1] \notin completed
    BY <1>2 DEF LeadersWait
  <2>1. Pipeline[h][1] \in Procs /\ Pgid(h) = pid[Pipeline[h][1]]
    BY <1>1, LeaderLemma
  <2>2. pid'[Pipeline[h][1]] # None
    BY <1>2 DEF Pgid
  <2>. QED
    BY <1>1, <1>5, <1>6, <2>1, <2>2 DEF LeadersWait
<1>9. OwnersInv'
  <2>. SUFFICES ASSUME disowning = {}
                PROVE  /\ disowned' = {}
                       /\ \A q \in Procs \ completed' : pid'[q] # None => kern'[pid'[q]] # "free"
                       /\ \A q, r \in Procs \ completed' : pid'[q] # None /\ pid'[q] = pid'[r] => q = r
    BY <1>2 DEF OwnersInv
  <2>1. /\ disowned = {}
        /\ \A q \in Procs \ completed : pid[q] # None => kern[pid[q]] # "free"
        /\ \A q, r \in Procs \ completed : pid[q] # None /\ pid[q] = pid[r] => q = r
    BY <1>1 DEF OwnersInv
  <2>2. \A q \in Procs \ completed : q # p => pid'[q] # k
    <3>1. \A q \in Procs \ completed : pid[q] = k => pid[q] = None
      BY <1>2, <2>1
    <3>2. \A q \in Procs \ completed : q # p => pid'[q] = pid[q]
      BY <1>6
    <3>. QED
      BY <1>2, <2>1, <3>1, <3>2, NoneIsNoPid
  <2>3. \A q \in Procs : pid[q] # None => pid[q] \in Pids
    BY <1>1 DEF TypeOK
  <2>. QED
    BY <1>2, <1>6, <2>1, <2>2, <2>3
<1>. QED
  BY <1>7, <1>8, <1>9, <1>b DEF LeaderInv

(* waitpid() frees the pid of a process that is completed with it, which   *)
(* is not a leader whose pipeline is under construction (can_reap).        *)
LEMMA ReapExternalKeepsLeader ==
  ASSUME IInv, IInv', LeaderInv, NEW p \in Procs, ReapExternal(p)
  PROVE  LeaderInv'
<1>1. /\ TypeOK /\ StageInv /\ StageInv' /\ TypeOK' /\ KernelInv
      /\ LaunchInv /\ GroupInv /\ LeadersWait /\ OwnersInv
  BY DEF IInv, LeaderInv
<1>2. /\ UNCHANGED <<jobList, constructed, grouped, next, pid, iproc, disowned, disowning>>
      /\ pid[p] # None
  BY DEF ReapExternal, exits
<1>3. CASE UNCHANGED <<kern, completed>>
  <2>1. Quiet
    BY <1>1, <1>2, <1>3 DEF Quiet, TypeOK
  <2>. QED
    BY <1>1, <2>1, QuietKeeps DEF LeaderInv
<1>4. CASE ~UNCHANGED <<kern, completed>>
  <2>1. CanReap(p) /\ Waitpid(p)
    BY <1>4 DEF ReapExternal
  <2>2. kern[pid[p]] = "zombie" /\ kern' = [kern EXCEPT ![pid[p]] = "free"] /\ completed' = completed \cup {p}
    BY <1>4, <2>1 DEF Waitpid
  <2>3. \A q \in Procs : pid[q] # None => pid[q] \in Pids
    BY <1>1 DEF TypeOK
  <2>4. \A k \in Pids : k # pid[p] => kern'[k] = kern[k]
    BY <1>1, <2>2 DEF TypeOK
  <2>5. LaunchInv'
    BY <1>1, <1>2, <2>2 DEF LaunchInv
  <2>8. GroupInv'
    BY <1>1, <1>2 DEF GroupInv, ToCome
  <2>6. LeadersWait'
    <3>. SUFFICES ASSUME NEW j \in grouped \ constructed, pid[Pipeline[j][1]] # None
                  PROVE  Pipeline[j][1] \notin completed'
      BY <1>2 DEF LeadersWait, Pgid
    <3>1. JobOf(Pipeline[j][1]) = j /\ Pgid(j) = pid[Pipeline[j][1]]
      BY <1>1, LeaderLemma
    <3>2. Pipeline[j][1] \notin completed
      BY <1>1, <3>1 DEF LeadersWait
    <3>3. Pipeline[j][1] # p
      BY <1>2, <2>1, <3>1 DEF CanReap
    <3>. QED
      BY <2>2, <3>2, <3>3
  <2>7. OwnersInv'
    <3>1. CASE disowning = {}
      <4>1. /\ disowned = {} /\ p \in Procs \ completed
            /\ \A q \in Procs \ completed : pid[q] # None => kern[pid[q]] # "free"
            /\ \A q, r \in Procs \ completed : pid[q] # None /\ pid[q] = pid[r] => q = r
        BY <1>1, <2>1, <3>1 DEF OwnersInv, CanReap
      <4>2. ASSUME NEW q \in Procs \ completed', pid[q] # None
            PROVE  kern'[pid[q]] # "free"
        <5>1. q \in Procs \ completed /\ q # p
          BY <2>2, <4>2
        <5>2. pid[q] # pid[p]
          BY <4>1, <4>2, <5>1
        <5>. QED
          BY <2>3, <2>4, <4>1, <4>2, <5>1, <5>2
      <4>. QED
        BY <1>2, <2>2, <3>1, <4>1, <4>2 DEF OwnersInv
    <3>2. CASE disowning # {}
      BY <1>2, <3>2 DEF OwnersInv
    <3>. QED
      BY <3>1, <3>2
  <2>. QED
    BY <2>5, <2>6, <2>7, <2>8 DEF LeaderInv
<1>. QED
  BY <1>3, <1>4

(* All other steps are quiet. *)
LEMMA OthersAreQuiet ==
  ASSUME IInv, IInv', LeaderInv, [Next]_vars,
         ~\E j \in Jobs, p \in Procs, k \in Pids : Fork(j, p, k),
         ~\E p \in Procs : ReapExternal(p)
  PROVE  Quiet
<1>1. /\ TypeOK /\ StageInv /\ StageInv' /\ TypeOK' /\ LaunchInv /\ OwnersInv
  BY DEF IInv, LeaderInv
<1>2. \A j \in Jobs : next[j] \in Nat /\ next[j] <= next[j] /\ next[j] <= next[j] + 1
  BY <1>1 DEF TypeOK
<1>3. CASE \/ UNCHANGED vars \/ AwaitForeground \/ StartReap \/ NothingToReap \/ FoundChange
           \/ HandleSigchld \/ HandleSigint \/ Clean
           \/ \E j \in Jobs : Construct(j)
           \/ \E p \in Procs : FireEvent(p) \/ InternalExits(p) \/ InternalPosts(p)
  <2>1. /\ UNCHANGED <<pid, grouped, next, completed, kern, disowned, disowning>>
        /\ constructed \subseteq constructed'
    BY <1>3 DEF vars, AwaitForeground, StartReap, NothingToReap, FoundChange, HandleSigchld,
                HandleSigint, Clean, Construct, FireEvent, InternalExits, InternalPosts,
                jobs, kernel, exits
  <2>2. \A p \in Procs \cap External : iproc'[p] = iproc[p]
    <3>1. CASE UNCHANGED iproc
      BY <3>1
    <3>2. CASE \E q \in Procs : InternalExits(q) \/ InternalPosts(q)
      <4>1. PICK q \in Procs : InternalExits(q) \/ InternalPosts(q)
        BY <3>2
      <4>2. q \notin External /\ (iproc' = [iproc EXCEPT ![q] = "exited"] \/ iproc' = [iproc EXCEPT ![q] = "posted"])
        BY <1>1, <4>1 DEF InternalExits, InternalPosts, StageInv
      <4>. QED
        BY <1>1, <4>2 DEF TypeOK
    <3>. QED
      BY <1>3, <3>1, <3>2 DEF vars, AwaitForeground, StartReap, NothingToReap, FoundChange,
         HandleSigchld, HandleSigint, Clean, Construct, FireEvent, jobs
  <2>3. jobList \subseteq jobList' \cup constructed'
    <3>1. CASE Clean
      BY <3>1 DEF Clean
    <3>2. CASE UNCHANGED jobList
      BY <3>2
    <3>. QED
      BY <1>3, <3>1, <3>2 DEF vars, AwaitForeground, StartReap, NothingToReap, FoundChange,
         HandleSigchld, HandleSigint, Construct, FireEvent, InternalExits, InternalPosts, jobs
  <2>. QED
    BY <1>2, <2>1, <2>2, <2>3 DEF Quiet
<1>11. CASE \E j \in Jobs : StartJob(j)
  <2>1. PICK j \in Jobs : StartJob(j)
    BY <1>11
  <2>2. /\ UNCHANGED <<pid, iproc, constructed, next, completed, kern, disowned, disowning>>
        /\ jobList' = jobList \cup {j} /\ j \in ToCome
        /\ \/ UNCHANGED grouped
           \/ grouped' = grouped \cup {j} /\ Pipeline[j][1] \in External
    BY <2>1 DEF StartJob, ToCome, kernel, exits
  <2>. QED
    BY <1>2, <2>2 DEF Quiet
<1>4. CASE \E k \in Pids : Exit(k) \/ StopOrContinue(k)
  <2>1. PICK k \in Pids : Exit(k) \/ StopOrContinue(k)
    BY <1>4
  <2>2. /\ UNCHANGED <<jobs, exits>>
        /\ \/ kern' = [kern EXCEPT ![k] = "zombie"]
           \/ kern' = [kern EXCEPT ![k] = "stopped"]
           \/ kern' = [kern EXCEPT ![k] = "running"]
    BY <2>1 DEF Exit, StopOrContinue
  <2>3. \A m \in Pids : kern[m] # "free" => kern'[m] # "free"
    BY <1>1, <2>2 DEF TypeOK
  <2>. QED
    BY <1>2, <2>2, <2>3 DEF Quiet, jobs, exits
<1>5. CASE \E j \in Jobs : Resume(j)
  <2>1. /\ UNCHANGED <<jobList, constructed, grouped, next, pid, iproc, completed, exits>>
        /\ \A m \in Pids : kern[m] # "free" => kern'[m] # "free"
    BY <1>5 DEF Resume
  <2>. QED
    BY <1>2, <2>1 DEF Quiet, exits
<1>6. CASE \E j \in Jobs : Disown(j)
  <2>1. UNCHANGED jobs /\ disowning' # {}
    BY <1>6 DEF Disown
  <2>. QED
    BY <1>2, <2>1 DEF Quiet, jobs
<1>7. CASE ReapDisowned
  <2>1. UNCHANGED <<jobs, disowning>>
    BY <1>7 DEF ReapDisowned
  <2>2. ASSUME disowned = {}  PROVE  disowned' = {} /\ UNCHANGED kern
    BY <1>1, <1>7, <2>2 DEF ReapDisowned, TypeOK
  <2>. QED
    BY <1>2, <2>1, <2>2 DEF Quiet, jobs
<1>8. CASE \E p \in Procs : ReapInternal(p)
  <2>1. PICK p \in Procs : ReapInternal(p)
    BY <1>8
  <2>2. /\ UNCHANGED <<kern, jobList, constructed, grouped, next, pid, iproc, disowned, disowning>>
        /\ pid[p] = None
        /\ completed' = completed \/ (completed' = completed \cup {p} /\ iproc[p] \in {"exited", "posted"})
    BY <2>1 DEF ReapInternal, kernel, exits
  <2>3. iproc[p] \in {"exited", "posted"} => p \notin External
    BY <1>1, <2>2 DEF StageInv, LaunchInv
  <2>. QED
    BY <1>2, <2>2, <2>3 DEF Quiet
<1>9. CASE \E j \in Jobs, p \in Procs : \/ RecordGenerations(j, p) \/ ShortCircuit(j, p)
                                      \/ RunInternal(j, p) \/ SetPid(j, p)
  <2>1. PICK j \in Jobs, p \in Procs : \/ RecordGenerations(j, p) \/ ShortCircuit(j, p)
                                       \/ RunInternal(j, p) \/ SetPid(j, p)
    BY <1>9
  <2>2. /\ UNCHANGED <<kern, jobList, constructed, grouped, pid, disowned, disowning>>
        /\ next' = next \/ next' = [next EXCEPT ![j] = @ + 1]
        /\ completed' = completed \/ (completed' = completed \cup {p} /\ iproc[p] = "performing")
    BY <2>1 DEF RecordGenerations, ShortCircuit, RunInternal, SetPid, kernel, exits
  <2>3. \/ iproc' = iproc
        \/ iproc' = [iproc EXCEPT ![p] = "posted"] /\ iproc[p] = "forked"
        \/ iproc' = [iproc EXCEPT ![p] = "forking"]
        \/ iproc' = [iproc EXCEPT ![p] = "performing"]
        \/ iproc' = [iproc EXCEPT ![p] = "running"]
    BY <2>1 DEF RecordGenerations, ShortCircuit, RunInternal, SetPid
  <2>4. \A q \in Procs : iproc'[q] \in {"forked", "posted"} => iproc[q] \in {"forked", "posted"}
    BY <1>1, <2>3 DEF TypeOK
  <2>5. \A h \in Jobs : next[h] <= next'[h]
    BY <1>1, <1>2, <2>2 DEF TypeOK
  <2>6. iproc[p] = "performing" => p \notin External
    BY <1>1 DEF StageInv
  <2>. QED
    BY <2>2, <2>4, <2>5, <2>6 DEF Quiet
<1>10. CASE \E j \in Jobs : \E i \in 1..Len(Pipeline[j]) : LaunchFails(j, i)
  <2>0. PICK j \in Jobs : \E i \in 1..Len(Pipeline[j]) : LaunchFails(j, i)
    BY <1>10
  <2>1. PICK i \in 1..Len(Pipeline[j]) : LaunchFails(j, i)
    BY <2>0
  <2>2. /\ Rank(j, i) = next[j] /\ iproc[Pipeline[j][i]] \in {"unlaunched", "performing", "forking"}
        /\ next' = [next EXCEPT ![j] = Len(Pipeline[j]) + 1]
        /\ jobList \subseteq jobList' \cup {j}
        /\ UNCHANGED <<kern, constructed, grouped, pid, iproc, disowned, disowning>>
    BY <2>1 DEF LaunchFails, Due, kernel, exits
  <2>3. PICK from \in AbortFrom(j, i) :
          completed' = completed \cup {Pipeline[j][h] : h \in
            (IF i \in Deferred(j) THEN {} ELSE from..Len(Pipeline[j]))
              \cup (IF next[j] > 1 THEN Deferred(j) ELSE {})}
    BY <2>1 DEF LaunchFails
  <2>4. /\ next'[j] = Len(Pipeline[j]) + 1 /\ \A h \in Jobs \ {j} : next'[h] = next[h]
        /\ next[j] \in 1..Len(Pipeline[j]) /\ Len(Pipeline[j]) \in Nat
    BY <1>1, <2>2, RankLemma DEF TypeOK
  <2>5. (\A h \in Jobs : next[h] <= next'[h]) /\ next'[j] > 1
    BY <1>2, <2>4
  <2>6. pid[Pipeline[j][i]] = None /\ Pipeline[j][i] \in Procs
    BY <1>1, <2>2, ProcLemma DEF StageInv
  <2>7. \A d \in Deferred(j) : Pipeline[j][d] \notin External /\ d \in 1..Len(Pipeline[j])
    BY RankLemma DEF Deferred
  <2>8. ASSUME NEW q \in (completed' \ completed) \cap External
        PROVE  pid[q] = None /\ next'[JobOf(q)] > Len(Pipeline[JobOf(q)])
    <3>1. PICK h \in from..Len(Pipeline[j]) : q = Pipeline[j][h] /\ i \notin Deferred(j)
      BY <2>3, <2>7
    <3>2. h \in 1..Len(Pipeline[j]) /\ (h = i \/ h > i \/ h \in Deferred(j))
      <4>1. from \in 1..Len(Pipeline[j])
        BY <2>7 DEF AbortFrom
      <4>2. from = i \/ (from \in Deferred(j) /\ from + 1 = i)
        BY DEF AbortFrom
      <4>. QED
        BY <3>1, <4>1, <4>2
    <3>3. h \notin Deferred(j)
      BY <2>7, <3>1
    <3>4. CASE h = i
      BY <2>4, <2>6, <3>1, <3>4, ProcLemma
    <3>5. CASE h > i
      <4>1. Rank(j, i) < Rank(j, h)
        BY <3>1, <3>2, <3>5, RankLemma
      <4>2. pid[q] # None => Rank(j, h) <= next[j]
        BY <1>1, <3>1, <3>2 DEF LaunchInv
      <4>3. Rank(j, i) \in Nat /\ Rank(j, h) \in Nat
        BY <3>2, RankLemma
      <4>4. JobOf(q) = j
        BY <3>1, <3>2, ProcLemma
      <4>. QED
        BY <2>2, <2>4, <4>1, <4>2, <4>3, <4>4
    <3>. QED
      BY <3>2, <3>3, <3>4, <3>5
  <2>9. completed \subseteq completed'
    BY <2>3
  <2>10. jobList \subseteq jobList' \cup constructed' \cup {h \in Jobs : next'[h] > 1}
    BY <2>2, <2>5
  <2>. QED
    BY <2>2, <2>5, <2>8, <2>9, <2>10 DEF Quiet
<1>. QED
  BY <1>3, <1>4, <1>5, <1>6, <1>7, <1>8, <1>9, <1>10, <1>11 DEF Next, MainStep

LEMMA InitLeader == Init => LeaderInv
<1>. SUFFICES ASSUME Init PROVE LeaderInv
  OBVIOUS
<1>1. LaunchInv
  BY DEF Init, LaunchInv, Procs, ToSet
<1>2. LeadersWait
  BY DEF Init, LeadersWait
<1>4. GroupInv
  <2>1. \A j \in Jobs : \A i \in 1..Len(Pipeline[j]) : Pipeline[j][i] \in Procs
    BY ProcLemma
  <2>. QED
    BY <2>1 DEF Init, GroupInv, ToCome
<1>3. OwnersInv
  BY DEF Init, OwnersInv
<1>. QED
  BY <1>1, <1>2, <1>3, <1>4 DEF LeaderInv

LEMMA StepLeader == IInv /\ IInv' /\ LeaderInv /\ [Next]_vars => LeaderInv'
<1>. SUFFICES ASSUME IInv, IInv', LeaderInv, [Next]_vars PROVE LeaderInv'
  OBVIOUS
<1>1. CASE \E j \in Jobs, p \in Procs, k \in Pids : Fork(j, p, k)
  BY <1>1, ForkKeepsLeader
<1>2. CASE \E p \in Procs : ReapExternal(p)
  BY <1>2, ReapExternalKeepsLeader
<1>3. CASE /\ ~\E j \in Jobs, p \in Procs, k \in Pids : Fork(j, p, k)
           /\ ~\E p \in Procs : ReapExternal(p)
  <2>1. Quiet
    BY <1>3, OthersAreQuiet
  <2>. QED
    BY <2>1, QuietKeeps DEF IInv
<1>. QED
  BY <1>1, <1>2, <1>3

(* Types, and the process group that the processes of a pipeline join:     *)
(* its leader is not reaped before the job is constructed, whatever pids   *)
(* are used again, as long as nothing was disowned (Job::can_reap).        *)
THEOREM PidsStayConsistent == Spec => []PidsConsistent
<1>1. IInv /\ LeaderInv => PidsConsistent
  <2>. SUFFICES ASSUME IInv, LeaderInv PROVE PidsConsistent
    OBVIOUS
  <2>1. TypeOK /\ LeadersWait /\ OwnersInv
    BY DEF IInv, LeaderInv
  <2>2. ASSUME disowning = {}, NEW j \in jobList \ constructed, Pgid(j) # None
        PROVE  kern[Pgid(j)] # "free"
    <3>1. j \in grouped \ constructed
      BY <2>2 DEF Pgid
    <3>2. Pipeline[j][1] \in Procs /\ Pgid(j) = pid[Pipeline[j][1]]
      BY <2>1, <3>1, LeaderLemma
    <3>3. Pipeline[j][1] \notin completed
      BY <2>1, <2>2, <3>1 DEF LeadersWait
    <3>. QED
      BY <2>1, <2>2, <3>2, <3>3 DEF OwnersInv
  <2>. QED
    BY <2>1, <2>2 DEF PidsConsistent, LeaderKept
<1>2. Spec => []LeaderInv
  BY Invariance, InitLeader, StepLeader, PTL DEF Spec
<1>. QED
  BY <1>1, <1>2, Invariance, PTL
=============================================================================
