------------------------------ MODULE Reaping ------------------------------
(***************************************************************************)
(* Launching and reaping of processes: src/src/proc.rs and the part of     *)
(* src/src/exec.rs that launches a pipeline, over the topic monitor.       *)
(*                                                                         *)
(* A child's change of state raises SIGCHLD, whose handler posts a topic;  *)
(* an internal process (a thread that writes a builtin's output) posts one *)
(* when it is done.  Each process keeps the generations it has seen, from  *)
(* before its launch on, and the main thread calls waitpid() only for      *)
(* processes whose topic has moved.  The monitor is taken by its promise   *)
(* (TopicPromise): a post moves the generation past all that was seen.     *)
(*                                                                         *)
(* Grain: one system call of the main thread is one step; children, signal *)
(* handlers and internal processes run between any two.                    *)
(***************************************************************************)
EXTENDS Naturals, Sequences, SequencesExt

CONSTANTS
  Jobs,        \* the jobs the script runs
  Pipeline,    \* Pipeline[j]: the processes of job j, in order
  External,    \* the processes backed by a child; the others are internal
  Background,  \* the jobs run with &
  Pids,        \* the kernel's process ids
  None,        \* no pid, no job
  MaxSignals,  \* bound on SIGINTs and on stops and continues of children
  MayDisown    \* do scripts run disown?

Procs == UNION {ToSet(Pipeline[j]) : j \in Jobs}
JobOf(p) == CHOOSE j \in Jobs : p \in ToSet(Pipeline[j])
Topics == {"sighupint", "sigchld", "internal_exit"}

ASSUME OneJobPerProcess ==
  \A j, k \in Jobs : j # k => ToSet(Pipeline[j]) \cap ToSet(Pipeline[k]) = {}
ASSUME PipelinesNonEmpty ==
  \A j \in Jobs : Pipeline[j] \in Seq(ToSet(Pipeline[j])) /\ Len(Pipeline[j]) > 0
ASSUME OnePlacePerProcess ==
  \A j \in Jobs : \A h, i \in 1..Len(Pipeline[j]) : Pipeline[j][h] = Pipeline[j][i] => h = i
ASSUME NoneIsNoPid == None \notin Pids
ASSUME SignalsBounded == MaxSignals \in Nat

VARIABLES
  \* the topic monitor, as TopicPromise describes it
  posts, published, seen,
  \* the kernel
  kern,       \* state of each pid
  report,     \* what waitpid() would return of a pid that has not exited
  sigchld,    \* is a SIGCHLD pending?
  signals,    \* stops, continues and SIGINTs so far
  \* the jobs: parser.jobs() and the fields of Job and Process
  \* (grouped: the first process has leads_pgrp; next: procs_launched + 1)
  jobList, constructed, grouped, next, pid, iproc, gens, completed, stopped,
  \* disown and events
  disowned,   \* DISOWNED_PIDS
  disowning,  \* jobs with disown_requested
  events,     \* process_exit events generated and not fired
  fired,      \* how often the process_exit event of each process was fired
  \* the main thread
  pc,         \* what it is doing
  fg,         \* the job continue_job() runs, if any
  reapgens,   \* process_mark_finished_children(): the generations it found
  todo,       \* processes its loops have not come to
  cleaning    \* is_cleaning_procs

topics == <<posts, published, seen>>
kernel == <<kern, report, sigchld>>
jobs == <<jobList, constructed, grouped, next, pid, iproc, gens, completed, stopped>>
exits == <<disowned, disowning, events, fired>>
main == <<pc, fg, reapgens, todo, cleaning>>
vars == <<topics, kernel, signals, jobs, exits, main>>

(* The promise of the monitor; its only caller here is the main thread,    *)
(* whose calls are the steps below.                                        *)
Monitor == INSTANCE TopicPromise WITH
             Threads <- {}, calling <- <<>>, want <- <<>>, waiting <- <<>>,
             gens <- <<>>, result <- <<>>

(* An external process is "posted" once its launch is over; an internal    *)
(* one is "performing" until it has its output, which a thread writes.     *)
ProcStages == {"unlaunched", "forking", "forked",
               "performing", "running", "exited", "posted"}
States == {"eval", "fork", "await", "poll", "waitany", "reap", "clean"}

TypeOK ==
  /\ posts \in Nat /\ published \in [Topics -> Nat] /\ seen \in [Topics -> Nat]
  /\ kern \in [Pids -> {"free", "running", "stopped", "zombie"}]
  /\ report \in [Pids -> {"none", "stopped", "continued"}]
  /\ sigchld \in BOOLEAN
  /\ signals \in 0..MaxSignals
  /\ jobList \subseteq Jobs /\ constructed \subseteq Jobs /\ grouped \subseteq Jobs
  /\ next \in [Jobs -> Nat]
  /\ pid \in [Procs -> Pids \cup {None}]
  /\ iproc \in [Procs -> ProcStages]
  /\ gens \in [Procs -> [Topics -> Nat]]
  /\ completed \subseteq Procs /\ stopped \subseteq Procs
  /\ disowned \subseteq Pids /\ disowning \subseteq Jobs
  /\ events \subseteq Procs /\ fired \in [Procs -> 0..2]
  /\ pc \in States /\ fg \in Jobs \cup {None}
  /\ reapgens \in [Topics -> Nat]
  /\ todo \subseteq Procs /\ cleaning \in BOOLEAN

Zero == [t \in Topics |-> 0]

Init ==
  /\ posts = 0 /\ published = Zero /\ seen = Zero
  /\ kern = [k \in Pids |-> "free"]
  /\ report = [k \in Pids |-> "none"]
  /\ sigchld = FALSE
  /\ signals = 0
  /\ jobList = {} /\ constructed = {} /\ grouped = {}
  /\ next = [j \in Jobs |-> 1]
  /\ pid = [p \in Procs |-> None]
  /\ iproc = [p \in Procs |-> "unlaunched"]
  /\ gens = [p \in Procs |-> Zero]
  /\ completed = {} /\ stopped = {}
  /\ disowned = {} /\ disowning = {} /\ events = {}
  /\ fired = [p \in Procs |-> 0]
  /\ pc = "eval" /\ fg = None
  /\ reapgens = Zero /\ todo = {} /\ cleaning = FALSE

-----------------------------------------------------------------------------
(* The kernel, the children and the signal handlers. *)

Exit(k) ==
  /\ kern[k] \in {"running", "stopped"}
  /\ kern' = [kern EXCEPT ![k] = "zombie"]
  /\ report' = [report EXCEPT ![k] = "none"]
  /\ sigchld' = TRUE
  /\ UNCHANGED <<topics, signals, jobs, exits, main>>

(* SIGSTOP or SIGCONT from outside; the newest change is the one reported. *)
StopOrContinue(k) ==
  /\ signals < MaxSignals
  /\ signals' = signals + 1
  /\ \/ kern[k] = "running"
        /\ kern' = [kern EXCEPT ![k] = "stopped"]
        /\ report' = [report EXCEPT ![k] = "stopped"]
     \/ kern[k] = "stopped"
        /\ kern' = [kern EXCEPT ![k] = "running"]
        /\ report' = [report EXCEPT ![k] = "continued"]
  /\ sigchld' = TRUE
  /\ UNCHANGED <<topics, jobs, exits, main>>

(* fish_signal_handler(), SIGCHLD: several signals may have become one. *)
HandleSigchld ==
  /\ sigchld
  /\ sigchld' = FALSE
  /\ Monitor!Post("sigchld")
  /\ UNCHANGED <<kern, report, signals, jobs, exits, main>>

(* fish_signal_handler(), SIGINT or SIGHUP. *)
HandleSigint ==
  /\ signals < MaxSignals
  /\ signals' = signals + 1
  /\ Monitor!Post("sighupint")
  /\ UNCHANGED <<kernel, jobs, exits, main>>

(* InternalProc::mark_exited(): the flag, then the post. *)
InternalExits(p) ==
  /\ p \notin External /\ iproc[p] = "running"
  /\ iproc' = [iproc EXCEPT ![p] = "exited"]
  /\ UNCHANGED <<topics, kernel, signals, jobList, constructed, grouped, next, pid, gens,
                 completed, stopped, exits, main>>

InternalPosts(p) ==
  /\ iproc[p] = "exited"
  /\ iproc' = [iproc EXCEPT ![p] = "posted"]
  /\ Monitor!Post("internal_exit")
  /\ UNCHANGED <<kernel, signals, jobList, constructed, grouped, next, pid, gens,
                 completed, stopped, exits, main>>

-----------------------------------------------------------------------------
(* Jobs and what is asked of them. *)

JobCompleted(j) == ToSet(Pipeline[j]) \subseteq completed
JobStopped(j) ==
  /\ ToSet(Pipeline[j]) \subseteq completed \cup stopped
  /\ ToSet(Pipeline[j]) \cap stopped # {}
ListedProcs == UNION {ToSet(Pipeline[j]) : j \in jobList}
ExternalProcs(j) == {p \in ToSet(Pipeline[j]) : pid[p] # None}

(* The process group of a job: its first process leads it, if it is a      *)
(* child and the job is under job control.  The other jobs have no group   *)
(* of their own, and get_pgid() is None.  (A job inside a function may use *)
(* the group of the pipeline around it; that sharing is left out.)         *)
Pgid(j) == IF j \in grouped THEN pid[Pipeline[j][1]] ELSE None

(* Mutant: a leader is reaped while its job is under construction. *)
CanReapAny(p) == p \notin completed

(* Job::can_reap().  Without a group, None = None also holds back the      *)
(* internal processes of a job under construction.                         *)
CanReap(p) ==
  /\ p \notin completed
  /\ JobOf(p) \in constructed \/ pid[p] # Pgid(JobOf(p))

-----------------------------------------------------------------------------
(* Launching: exec_job() and exec_process_in_job(). *)

(* get_deferred_process(): the last internal process, if it pipes into a   *)
(* child.  It is launched after all the others.                            *)
Deferred(j) ==
  {d \in 1..(Len(Pipeline[j]) - 1) :
     /\ Pipeline[j][d] \notin External
     /\ \A i \in (d + 1)..Len(Pipeline[j]) : Pipeline[j][i] \in External}
Rank(j, i) ==
  IF i \in Deferred(j) THEN Len(Pipeline[j])
  ELSE IF \E d \in Deferred(j) : d < i THEN i - 1 ELSE i

(* The process at place i is the next to be launched. *)
Due(j, i) ==
  /\ j \in jobList \ constructed
  /\ i \in 1..Len(Pipeline[j]) /\ Rank(j, i) = next[j]
Launchable(j, p) == \E i \in 1..Len(Pipeline[j]) : Due(j, i) /\ p = Pipeline[j][i]

(* The main thread may turn to something else between two commands: of the *)
(* script, of a function in a pipeline, or of an event handler.  Which of  *)
(* two such pipelines goes on first is left open.                          *)
Free == pc = "eval" /\ fg = None
Performing(j) == \E p \in Procs : Launchable(j, p) /\ iproc[p] = "performing"
BetweenCommands == Free /\ \A j \in jobList \ constructed : Performing(j)

StartJob(j) ==
  /\ BetweenCommands
  /\ j \notin jobList /\ j \notin constructed /\ next[j] = 1
  /\ jobList' = jobList \cup {j}
  /\ grouped' \in {grouped} \cup (IF Pipeline[j][1] \in External THEN {grouped \cup {j}} ELSE {})
  /\ UNCHANGED <<topics, kernel, signals, constructed, next, pid, iproc, gens,
                 completed, stopped, exits, main>>

(* check_generations_before_launch() comes before the fork, and before the *)
(* builtin, function or block is run.                                      *)
RecordGenerations(j, p) ==
  /\ Free
  /\ Launchable(j, p)
  /\ iproc[p] = "unlaunched"
  /\ seen' = published
  /\ gens' = [gens EXCEPT ![p] = published]
  /\ iproc' = [iproc EXCEPT ![p] = IF p \in External THEN "forking" ELSE "performing"]
  /\ pc' = IF p \in External THEN "fork" ELSE pc
  /\ UNCHANGED <<posts, published, kernel, signals, jobList, constructed, grouped, next, pid,
                 completed, stopped, exits, fg, reapgens, todo, cleaning>>

(* run_internal_process_or_short_circuit(): nothing to write, no thread... *)
ShortCircuit(j, p) ==
  /\ Free
  /\ Launchable(j, p) /\ iproc[p] = "performing"
  /\ completed' = completed \cup {p}
  /\ next' = [next EXCEPT ![j] = @ + 1]
  /\ UNCHANGED <<topics, kernel, signals, jobList, constructed, grouped, pid, iproc, gens,
                 stopped, exits, main>>

(* ... or the generations are taken anew and a thread writes the output.   *)
RunInternal(j, p) ==
  /\ Free
  /\ Launchable(j, p) /\ iproc[p] = "performing"
  /\ seen' = published
  /\ gens' = [gens EXCEPT ![p] = published]
  /\ iproc' = [iproc EXCEPT ![p] = "running"]
  /\ next' = [next EXCEPT ![j] = @ + 1]
  /\ UNCHANGED <<posts, published, kernel, signals, jobList, constructed, grouped, pid,
                 completed, stopped, exits, main>>

(* fork() or posix_spawn(): the child runs before fish has noted its pid.  *)
Fork(j, p, k) ==
  /\ pc = "fork" /\ Launchable(j, p) /\ iproc[p] = "forking"
  /\ kern[k] = "free"
  /\ kern' = [kern EXCEPT ![k] = "running"]
  /\ report' = [report EXCEPT ![k] = "none"]
  /\ pid' = [pid EXCEPT ![p] = k]
  /\ iproc' = [iproc EXCEPT ![p] = "forked"]
  /\ UNCHANGED <<topics, sigchld, signals, jobList, constructed, grouped, next, gens,
                 completed, stopped, exits, main>>

(* Mutant: the generations are recorded when the child already runs. *)
SetPidThenRecord(j, p) ==
  /\ pc = "fork" /\ Launchable(j, p) /\ iproc[p] = "forked"
  /\ pc' = "eval"
  /\ next' = [next EXCEPT ![j] = @ + 1]
  /\ iproc' = [iproc EXCEPT ![p] = "posted"]
  /\ seen' = published
  /\ gens' = [gens EXCEPT ![p] = published]
  /\ UNCHANGED <<posts, published, kernel, signals, jobList, constructed, grouped, pid,
                 completed, stopped, exits, fg, reapgens, todo, cleaning>>

(* The rest of the launch, in the parent. *)
SetPid(j, p) ==
  /\ pc = "fork" /\ Launchable(j, p) /\ iproc[p] = "forked"
  /\ pc' = "eval"
  /\ next' = [next EXCEPT ![j] = @ + 1]
  /\ iproc' = [iproc EXCEPT ![p] = "posted"]
  /\ UNCHANGED <<topics, kernel, signals, jobList, constructed, grouped, pid, gens,
                 completed, stopped, exits, fg, reapgens, todo, cleaning>>

(* Places from which abort_pipeline_from() goes on when the launch at      *)
(* place i fails: the pipe of the deferred process, just before it, is     *)
(* made in the same turn of the loop or the one before.                    *)
AbortFrom(j, i) ==
  {i} \cup {d \in Deferred(j) : d + 1 = i /\ iproc[Pipeline[j][i]] = "unlaunched"}

(* Mutant: the deferred process of an aborted pipeline is forgotten. *)
ForgetDeferred(j, i) ==
  /\ Due(j, i)
  /\ \/ Free /\ iproc[Pipeline[j][i]] \in {"unlaunched", "performing"}
     \/ pc = "fork" /\ iproc[Pipeline[j][i]] = "forking"
  /\ pc' = "eval"
  /\ \E from \in AbortFrom(j, i) :
       completed' = completed \cup
         {Pipeline[j][h] : h \in IF i \in Deferred(j) THEN {i} ELSE from..Len(Pipeline[j])}
  /\ next' = [next EXCEPT ![j] = Len(Pipeline[j]) + 1]
  /\ jobList' = IF next[j] = 1 THEN jobList \ {j} ELSE jobList
  /\ UNCHANGED <<topics, kernel, signals, constructed, grouped, pid, iproc, gens,
                 stopped, exits, fg, reapgens, todo, cleaning>>

(* A launch fails: a pipe or a redirection before the generations are      *)
(* taken, a fork, or a function or block that cannot be run.  The process  *)
(* and all after it are marked completed; if none was launched, the job    *)
(* leaves the list, or else the deferred process is marked as well.        *)
LaunchFails(j, i) ==
  /\ Due(j, i)
  /\ \/ Free /\ iproc[Pipeline[j][i]] \in {"unlaunched", "performing"}
     \/ pc = "fork" /\ iproc[Pipeline[j][i]] = "forking"
  /\ pc' = "eval"
  /\ \E from \in AbortFrom(j, i) :
       completed' = completed \cup {Pipeline[j][h] : h \in
         (IF i \in Deferred(j) THEN {} ELSE from..Len(Pipeline[j]))
           \cup (IF next[j] > 1 THEN Deferred(j) ELSE {})}
  /\ next' = [next EXCEPT ![j] = Len(Pipeline[j]) + 1]
  /\ jobList' = IF next[j] = 1 THEN jobList \ {j} ELSE jobList
  /\ UNCHANGED <<topics, kernel, signals, constructed, grouped, pid, iproc, gens,
                 stopped, exits, fg, reapgens, todo, cleaning>>

(* mark_constructed(); a foreground job is then run by continue_job(). *)
Construct(j) ==
  /\ Free
  /\ j \in jobList \ constructed
  /\ next[j] > Len(Pipeline[j])
  /\ constructed' = constructed \cup {j}
  /\ fg' = IF j \in Background THEN None ELSE j
  /\ UNCHANGED <<topics, kernel, signals, jobList, grouped, next, pid, iproc, gens,
                 completed, stopped, exits, pc, reapgens, todo, cleaning>>

(* fg: SIGCONT to the group, clear the stopped flags, and continue_job().  *)
Resume(j) ==
  LET group == {k \in {pid[p] : p \in ExternalProcs(j) \ completed} : kern[k] = "stopped"} IN
  /\ BetweenCommands
  /\ j \in jobList \cap constructed /\ JobStopped(j) /\ j \notin disowning
  /\ kern' = [k \in Pids |-> IF k \in group THEN "running" ELSE kern[k]]
  /\ report' = [k \in Pids |-> IF k \in group THEN "continued" ELSE report[k]]
  /\ sigchld' = (sigchld \/ group # {})
  /\ stopped' = stopped \ ToSet(Pipeline[j])
  /\ fg' = j
  /\ UNCHANGED <<topics, signals, jobList, constructed, grouped, next, pid, iproc, gens,
                 completed, exits, pc, reapgens, todo, cleaning>>

-----------------------------------------------------------------------------
(* Reaping: process_mark_finished_children(). *)

(* The three callers: continue_job() and proc_wait_any() block, job_reap() *)
(* does not; the last two go on to clean.                                  *)
AwaitForeground ==
  /\ pc = "eval" /\ fg # None
  /\ IF JobStopped(fg) \/ JobCompleted(fg)
       THEN fg' = None /\ UNCHANGED pc
       ELSE pc' = "await" /\ UNCHANGED fg
  /\ UNCHANGED <<topics, kernel, signals, jobs, exits, reapgens, todo, cleaning>>

StartReap ==
  /\ BetweenCommands
  /\ jobList # {}
  /\ pc' \in {"poll", "waitany"}
  /\ UNCHANGED <<topics, kernel, signals, jobs, exits, fg, reapgens, todo, cleaning>>

(* The processes that have a say in `reapgens`, and by which topics. *)
Reapable == {p \in ListedProcs : CanReap(p)}
Watched(p) ==
  IF pid[p] # None THEN {"sigchld", "sighupint"}
  ELSE IF iproc[p] \in {"running", "exited", "posted"} THEN {"internal_exit", "sighupint"}
  ELSE {}

(* reapgens starts invalid; each reapable process lowers its topics to its *)
(* own generation.  check() finds a change if any of them has moved.       *)
SomethingChanged ==
  \E p \in Reapable : \E t \in Watched(p) : gens[p][t] < published[t]
NothingWatched == \A p \in Reapable : Watched(p) = {}

AfterMark == IF pc = "await" THEN "eval" ELSE "clean"

(* check() returns false at once if no topic is valid, and when it polls   *)
(* and nothing has changed.                                                *)
NothingToReap ==
  /\ pc \in {"await", "poll", "waitany"}
  /\ ~SomethingChanged
  /\ NothingWatched \/ pc = "poll"
  /\ pc' = AfterMark
  /\ IF NothingWatched THEN UNCHANGED seen ELSE seen' = published
  /\ UNCHANGED <<posts, published, kernel, signals, jobs, exits, fg, reapgens, todo, cleaning>>

(* Otherwise it waits for a change, and returns the new generations of the *)
(* valid topics.                                                           *)
FoundChange ==
  /\ pc \in {"await", "poll", "waitany"}
  /\ SomethingChanged
  /\ seen' = published
  /\ reapgens' = published
  /\ todo' = {p \in ListedProcs : Watched(p) # {}}
  /\ pc' = "reap"
  /\ UNCHANGED <<posts, published, kernel, signals, jobs, exits, fg, cleaning>>

(* handle_child_status(), for what waitpid() says of the process. *)
Waitpid(p) ==
  LET k == pid[p] IN
  CASE kern[k] = "zombie" ->
         /\ kern' = [kern EXCEPT ![k] = "free"]
         /\ completed' = completed \cup {p}
         /\ UNCHANGED <<report, stopped>>
    [] kern[k] \in {"running", "stopped"} /\ report[k] = "stopped" ->
         /\ report' = [report EXCEPT ![k] = "none"]
         /\ stopped' = stopped \cup {p}
         /\ UNCHANGED <<kern, completed>>
    [] kern[k] \in {"running", "stopped"} /\ report[k] = "continued" ->
         /\ report' = [report EXCEPT ![k] = "none"]
         /\ stopped' = stopped \ {p}
         /\ UNCHANGED <<kern, completed>>
    [] OTHER -> UNCHANGED <<kern, report, completed, stopped>>

(* The first loop, over processes with a pid. *)
ReapExternal(p) ==
  /\ pc = "reap" /\ p \in todo /\ pid[p] # None
  /\ todo' = todo \ {p}
  /\ IF ~CanReap(p)
       THEN UNCHANGED <<gens, kern, report, completed, stopped>>
       ELSE /\ gens' = [gens EXCEPT ![p]["sighupint"] = reapgens["sighupint"],
                                    ![p]["sigchld"] = reapgens["sigchld"]]
            /\ IF gens[p]["sigchld"] = reapgens["sigchld"]
                 THEN UNCHANGED <<kern, report, completed, stopped>>
                 ELSE Waitpid(p)
  /\ UNCHANGED <<topics, sigchld, signals, jobList, constructed, grouped, next, pid, iproc,
                 exits, pc, fg, reapgens, cleaning>>

(* The second loop, over internal processes. *)
ReapInternal(p) ==
  /\ pc = "reap" /\ p \in todo /\ pid[p] = None
  /\ \A q \in todo : pid[q] = None
  /\ todo' = todo \ {p}
  /\ IF ~CanReap(p)
       THEN UNCHANGED <<gens, completed>>
       ELSE /\ gens' = [gens EXCEPT ![p]["sighupint"] = reapgens["sighupint"],
                                    ![p]["internal_exit"] = reapgens["internal_exit"]]
            /\ completed' =
                 IF /\ gens[p]["internal_exit"] # reapgens["internal_exit"]
                    /\ iproc[p] \in {"exited", "posted"}
                   THEN completed \cup {p} ELSE completed
  /\ UNCHANGED <<topics, kernel, signals, jobList, constructed, grouped, next, pid, iproc,
                 stopped, exits, pc, fg, reapgens, cleaning>>

(* reap_disowned_pids(): a pid stays in the list while waitpid() says that *)
(* the child exists and has not exited.                                    *)
ReapDisowned ==
  /\ pc = "reap" /\ todo = {}
  /\ disowned' = {k \in disowned : kern[k] \in {"running", "stopped"}}
  /\ kern' = [k \in Pids |-> IF k \in disowned /\ kern[k] = "zombie" THEN "free" ELSE kern[k]]
  /\ pc' = IF fg # None THEN "eval" ELSE "clean"
  /\ reapgens' = Zero
  /\ UNCHANGED <<topics, report, sigchld, signals, jobs, disowning, events, fired,
                 fg, todo, cleaning>>

-----------------------------------------------------------------------------
(* Cleaning: process_clean_after_marking(), and disown. *)

(* Mutant: completed jobs leave before their events are generated. *)
CleanThenGenerate ==
  LET kept == {j \in jobList : j \notin disowning \/ j \notin constructed}
      done == {j \in kept : j \in constructed /\ JobCompleted(j)}
      new == {p \in UNION {ExternalProcs(j) : j \in kept \ done} :
                p \in completed /\ p \notin events /\ fired[p] = 0}
  IN /\ pc = "clean"
     /\ pc' = "eval"
     /\ IF cleaning
          THEN UNCHANGED <<jobList, events, cleaning>>
          ELSE /\ jobList' = kept \ done
               /\ events' = events \cup new
               /\ cleaning' = (new # {})
     /\ UNCHANGED <<topics, kernel, signals, constructed, grouped, next, pid, iproc, gens,
                    completed, stopped, disowned, disowning, fired, fg, reapgens, todo>>

(* Disowned jobs leave the list, process_exit events are generated, and    *)
(* completed jobs leave.  A call from an event handler returns at once.    *)
Clean ==
  LET kept == {j \in jobList : j \notin disowning \/ j \notin constructed}
      done == {j \in kept : j \in constructed /\ JobCompleted(j)}
      new == {p \in UNION {ExternalProcs(j) : j \in kept} :
                p \in completed /\ p \notin events /\ fired[p] = 0}
  IN /\ pc = "clean"
     /\ pc' = "eval"
     /\ IF cleaning
          THEN UNCHANGED <<jobList, events, cleaning>>
          ELSE /\ jobList' = kept \ done
               /\ events' = events \cup new
               /\ cleaning' = (new # {})
     /\ UNCHANGED <<topics, kernel, signals, constructed, grouped, next, pid, iproc, gens,
                    completed, stopped, disowned, disowning, fired, fg, reapgens, todo>>

(* The events are fired one by one; handlers run jobs of their own. *)
FireEvent(p) ==
  /\ BetweenCommands /\ cleaning
  /\ p \in events
  /\ events' = events \ {p}
  /\ fired' = [fired EXCEPT ![p] = @ + 1]
  /\ cleaning' = (events' # {})
  /\ UNCHANGED <<topics, kernel, signals, jobs, disowned, disowning, pc, fg, reapgens, todo>>

(* builtin disown: a stopped job is continued; all its pids are noted. *)
Disown(j) ==
  LET group == {k \in {pid[p] : p \in ExternalProcs(j) \ completed} : kern[k] = "stopped"} IN
  /\ MayDisown /\ BetweenCommands
  /\ j \in jobList \cap constructed /\ j \notin disowning /\ ~JobCompleted(j)
  /\ IF JobStopped(j)
       THEN /\ kern' = [k \in Pids |-> IF k \in group THEN "running" ELSE kern[k]]
            /\ report' = [k \in Pids |-> IF k \in group THEN "continued" ELSE report[k]]
            /\ sigchld' = (sigchld \/ group # {})
       ELSE UNCHANGED kernel
  /\ disowning' = disowning \cup {j}
  /\ disowned' = disowned \cup {pid[p] : p \in ExternalProcs(j)}
  /\ UNCHANGED <<topics, signals, jobs, events, fired, main>>

-----------------------------------------------------------------------------
(* The system runs; the main thread's obligations. *)
MainStep ==
  \/ \E j \in Jobs :
       \/ \E p \in Procs : RecordGenerations(j, p) \/ ShortCircuit(j, p)
                            \/ RunInternal(j, p) \/ SetPid(j, p)
       \/ \E p \in Procs, k \in Pids : Fork(j, p, k)
       \/ Construct(j)
  \/ AwaitForeground \/ NothingToReap \/ FoundChange
  \/ \E p \in Procs : ReapExternal(p) \/ ReapInternal(p) \/ FireEvent(p)
  \/ ReapDisowned \/ Clean

Next ==
  \/ MainStep
  \/ \E j \in Jobs :
       StartJob(j) \/ Resume(j) \/ Disown(j)
       \/ \E i \in 1..Len(Pipeline[j]) : LaunchFails(j, i)
  \/ StartReap
  \/ \E k \in Pids : Exit(k) \/ StopOrContinue(k)
  \/ HandleSigchld \/ HandleSigint
  \/ \E p \in Procs : InternalExits(p) \/ InternalPosts(p)

(* The main thread runs, pending signals are delivered and internal        *)
(* processes end; children owe nothing.                                    *)
Fairness ==
  /\ WF_vars(MainStep)
  /\ WF_vars(HandleSigchld)
  /\ \A p \in Procs : WF_vars(InternalExits(p)) /\ WF_vars(InternalPosts(p))

Spec == Init /\ [][Next]_vars /\ Fairness

-----------------------------------------------------------------------------
(* Properties. *)

(* What waitpid() would tell of a process, once the signal handler ran. *)
HasNews(p) ==
  IF p \in External
    THEN pid[p] # None /\ ~sigchld
         /\ (kern[pid[p]] = "zombie" \/ report[pid[p]] # "none")
    ELSE iproc[p] = "posted"

Waits(p) == p \in ListedProcs \ completed /\ p \notin todo /\ iproc[p] = "posted"

(* No exit, stop or continue is missed: a process fish still waits for     *)
(* whose news has been announced is behind on its topic, so the next look  *)
(* finds it and a blocking look cannot sleep (proc.rs, comments of         *)
(* check_generations_before_launch and process_mark_finished_children).    *)
NoMissedNews ==
  \A p \in Procs : Waits(p) /\ HasNews(p) =>
    gens[p][IF p \in External THEN "sigchld" ELSE "internal_exit"]
      < published[IF p \in External THEN "sigchld" ELSE "internal_exit"]

(* The group leader of a job under construction is not reaped, so its      *)
(* process group exists when later processes join it (Job::can_reap).  As  *)
(* long as nothing was disowned: a pid that stays on the list of disowned  *)
(* pids and is used again is reaped from there.                            *)
LeaderKept ==
  disowning = {} => \A j \in jobList \ constructed :
    Pgid(j) # None => kern[Pgid(j)] # "free"

(* Each external process of a job that ended is announced by process_exit  *)
(* exactly once: never twice, and never lost when its job leaves the list. *)
ExitAnnouncedOnce ==
  \A p \in Procs :
    /\ fired[p] + (IF p \in events THEN 1 ELSE 0) <= 1
    /\ /\ JobOf(p) \in constructed \ (jobList \cup disowning)
       /\ pid[p] # None
       => fired[p] = 1 \/ p \in events

(* A foreground job of which nothing runs any more is not waited for       *)
(* forever: whatever signals were coalesced on the way, and wherever the   *)
(* launch of its pipeline was given up (the loop of Job::continue_job).    *)
AllEnded(j) ==
  \A p \in ToSet(Pipeline[j]) :
    \/ p \in completed
    \/ pid[p] # None /\ kern[pid[p]] = "zombie"
    \/ pid[p] = None /\ iproc[p] \notin {"running", "exited"}

ForegroundReturns ==
  \A j \in Jobs : (fg = j /\ AllEnded(j)) ~> fg # j

(* The state is of its types, and the group that processes of a pipeline   *)
(* join exists.                                                            *)
PidsConsistent == TypeOK /\ LeaderKept
=============================================================================
