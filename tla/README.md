# fish-shell: TLA+ models, checks and proofs

This directory holds TLA+ modules for the core of fish (`src/src`), the TLC configurations that model-check them, and theorems about
them that TLAPS checks. `PROJECT.json` is the machine-readable index: it maps
each definition to the lines it models and each property to the run and the
mutant that show it is about the code.

    tlc -workers 2 -config MCTopics.cfg MCTopicMonitor.tla
    tlapm TopicMonitorProofs.tla

fish is one main thread that does nearly everything, signal handlers that
interrupt it anywhere, a pool of background threads, one thread that reads the
output of children, and children whose exits and stops arrive through
coalesced signals. Beside it other shells change the same files. What is hard to
test in it is the seams between those, and in the single thread the long
sequences of commands that share state: undo history, searches, suggestions,
scopes.

## 1. Inventory

State, operations and partners of each component, and what makes it correct.
Components marked * are modelled, the others are in section 7.

| Component | State | Operations | Talks to | Correct when |
|---|---|---|---|---|
| Topic monitor* `topic_monitor.rs` | status byte, semaphore, generations under a mutex, reader flag | `post` (signal-safe), `check`, `current_generations` | signal handlers and internal processes post; reaping checks | no post is lost on a sleeper; answers are right at one moment of the call; the semaphore stays binary |
| Jobs and reaping* `proc.rs`, `exec.rs` | job list, processes with their generations, disowned pids | launch, `continue_job`, `job_reap`, disown, fg | topic monitor, kernel, events | no exit or stop is missed; leaders outlive the launch; exits are announced once; foreground waits end |
| Signals* `signal.rs` | cancellation flag | handlers of SIGCHLD, SIGINT, others | topic monitor, events | async-signal-safe, nothing lost |
| Events* `event.rs`, `builtins/{block,function,emit}.rs` | pending signals, blocked events, handlers | `fire`, `fire_delayed`, `fire_internal`, add, remove, block | signals, reaping, parser blocks | each event and observed signal is fired once it is not blocked; removed handlers stay quiet |
| Thread pool* `threads.rs` | queue, thread counters | `perform`, dequeue, wait, exit | all users of background threads | every item is run; urgent items are not stuck behind others |
| Debounce and main queue* `threads.rs` | the next request, active token, results | `perform`, `run_next`, `iothread_service_main` | pool, reader | the last request is run and its result delivered |
| Fd monitor* and output capture* `fd_monitor.rs`, `io.rs` | items, changes, buffers | `add`, `remove_item`, `run`, `read_once`, `complete_and_take_buffer` | exec, children | all output is captured, in order; writers are never stuck |
| Universal variables* `env_universal_common.rs` | variables, own changes, file identity | `set`, `sync`, load, merge, save under a lock, rename | other shells, notifier, environment | no change of one shell overwrites another's; the file's identity tells its content; shells come to agree |
| History* `history.rs`, `history/file.rs` | new items, index of the first unwritten, deleted items, file id | add, append, rewrite under a lock, merge, clear, delete, detection in the background | other shells, reader | no item is lost or doubled, the index is exact |
| Wait handles `wait_handle.rs`, `builtins/wait.rs` | bounded store of finished jobs | add, look up by pid, `wait`, `wait -n` | jobs | a pid means the newest process of that pid |
| Job list `parser.rs`, `job_group.rs` | ordered jobs, job ids | add, promote, fg, bg | jobs | ids are unique; promotion keeps the order of the others |
| Reader* `reader.rs`, `editable_line.rs`, `reader_history_search.rs`, `kill.rs` | command line with undo history, search, suggestion shown and saved, request in flight, kill ring | edit, undo, redo, group, search, accept, kill, yank, results of threads | debounce, history, input | stale results are dropped; undo shows what was shown; searches take back their own edits |
| Input queue `input.rs`, `input_common.rs` | queue of key events | peek, push back, match | reader, events | no key is lost or reordered |
| Environment* `env/environment_impl.rs` | chains of scopes, globals, universal layer, cached export array | set, get, erase, push, pop, acquire | all | lookup and setting agree; exports are those seen; the cache is fresh |
| Functions, autoload `function.rs`, `autoload.rs` | cache of loaded files | load, forget, invalidate | parser | a changed file is loaded again |
| Evaluation, tokenizer, AST, expansion, completion, output, builtins | mostly none | | | text processing, covered by the unit tests |

## 2. Plan and its state

Order: what everything waits on first, then its clients, then the files that
shells share, then the state of the main thread.

1. `TopicPromise`, `TopicMonitor` - done, proved.
2. `Reaping` over `TopicPromise` - done, safety proved.
3. `ThreadPool` and `Debounce` - done, safety proved.
4. `FdMonitor`, `Events` - done, safety proved.
5. `SharedVars`, `UniversalVariables` - done, a refinement, proved.
6. `HistoryFile` - done, safety proved.
7. `Environment` - done, safety proved.
8. `EditableLine`, `UndoPromise`, `ReaderHistorySearch`, `LineEditor` - done,
   safety and the refinement proved.
9. `CommandLine`: suggestions over `Debounce`'s promise, kill ring - done, proved.
10. Next: wait handles and the job list (pid reuse, eviction, promotion), the
    autoload cache, the input queue.

## 3. Modules

### TopicPromise, TopicMonitor

`TopicPromise` is the abstract specification: a generation per topic, a post that
moves it just past what anybody has seen, and calls that answer by a value that
was right at one moment. It has no lock, semaphore or condition variable.
`TopicMonitor` is the code: `status`, `sema`, `lock`, `hasReader` and `current`
are the fields of `TopicMonitor` in `topic_monitor.rs`; `pc` is where each
thread stands in `check`, `try_update_gens_maybe_becoming_reader` and
`await_gens`. A CAS loop is one step; post and the post of the semaphore are
two; the reader's CAS is apart from the test before it, with the lock held.
`Published`, the generations with the pending bits applied, is the refinement
mapping for what a query may return, `current` for what has been seen.
Generations are unbounded here; in the code they are `u64`.

### Reaping

Launch (`exec_job`, `exec_process_in_job`, `fork_child_for_process`,
`run_internal_process_or_short_circuit`, `abort_pipeline_from`), the wait of a
foreground job, `job_reap`, `process_mark_finished_children`,
`process_clean_after_marking`, disown and fg, over the kernel's view of the
children. It instantiates `TopicPromise` for the monitor: `Monitor!Post` is the
handler of SIGCHLD or SIGINT, or an internal process; the look of the main thread
reads `published` in the same step as `check` would. One system call is one step.
Pids are used again.

Processes are launched in the order of the code: the deferred one, the last
internal process that pipes into a child, comes after all the others (`Deferred`,
`Rank`). A launch may fail at any process, by a pipe, a redirection, a fork, or a
function that cannot be run (`LaunchFails`): the process and those after it are
marked, the deferred one too if anything was launched, or the job leaves the list.
`grouped` are the jobs whose first process leads a group; `CanReap` compares pid
and group as the code compares two `Option`s, so without a group the internal
processes of a job under construction are not reapable either. A builtin, function
or block "performs" between the record of its generations and its output; the main
thread may then run other commands, reap and fire events (`BetweenCommands`). In
the code these are nested and end in order; which of two such pipelines goes on
first is left open, which allows more.

Not modelled: a job of a function that joins the group of the pipeline around it;
job summaries, terminal ownership, exit statuses, `hup_jobs`; that the process_exit
events of a foreground job may be suppressed inside an event handler.

### ThreadPool, Debounce

`ThreadPool` keeps the queue, the counters as the code computes them and, beside
them, where every thread is, so that the two can be compared. Deciding (under
the mutex) and acting (after it) are two steps. `SpawnFails` needs another
counted thread: the comment in `perform_inner()` calls the contrary very
unlikely, and the code has no answer to it.
`Debounce` takes the pool by its promise (`AllRun`), and models `run_next`,
`perform_inner`, the push to `MAIN_THREAD_QUEUE`, the signaller and the main
thread's consume, take and callbacks, each a step.

### FdMonitor

The fd monitor with `IoBufferfill` as its client: pipes of `Capacity` chunks,
children that write, close or linger, builtins that append directly, the
background thread with its snapshot, poll and second look under the mutex, and
`finish()` with its drain. Fds are used again at once. Spawning the thread is
taken to succeed.

### Events

`stack` is the main thread's stack of `fire_internal` ("run") and `fire_delayed`
("delayed") calls, with the locals that outlive a step. Where the stack is empty
or a handler runs, script code may do any of: emit, define or erase a handler,
block, unblock, find an exit. `Mark` is the signal handler and runs between any
two steps; the loads and stores of `acquire_pending` are steps of their own.
`BLOCKED_EVENTS` that stays locked is the field `guard`. `ProcessExit` may nest
in handlers, each exit being found once.

### SharedVars, UniversalVariables

`SharedVars` is the abstract specification: one file, and per shell a view and
its own changes that are pending. A refresh puts the file under the own changes,
a commit writes the result, and nothing else changes the file unless a shell
works without the lock or is mistaken about the file. `UniversalVariables` is
`EnvUniversal`: `pc` is where each shell stands in `sync()`, and each system call
(open, flock, fstat, read, write of the temporary file, rename) is a step. Inode
numbers are used again. The file's identity is inode, size and times, and the
clock of the file system is a coarse one: a stamp may have the time of the one
before (comment at `env_universal_common.rs:788`). A rename raises `notified` in
every shell (inotify). Opening, reading, locking, writing the temporary file and
renaming may fail, flock() may fail or be slow (the shell then goes on without a
lock, `lockless`), and a shell may be killed and start again with nothing but the
file. Shells may be of a later version, which writes a format that the earlier
ones must not overwrite. `SharedFile` states the refinement; a shell that has
opened the file sees what it is going to read.

Two things put a shell `astray`: its `last_read_file` is then not the identity of
what it read. A read that fails counts as the end of the file (line 735,
`FailingRead`): the shell takes some of the variables for all of them, or, if the
first read failed, none, of a file whose format counts as that of fish 2. And a
new file may get the identity of the one the shell knows (`Deceived`). Such a
shell may put what it wrongly sees over the file, a later format included, until
it has read the file as a whole. The properties say that nobody else does, and that
the others still come to agree; section 4 lists both. stat() and fstat() are taken
to succeed, the first block of a file to hold its format, and files to be shorter
than `MAX_READ_SIZE`.

### HistoryFile

`HistoryImpl` of several shells and their common file, a set of entries. A save
appends (open, lock, compare the path, write) or rewrites (open, read, write the
temporary file, reopen, lock, compare, rename), each a step; deletion, clearing,
merging, clearing of a session, the boundary of the session and the detection of
file arguments in the background (which holds back saving) are actions. Time is
in half seconds, since the file keeps whole seconds and the boundary does not.
Left out: the pending item, memory-only histories, the cap on the number of
items, the lock that is given up because it is slow, the order of entries, and
`populate_from_bash`. Loading the old items and the write of an append are one
step. `raced`, `failed` and `skipped` say where the code does not keep what the
properties ask; section 4 lists them.

### Environment

The chains of `EnvNode`s, the globals, the universal layer and the cached export
array with its generations. Setting, erasing, blocks, calls and a change that
comes from another shell are actions; each runs under `ENV_LOCK` and is one step.
Left out: path variables, electric variables, snapshots, `create_child`.

### EditableLine, UndoPromise, ReaderHistorySearch, LineEditor

`EditableLine` holds the operations of `editable_line.rs` on a line with its undo
history, as operators on a record. `UndoPromise` is the abstract specification:
the text and cursor shown, those before it and those after it; undo and redo
move along, a change forgets the ones after it. `LineEditor` shows that the
former implements the latter (`UndoPromised`) through coalescing, groups and the
search, which takes back its own edits. `ReaderHistorySearch` is the search over
lines, prefixes or tokens. The views that undo and redo would stop at (`Past`,
`Future`) are given by `Kept` of the small module `Thinning`, which `HistoryFile`
uses too. Deleting a match saves the history at once (`reader.rs:3116`), which
rewrites the whole file (`Rewritten`): each text is left at its most recent place
only, in the order of time (`LastUsed`, a constant as nothing is executed), without
the texts that are to be deleted (`deleted_items`) and without those that another
shell has used again, whose items are then too recent to be shown, or deleted
(`Elsewhere`). If the rewrite fails, the history stays and the text waits in
`deleted_items` for the next. All items are from before the shell started; items of
its own session, ephemeral ones and private mode are left out here (`HistoryFile` has
the files and the new items). `LineEditor` has one
action per command of `handle_readline_command()`, with what `handle_char_event()`
does around it.

### CommandLine

The suggestion shown, the one kept aside, the request in flight, the thread that
computes (by the promise of `Debounce`, but for threads that are abandoned), and
the main thread's queue; and the kill ring with yank and yank-pop.
`handle_char_event()` brings the suggestion up to date, waits for an event, and
takes results while it waits. `Uses` splits the behaviours: those that suggest
type the line, those of the kill ring begin with the line `Given`, as their
product adds nothing. The line has no white space around the cursor, the cursor
is not vi's, suggestions keep the case, undo brings back any line that was
shown, and executing a line does not add it to the history.

## 4. Runs

Every passing run is complete: TLC exhausts the state graph. Each property has a
mutant in the module, a definition marked "Mutant", which replaces the one it is
named after in `PROJECT.json` and violates the property under the same
configuration. The type invariant of a module is a part of its first invariant
(`MonitorConsistent`, `PoolConsistent`, ...), whose parts are named in the module.

| Run | Instance | Shows |
|---|---|---|
| `topics` | 2 threads, 2 topics, 2 posters, 3 posts | types, semaphore, sleepers, the assertions in the code; the promise |
| `reaping` | a foreground pipeline of two children around an internal process, which is deferred; any failure of its launch, 2 pids, 1 stop, continue or SIGINT, disown | no news is missed, leaders are kept until something is disowned, exits announced once, the foreground wait ends |
| `pool` | 4 items (2 urgent), 4 threads, soft minimum 1, limit 2 | counters, somebody comes, urgent items have a thread, all items run |
| `debounce` | 3 requests, a timeout | a waiting request has a thread, results arrive, in order unless abandoned |
| `capture` | 2 captures (1 with a lingering child), 2 fds, pipes of 2, 2 writes, 1 direct append, limit 2 | nothing lost, complete at the end, items watched, writers freed |
| `events` | 2 signals (SIGWINCH one), 4 handlers, 1 variable, 1 exit; 3 commands, 2 signals, 1 SIGINT | signals and events accounted for and delivered, no self-deadlock, removed handlers stay quiet |
| `uvars` | 2 shells, no file or one with a variable, then perhaps a shell of a later version; 2 variables, 2 changes, 1 tick of the clock, 1 fault | the shared file, its identity, handlers informed, later formats kept, agreement in the end |
| `history` | 2 shells, 2 commands of 2 texts, 2 other operations, one of them perhaps a fault; 2 half seconds | what is written stays, the index is exact, own items appear once, nothing stays unsaved |
| `environment` | 1 variable, 2 values, 3 scopes, 4 changes | lookups find what is set, exports are those seen, calls pass them on, the cache is fresh |
| `line` | lines of 2 characters, 2 edits, 1 group, clicks at the start, a history of 4 items of 3 texts, 1 of them used elsewhere, 1 failed deletion | undo keeps its promise, searches take back their edits and miss nothing |
| `commandline` | lines of 2 characters, a burst, 1 result in the queue, a ring of 2 | suggestions fit and arrive, yanks bring back |
| `search_panic` | as `line` | an assertion of the search fails |

The bounds are in the CONSTANTS: `MaxPosts`, `MaxSignals`, `MaxRequests`,
`MaxWrites`, `MaxDirect`, `MaxOps`, `MaxMarks`, `MaxInts`, `MaxSets`, `MaxFaults`,
`MaxTime`, `MaxAdds`, `MaxInodes`, `MaxDepth`, `MaxGen`, `MaxUvarGen`,
`MaxArrays`, `MaxChanges`, `MaxLen`, `MaxEdits`, `MaxGroups`, `MaxResults`,
`MaxRing`, and in `LineEditor` `MaxUnsaved` and `Clicks`, where clicks go: to
the start is enough to take the cursor out of the word that is searched for. They are chosen so that what the properties are about happens: three
posts are one that is seen, one that is coalesced and one that finds the reader
asleep; three requests are one that runs, one that waits and one that abandons;
two writes beside a direct append go over `Limit`, and fill a pipe; two changes
of universal variables are one of each shell, so that each has to merge, or two of
one, after which the file of the start may have an inode, a size and times again
that the other shell knows; one tick tells stamps that have the same time from
others; five
inodes are the shared file, two temporary ones, one kept open and one left by a
killed shell; four changes of one variable fill every scope that can hide it;
two texts and two commands are an item that is written, and a second one that
rewrites, deletes or repeats it. `CHECK_DEADLOCK` is FALSE where the bounds let
the system stop, and a shell that has nothing to do is at rest.

**The divergence a run shows.** `search_panic`: deleting two matches that come from
one item fails `assert!(self.current_index != 0)` (`history.rs:1878`). A token
search takes several matches from an item (`reader_history_search.rs:204`), while
each deletion steps back by an item.

**Other divergences met while modelling.** Each was seen in these models, with the
property in brackets restricted to where the code keeps it:

- `proc.rs:1402`: "even though they are not associated with any jobs".
  `add_disowned_job()` notes the pids of processes that were reaped already, so
  DISOWNED_PIDS may hold the pid of a process of a new job. If that one leads a
  pipeline, `reap_disowned_pids()` could reap the leader while the job is under
  construction (`LeaderKept` is stated for as long as nothing was disowned).
- `threads.rs:536`: the timeout of a debounce is only looked at in `perform()`;
  without another request the one that waits behind a hanging handler is never
  serviced (`LastDelivered` is checked with no handler that hangs).
- `threads.rs:541`: an abandoned thread takes the next request before it looks at
  its token.
- `event.rs:145`: "it fires at most once". A one-shot handler fires again when the
  same exit is announced inside it, since `fired` is set after the evaluation.
- `env_universal_common.rs:804`: the condition is inverted, `futimens()` is only
  called when `clock_gettime()` fails. So two saves within a tick of the coarse clock
  may bring an inode number back with the same size and times, and a shell takes
  the file for the one it has read, does not load it, and may save over it.
- `env_universal_common.rs:735`: a read that fails ends the file. What was read
  until then is acquired and recorded as the file's content, and a `sync()` that
  began with a change saves it over the file, without the variables that were not
  read; after an empty read, over a file of a later format, too.

  Shells in these two states are the ones in `astray`. `IdentityTellsContent`,
  `LaterFormatKept` and `Converge` except them, and `SharedFile` bounds what they may
  do (`Misread`, `Deceive`, `CommitStale` of `SharedVars`). Without the exceptions all
  four fail.
- `history.rs:782`: a rename that fails, or the write of an append, loses the
  items, which count as saved (`UnwrittenExact` excepts `failed`).
- `history clear` beside a save of another shell can lose what a third one writes
  (`raced`). A detection of a command that is not to be kept holds back the save of
  others and does not make up for it (`skipped`).
- `env_universal_common.rs:122`, `environment_impl.rs:924`: `set -Uu` of an exported
  variable, and hiding or uncovering one by a variable that is not exported, leave
  the cached array as it was (`ArrayFresh` excepts `unveiled`). Leaving a scope that
  hid it so does, too.
- `environment_impl.rs:659`: the generations of a new array are added to the old
  ones, so the cache is normally not used any more. A stale array can even match by
  chance, when the number of a universal generation is one of a node's
  (`ArrayFresh` is about the first array).
- `environment_impl.rs:865`: a call resurrects an exported outer variable that an
  inner one, not exported, hides (`CallKeepsExports` excepts it).
- `editable_line.rs:82`: groups do not nest, as the first end closes them all.
- `reader.rs:2488`: characters that arrive in a burst are inserted without ending
  the search, and a search inside an open group takes the group back with its own
  edit (`SearchTakesBack` excepts both, `strayed`).
- `reader.rs:3116`: a deletion steps back by one item (`reader_history_search.rs`),
  but the rewritten history may have lost several before the search's place, or have
  them in another order, so that items not seen yet come before it and are passed
  over (`SearchConsistent` excepts this, `surfaced`; without the exception the run
  fails). Nothing brings the search back to them.
- `reader.rs:4967`: "accept_autosuggestion should only be called when at end of
  line". Erasing what was typed over a suggestion restores it, and if the line it
  leaves is the one in flight, `update_autosuggestion()` (`reader.rs:4905`) keeps it
  although it ends before the line does. A forward command with the cursor at that
  end fails the assertion (`AcceptIsAtLine` excepts it, `back`). It takes a late
  result for a line that was typed in a burst, lines of 3 characters and 2 results
  in the queue; the exception was found while proving the invariant.
- `reader.rs:4906`: a request that was cancelled answers for an empty line, which
  leaves the old one in flight. When the line returns to it, no suggestion is asked
  for (`Settles` excepts it, `overtaken`).
- `history-delete` clears the suggestion and neither the one kept aside nor the
  request in flight, so a deleted item can be suggested again.
- `reader.rs:2928`: yank-pop after a mouse click may subtract below zero, a panic
  where overflow is checked (`YankPopTakesYank` excepts it, `clicked`).

## 5. Fairness

- Weak fairness of each thread's step: the operating system schedules threads,
  and every blocking call is modelled as a disabled step.
- Signal handlers run to their end and pending signals are delivered: weak
  fairness of `SemaPost`, `HandleSigchld`.
- Handlers, work items and internal processes return; `Hanging` names the
  requests whose handler does not. Children owe nothing: they may run, stay
  stopped or keep a pipe open for ever.
- Time passes (`Expire`), but no property of `ThreadPool` depends on the timeout
  of a wait (`EndWait` has no fairness).
- `Events`: script blocks end (`EndScope`, strong because input may be read
  inside them) and the reader keeps reading.
- `UniversalVariables`: a shell that can go on with a `sync()`, ends the job that
  changed a variable, or serves the notification of the reader, does one of them.
  Strong, as `flock()` serves every waiter in the end: each holder releases it. A
  shell need not run external commands.
- `CommandLine`: the reader's loop, the thread and the queue go on; the user owes
  nothing, and `Settles` is about users that stop.
- `HistoryFile`, `Environment` and `LineEditor` state safety only: nothing there
  happens but by the user or in one step.

No fairness is assumed of scripts: they may emit, disown or run nothing.

## 6. Proofs

All for arbitrary sets of topics, threads, posters, shells and inodes, finite or
infinite, and any bound; assumptions are the named ASSUMEs of the modules.

`TopicMonitorProofs`. The inductive invariant `IInv` is `TypeOK`, `Balanced`,
`SleepersCovered`, `AssertionsHold` and `LockInv`. `LockInv` (who may hold the
mutex across a step, and that the generations such a thread compared are still
the current ones) is needed because the reader's test and CAS are two steps:
without it a thread could become reader with generations that have moved, and
sleep. `Balanced` and `SleepersCovered` depend on each other: that a sleeper's
reader is being woken follows from the place of the one wakeup token. Theorems:
`TypeCorrect`, `SemaphoreBalanced`, `NoStaleSleeper`, `AssertionsNeverFire`, and
`ImplementsPromise`: every step of the monitor is a step of `TopicPromise` or a
stutter (`Spec => Abstract!Safety`).

`ReaderProofs` extends `CommandLine`, `LineEditor`, `ThreadPool` and `Debounce`, the
reader and the threads that work for it; names are chosen so that these can stand in
one module.

The pool. `PoolIInv` is `PoolTypeOK`, `CountersExact`, `ThreadPerItem`, and two
parts that are needed to make them inductive: `ItemsInv` (what is queued was
performed, what runs was started) and `Coming`, which strengthens `SomeoneComes`
for the time between perform()'s decision and its action: a non-empty queue has
an active thread, or a sleeper about to be notified, or no sleeper at all when
a thread is about to be spawned. The last case is why a failed spawn strands
nothing: by the counters another thread lives, and it is not asleep. `MoveLemma`
counts the sets of threads when one of them moves. Theorems: `PoolTypeCorrect`,
`CountersAlwaysExact`, `NoItemStranded`, `UrgentServed`, `PoolAlwaysConsistent`. They
assume a limit of at least one thread (the code has 1024) and finitely many thread
identities.

Debounce. `DebounceIInv` is `DebounceTypeOK`, `PendingHasThread`, `NoResultStranded` and
four parts about what the steps rely on: `TokensInv` (tokens from `next_token` on
were never used, so a spawn reuses no thread), `AgeInv` (the waiting request is
newer than any that was taken, run or queued: this is what makes taking ordered
although any thread, abandoned ones too, may take it), `JobInv` and `BatchInv`.
The order of results needs a second invariant on top, `OrderInv`: while nobody
was abandoned only the active thread is at work, callbacks and queue form one
ascending line, and what is being run is newer than all of the line. Theorems:
`DebounceTypeCorrect`, `RequestsHaveThreads`, `ResultsAnnounced`,
`RequestsTakenInOrder`, `ResultsInOrder`, `DebounceAlwaysConsistent`, for any number
of requests, with a timeout or without one.

The command line. Two invariants, each with lemmas per group of actions. `LineInv`
is `TypeOK`, `SuggestionFits` and three parts. `PlacedInv`: a suggestion that does
not end where the line does was restored on the line in flight, or the update that
gives it up is still to come; the attempt to prove the assertion of reader.rs:4967
without this case is how the divergence in section 4 was found. `ResultsInv`: every result on its way goes on with the line it was asked
for, so it fits when that line is the one shown. `RestInv`: a behaviour that uses the
kill ring is suggested nothing. An edit is a splice of the line
(`SpliceLemma`, character by character), and a suggestion that survives one
(`PreservedFits`) still agrees with the new line up to its end. `RingInv` adds the
kill ring: `YankInv` (who may pop has a ring) and `KillInv`, which says of a run of
kills in either direction what a test can only sample: putting the kill item in at
the cursor gives the line that `whole` remembers, the one before the first kill
(`TakenOutComesBack`, from `KilledForwards`, `KilledBackwards` and `KilledFirst`). Theorems: `Invariance`, `SuggestionsStayConsistent`,
`YankPopAlwaysTakesYank` and, for the action property, `YanksBringBack`, for any
history, completions, bursts of input and bounds; assumed is that they, and the
line given at the start, are made of characters that can be typed
(`CommandLineAssumption`).

The line editor. An entry of the undo history says how one text was made of another.
`LineOK` is that there are texts, one before the oldest entry and one after each,
such that every entry recounts its step (`Recounts`), the line shows the text where
the entries applied end, and what a redo would do puts the cursor within its text.
Taking entries back or applying them again then moves along these texts
(`RevertLemma`, `ReplayLemma`), and a coalesced insertion makes of the older text
what the two made of it (`SpliceTwice`), although no entry names a text. `SearchOK`
says where a search is and that its matches fit, and `NothingMissed` that whatever
the history offers up to where the search got is a match or was skipped. A deletion
may rewrite the history in any way (`RewrittenLemma` only needs that it has texts):
nothing is missed after it if what comes before the search's place did before
(`Surfaces`).
`EditorIInv` joins these with the types. `TakesBackInv` adds what a search that was
not strayed from shows, and that on a match undoing the last entry, which is in no
group, brings back the line that was searched for (`ComesBack`): going to another
match is undoing this entry and making one. What a function over entries or items
returns is again proved from the least place where it would fail.

The refinement of `UndoPromise` maps a line to the views in its entries. `Past` keeps
those before the first entry of each group that is applied, `Future` those after the
last entry of each group that is not, and both are told by the same texts: so undoing
moves one view from the end of `Past` to the head of `Future` (`UndoView`,
`LongerPast`, `LongerFuture`) and redoing moves it back (`AgainView`), while what is
pushed adds a view or joins the last (`PushedView`), and what is coalesced leaves the
views alone (`CoalescedView`). Three facts about groups make this true, `Whole`:
undo and redo stop between groups, no entry has the number of a group to come, and an
open group has entries only while nothing is undone, for otherwise a new entry would
join a group across what it overwrites. `PromiseInv` adds that a match shown is the
last entry there is: undoing it and showing another is, seen from outside, a
continuation of one change (`ShowMatchView`), and as no match is empty, it is one.

Theorems: `SearchAlwaysConsistent`; for the action property, `SearchAlwaysTakesBack`;
and for the refinement, `UndoAlwaysPromised`, for any characters, history and bounds;
assumed is `EditorAssumption`.

`UniversalVariablesProofs`. `IInv` is `TypeOK`, `HandlersInformed` and five parts.
`LockInv`: while every shell locks, who has compared the file with the path holds
the lock of the file that the path stands for, until its rename. As a lock has one
holder, nobody else is then past the comparison. `KnownInv`: an identity that a
shell does know stands for the content it read and for a format it may write,
whether the inode is at the path or not, unless the shell is astray. A new file may
have such an identity, which is why `Deceived` puts its shells in `astray`; a rename
only moves a time on, and cannot make one up, as no shell knows of an inode a time
later than the one it has (`ClockInv`). `SaveInv`: what is going to be renamed over
the file is the file's table under the own changes of the shell, unless it is
astray. `DescInv` says which descriptors are open where. `TakeLemma` and `LoadLemma`
say what `load_from_fd()` leaves, elided, whole, cut short and empty. Theorems:
`AlwaysConsistent`, `IdentityIsContent`, `LaterFormatStays`, and
`ImplementsSharedVars`: taking over a file happens where it is opened for reading or
found at the path, committing at the rename; a reading that goes wrong is a `Misread`,
a file made with a known identity a `Deceive`, and every other step a stutter. Assumed
is `UniversalAssumption`, and nothing of the clock but that it does not go back.

`ReapingProofs`. `IInv` is `TypeOK`, `ExitAnnouncedOnce` and four parts. `NewsInv`
strengthens `NoMissedNews` to processes that are still being launched, are of no
listed job or have not had their turn in the loops: whoever has news that a handler
announced is behind on its topic. It holds because news only arises together with a
pending SIGCHLD, because a post moves its topic past everything that was seen
(`GensInv`, `PostLemma`: nobody holds a generation that was not seen), because a
process records its generations before it has a pid (`StageInv`), and because
reaping raises them only with waitpid() having told the news, or when they were not
behind (`WaitpidLemma`, `ReapExternalKeeps`). `KernelInv` is what makes a pid that is used
again harmless here. `LeaderInv`, proved on top of `IInv`, is about the group
leaders: only `waitpid()` frees a pid, and completes the process with it;
until then a pid is of one process which fish waits for (`OwnersInv`, as long as
nothing was disowned), so a leader that no one completed (`LeadersWait`, from
`can_reap()`) is not free. `LaunchInv`, how far each pipeline was launched, the
deferred process last (`RankLemma`), shows that a failed launch gives up no child that
runs, and `GroupInv` that a job has its group from the start. Theorems: `NoNewsIsMissed`,
`ExitsAreAnnouncedOnce`, `PidsStayConsistent`, for any jobs, pipelines, pids and
bound on signals; assumptions: a process is at one place of one job, pipelines are
not empty, no pid stands for none.

`FdMonitorProofs`. `IInv` is `ItemsConsistent` and five parts. `FdInv`: an item has
an fd from `add()` until its capture is taken, and the fd reads from that item's own
pipe, so a number that is used again mixes nothing up. `LapInv`: what the background
thread took from its lap is of that lap. `LimitInv`: a buffer was discarded only
because of what it was given; with the order of the chunks (`ReadKeepsOrder`,
`BuiltinKeepsOrder` for a read and for a builtin's chunk that overtakes it) and
`DoneInv` (who finished has drained the pipe of a child that closed it) this gives
the completeness of a capture. Theorems: `AlwaysConsistent`, `FinishedIsComplete`,
for any items, fds, capacity and limit; assumed is that there is at least one chunk
of capacity and that no item and no fd is the marker for none.

`EventsProofs`. `IInv` is `BaseInv`, `GuardInv`, `SignalInv` and `LedgerInv`.
`LedgerInv` is `EventsAccounted` in the form in which steps can be counted: which
event numbers wait, are with which call, are in the hand of `fire()` between two
calls, or were dispatched, each in one place (`LedgerNew`, `LedgerWith`,
`LedgerCall`, `LedgerBelow` say what each kind of move does to it, for a stack of any
depth; `FireLemma` and `DeliverLemma` what `fire()` does). `SignalInv` says
`SignalsAccounted` of the scans and the events of all calls. `GuardInv`: only the
call on top may keep `BLOCKED_EVENTS` locked, and while it does the block that it
met is in place - it runs no script that could take the block away, which is why no
later event of that call is fired under the lock. `BaseInv` has the types and that
the handlers that a call captured are in the list or removed (`KnownBy`), hence
`RemovedStaysQuiet`: TakeHandler skips the removed ones. Theorems:
`NothingIsForgotten`, `NeverWaitsForItself`, `RemovedNeverStarts`, for any signals,
handlers and bounds; assumptions: `SignalOrder` lists the signals, each handler has
one description, and one-shot handlers are for exits.

`HistoryFileProofs`. `TypeInv` (`TypeOK`, finite sets of entries, descriptors of the
saves) is below four invariants. `IndexInv` adds that a serial is of one item of one
shell (`SerialsInv`): compaction, deletion and the removal of ephemeral items only
thin a list and move the index with it (`DescendsGood`), so the index stays exact.
`OnceInv` adds `OwnInv`: every entry, in a file, a temporary file or a list, that
has the serial of an own item is younger than the boundary of the shell that owns
it. The item is stamped in a second after the boundary, a rewrite that keeps one
entry of a text keeps the latest, and loading takes only entries that are not after
the boundary, so none of an own item. `QuietInv` is `QuiescentSaved`, kept shell by
shell. `WrittenInv` adds who holds which lock (`LockInv`) and what a save has
gathered (`SaveInv`): while the path is the file that was read and not grown, the
temporary file has all its texts but the deleted ones; the last step of a save is
made under the lock, after this was compared, so a rename drops nothing another
shell appended. Theorems: `TypeCorrect`, `IndexIsExact`, `OwnItemsAreOnce`,
`NothingStaysUnsaved`, `WhatIsWrittenStays`, for any shells, texts and bounds. They
have the conditions that the properties have, `raced`, `failed` and `skipped`.

`EnvironmentProofs`. What a lookup finds and what commands inherit are recursive
functions over the chain of scopes (`Overlaid`, `InnerGenerations`). That such a
function exists and is what its equation says is proved from the least place where
it would fail (`LeastNatural`), and from it that what a prefix of a chain exports
does not depend on what is inside of it. `LookupsConsistent` and `ExportedIsSeen`
then speak of the innermost node that has the name (`FindInChain`): the last node
overlaid is the one a lookup meets first. `IInv` is `TypeOK` and four parts.
`QuietInv`: a node with no generation exports nothing. `GensInv`: a generation was
given out and is of one node. `RecordedInv`: so are those in the array's list.
`CacheInv` strengthens `ArrayFresh` from the scope in use to every prefix of every
chain: popping a block or returning from a call goes back to a shorter chain, whose
generations may be those of the array again, so what matters is that they were never
given to anything else in between. Theorems: `Invariance`, `TypeCorrect`,
`CacheFresh`, `SeenIsInherited`, `SetAndGetAgree`, and for the action property
`CallsKeepExports`. They hold for any finite set of names, any values, depth and
bounds; assumed is that the markers for a missing and a removed variable are not
values and that the bounds on scopes and on universal generations are at least one,
as the shell starts with one of each.

`AlwaysConsistent` of each other module joins the invariants in the one that the run
checks.

Only model-checked: all liveness (`Promise`'s fairness part, `AllRun`,
`ForegroundReturns`, `LastDelivered`, `WritersFreed`, `EventsDelivered`,
`Converge`, `Settles`), which is out of the prover's reach.

## 7. Not modelled

- Wait handles, the job list, the input queue, autoload: planned, section 2.
- Of the reader: the pager, completion, highlighting, vi mode and the loop that
  evaluates what was typed; of the environment: path and electric variables,
  snapshots and `env_dispatch`.
- Tokenizer, AST, expansion, wildcards, completion, abbreviations, most builtins:
  sequential functions of text and the file system, whose value is in wording and
  recursion over data; the unit tests are the better tool.
- Screen, terminal protocols, key decoding: layout and I/O. Of `termsize.rs` only
  that SIGWINCH raises events from within `fire_delayed()` is in `Events`.
- Fork and exec helpers, redirections: sequences of system calls in a child, which
  shares no state with the parent afterwards.
- `wcwidth`, locale, paths: operating system interfaces.
- The kernel, `poll()`, condition variables, inotify and children are modelled from
  how the code uses them and marked external in the map.
