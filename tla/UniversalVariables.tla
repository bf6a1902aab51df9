------------------------- MODULE UniversalVariables -------------------------
(***************************************************************************)
(* Universal variables: src/src/env_universal_common.rs (EnvUniversal),    *)
(* with the callers that start a synchronisation (env/environment.rs,      *)
(* parser.rs, input.rs) and the inotify notifier.                          *)
(*                                                                         *)
(* Several shells share one file.  A shell changes variables in memory,    *)
(* and sync() either reloads the file or, with changes of its own, opens   *)
(* and locks it, looks whether it was replaced in the meantime, merges,    *)
(* writes a temporary file and renames it over the shared one.  Shells are *)
(* interleaved at the system calls, the operations on the file system.     *)
(***************************************************************************)
EXTENDS Naturals, FiniteSets

CONSTANTS
  Shells, Vars, Values,
  Unset,        \* the variable does not exist
  Inodes,       \* the inode numbers the directory hands out, used again when free
  NoFile,       \* no inode: the path or the descriptor is not there
  Starts,       \* with what the shells start: the table of a file that is there, and
                \* the shells of a later version, with a later file format
  MaxTime,      \* bound: ticks of the clock of the file system
  MaxSets,      \* bound: changes of variables
  MaxFaults     \* bound: failing system calls, slow locks and crashes

ASSUME UniversalAssumption ==
  /\ NoFile \notin Inodes /\ Inodes # {}
  /\ Unset \notin Values
  /\ Starts \subseteq [table : [Vars -> Values \cup {Unset}], newer : SUBSET Shells]
  /\ {MaxTime, MaxSets, MaxFaults} \subseteq Nat
  /\ IsFiniteSet(Vars)

VARIABLES
  \* the file system
  path,             \* the inode the name fish_variables stands for
  inode,            \* per inode: table, format and times
  temps,            \* inodes with a name fishd.tmp.XXXXXX
  lock,             \* per inode: who holds flock(LOCK_EX)
  clock,            \* the clock timestamps are taken from
  \* the shells
  newer,            \* the shells of a later version
  table,            \* EnvUniversal::vars
  modified,         \* EnvUniversal::modified
  last_read_file,   \* EnvUniversal::last_read_file
  do_flock, ok_to_save,
  locally_modified, \* UVARS_LOCALLY_MODIFIED of the process
  notified,         \* the inotify descriptor is readable
  told,             \* what callbacks and own changes announced, per variable
  pc, fd, tmp,      \* where sync() is, and the inodes of its two descriptors
  lockless,         \* history: has a shell given up locking?
  astray,           \* history: shells whose last_read_file is not what they read
  \* the bounds
  sets, faults

disk == <<path, inode, temps, lock, clock>>
flags == <<newer, do_flock, ok_to_save, lockless, astray>>
signals == <<locally_modified, notified>>
bounds == <<sets, faults>>
vars == <<disk, table, modified, last_read_file, told, flags, signals, pc, fd, tmp, bounds>>

Table == [Vars -> Values \cup {Unset}]
Empty == [v \in Vars |-> Unset]
Formats == {"3.0", "future"}

(* FileId: what tells one file, or one state of a file, from another.  The *)
(* lines of all variables have the same length.                            *)
Size(t) == Cardinality({v \in Vars : t[v] # Unset})
Ids == [inode : Inodes \cup {NoFile}, size : Nat, mtime : Nat, ctime : Nat]
InvalidId == [inode |-> NoFile, size |-> 0, mtime |-> 0, ctime |-> 0]
IdOf(i, f) == [inode |-> i, size |-> Size(f.table), mtime |-> f.mtime, ctime |-> f.ctime]
Id(i) == IF i = NoFile THEN InvalidId ELSE IdOf(i, inode[i])

Content(i) == IF i = NoFile THEN Empty ELSE inode[i].table

(* An inode is free once no name and no descriptor refers to it; Linux     *)
(* hands the same numbers out again (comment of save(), lines 788-792).    *)
InUse == {path} \cup temps \cup {fd[s] : s \in Shells} \cup {tmp[s] : s \in Shells}
Fresh == CHOOSE i \in Inodes : i \notin InUse
HasFresh == Inodes \ InUse # {}

(* The time a file operation stamps.  The clock is a coarse one: it need   *)
(* not have moved since the last stamp (comment of save(), lines 788-799). *)
Stamp == clock' \in {clock, clock + 1} \cap 0..MaxTime

(* The shells that will take a new file for the one they have read, as it  *)
(* got the number, size and times of that one.                             *)
Deceived(i, f) == {r \in Shells : last_read_file[r] = IdOf(i, f)}

File(t, fmt) == [table |-> t, format |-> fmt, mtime |-> clock', ctime |-> clock']

Places == {"idle", "stat", "reopen", "read", "open", "lock", "compare",
           "load", "write", "rename"}
Files == [table : Table, format : Formats, mtime : Nat, ctime : Nat]

(* The types; a lock has one holder, which has the file open. *)
TypeOK ==
  /\ path \in Inodes \cup {NoFile}
  /\ inode \in [Inodes -> Files]
  /\ temps \subseteq Inodes
  /\ lock \in [Inodes -> SUBSET Shells]
  /\ \A i \in Inodes : \A r, s \in lock[i] : r = s /\ fd[s] = i
  /\ clock \in Nat
  /\ newer \subseteq Shells
  /\ table \in [Shells -> Table] /\ told \in [Shells -> Table]
  /\ modified \in [Shells -> SUBSET Vars]
  /\ last_read_file \in [Shells -> Ids]
  /\ do_flock \in [Shells -> BOOLEAN] /\ ok_to_save \in [Shells -> BOOLEAN]
  /\ locally_modified \in [Shells -> BOOLEAN] /\ notified \in [Shells -> BOOLEAN]
  /\ pc \in [Shells -> Places]
  /\ fd \in [Shells -> Inodes \cup {NoFile}] /\ tmp \in [Shells -> Inodes \cup {NoFile}]
  /\ lockless \in BOOLEAN /\ astray \subseteq Shells /\ sets \in Nat /\ faults \in Nat

(* The shells have started and have loaded the file, if there was one. *)
Init ==
  /\ \E start \in Starts :
       /\ inode = [i \in Inodes |->
                     [table |-> start.table, format |-> "3.0", mtime |-> 0, ctime |-> 0]]
       /\ path \in IF start.table = Empty THEN {NoFile} ELSE {CHOOSE i \in Inodes : TRUE}
       /\ newer = start.newer
  /\ temps = {} /\ lock = [i \in Inodes |-> {}] /\ clock = 0
  /\ table = [s \in Shells |-> Content(path)] /\ told = table
  /\ modified = [s \in Shells |-> {}]
  /\ last_read_file = [s \in Shells |-> Id(path)]
  /\ do_flock = [s \in Shells |-> TRUE] /\ ok_to_save = do_flock
  /\ locally_modified = [s \in Shells |-> FALSE] /\ notified = locally_modified
  /\ pc = [s \in Shells |-> "idle"]
  /\ fd = [s \in Shells |-> NoFile] /\ tmp = fd
  /\ lockless = FALSE /\ astray = {} /\ sets = 0 /\ faults = 0

-----------------------------------------------------------------------------
Fault == faults < MaxFaults /\ faults' = faults + 1

Goto(s, label) == pc' = [pc EXCEPT ![s] = label]

(* The descriptor of the shared file is closed, which releases its lock. *)
CloseFile(s) ==
  /\ fd' = [fd EXCEPT ![s] = NoFile]
  /\ lock' = [i \in Inodes |-> lock[i] \ {s}]

(* `set -U` and `set -Ue`: set() returns early for an equal value, remove() *)
(* for a missing one; the flag is raised by the callers in EnvStack anyway. *)
Change(s, v, x) ==
  /\ pc[s] = "idle" /\ sets < MaxSets
  /\ sets' = sets + 1
  /\ locally_modified' = [locally_modified EXCEPT ![s] = TRUE]
  /\ \/ x = table[s][v] /\ UNCHANGED <<table, modified, told>>
     \/ /\ x # table[s][v]
        /\ table' = [table EXCEPT ![s][v] = x]
        /\ told' = [told EXCEPT ![s][v] = x]
        /\ modified' = [modified EXCEPT ![s] = @ \cup {v}]
  /\ UNCHANGED <<disk, last_read_file, flags, notified, pc, fd, tmp, faults>>

(* universal_sync(): the flag is cleared before anything is tried. *)
BeginSync(s) ==
  /\ pc[s] = "idle"
  /\ locally_modified' = [locally_modified EXCEPT ![s] = FALSE]
  /\ Goto(s, IF modified[s] = {} THEN "stat" ELSE "open")
  /\ UNCHANGED <<disk, table, modified, last_read_file, told, flags, fd, tmp, bounds>>

(* After a job: with an external process always, else with own changes. *)
SyncAfterJob(s, external) ==
  /\ external \/ locally_modified[s]
  /\ BeginSync(s)
  /\ UNCHANGED notified

(* Mutant: the reader syncs only changes of its own. *)
SyncNotifiedIfChanged(s) ==
  /\ notified[s]
  /\ notified' = [notified EXCEPT ![s] = FALSE]
  /\ \/ locally_modified[s] /\ BeginSync(s)
     \/ /\ ~locally_modified[s]
        /\ UNCHANGED <<disk, table, modified, last_read_file, told, flags, locally_modified,
                       pc, fd, tmp, bounds>>

(* The reader drains the inotify descriptor and then looks at the file. *)
SyncNotified(s) ==
  /\ notified[s]
  /\ notified' = [notified EXCEPT ![s] = FALSE]
  /\ BeginSync(s)

-----------------------------------------------------------------------------
(* Mutant: a change of the file replaces what the shell changed, for handlers. *)
SetOrChangedAnywhere(s, new) == {v \in Vars : new[v] # Unset /\ table[s][v] # new[v]}

(* The names whose value differs from the file and was not changed here:   *)
(* generate_callbacks_and_update_exports().                                *)
Erased(s, new) == {v \in Vars \ modified[s] : table[s][v] # Unset /\ new[v] = Unset}
SetOrChanged(s, new) == {v \in Vars \ modified[s] : new[v] # Unset /\ table[s][v] # new[v]}
Callbacks(s, new) == Erased(s, new) \cup SetOrChanged(s, new)

(* acquire_variables(): the file's variables under the shell's own changes. *)
Acquired(s, new) == [v \in Vars |-> IF v \in modified[s] THEN table[s][v] ELSE new[v]]

(* load_from_fd() with what read_message_internal() made of the file. *)
Take(s, new, format, id) ==
  /\ told' = [told EXCEPT ![s] = [v \in Vars |-> IF v \in Callbacks(s, new) THEN new[v] ELSE @[v]]]
  /\ table' = [table EXCEPT ![s] = Acquired(s, new)]
  /\ last_read_file' = [last_read_file EXCEPT ![s] = id]
  /\ ok_to_save' = [ok_to_save EXCEPT ![s] = @ /\ (format = "3.0" \/ s \in newer)]

(* What is parsed of a file whose reading is cut short: some of its        *)
(* variables, and perhaps a part of the value of one.                      *)
CutShort(t) ==
  {c \in Table : /\ \A v \in Vars : t[v] = Unset => c[v] = Unset
                 /\ \E w \in Vars : \A v \in Vars \ {w} : c[v] \in {t[v], Unset}}

(* A read that fails counts as the end of the file.  If it is the first    *)
(* one, the contents are empty, which is the format of fish 2.             *)
FailingRead(s) ==
  /\ Fault
  /\ \/ Take(s, Empty, "3.0", Id(fd[s]))
     \/ \E cut \in CutShort(Content(fd[s])) : Take(s, cut, inode[fd[s]].format, Id(fd[s]))
  /\ astray' = astray \cup {s}

(* Mutant: the identity is taken from the path, where another file may be by now. *)
LoadFromFdOfPath(s) ==
  /\ Take(s, Content(fd[s]), inode[fd[s]].format, Id(path))
  /\ astray' = astray \ {s}
  /\ UNCHANGED faults

(* Nothing is read if the file is the one last read, or seems to be.       *)
LoadFromFd(s) ==
  \/ /\ Id(fd[s]) = last_read_file[s]
     /\ UNCHANGED <<table, told, last_read_file, ok_to_save, astray, faults>>
  \/ /\ Id(fd[s]) # last_read_file[s]
     /\ \/ /\ Take(s, Content(fd[s]), inode[fd[s]].format, Id(fd[s]))
           /\ astray' = astray \ {s}
           /\ UNCHANGED faults
        \/ FailingRead(s)

(* load_from_path_narrow(): stat(), and nothing to do for the same file. *)
StatPath(s) ==
  /\ pc[s] = "stat"
  /\ Goto(s, IF last_read_file[s] # InvalidId /\ Id(path) = last_read_file[s]
             THEN "idle" ELSE "reopen")
  /\ UNCHANGED <<disk, table, modified, last_read_file, told, flags, signals, fd, tmp, bounds>>

OpenToRead(s) ==
  /\ pc[s] = "reopen"
  /\ \/ path # NoFile /\ fd' = [fd EXCEPT ![s] = path] /\ Goto(s, "read") /\ UNCHANGED faults
     \/ path = NoFile /\ Goto(s, "idle") /\ UNCHANGED <<fd, faults>>
     \/ Fault /\ Goto(s, "idle") /\ UNCHANGED fd
  /\ UNCHANGED <<disk, table, modified, last_read_file, told, flags, signals, tmp, sets>>

ReadFile(s) ==
  /\ pc[s] = "read"
  /\ LoadFromFd(s)
  /\ CloseFile(s)
  /\ Goto(s, "idle")
  /\ UNCHANGED <<path, inode, temps, clock, modified, newer, do_flock, lockless, signals,
                 tmp, sets>>

-----------------------------------------------------------------------------
(* open_and_acquire_lock(): open with O_CREAT, so that there is something  *)
(* to lock; flock(); compare.                                              *)
OpenForUpdate(s) ==
  /\ pc[s] = "open"
  /\ \/ /\ path # NoFile
        /\ fd' = [fd EXCEPT ![s] = path]
        /\ Goto(s, "lock")
        /\ UNCHANGED <<disk, astray, faults>>
     \/ /\ path = NoFile /\ HasFresh
        /\ Stamp
        /\ path' = Fresh
        /\ inode' = [inode EXCEPT ![Fresh] = File(Empty, "3.0")]
        /\ fd' = [fd EXCEPT ![s] = Fresh]
        /\ astray' = astray \cup Deceived(Fresh, inode'[Fresh])
        /\ Goto(s, "lock")
        /\ UNCHANGED <<temps, lock, faults>>
     \/ Fault /\ Goto(s, "idle") /\ UNCHANGED <<disk, fd, astray>>
  /\ UNCHANGED <<table, modified, last_read_file, told, newer, do_flock, ok_to_save, lockless,
                 signals, tmp, sets>>

(* flock_uvar_file(): if the lock fails, or is held after too long a wait, *)
(* the shell does without locks from then on.                              *)
TakeLock(s) ==
  /\ pc[s] = "lock"
  /\ lock' \in {lock} \cup (IF lock[fd[s]] = {} THEN {[lock EXCEPT ![fd[s]] = {s}]} ELSE {})
  /\ \/ do_flock[s] /\ lock' # lock /\ UNCHANGED <<do_flock, lockless, faults>>
     \/ do_flock[s] /\ Fault /\ do_flock' = [do_flock EXCEPT ![s] = FALSE] /\ lockless' = TRUE
     \/ ~do_flock[s] /\ lock' = lock /\ UNCHANGED <<do_flock, lockless, faults>>
  /\ Goto(s, "compare")
  /\ UNCHANGED <<path, inode, temps, clock, table, modified, last_read_file, told, newer,
                 ok_to_save, astray, signals, fd, tmp, sets>>

(* Mutant: the descriptor is used whatever the path stands for. *)
CompareNothing(s) ==
  /\ pc[s] = "compare"
  /\ Goto(s, "load")
  /\ UNCHANGED <<disk, table, modified, last_read_file, told, flags, signals, fd, tmp, bounds>>

CompareWithPath(s) ==
  /\ pc[s] = "compare"
  /\ \/ Id(fd[s]) = Id(path) /\ Goto(s, "load") /\ UNCHANGED <<fd, lock>>
     \/ Id(fd[s]) # Id(path) /\ Goto(s, "open") /\ CloseFile(s)
  /\ UNCHANGED <<path, inode, temps, clock, table, modified, last_read_file, told, flags,
                 signals, tmp, bounds>>

(* Mutant: it saves whatever the format of the file. *)
LoadLockedAndSave(s) ==
  /\ pc[s] = "load"
  /\ LoadFromFd(s)
  /\ Goto(s, "write")
  /\ UNCHANGED <<disk, modified, newer, do_flock, lockless, signals, fd, tmp, sets>>

(* The second half of sync(): load, and save unless the file is of a later *)
(* version of the shell.                                                   *)
LoadLocked(s) ==
  /\ pc[s] = "load"
  /\ LoadFromFd(s)
  /\ \/ ok_to_save'[s] /\ Goto(s, "write") /\ UNCHANGED <<fd, lock>>
     \/ ~ok_to_save'[s] /\ Goto(s, "idle") /\ CloseFile(s)
  /\ UNCHANGED <<path, inode, temps, clock, modified, newer, do_flock, lockless, signals,
                 tmp, sets>>

(* save() gives up: the temporary file is unlinked, the lock released, and *)
(* the changes stay in `modified`.                                         *)
GiveUpSave(s) ==
  /\ Fault
  /\ temps' = temps \ {tmp[s]}
  /\ tmp' = [tmp EXCEPT ![s] = NoFile]
  /\ CloseFile(s)
  /\ Goto(s, "idle")
  /\ UNCHANGED <<path, modified, notified>>

(* open_temporary_file() and write_to_fd(): on success the shell pretends  *)
(* to have read the new file.                                              *)
WriteTemp(s) ==
  /\ pc[s] = "write"
  /\ \/ /\ HasFresh
        /\ Stamp
        /\ inode' = [inode EXCEPT
                       ![Fresh] = File(table[s], IF s \in newer THEN "future" ELSE "3.0")]
        /\ temps' = temps \cup {Fresh}
        /\ tmp' = [tmp EXCEPT ![s] = Fresh]
        /\ last_read_file' = [last_read_file EXCEPT ![s] = IdOf(Fresh, inode'[Fresh])]
        /\ astray' = astray \cup (Deceived(Fresh, inode'[Fresh]) \ {s})
        /\ Goto(s, "rename")
        /\ UNCHANGED <<path, lock, fd, modified, notified, faults>>
     \/ GiveUpSave(s) /\ UNCHANGED <<inode, clock, last_read_file, astray>>
  /\ UNCHANGED <<table, told, newer, do_flock, ok_to_save, lockless, locally_modified, sets>>

(* save() means to give the new file an mtime of a clock of high precision *)
(* but calls futimens() only where clock_gettime() fails, which it does not. *)
MtimeAsSaved(i) == inode[i].mtime

(* move_new_vars_file_into_place(): rename() stamps ctime, frees the old    *)
(* file once it is closed, and wakes every shell that watches the           *)
(* directory (its own one too); the lock is released as sync() returns.     *)
Rename(s) ==
  /\ pc[s] = "rename"
  /\ \/ /\ Stamp
        /\ path' = tmp[s]
        /\ inode' = [inode EXCEPT ![tmp[s]].mtime = MtimeAsSaved(tmp[s]), ![tmp[s]].ctime = clock']
        /\ temps' = temps \ {tmp[s]}
        /\ tmp' = [tmp EXCEPT ![s] = NoFile]
        /\ modified' = [modified EXCEPT ![s] = {}]
        /\ notified' = [r \in Shells |-> TRUE]
        /\ astray' = astray \ {s}
        /\ CloseFile(s)
        /\ Goto(s, "idle")
        /\ UNCHANGED faults
     \/ GiveUpSave(s) /\ UNCHANGED <<inode, clock, astray>>
  /\ UNCHANGED <<table, last_read_file, told, newer, do_flock, ok_to_save, lockless,
                 locally_modified, sets>>

(* A shell is killed and another one of its version starts: its locks go,  *)
(* its temporary file stays, and initialize() loads the file.              *)
Crash(s) ==
  /\ Fault
  /\ table' = [table EXCEPT ![s] = Empty]
  /\ told' = [told EXCEPT ![s] = Empty]
  /\ modified' = [modified EXCEPT ![s] = {}]
  /\ last_read_file' = [last_read_file EXCEPT ![s] = InvalidId]
  /\ do_flock' = [do_flock EXCEPT ![s] = TRUE]
  /\ ok_to_save' = [ok_to_save EXCEPT ![s] = TRUE]
  /\ locally_modified' = [locally_modified EXCEPT ![s] = FALSE]
  /\ notified' = [notified EXCEPT ![s] = FALSE]
  /\ tmp' = [tmp EXCEPT ![s] = NoFile]
  /\ astray' = astray \ {s}
  /\ CloseFile(s)
  /\ Goto(s, "stat")
  /\ UNCHANGED <<path, inode, temps, clock, newer, lockless, sets>>

SyncStep(s) ==
  \/ StatPath(s) \/ OpenToRead(s) \/ ReadFile(s)
  \/ OpenForUpdate(s) \/ TakeLock(s) \/ CompareWithPath(s) \/ LoadLocked(s)
  \/ WriteTemp(s) \/ Rename(s)

Next ==
  \/ \E s \in Shells :
       \/ \E v \in Vars, x \in Values \cup {Unset} : Change(s, v, x)
       \/ \E external \in BOOLEAN : SyncAfterJob(s, external)
       \/ SyncNotified(s) \/ SyncStep(s) \/ Crash(s)

(* A running sync() goes on; a change is followed by the end of the job     *)
(* that made it, which syncs; the reader serves the notification.  Strong,  *)
(* as flock() serves every waiter in the end: each holder releases it.      *)
Fairness ==
  \A s \in Shells : SF_vars(SyncStep(s) \/ SyncAfterJob(s, FALSE) \/ SyncNotified(s))

Spec == Init /\ [][Next]_vars /\ Fairness

-----------------------------------------------------------------------------
(* The shells share one file of variables and lose no change of each other *)
(* (comment of sync(), lines 187-213), however their system calls          *)
(* interleave, fail or are cut short by a crash.  A shell that has opened  *)
(* the file sees it as it was then; one that failed to read it, or takes   *)
(* it for another, may commit what it wrongly sees, and nobody else.       *)
Open(s) == pc[s] \in {"read", "load"}
View(s) == IF Open(s) THEN Acquired(s, Content(fd[s])) ELSE table[s]
Shared == INSTANCE SharedVars
            WITH file <- Content(path), view <- [s \in Shells |-> View(s)],
                 pending <- modified, exclusive <- ~lockless,
                 mistaken <- {s \in astray : ~Open(s)}
SharedFile == Shared!Spec

(* What FileId is for (wutil/fileid.rs, comment of save() at line 788): if  *)
(* the file at the path has the identity of the one last read or written,  *)
(* the shell knows its content but for what it changed itself.  Excepted   *)
(* are shells whose read failed, or for which the identity of the file     *)
(* they know was given to another one: save() does not prevent that.       *)
IdentityTellsContent ==
  \A s \in Shells \ astray :
    path # NoFile /\ last_read_file[s] = Id(path)
      => \A v \in Vars \ modified[s] : table[s][v] = Content(path)[v]

(* Event handlers and env_dispatch hear of every change of a variable that *)
(* comes from another shell, and of no other: the callbacks are computed   *)
(* before and apart from the merge of load_from_fd().                      *)
HandlersInformed == told = table

(* A file written by a later version is not replaced by one of an earlier  *)
(* format ("avoid overwriting the file", load_from_fd()), unless the shell *)
(* could not read it, took it for another, or had no lock.                 *)
LaterFormatKept ==
  [][\A s \in Shells \ astray :
       path \notin {NoFile, path'} /\ path' = tmp[s] /\ inode[path].format = "future" /\ ~lockless
         => inode[path'].format = "future"]_path

(* Once no variable is changed any more and nothing fails, every shell that *)
(* may save has saved, and all that were not deceived show what the file    *)
(* holds.                                                                   *)
Settled(s) ==
  /\ modified[s] = {} \/ ~ok_to_save[s]
  /\ table[s] = Acquired(s, Content(path))
Converge == <>[](faults = 0 => \A s \in Shells \ astray : Settled(s))

(* The state is of its types, with locks only of open files, and handlers  *)
(* have heard of what the tables say.                                      *)
TablesConsistent == TypeOK /\ HandlersInformed
=============================================================================
