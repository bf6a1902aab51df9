---------------------------- MODULE HistoryFile ----------------------------
(***************************************************************************)
(* The history of src/src/history.rs (HistoryImpl, History) and its file.  *)
(*                                                                         *)
(* Each shell keeps the items of its session in memory and saves them by   *)
(* appending to the shared file or, to delete items, to shrink the file or *)
(* when it cannot append, by writing another file and renaming it over the *)
(* shared one.  Shells are interleaved at the system calls.  Everything a  *)
(* shell does to its own history happens under its mutex, which a save     *)
(* holds to its end, so its threads meet between operations only.          *)
(*                                                                         *)
(* The file is a set of entries (their order is left out); an inode number *)
(* is not used twice, and files only grow, so inode and size identify a    *)
(* state of a file.  Time counts half seconds; the file holds seconds.     *)
(***************************************************************************)
EXTENDS Thinning, Naturals, Sequences, FiniteSets, FiniteSetsExt, SequencesExt

CONSTANTS
  Shells, Texts,
  NoFile,
  MaxTime,    \* bound: the clock
  MaxAdds,    \* bound: commands that enter a history
  MaxOps,     \* bound: other operations of the user, failing calls, killed shells
  MaxFaults,  \* bound: failing system calls and killed shells among them
  MaxInodes   \* bound: files ever made

ASSUME HistoryAssumption ==
  /\ {MaxTime, MaxAdds, MaxOps, MaxFaults, MaxInodes} \subseteq Nat /\ MaxTime > 0
  /\ NoFile \notin 1..MaxInodes

VARIABLES
  \* the file system and the clock
  now, path, made, files, lock,
  \* a shell's HistoryImpl
  new_items, first_unwritten, detecting, deleted, boundary, file_id,
  loaded_old, old_items,
  \* its save() in progress
  pc, fd, orig, tmp, merging,
  \* the bounds
  adds, ops, faults,
  \* history: texts in the file by right, items that reached the file, a clear
  \* beside a save, a failed write or rename, items that a detection or a save left
  written, on_disk, raced, failed, skipped

disk == <<now, path, made, files, lock>>
items == <<new_items, first_unwritten, deleted>>
old == <<file_id, loaded_old, old_items>>
saving == <<pc, fd, orig, tmp, merging>>
bounds == <<adds, ops, faults>>
ghosts == <<written, on_disk, raced, failed, skipped>>
vars == <<disk, items, detecting, boundary, old, saving, bounds, ghosts>>

Inodes == 1..MaxInodes
Modes == {"Disk", "Ephemeral"}
Items == [text : Texts, when : Nat, mode : Modes, serial : Nat]
Entries == [text : Texts, sec : Nat, serial : Nat]
TextsOf(S) == {e.text : e \in S}
Content(f) == IF f = NoFile THEN {} ELSE files[f]

(* FileId of a file that only grows. *)
InvalidId == <<NoFile, 0>>
Id(f) == IF f = NoFile THEN InvalidId ELSE <<f, Cardinality(files[f])>>

NoneDeleted == [t \in Texts |-> "no"]

DiskType ==
  /\ now \in 1..MaxTime /\ path \in Inodes \cup {NoFile} /\ made \in 0..MaxInodes
  /\ files \in [Inodes -> SUBSET Entries]
  /\ lock \in [Inodes -> SUBSET Shells] /\ \A f \in Inodes : Cardinality(lock[f]) <= 1

ItemsType ==
  /\ new_items \in [Shells -> Seq(Items)] /\ first_unwritten \in [Shells -> Nat]
  /\ \A s \in Shells : first_unwritten[s] <= Len(new_items[s])

ShellType ==
  /\ loaded_old \in [Shells -> BOOLEAN]
  /\ detecting \in [Shells -> [Modes -> Nat]]
  /\ deleted \in [Shells -> [Texts -> {"no", "session", "all"}]]
  /\ boundary \in [Shells -> 0..MaxTime]
  /\ file_id \in [Shells -> (Inodes \cup {NoFile}) \X Nat]
  /\ old_items \in [Shells -> SUBSET Entries]

Labels == {"idle", "append", "append_lock", "append_write", "rewrite", "read", "reopen",
           "rewrite_lock", "rename"}

SavingType ==
  /\ pc \in [Shells -> Labels]
  /\ fd \in [Shells -> Inodes \cup {NoFile}]
  /\ orig \in [Shells -> (Inodes \cup {NoFile}) \X Nat]
  /\ tmp \in [Shells -> SUBSET Entries]
  /\ merging \in [Shells -> BOOLEAN]

TypeOK ==
  /\ DiskType /\ ItemsType /\ ShellType /\ SavingType
  /\ {adds, ops, faults} \subseteq Nat
  /\ written \subseteq Texts /\ on_disk \subseteq Nat /\ raced \in BOOLEAN
  /\ {failed, skipped} \subseteq [Shells -> BOOLEAN]

Init ==
  /\ now = 1 /\ path = NoFile /\ made = 0
  /\ files = [f \in Inodes |-> {}] /\ lock = [f \in Inodes |-> {}]
  /\ new_items = [s \in Shells |-> <<>>]
  /\ first_unwritten = [s \in Shells |-> 0]
  /\ detecting = [s \in Shells |-> [m \in Modes |-> 0]]
  /\ deleted = [s \in Shells |-> NoneDeleted]
  /\ boundary = [s \in Shells |-> now]
  /\ file_id = [s \in Shells |-> InvalidId]
  /\ loaded_old = [s \in Shells |-> FALSE]
  /\ old_items = [s \in Shells |-> {}]
  /\ pc = [s \in Shells |-> "idle"] /\ fd = [s \in Shells |-> NoFile]
  /\ orig = [s \in Shells |-> InvalidId] /\ tmp = [s \in Shells |-> {}]
  /\ merging = [s \in Shells |-> FALSE]
  /\ adds = 0 /\ ops = 0 /\ faults = 0
  /\ written = {} /\ on_disk = {} /\ raced = FALSE
  /\ failed = [s \in Shells |-> FALSE] /\ skipped = [s \in Shells |-> FALSE]

-----------------------------------------------------------------------------
Tick ==
  /\ now < MaxTime
  /\ now' = now + 1
  /\ UNCHANGED <<path, made, files, lock, items, detecting, boundary, old, saving, bounds,
                 ghosts>>

Fault == faults < MaxFaults /\ ops + faults < MaxOps /\ faults' = faults + 1
Goto(s, label) == pc' = [pc EXCEPT ![s] = label]
Second(t) == t \div 2

(* Mutant: the time as it is. *)
TimestampAsIs(s) == now

(* timestamp_now(): never in the second of the boundary, so that the own    *)
(* items are not taken for old ones.                                        *)
TimestampNow(s) == IF Second(now) = Second(boundary[s]) THEN now + 2 ELSE now

DisableCounter(s) == detecting[s]["Disk"] + detecting[s]["Ephemeral"]

(* compact_new_items(): of persisted items of one text the last stays. *)
Compact(its) ==
  {i \in DOMAIN its : \/ its[i].mode # "Disk"
                      \/ \A j \in DOMAIN its : j > i /\ its[j].mode = "Disk"
                                                => its[j].text # its[i].text}

(* save(): returns early with nothing to do; compacts; appends unless items *)
(* are deleted or the file is to shrink.  `then_clear`: the caller forgets  *)
(* the items when it is over.                                               *)
Save(s, its, n, del, vacuum, then_clear) ==
  /\ skipped' = [skipped EXCEPT ![s] = FALSE]
  /\ IF n >= Len(its) /\ del = NoneDeleted
     THEN /\ new_items' = [new_items EXCEPT ![s] = IF then_clear THEN <<>> ELSE its]
          /\ first_unwritten' = [first_unwritten EXCEPT ![s] = IF then_clear THEN 0 ELSE n]
          /\ UNCHANGED pc
     ELSE /\ new_items' = [new_items EXCEPT ![s] = Kept(its, Compact(its))]
          /\ first_unwritten' = [first_unwritten EXCEPT ![s] = KeptOf(n, Compact(its))]
          /\ Goto(s, IF ~vacuum /\ del = NoneDeleted THEN "append" ELSE "rewrite")

NoSave(s, its, n) ==
  /\ new_items' = [new_items EXCEPT ![s] = its]
  /\ first_unwritten' = [first_unwritten EXCEPT ![s] = n]
  /\ UNCHANGED <<pc, skipped>>

SaveUnlessDisabled(s, its, n, disabled) ==
  IF disabled > 0 THEN NoSave(s, its, n)
  ELSE \E vacuum \in BOOLEAN : Save(s, its, n, deleted[s], vacuum, FALSE)

(* remove_ephemeral_items() *)
IsEphemeral(i) == i.mode = "Ephemeral"
WithoutEphemeral(its) ==
  SubSeq(its, 1, Max({0} \cup {i \in DOMAIN its : ~IsEphemeral(its[i])}))

(* The reader adds a command as it is run: add_to_history() drops trailing  *)
(* ephemeral items, add_pending_with_file_detection() adds the item, looks  *)
(* for paths in the background, or saves at once for `exit` and the like.   *)
AddCommand(s, t, m, how) ==
  LET before == WithoutEphemeral(new_items[s])
      n == Min({first_unwritten[s], Len(before)})
      merges == before # <<>> /\ Last(before).text = t /\ Last(before).mode = m
      item == [text |-> t, when |-> TimestampNow(s), mode |-> m, serial |-> adds + 1]
      its == IF merges
             THEN [before EXCEPT ![Len(before)].when = Max({@, item.when})]
             ELSE Append(before, item)
      tasks == IF how = "detect" THEN [detecting[s] EXCEPT ![m] = @ + 1]
               ELSE detecting[s]
      disabled == tasks["Disk"] + tasks["Ephemeral"]
  IN /\ pc[s] = "idle" /\ adds < MaxAdds
     /\ how = "sync" => m = "Disk"
     /\ adds' = adds + 1
     /\ detecting' = [detecting EXCEPT ![s] = tasks]
     /\ IF m = "Disk"
        THEN \/ /\ how = "sync"
                /\ \E vacuum \in {FALSE, disabled = 0 /\ ~merges} :
                     Save(s, its, n, deleted[s], vacuum, FALSE)
             \/ how # "sync" /\ ~merges /\ SaveUnlessDisabled(s, its, n, disabled)
             \/ how # "sync" /\ merges /\ NoSave(s, its, n)
        ELSE NoSave(s, its, n)
     /\ UNCHANGED <<disk, deleted, boundary, old, fd, orig, tmp, merging, ops, faults, written,
                    on_disk, raced, failed>>

(* Mutant: the save is tried before saving is enabled again. *)
DetectionEndsLate(s, m) ==
  /\ pc[s] = "idle" /\ detecting[s][m] > 0
  /\ detecting' = [detecting EXCEPT ![s][m] = @ - 1]
  /\ IF m = "Disk"
     THEN SaveUnlessDisabled(s, new_items[s], first_unwritten[s], DisableCounter(s))
     ELSE /\ skipped' = [skipped EXCEPT ![s] = @ \/ DisableCounter(s) = 1]
          /\ UNCHANGED <<new_items, first_unwritten, pc>>
  /\ UNCHANGED <<disk, deleted, boundary, old, fd, orig, tmp, merging, bounds,
                 written, on_disk, raced, failed>>

(* The background file detection of a command ends. *)
DetectionEnds(s, m) ==
  /\ pc[s] = "idle" /\ detecting[s][m] > 0
  /\ detecting' = [detecting EXCEPT ![s][m] = @ - 1]
  /\ IF m = "Disk"
     THEN SaveUnlessDisabled(s, new_items[s], first_unwritten[s], DisableCounter(s) - 1)
     ELSE /\ skipped' = [skipped EXCEPT ![s] = @ \/ DisableCounter(s) = 1]
          /\ UNCHANGED <<new_items, first_unwritten, pc>>
  /\ UNCHANGED <<disk, deleted, boundary, old, fd, orig, tmp, merging, bounds,
                 written, on_disk, raced, failed>>

UserOp(s) == pc[s] = "idle" /\ ops + faults < MaxOps /\ ops' = ops + 1

(* `history save`, and save_all() as the shell exits. *)
SaveNow(s) ==
  /\ UserOp(s)
  /\ Save(s, new_items[s], first_unwritten[s], deleted[s], FALSE, FALSE)
  /\ UNCHANGED <<disk, deleted, detecting, boundary, old, fd, orig, tmp, merging,
                 adds, faults, written, on_disk, raced, failed>>

(* `history delete` and the reader's deletion: remove() and save(). *)
Delete(s, t) ==
  LET keep == {i \in DOMAIN new_items[s] : new_items[s][i].text # t}
  IN /\ UserOp(s)
     /\ deleted' = [deleted EXCEPT ![s][t] = "all"]
     /\ Save(s, Kept(new_items[s], keep), KeptOf(first_unwritten[s], keep), deleted'[s], FALSE, FALSE)
     /\ UNCHANGED <<disk, detecting, boundary, old, fd, orig, tmp, merging, adds,
                    faults, written, on_disk, raced, failed>>

(* `history clear-session`: clear_session() and save(). *)
ClearSession(s) ==
  /\ UserOp(s)
  /\ deleted' = [deleted EXCEPT ![s] = [t \in Texts |->
                   IF \E i \in DOMAIN new_items[s] : new_items[s][i].text = t
                   THEN "session" ELSE deleted[s][t]]]
  /\ Save(s, <<>>, 0, deleted'[s], FALSE, FALSE)
  /\ UNCHANGED <<disk, detecting, boundary, old, fd, orig, tmp, merging, adds,
                 faults, written, on_disk, raced, failed>>

(* The file at the path loses its name, and is gone unless another shell    *)
(* has it open.                                                             *)
Unlinked(s) == [f \in Inodes |-> IF f = path /\ \A r \in Shells \ {s} : fd[r] # f
                                 THEN {} ELSE files[f]]

(* `history clear`: the items and the file, whoever may be using it. *)
Clear(s) ==
  /\ UserOp(s)
  /\ new_items' = [new_items EXCEPT ![s] = <<>>]
  /\ first_unwritten' = [first_unwritten EXCEPT ![s] = 0]
  /\ deleted' = [deleted EXCEPT ![s] = NoneDeleted]
  /\ loaded_old' = [loaded_old EXCEPT ![s] = FALSE]
  /\ old_items' = [old_items EXCEPT ![s] = {}]
  /\ path' = NoFile /\ files' = Unlinked(s)
  /\ written' = {}
  /\ raced' = (raced \/ \E r \in Shells \ {s} : pc[r] # "idle")
  /\ UNCHANGED <<now, made, lock, detecting, boundary, file_id, saving,
                 adds, faults, on_disk, failed, skipped>>

ClearFileState(s) ==
  /\ loaded_old' = [loaded_old EXCEPT ![s] = FALSE]
  /\ old_items' = [old_items EXCEPT ![s] = {}]

(* `history merge`: incorporate_external_changes() does nothing unless time *)
(* went on; it saves, and then the items of the session are to come from    *)
(* the file with those of the other shells.                                 *)
Incorporate(s) ==
  /\ UserOp(s)
  /\ now > boundary[s]
  /\ boundary' = [boundary EXCEPT ![s] = now]
  /\ ClearFileState(s)
  /\ Save(s, new_items[s], first_unwritten[s], deleted[s], FALSE, TRUE)
  /\ merging' = [merging EXCEPT ![s] = pc'[s] # "idle"]
  /\ UNCHANGED <<disk, deleted, detecting, file_id, fd, orig, tmp, adds, faults,
                 written, on_disk, raced, failed>>

(* load_old_if_needed(), under a shared lock: the entries up to the         *)
(* boundary, and the identity of the file unless it is empty.               *)
LoadOld(s) ==
  /\ pc[s] = "idle" /\ ~loaded_old[s]
  /\ loaded_old' = [loaded_old EXCEPT ![s] = TRUE]
  /\ IF path = NoFile
     THEN UNCHANGED <<old_items, file_id>>
     ELSE /\ lock[path] = {}
          /\ old_items' = [old_items EXCEPT ![s] = {e \in files[path] : 2 * e.sec <= boundary[s]}]
          /\ file_id' = [file_id EXCEPT ![s] = IF files[path] = {} THEN InvalidId ELSE Id(path)]
  /\ UNCHANGED <<disk, items, detecting, boundary, saving, bounds, ghosts>>

-----------------------------------------------------------------------------
Unlock(s) == lock' = [f \in Inodes |-> lock[f] \ {s}]

(* Mutant: the index stays where it was. *)
EndSaveAtOldIndex(s, n) ==
  /\ Goto(s, "idle")
  /\ fd' = [fd EXCEPT ![s] = NoFile]
  /\ orig' = [orig EXCEPT ![s] = InvalidId]
  /\ tmp' = [tmp EXCEPT ![s] = {}]
  /\ merging' = [merging EXCEPT ![s] = FALSE]
  /\ new_items' = [new_items EXCEPT ![s] = IF merging[s] THEN <<>> ELSE @]
  /\ first_unwritten' = [first_unwritten EXCEPT ![s] = IF merging[s] THEN 0 ELSE @]

(* save() returns, and incorporate_external_changes() drops the items. *)
EndSave(s, n) ==
  /\ Goto(s, "idle")
  /\ fd' = [fd EXCEPT ![s] = NoFile]
  /\ orig' = [orig EXCEPT ![s] = InvalidId]
  /\ tmp' = [tmp EXCEPT ![s] = {}]
  /\ merging' = [merging EXCEPT ![s] = FALSE]
  /\ new_items' = [new_items EXCEPT ![s] = IF merging[s] THEN <<>> ELSE @]
  /\ first_unwritten' = [first_unwritten EXCEPT ![s] = IF merging[s] THEN 0 ELSE n]

Unsaved(s) == {i \in DOMAIN new_items[s] : /\ i > first_unwritten[s]
                                          /\ new_items[s][i].mode = "Disk"}
Entry(i) == [text |-> i.text, sec |-> Second(i.when), serial |-> i.serial]
UnsavedEntries(s) == {Entry(new_items[s][i]) : i \in Unsaved(s)}
Serials(S) == {e.serial : e \in S}

(* save_internal_via_appending(): without a file there is nothing to open. *)
AppendOpen(s) ==
  /\ pc[s] = "append"
  /\ fd' = [fd EXCEPT ![s] = path]
  /\ Goto(s, IF path = NoFile THEN "rewrite" ELSE "append_lock")
  /\ UNCHANGED <<disk, items, detecting, boundary, old, orig, tmp, merging, bounds, ghosts>>

(* Mutant: the file that was opened is used wherever its name went. *)
AppendLockBlindly(s) ==
  /\ pc[s] = "append_lock" /\ lock[fd[s]] = {}
  /\ lock' = [lock EXCEPT ![fd[s]] = {s}]
  /\ Goto(s, "append_write")
  /\ UNCHANGED <<now, path, made, files, items, detecting, boundary, old, fd, orig, tmp,
                 merging, bounds, ghosts>>

(* The lock, and a look whether the file is still the one at the path. *)
AppendLock(s) ==
  /\ pc[s] = "append_lock" /\ lock[fd[s]] = {}
  /\ \/ /\ fd[s] = path
        /\ lock' = [lock EXCEPT ![path] = {s}]
        /\ Goto(s, "append_write")
     \/ fd[s] # path /\ Goto(s, "append") /\ UNCHANGED lock
  /\ UNCHANGED <<now, path, made, files, items, detecting, boundary, old, fd, orig, tmp,
                 merging, bounds, ghosts>>

(* The items go to the file and are counted as written.  The file is        *)
(* another one than at the last look if its identity differs; the identity  *)
(* is taken anew after the write.  If the write fails the items have been   *)
(* counted all the same, and the file is rewritten without them.            *)
AppendWrite(s) ==
  LET f == fd[s]
  IN /\ pc[s] = "append_write"
     /\ IF Id(f) # file_id[s] THEN ClearFileState(s) ELSE UNCHANGED <<loaded_old, old_items>>
     /\ Unlock(s)
     /\ \/ /\ files' = [files EXCEPT ![f] = @ \cup UnsavedEntries(s)]
           /\ written' = written \cup TextsOf(UnsavedEntries(s))
           /\ on_disk' = on_disk \cup Serials(UnsavedEntries(s))
           /\ EndSave(s, Len(new_items[s]))
           /\ UNCHANGED <<failed, faults>>
        \/ /\ Fault
           /\ failed' = [failed EXCEPT ![s] = TRUE]
           /\ first_unwritten' = [first_unwritten EXCEPT ![s] = Len(new_items[s])]
           /\ fd' = [fd EXCEPT ![s] = NoFile]
           /\ Goto(s, "rewrite")
           /\ UNCHANGED <<files, new_items, orig, tmp, merging, written, on_disk>>
     /\ file_id' = [file_id EXCEPT ![s] = <<f, Cardinality(files'[f])>>]
     /\ UNCHANGED <<now, path, made, deleted, detecting, boundary, adds, ops,
                    raced, skipped>>

(* The rewrite cannot make or write its temporary file: nothing is saved. *)
AbortSave(s) ==
  /\ Fault
  /\ skipped' = [skipped EXCEPT ![s] = TRUE]
  /\ EndSave(s, first_unwritten[s])

(* save_internal_via_rewrite(): a temporary file once, then as often as the *)
(* target has changed: open the target, made if missing, and note what it   *)
(* is; read it and write the new contents; open the target again and lock   *)
(* that; look what is at the path; rename.                                  *)
RewriteOpen(s) ==
  /\ pc[s] = "rewrite"
  /\ \/ /\ path # NoFile
        /\ fd' = [fd EXCEPT ![s] = path]
        /\ orig' = [orig EXCEPT ![s] = Id(path)]
        /\ Goto(s, "read")
        /\ UNCHANGED <<path, made, tmp, merging, new_items, first_unwritten, faults, skipped>>
     \/ /\ path = NoFile /\ made < MaxInodes
        /\ made' = made + 1 /\ path' = made'
        /\ fd' = [fd EXCEPT ![s] = path']
        /\ orig' = [orig EXCEPT ![s] = <<path', 0>>]
        /\ Goto(s, "read")
        /\ UNCHANGED <<tmp, merging, new_items, first_unwritten, faults, skipped>>
     \/ /\ AbortSave(s)
        /\ UNCHANGED <<path, made>>
  /\ UNCHANGED <<now, files, lock, deleted, detecting, boundary, old, adds,
                 ops, written, on_disk, raced, failed>>

(* rewrite_to_temporary_file(): what clear_session() deleted goes only if it *)
(* is newer than the session; of one text one entry stays, with the latest   *)
(* time.                                                                     *)
Stays(s, e) == IF 2 * e.sec > boundary[s] THEN deleted[s][e.text] = "no"
               ELSE deleted[s][e.text] # "all"
Dedup(S) == {[text |-> t, sec |-> Max({e.sec : e \in {x \in S : x.text = t}}),
              serial |-> Min({e.serial : e \in {x \in S : x.text = t}})] : t \in TextsOf(S)}

RewriteRead(s) ==
  /\ pc[s] = "read"
  /\ \/ /\ tmp' = [tmp EXCEPT ![s] =
                    Dedup({e \in files[fd[s]] : Stays(s, e)} \cup UnsavedEntries(s))]
        /\ Goto(s, "reopen")
        /\ UNCHANGED <<fd, orig, merging, new_items, first_unwritten, faults, skipped>>
     \/ AbortSave(s)
  /\ UNCHANGED <<disk, deleted, detecting, boundary, old, adds, ops, written, on_disk, raced,
                 failed>>

RewriteReopen(s) ==
  /\ pc[s] = "reopen"
  /\ fd' = [fd EXCEPT ![s] = path]
  /\ Goto(s, IF path = NoFile THEN "rename" ELSE "rewrite_lock")
  /\ UNCHANGED <<disk, items, detecting, boundary, old, orig, tmp, merging, bounds, ghosts>>

RewriteLock(s) ==
  /\ pc[s] = "rewrite_lock" /\ lock[fd[s]] = {}
  /\ \/ /\ Id(path) \in {orig[s], InvalidId}
        /\ lock' = [lock EXCEPT ![fd[s]] = {s}]
        /\ Goto(s, "rename")
     \/ /\ Id(path) \notin {orig[s], InvalidId}
        /\ Goto(s, "rewrite")
        /\ UNCHANGED lock
  /\ UNCHANGED <<now, path, made, files, items, detecting, boundary, old, fd, orig, tmp,
                 merging, bounds, ghosts>>

(* The items count as saved and the deletions as done whether or not the    *)
(* rename succeeds.                                                         *)
RewriteRename(s) ==
  /\ pc[s] = "rename"
  /\ \/ /\ made < MaxInodes
        /\ made' = made + 1 /\ path' = made'
        /\ files' = [Unlinked(s) EXCEPT ![made'] = tmp[s]]
        /\ written' = {t \in written : deleted[s][t] = "no"} \cup TextsOf(UnsavedEntries(s))
        /\ on_disk' = on_disk \cup Serials(UnsavedEntries(s))
        /\ UNCHANGED <<failed, faults>>
     \/ /\ Fault
        /\ failed' = [failed EXCEPT ![s] = TRUE]
        /\ UNCHANGED <<made, path, files, written, on_disk>>
  /\ deleted' = [deleted EXCEPT ![s] = NoneDeleted]
  /\ ClearFileState(s)
  /\ Unlock(s)
  /\ EndSave(s, Len(new_items[s]))
  /\ UNCHANGED <<now, detecting, boundary, file_id, adds, ops, raced,
                 skipped>>

(* A shell is killed and another one starts: boundary_timestamp is now. *)
Crash(s) ==
  /\ Fault
  /\ new_items' = [new_items EXCEPT ![s] = <<>>]
  /\ first_unwritten' = [first_unwritten EXCEPT ![s] = 0]
  /\ detecting' = [detecting EXCEPT ![s] = [m \in Modes |-> 0]]
  /\ deleted' = [deleted EXCEPT ![s] = NoneDeleted]
  /\ boundary' = [boundary EXCEPT ![s] = now]
  /\ file_id' = [file_id EXCEPT ![s] = InvalidId]
  /\ ClearFileState(s)
  /\ Unlock(s)
  /\ Goto(s, "idle")
  /\ fd' = [fd EXCEPT ![s] = NoFile]
  /\ orig' = [orig EXCEPT ![s] = InvalidId]
  /\ tmp' = [tmp EXCEPT ![s] = {}]
  /\ merging' = [merging EXCEPT ![s] = FALSE]
  /\ failed' = [failed EXCEPT ![s] = FALSE] /\ skipped' = [skipped EXCEPT ![s] = FALSE]
  /\ UNCHANGED <<now, path, made, files, adds, ops, written, on_disk, raced>>

SaveStep(s) ==
  \/ AppendOpen(s) \/ AppendLock(s) \/ AppendWrite(s)
  \/ RewriteOpen(s) \/ RewriteRead(s) \/ RewriteReopen(s) \/ RewriteLock(s) \/ RewriteRename(s)

Next ==
  \/ Tick
  \/ \E s \in Shells :
       \/ \E t \in Texts, m \in Modes, how \in {"detect", "plain", "sync"} : AddCommand(s, t, m, how)
       \/ \E m \in Modes : DetectionEnds(s, m)
       \/ \E t \in Texts : Delete(s, t)
       \/ SaveNow(s) \/ ClearSession(s) \/ Clear(s)
       \/ Incorporate(s) \/ LoadOld(s) \/ SaveStep(s) \/ Crash(s)

Spec == Init /\ [][Next]_vars

-----------------------------------------------------------------------------
(* What a shell has written stays in the file, through appends and rewrites *)
(* of others at the same time, failures and crashes, until a shell deletes  *)
(* it; but for a shell that clears the history while another one saves.     *)
WrittenKept == ~raced => written \subseteq TextsOf(Content(path))

(* The index of the first unwritten item is exact: the items before it have *)
(* reached the file and those from it on have not, through compaction,      *)
(* deletion and removal of ephemeral items, as long as no write failed.     *)
IndexExact ==
  \A s \in Shells : ~failed[s] =>
    \A i \in DOMAIN new_items[s] :
      new_items[s][i].mode = "Disk"
      => (i <= first_unwritten[s] <=> new_items[s][i].serial \in on_disk)

(* No item of the session also shows up as an item of the file: what        *)
(* timestamp_now() adds a second for.                                       *)
OwnItemsOnce ==
  \A s \in Shells : \A e \in old_items[s], i \in DOMAIN new_items[s] :
    e.serial # new_items[s][i].serial

(* A command that is to be kept does not stay unsaved once its shell has     *)
(* nothing under way; unless what held the save back was the detection of   *)
(* another command that is not to be kept, which does not make up for it.   *)
QuiescentSaved ==
  \A s \in Shells : pc[s] = "idle" /\ DisableCounter(s) = 0 /\ ~skipped[s] => Unsaved(s) = {}

(* The state is of its types, the index in its list, and it tells what was *)
(* written from what was not.                                              *)
UnwrittenExact == TypeOK /\ IndexExact
=============================================================================
