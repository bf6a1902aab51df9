---------------------- MODULE UniversalVariablesProofs ----------------------
(***************************************************************************)
(* Theorems about UniversalVariables, for any number of shells, variables, *)
(* inodes, changes and faults.                                             *)
(***************************************************************************)
EXTENDS UniversalVariables, FiniteSetTheorems, TLAPS

(* A descriptor is open from open() on, a temporary file until the rename. *)
Outside == {"idle", "stat", "reopen", "open"}
Saving == {"write", "rename"}

DescInv ==
  \A s \in Shells : /\ pc[s] \in Outside <=> fd[s] = NoFile
                    /\ pc[s] = "rename" <=> tmp[s] # NoFile

(* Who has compared the file with the path holds the lock of the file that *)
(* the path stands for, until the rename.                                  *)
LockInv ==
  ~lockless => \A s \in Shells :
    /\ do_flock[s]
    /\ pc[s] \in {"compare", "load"} \cup Saving => s \in lock[fd[s]]
    /\ pc[s] \in {"load"} \cup Saving => fd[s] = path

(* No time is ahead of the clock, and none that a shell knows of an inode *)
(* is later than the time of what has that inode now.                     *)
ClockInv ==
  /\ \A i \in Inodes : inode[i].ctime <= clock
  /\ \A s \in Shells : last_read_file[s].ctime <= clock
  /\ \A s \in Shells, i \in Inodes :
       last_read_file[s].inode = i => last_read_file[s].ctime <= inode[i].ctime

(* An inode with the identity a shell has read has the content it has read, *)
(* and was found to be of a format it may write.  This needs the inodes    *)
(* that no name refers to as well, which may come to the path again.       *)
KnownInv ==
  \A s \in Shells \ astray, i \in Inodes :
    last_read_file[s] = IdOf(i, inode[i]) =>
      /\ \A v \in Vars \ modified[s] : table[s][v] = inode[i].table[v]
      /\ ok_to_save[s] => inode[i].format = "3.0" \/ s \in newer

(* What is going to be renamed over the shared file holds the variables of *)
(* its shell, which are those of the file it replaces and its own changes. *)
SaveInv ==
  \A s \in Shells :
    /\ pc[s] \in Saving => ok_to_save[s]
    /\ pc[s] = "rename" =>
         /\ inode[tmp[s]].table = table[s]
         /\ inode[tmp[s]].format = IF s \in newer THEN "future" ELSE "3.0"
         /\ last_read_file[s].inode = tmp[s]
    /\ s \notin astray /\ ~lockless /\ pc[s] \in Saving =>
         /\ table[s] = Acquired(s, Content(path))
         /\ inode[path].format = "3.0" \/ s \in newer

IInv ==
  /\ TypeOK /\ HandlersInformed
  /\ DescInv /\ LockInv /\ ClockInv /\ KnownInv /\ SaveInv

USE UniversalAssumption

(* The size of a table is a number. *)
LEMMA SizeLemma == ASSUME NEW t PROVE Size(t) \in Nat
  BY FS_Subset, FS_CardinalityType DEF Size

(* What CHOOSE picks is an inode that nobody uses. *)
LEMMA FreshLemma ==
  ASSUME HasFresh
  PROVE  /\ Fresh \in Inodes
         /\ Fresh # path /\ Fresh \notin temps
         /\ \A s \in Shells : fd[s] # Fresh /\ tmp[s] # Fresh
<1>1. \E i \in Inodes : i \notin InUse
  BY DEF HasFresh
<1>2. Fresh \in Inodes /\ Fresh \notin InUse
  BY <1>1 DEF Fresh
<1>. QED
  BY <1>2 DEF InUse

(* The clock after a stamp. *)
LEMMA StampLemma ==
  ASSUME clock \in Nat, Stamp
  PROVE  clock' \in Nat /\ clock <= clock'
  BY DEF Stamp

(* Identities are of their type and tell inodes and times apart. *)
LEMMA IdLemma ==
  /\ \A i \in Inodes, f \in Files : IdOf(i, f) \in Ids
  /\ \A i, j, f, g : IdOf(i, f) = IdOf(j, g) => i = j /\ f.ctime = g.ctime
  /\ InvalidId \in Ids
  /\ \A i \in Inodes : \A f : IdOf(i, f) # InvalidId
<1>1. \A i \in Inodes, f \in Files : IdOf(i, f) \in Ids
  BY SizeLemma DEF IdOf, Ids, Files
<1>2. \A i, j, f, g : IdOf(i, f) = IdOf(j, g) => i = j /\ f.ctime = g.ctime
  BY DEF IdOf
<1>3. InvalidId \in Ids
  BY DEF InvalidId, Ids
<1>4. \A i \in Inodes : \A f : IdOf(i, f) # InvalidId
  BY DEF IdOf, InvalidId
<1>. QED
  BY <1>1, <1>2, <1>3, <1>4

(* Merging makes a table. *)
LEMMA AcquiredLemma ==
  ASSUME TypeOK, NEW s \in Shells, NEW new \in Table
  PROVE  Acquired(s, new) \in Table
  BY DEF TypeOK, Table, Acquired

(* What load_from_fd() takes for the file goes under the shell's own       *)
(* changes, and the handlers hear of it.                                   *)
LEMMA TakeLemma ==
  ASSUME TypeOK, HandlersInformed, NEW s \in Shells, NEW new \in Table,
         NEW format, NEW id \in Ids, Take(s, new, format, id)
  PROVE  /\ table' \in [Shells -> Table] /\ told' = table'
         /\ table'[s] = Acquired(s, new)
         /\ last_read_file' = [last_read_file EXCEPT ![s] = id]
         /\ ok_to_save' \in [Shells -> BOOLEAN]
         /\ \A r \in Shells : r # s => table'[r] = table[r] /\ ok_to_save'[r] = ok_to_save[r]
         /\ ok_to_save'[s] => ok_to_save[s] /\ (format = "3.0" \/ s \in newer)
<1>1. /\ table' = [table EXCEPT ![s] = Acquired(s, new)]
      /\ told' = [told EXCEPT ![s] = [v \in Vars |-> IF v \in Callbacks(s, new) THEN new[v] ELSE @[v]]]
      /\ last_read_file' = [last_read_file EXCEPT ![s] = id]
      /\ ok_to_save' = [ok_to_save EXCEPT ![s] = @ /\ (format = "3.0" \/ s \in newer)]
  BY DEF Take
<1>2. [v \in Vars |-> IF v \in Callbacks(s, new) THEN new[v] ELSE told[s][v]] = Acquired(s, new)
  <2>1. \A v \in Vars : (IF v \in Callbacks(s, new) THEN new[v] ELSE told[s][v])
                          = (IF v \in modified[s] THEN table[s][v] ELSE new[v])
    BY DEF Callbacks, Erased, SetOrChanged, HandlersInformed
  <2>. QED
    BY <2>1 DEF Acquired
<1>3. told' = table'
  BY <1>1, <1>2 DEF HandlersInformed, TypeOK
<1>4. Acquired(s, new) \in Table
  BY AcquiredLemma
<1>5. /\ table' \in [Shells -> Table]
      /\ table'[s] = Acquired(s, new)
      /\ \A r \in Shells : r # s => table'[r] = table[r]
  BY <1>1, <1>4 DEF TypeOK
<1>6. /\ ok_to_save' \in [Shells -> BOOLEAN]
      /\ \A r \in Shells : r # s => ok_to_save'[r] = ok_to_save[r]
      /\ ok_to_save'[s] <=> ok_to_save[s] /\ (format = "3.0" \/ s \in newer)
  BY <1>1 DEF TypeOK
<1>. QED
  BY <1>1, <1>3, <1>5, <1>6

(* load_from_fd(): if the file is read as a whole, or known to the shell   *)
(* and not another one, the table is the merged one.  Else the shell goes  *)
(* astray, with its own changes over something else.                       *)
LEMMA LoadLemma ==
  ASSUME TypeOK, HandlersInformed, KnownInv,
         NEW s \in Shells, fd[s] \in Inodes, LoadFromFd(s)
  PROVE  /\ table' \in [Shells -> Table] /\ told' = table'
         /\ last_read_file' = [last_read_file EXCEPT ![s] = IdOf(fd[s], inode[fd[s]])]
         /\ ok_to_save' \in [Shells -> BOOLEAN]
         /\ \A r \in Shells : r # s => table'[r] = table[r] /\ ok_to_save'[r] = ok_to_save[r]
         /\ ok_to_save'[s] => ok_to_save[s]
         /\ s \notin astray' => /\ table'[s] = Acquired(s, inode[fd[s]].table)
                                /\ ok_to_save'[s] => inode[fd[s]].format = "3.0" \/ s \in newer
         /\ \E read \in Table : table'[s] = Acquired(s, read)
         /\ \A v \in Vars : v \in modified[s] => table'[s][v] = table[s][v]
         /\ astray' \subseteq Shells /\ \A r \in Shells : r # s => (r \in astray' <=> r \in astray)
         /\ faults' \in Nat
<1>. DEFINE i == fd[s]
            new == inode[i].table
<1>0. /\ Id(i) = IdOf(i, inode[i]) /\ Content(i) = new /\ new \in Table
      /\ table[s] \in Table /\ Id(i) \in Ids
  BY IdLemma DEF TypeOK, Id, Content, Files
<1>1. CASE Id(i) = last_read_file[s] /\ UNCHANGED <<table, told, last_read_file, ok_to_save, astray, faults>>
  <2>1. ASSUME s \notin astray PROVE table[s] = Acquired(s, new)
    <3>1. s \in Shells \ astray /\ i \in Inodes /\ last_read_file[s] = IdOf(i, inode[i])
      BY <1>0, <1>1, <2>1
    <3>2. \A v \in Vars \ modified[s] : table[s][v] = new[v]
      BY <3>1, Zenon DEF KnownInv
    <3>3. \A v \in Vars : table[s][v] = Acquired(s, new)[v]
      BY <3>2 DEF Acquired
    <3>. QED
      BY <3>3, <1>0 DEF Acquired, Table
  <2>2. s \notin astray /\ ok_to_save[s] => inode[i].format = "3.0" \/ s \in newer
    BY <1>0, <1>1 DEF KnownInv
  <2>3. last_read_file' = [last_read_file EXCEPT ![s] = IdOf(i, inode[i])]
    BY <1>0, <1>1 DEF TypeOK
  <2>4. table[s] = Acquired(s, table[s])
    BY <1>0 DEF Acquired, Table
  <2>5. \E read \in Table : table'[s] = Acquired(s, read)
    BY <1>0, <1>1, <2>4
  <2>. QED
    BY <1>1, <2>1, <2>2, <2>3, <2>5 DEF TypeOK, HandlersInformed
<1>2. ASSUME NEW read \in Table, NEW format, Take(s, read, format, Id(i)),
             \/ read = new /\ format = inode[i].format /\ astray' = astray \ {s}
             \/ astray' = astray \cup {s},
             faults' \in Nat
      PROVE  /\ table' \in [Shells -> Table] /\ told' = table'
             /\ last_read_file' = [last_read_file EXCEPT ![s] = IdOf(i, inode[i])]
             /\ ok_to_save' \in [Shells -> BOOLEAN]
             /\ \A r \in Shells : r # s => table'[r] = table[r] /\ ok_to_save'[r] = ok_to_save[r]
             /\ ok_to_save'[s] => ok_to_save[s]
             /\ s \notin astray' => /\ table'[s] = Acquired(s, new)
                                    /\ ok_to_save'[s] => inode[i].format = "3.0" \/ s \in newer
             /\ \E all \in Table : table'[s] = Acquired(s, all)
             /\ \A v \in Vars : v \in modified[s] => table'[s][v] = table[s][v]
             /\ astray' \subseteq Shells
             /\ \A r \in Shells : r # s => (r \in astray' <=> r \in astray)
  <2>1. /\ table' \in [Shells -> Table] /\ told' = table'
        /\ table'[s] = Acquired(s, read)
        /\ last_read_file' = [last_read_file EXCEPT ![s] = Id(i)]
        /\ ok_to_save' \in [Shells -> BOOLEAN]
        /\ \A r \in Shells : r # s => table'[r] = table[r] /\ ok_to_save'[r] = ok_to_save[r]
        /\ ok_to_save'[s] => ok_to_save[s] /\ (format = "3.0" \/ s \in newer)
    BY <1>0, <1>2, TakeLemma
  <2>2. s \notin astray' => read = new /\ format = inode[i].format
    BY <1>2
  <2>3. astray' \subseteq Shells /\ \A r \in Shells : r # s => (r \in astray' <=> r \in astray)
    BY <1>2 DEF TypeOK
  <2>4. \A v \in Vars : v \in modified[s] => table'[s][v] = table[s][v]
    BY <2>1 DEF Acquired
  <2>. QED
    BY <1>0, <2>1, <2>2, <2>3, <2>4
<1>3. CASE FailingRead(s)
  <2>1. faults' \in Nat /\ astray' = astray \cup {s}
    BY <1>3 DEF FailingRead, Fault, TypeOK
  <2>2. CASE Take(s, Empty, "3.0", Id(i))
    <3>1. Empty \in Table
      BY DEF Empty, Table
    <3>. QED
      BY <1>2, <2>1, <2>2, <3>1
  <2>3. CASE \E cut \in CutShort(Content(i)) : Take(s, cut, inode[i].format, Id(i))
    <3>1. PICK cut \in CutShort(Content(i)) : Take(s, cut, inode[i].format, Id(i))
      BY <2>3
    <3>2. cut \in Table
      BY DEF CutShort
    <3>. QED
      BY <1>2, <2>1, <3>1, <3>2
  <2>. QED
    BY <1>3, <2>2, <2>3 DEF FailingRead
<1>4. CASE Take(s, Content(i), inode[i].format, Id(i)) /\ astray' = astray \ {s} /\ UNCHANGED faults
  <2>1. faults' \in Nat
    BY <1>4 DEF TypeOK
  <2>. QED
    BY <1>0, <1>2, <1>4, <2>1
<1>. QED
  BY <1>1, <1>2, <1>3, <1>4 DEF LoadFromFd, FailingRead

(* The invariant holds initially. *)
LEMMA InitInvariant == Init => IInv
<1>. SUFFICES ASSUME Init PROVE IInv
  OBVIOUS
<1>1. Empty \in Table
  BY DEF Empty, Table
<1>2. PICK start \in Starts :
        /\ inode = [i \in Inodes |->
                      [table |-> start.table, format |-> "3.0", mtime |-> 0, ctime |-> 0]]
        /\ path \in IF start.table = Empty THEN {NoFile} ELSE {CHOOSE i \in Inodes : TRUE}
        /\ newer = start.newer
  BY DEF Init
<1>3. start.table \in Table /\ start.newer \subseteq Shells
  BY DEF Table
<1>4. path \in Inodes \cup {NoFile} /\ inode \in [Inodes -> Files]
  BY <1>2, <1>3 DEF Files, Formats
<1>5. /\ \A i \in Inodes : /\ inode[i].table = start.table /\ inode[i].format = "3.0"
                            /\ inode[i].mtime = 0 /\ inode[i].ctime = 0
      /\ Content(path) = start.table
  BY <1>2, <1>4 DEF Content
<1>6. /\ Id(path) \in Ids /\ Id(path).ctime = 0
      /\ path = NoFile => Id(path) = InvalidId
      /\ path # NoFile => Id(path) = IdOf(path, inode[path])
  <2>1. CASE path = NoFile
    BY <2>1, IdLemma DEF Id, InvalidId
  <2>2. CASE path # NoFile
    BY <1>4, <1>5, <2>2, IdLemma DEF Id, IdOf
  <2>. QED
    BY <2>1, <2>2
<1>7. /\ \A s \in Shells : table[s] = start.table /\ last_read_file[s] = Id(path)
      /\ table \in [Shells -> Table] /\ told = table
      /\ last_read_file \in [Shells -> Ids]
  BY <1>3, <1>5, <1>6 DEF Init
<1>8. TypeOK
  BY <1>2, <1>3, <1>4, <1>7 DEF Init, TypeOK, Places
<1>9. HandlersInformed
  BY DEF Init, HandlersInformed
<1>10. DescInv /\ LockInv /\ SaveInv
  BY DEF Init, DescInv, LockInv, SaveInv, Outside, Saving
<1>11. ClockInv
  <2>1. clock = 0
    BY DEF Init
  <2>. QED
    BY <1>5, <1>6, <1>7, <2>1 DEF ClockInv
<1>12. KnownInv
  BY <1>5, <1>7 DEF KnownInv
<1>. QED
  BY <1>8, <1>9, <1>10, <1>11, <1>12 DEF IInv

-----------------------------------------------------------------------------
(* Each step keeps the invariant.  A change is of a shell that syncs nothing. *)
LEMMA ChangeKeeps ==
  ASSUME IInv, NEW s \in Shells, NEW v \in Vars, NEW x \in Values \cup {Unset}, Change(s, v, x)
  PROVE  IInv'
<1>1. TypeOK /\ HandlersInformed /\ DescInv /\ LockInv /\ ClockInv /\ KnownInv /\ SaveInv
  BY DEF IInv
<1>2. CASE UNCHANGED <<table, modified, told>>
  <2>1. TypeOK'
    BY <1>1, <1>2 DEF Change, TypeOK, disk, flags
  <2>. QED
    BY <1>1, <1>2, <2>1
       DEF IInv, Change, disk, flags, HandlersInformed, DescInv, LockInv, ClockInv, KnownInv,
           SaveInv, Acquired, Content
<1>3. CASE /\ table' = [table EXCEPT ![s][v] = x]
           /\ told' = [told EXCEPT ![s][v] = x]
           /\ modified' = [modified EXCEPT ![s] = @ \cup {v}]
  <2>1. /\ table' \in [Shells -> Table]
        /\ modified' \in [Shells -> SUBSET Vars]
        /\ told' = table'
    BY <1>1, <1>3 DEF TypeOK, Table, HandlersInformed
  <2>2. TypeOK'
    BY <1>1, <2>1 DEF Change, TypeOK, disk, flags
  <2>3. /\ \A r \in Shells : r # s => table'[r] = table[r] /\ modified'[r] = modified[r]
        /\ \A w \in Vars \ modified'[s] : w \notin modified[s] /\ table'[s][w] = table[s][w]
        /\ pc[s] \notin Saving
    BY <1>1, <1>3 DEF TypeOK, Table, Change, Saving
  <2>4. KnownInv'
    BY <1>1, <2>3 DEF KnownInv, Change, disk, flags
  <2>5. SaveInv'
    BY <1>1, <2>3 DEF SaveInv, Change, disk, flags, Acquired, Content, Saving
  <2>. QED
    BY <1>1, <2>1, <2>2, <2>4, <2>5
       DEF IInv, Change, disk, flags, HandlersInformed, DescInv, LockInv, ClockInv
<1>. QED
  BY <1>2, <1>3 DEF Change

(* sync() starts: no descriptor is open yet. *)
LEMMA BeginSyncKeeps ==
  ASSUME IInv, NEW s \in Shells, BeginSync(s), notified' \in [Shells -> BOOLEAN]
  PROVE  IInv'
<1>1. TypeOK /\ HandlersInformed /\ DescInv /\ LockInv /\ ClockInv /\ KnownInv /\ SaveInv
  BY DEF IInv
<1>2. /\ pc' \in [Shells -> Places]
      /\ \A r \in Shells : r # s => pc'[r] = pc[r]
      /\ pc[s] = "idle" /\ pc'[s] \in {"stat", "open"}
  BY <1>1 DEF TypeOK, BeginSync, Goto, Places
<1>3. TypeOK'
  BY <1>1, <1>2 DEF BeginSync, TypeOK, disk, flags, bounds
<1>4. DescInv' /\ LockInv'
  BY <1>1, <1>2 DEF BeginSync, disk, flags, DescInv, LockInv, Outside, Saving
<1>5. SaveInv'
  BY <1>1, <1>2 DEF BeginSync, disk, flags, SaveInv, Saving, Acquired, Content
<1>. QED
  BY <1>1, <1>3, <1>4, <1>5
     DEF IInv, BeginSync, disk, flags, HandlersInformed, ClockInv, KnownInv

(* stat() only looks at the path. *)
LEMMA StatPathKeeps ==
  ASSUME IInv, NEW s \in Shells, StatPath(s)
  PROVE  IInv'
<1>1. TypeOK /\ HandlersInformed /\ DescInv /\ LockInv /\ ClockInv /\ KnownInv /\ SaveInv
  BY DEF IInv
<1>2. /\ pc' \in [Shells -> Places]
      /\ \A r \in Shells : r # s => pc'[r] = pc[r]
      /\ pc[s] = "stat" /\ pc'[s] \in {"idle", "reopen"}
  BY <1>1 DEF TypeOK, StatPath, Goto, Places
<1>3. TypeOK'
  BY <1>1, <1>2 DEF StatPath, TypeOK, disk, flags, signals, bounds
<1>4. DescInv' /\ LockInv'
  BY <1>1, <1>2 DEF StatPath, disk, flags, DescInv, LockInv, Outside, Saving
<1>5. SaveInv'
  BY <1>1, <1>2 DEF StatPath, disk, flags, SaveInv, Saving, Acquired, Content
<1>. QED
  BY <1>1, <1>3, <1>4, <1>5
     DEF IInv, StatPath, disk, flags, HandlersInformed, ClockInv, KnownInv

(* The file is opened for reading, without a lock. *)
LEMMA OpenToReadKeeps ==
  ASSUME IInv, NEW s \in Shells, OpenToRead(s)
  PROVE  IInv'
<1>1. TypeOK /\ HandlersInformed /\ DescInv /\ LockInv /\ ClockInv /\ KnownInv /\ SaveInv
  BY DEF IInv
<1>2. /\ pc' \in [Shells -> Places] /\ fd' \in [Shells -> Inodes \cup {NoFile}]
      /\ \A r \in Shells : r # s => pc'[r] = pc[r] /\ fd'[r] = fd[r]
      /\ pc[s] = "reopen" /\ fd[s] = NoFile
      /\ \/ pc'[s] = "read" /\ fd'[s] # NoFile
         \/ pc'[s] = "idle" /\ fd'[s] = NoFile
      /\ faults' \in Nat
  BY <1>1 DEF TypeOK, OpenToRead, Goto, Places, DescInv, Outside, Fault
<1>3. TypeOK'
  <2>1. \A i \in Inodes : \A r, q \in lock[i] : r = q /\ fd'[q] = i
    BY <1>1, <1>2 DEF TypeOK
  <2>. QED
    BY <1>1, <1>2, <2>1 DEF OpenToRead, TypeOK, disk, flags, signals, bounds
<1>4. DescInv' /\ LockInv'
  BY <1>1, <1>2 DEF OpenToRead, disk, flags, DescInv, LockInv, Outside, Saving
<1>5. SaveInv'
  BY <1>1, <1>2 DEF OpenToRead, disk, flags, SaveInv, Saving, Acquired, Content
<1>. QED
  BY <1>1, <1>3, <1>4, <1>5
     DEF IInv, OpenToRead, disk, flags, HandlersInformed, ClockInv, KnownInv

(* Closing the file takes a shell out of every lock and leaves the others. *)
LEMMA CloseLemma ==
  ASSUME TypeOK, NEW s \in Shells, CloseFile(s)
  PROVE  /\ fd' \in [Shells -> Inodes \cup {NoFile}] /\ lock' \in [Inodes -> SUBSET Shells]
         /\ fd'[s] = NoFile /\ \A r \in Shells : r # s => fd'[r] = fd[r]
         /\ \A i \in Inodes : lock'[i] = lock[i] \ {s}
         /\ \A i \in Inodes : \A r, q \in lock'[i] : r = q /\ fd'[q] = i
  BY DEF TypeOK, CloseFile

(* What was read is known by the identity it was read under. *)
LEMMA ReadFileKeeps ==
  ASSUME IInv, NEW s \in Shells, ReadFile(s)
  PROVE  IInv'
<1>1. TypeOK /\ HandlersInformed /\ DescInv /\ LockInv /\ ClockInv /\ KnownInv /\ SaveInv
  BY DEF IInv
<1>2. /\ pc' \in [Shells -> Places]
      /\ \A r \in Shells : r # s => pc'[r] = pc[r]
      /\ pc[s] = "read" /\ pc'[s] = "idle"
      /\ fd[s] \in Inodes
  BY <1>1 DEF TypeOK, ReadFile, Goto, Places, DescInv, Outside
<1>3. CloseFile(s) /\ LoadFromFd(s)
      /\ UNCHANGED <<path, inode, temps, clock, modified, newer, do_flock, lockless, signals,
                     tmp, sets>>
  BY DEF ReadFile
<1>4. /\ table' \in [Shells -> Table] /\ told' = table'
      /\ last_read_file' = [last_read_file EXCEPT ![s] = IdOf(fd[s], inode[fd[s]])]
      /\ ok_to_save' \in [Shells -> BOOLEAN]
      /\ \A r \in Shells : r # s => table'[r] = table[r] /\ ok_to_save'[r] = ok_to_save[r]
      /\ s \notin astray' => /\ table'[s] = Acquired(s, inode[fd[s]].table)
                             /\ ok_to_save'[s] => inode[fd[s]].format = "3.0" \/ s \in newer
      /\ astray' \subseteq Shells /\ \A r \in Shells : r # s => (r \in astray' <=> r \in astray)
      /\ faults' \in Nat
  BY <1>1, <1>2, <1>3, LoadLemma
<1>5. last_read_file' \in [Shells -> Ids]
  BY <1>1, <1>2, <1>4, IdLemma DEF TypeOK
<1>6. TypeOK'
  BY <1>1, <1>2, <1>3, <1>4, <1>5, CloseLemma DEF TypeOK, signals
<1>7. DescInv' /\ LockInv'
  <2>1. \A r \in Shells : r # s => \A i \in Inodes : r \in lock[i] => r \in lock'[i]
    BY <1>1, <1>3, CloseLemma
  <2>2. fd'[s] = NoFile /\ \A r \in Shells : r # s => fd'[r] = fd[r]
    BY <1>1, <1>3, CloseLemma
  <2>3. \A r \in Shells : pc[r] \notin Outside => fd[r] \in Inodes
    BY <1>1 DEF DescInv, TypeOK
  <2>4. DescInv'
    BY <1>1, <1>2, <1>3, <2>2 DEF DescInv, Outside
  <2>5. LockInv'
    BY <1>1, <1>2, <1>3, <2>1, <2>2, <2>3 DEF LockInv, Outside, Saving
  <2>. QED
    BY <2>4, <2>5
<1>8. ClockInv'
  <2>1. /\ last_read_file'[s].inode = fd[s] /\ last_read_file'[s].ctime = inode[fd[s]].ctime
        /\ \A r \in Shells : r # s => last_read_file'[r] = last_read_file[r]
    BY <1>1, <1>4 DEF TypeOK, IdOf
  <2>2. inode[fd[s]].ctime \in Nat
    BY <1>1, <1>2 DEF TypeOK, Files
  <2>. QED
    BY <1>1, <1>2, <1>3, <2>1, <2>2 DEF ClockInv
<1>9. KnownInv'
  <2>. SUFFICES ASSUME NEW r \in Shells \ astray', NEW i \in Inodes,
                       last_read_file'[r] = IdOf(i, inode[i])
                PROVE  /\ \A v \in Vars \ modified[r] : table'[r][v] = inode[i].table[v]
                       /\ ok_to_save'[r] => inode[i].format = "3.0" \/ r \in newer
    BY <1>3 DEF KnownInv, IdOf, Size
  <2>1. CASE r # s
    BY <1>1, <1>3, <1>4, <2>1 DEF KnownInv, TypeOK
  <2>2. CASE r = s
    <3>1. i = fd[s]
      BY <1>1, <1>4, <2>2, IdLemma DEF TypeOK
    <3>. QED
      BY <1>4, <2>2, <3>1 DEF Acquired
  <2>. QED
    BY <2>1, <2>2
<1>10. SaveInv'
  BY <1>1, <1>2, <1>3, <1>4 DEF SaveInv, Saving, Acquired, Content, TypeOK
<1>. QED
  BY <1>4, <1>6, <1>7, <1>8, <1>9, <1>10 DEF IInv, HandlersInformed

(* Opening the file may create it, in an inode nobody has seen. *)
LEMMA OpenForUpdateKeeps ==
  ASSUME IInv, NEW s \in Shells, OpenForUpdate(s)
  PROVE  IInv'
<1>1. TypeOK /\ HandlersInformed /\ DescInv /\ LockInv /\ ClockInv /\ KnownInv /\ SaveInv
  BY DEF IInv
<1>2. /\ pc' \in [Shells -> Places]
      /\ \A r \in Shells : r # s => pc'[r] = pc[r] /\ fd'[r] = fd[r]
      /\ pc[s] = "open" /\ pc'[s] \in {"lock", "idle"} /\ fd[s] = NoFile
  BY <1>1 DEF TypeOK, OpenForUpdate, Goto, Places, DescInv, Outside
<1>3. /\ UNCHANGED <<lock, temps, table, modified, last_read_file, told, newer, do_flock,
                     ok_to_save, lockless, signals, tmp, sets>>
      /\ faults' \in Nat
  BY <1>1 DEF OpenForUpdate, disk, Fault, TypeOK
<1>4. CASE path # NoFile /\ fd' = [fd EXCEPT ![s] = path] /\ Goto(s, "lock")
           /\ UNCHANGED <<disk, astray>>
  <2>1. fd' \in [Shells -> Inodes \cup {NoFile}] /\ fd'[s] = path /\ pc'[s] = "lock"
    BY <1>1, <1>4 DEF TypeOK, Goto
  <2>2. \A i \in Inodes : \A r, q \in lock[i] : r = q /\ fd'[q] = i
    BY <1>1, <1>2 DEF TypeOK
  <2>3. TypeOK'
    BY <1>1, <1>2, <1>3, <1>4, <2>1, <2>2 DEF TypeOK, disk, signals
  <2>4. DescInv' /\ LockInv'
    BY <1>1, <1>2, <1>3, <1>4, <2>1 DEF disk, DescInv, LockInv, Outside, Saving
  <2>5. SaveInv'
    BY <1>1, <1>2, <1>3, <1>4 DEF disk, SaveInv, Saving, Acquired, Content
  <2>. QED
    BY <1>1, <1>3, <1>4, <2>3, <2>4, <2>5
       DEF IInv, disk, HandlersInformed, ClockInv, KnownInv
<1>5. CASE /\ path = NoFile /\ HasFresh
           /\ Stamp
           /\ path' = Fresh
           /\ inode' = [inode EXCEPT ![Fresh] = File(Empty, "3.0")]
           /\ fd' = [fd EXCEPT ![s] = Fresh]
           /\ astray' = astray \cup Deceived(Fresh, inode'[Fresh])
           /\ Goto(s, "lock")
  <2>1. /\ Fresh \in Inodes
        /\ \A r \in Shells : fd[r] # Fresh /\ tmp[r] # Fresh
    BY <1>5, FreshLemma
  <2>2. clock' \in Nat /\ clock <= clock'
    BY <1>1, <1>5, StampLemma DEF TypeOK
  <2>3. /\ inode' \in [Inodes -> Files]
        /\ inode'[Fresh].ctime = clock'
        /\ \A i \in Inodes : i # Fresh => inode'[i] = inode[i]
    <3>1. File(Empty, "3.0") \in Files
      BY <2>2 DEF File, Files, Empty, Table, Formats
    <3>. QED
      BY <1>1, <1>5, <2>1, <3>1 DEF TypeOK, File
  <2>4. fd' \in [Shells -> Inodes \cup {NoFile}] /\ fd'[s] = Fresh /\ pc'[s] = "lock"
    BY <1>1, <1>5, <2>1 DEF TypeOK, Goto
  <2>5. TypeOK'
    <3>1. \A i \in Inodes : \A r, q \in lock[i] : r = q /\ fd'[q] = i
      BY <1>1, <1>2 DEF TypeOK
    <3>. QED
      BY <1>1, <1>2, <1>3, <1>5, <2>1, <2>2, <2>3, <2>4, <3>1 DEF TypeOK, signals, Deceived
  <2>6. DescInv'
    BY <1>1, <1>2, <1>3, <2>1, <2>4 DEF DescInv, Outside
  <2>7. LockInv'
    <3>1. ~lockless => \A r \in Shells : pc[r] \notin {"load"} \cup Saving
      BY <1>1, <1>5 DEF LockInv, DescInv, Outside, Saving
    <3>. QED
      BY <1>1, <1>2, <1>3, <3>1 DEF LockInv, Saving
  <2>8. ClockInv'
    <3>1. \A i \in Inodes : inode[i].ctime \in Nat /\ inode'[i].ctime <= clock'
      BY <1>1, <2>2, <2>3 DEF ClockInv, TypeOK, Files
    <3>2. \A r \in Shells : last_read_file[r].ctime \in Nat /\ last_read_file'[r].ctime <= clock'
      BY <1>1, <1>3, <2>2 DEF ClockInv, TypeOK, Ids
    <3>3. ASSUME NEW r \in Shells, NEW i \in Inodes, last_read_file[r].inode = i
          PROVE  last_read_file[r].ctime <= inode'[i].ctime
      BY <1>1, <1>3, <2>3, <3>2, <3>3 DEF ClockInv
    <3>. QED
      BY <1>3, <3>1, <3>2, <3>3 DEF ClockInv
  <2>9. KnownInv'
    <3>. SUFFICES ASSUME NEW r \in Shells \ astray', NEW i \in Inodes,
                         last_read_file[r] = IdOf(i, inode'[i])
                  PROVE  /\ \A v \in Vars \ modified[r] : table[r][v] = inode'[i].table[v]
                         /\ ok_to_save[r] => inode'[i].format = "3.0" \/ r \in newer
      BY <1>3 DEF KnownInv, IdOf, Size
    <3>1. i # Fresh /\ r \notin astray
      BY <1>5 DEF Deceived
    <3>. QED
      BY <1>1, <2>3, <3>1 DEF KnownInv
  <2>10. SaveInv'
    <3>1. ~lockless => \A r \in Shells : pc'[r] \notin Saving
      BY <1>1, <1>2, <1>5 DEF LockInv, DescInv, Outside, Saving
    <3>2. \A r \in Shells : pc'[r] = "rename" => pc[r] = "rename" /\ tmp[r] \in Inodes /\ tmp[r] # Fresh
      BY <1>1, <1>2, <2>1 DEF DescInv, TypeOK
    <3>3. \A r \in Shells : pc'[r] \in Saving => pc[r] \in Saving
      BY <1>2 DEF Saving
    <3>. QED
      BY <1>1, <1>3, <2>3, <3>1, <3>2, <3>3 DEF SaveInv
  <2>. QED
    BY <1>1, <1>3, <2>5, <2>6, <2>7, <2>8, <2>9, <2>10 DEF IInv, HandlersInformed
<1>6. CASE Goto(s, "idle") /\ UNCHANGED <<disk, fd, astray>>
  <2>1. pc'[s] = "idle"
    BY <1>1, <1>6 DEF Goto, TypeOK
  <2>2. TypeOK'
    BY <1>1, <1>2, <1>3, <1>6 DEF TypeOK, disk, signals
  <2>3. DescInv' /\ LockInv'
    BY <1>1, <1>2, <1>3, <1>6, <2>1 DEF disk, DescInv, LockInv, Outside, Saving
  <2>4. SaveInv'
    BY <1>1, <1>2, <1>3, <1>6 DEF disk, SaveInv, Saving, Acquired, Content
  <2>. QED
    BY <1>1, <1>3, <1>6, <2>2, <2>3, <2>4
       DEF IInv, disk, HandlersInformed, ClockInv, KnownInv
<1>. QED
  BY <1>4, <1>5, <1>6 DEF OpenForUpdate

(* A lock is taken of nobody, or locks are given up for good. *)
LEMMA TakeLockKeeps ==
  ASSUME IInv, NEW s \in Shells, TakeLock(s)
  PROVE  IInv'
<1>1. TypeOK /\ HandlersInformed /\ DescInv /\ LockInv /\ ClockInv /\ KnownInv /\ SaveInv
  BY DEF IInv
<1>2. /\ pc' \in [Shells -> Places]
      /\ \A r \in Shells : r # s => pc'[r] = pc[r]
      /\ pc[s] = "lock" /\ pc'[s] = "compare" /\ fd[s] \in Inodes
  BY <1>1 DEF TypeOK, TakeLock, Goto, Places, DescInv, Outside
<1>3. UNCHANGED <<path, inode, temps, clock, table, modified, last_read_file, told, newer,
                  ok_to_save, astray, signals, fd, tmp, sets>>
  BY DEF TakeLock
<1>4. /\ lock' \in [Inodes -> SUBSET Shells]
      /\ \A i \in Inodes : lock'[i] = lock[i] \/ (i = fd[s] /\ lock'[i] = {s} /\ lock[i] = {})
      /\ do_flock'[s] => lock'[fd[s]] = {s}
  <2>1. lock \in [Inodes -> SUBSET Shells]
    BY <1>1 DEF TypeOK
  <2>2. CASE lock[fd[s]] = {} /\ lock' = [lock EXCEPT ![fd[s]] = {s}]
    BY <1>2, <2>1, <2>2
  <2>3. CASE UNCHANGED lock
    <3>1. ~do_flock'[s]
      BY <1>1, <2>3 DEF TakeLock, TypeOK
    <3>. QED
      BY <2>1, <2>3, <3>1
  <2>. QED
    BY <2>2, <2>3 DEF TakeLock
<1>5. /\ do_flock' \in [Shells -> BOOLEAN] /\ lockless' \in BOOLEAN /\ faults' \in Nat
      /\ ~lockless' => ~lockless /\ do_flock' = do_flock
  <2>1. /\ do_flock \in [Shells -> BOOLEAN] /\ lockless \in BOOLEAN /\ faults \in Nat
    BY <1>1 DEF TypeOK
  <2>2. CASE UNCHANGED <<do_flock, lockless, faults>>
    BY <2>1, <2>2
  <2>3. CASE do_flock' = [do_flock EXCEPT ![s] = FALSE] /\ lockless' = TRUE /\ Fault
    BY <2>1, <2>3 DEF Fault
  <2>. QED
    BY <2>2, <2>3 DEF TakeLock
<1>6. TypeOK'
  <2>1. \A i \in Inodes : \A r, q \in lock'[i] : r = q /\ fd[q] = i
    BY <1>1, <1>4 DEF TypeOK
  <2>. QED
    BY <1>1, <1>2, <1>3, <1>4, <1>5, <2>1 DEF TypeOK, signals
<1>7. DescInv'
  BY <1>1, <1>2, <1>3 DEF DescInv, Outside
<1>8. LockInv'
  <2>1. \A r \in Shells, i \in Inodes : r \in lock[i] => r \in lock'[i]
    BY <1>1, <1>4 DEF TypeOK
  <2>2. \A r \in Shells : r # s /\ pc[r] \in {"compare", "load"} \cup Saving => fd[r] \in Inodes
    BY <1>1 DEF DescInv, TypeOK, Outside, Saving
  <2>. QED
    BY <1>1, <1>2, <1>3, <1>4, <1>5, <2>1, <2>2 DEF LockInv, Saving
<1>9. SaveInv'
  BY <1>1, <1>2, <1>3, <1>5 DEF SaveInv, Saving, Acquired, Content
<1>. QED
  BY <1>1, <1>3, <1>6, <1>7, <1>8, <1>9
     DEF IInv, HandlersInformed, ClockInv, KnownInv

(* A file with the identity of the one at the path is the one at the path. *)
LEMMA SameFile ==
  ASSUME TypeOK, NEW s \in Shells, fd[s] # NoFile, Id(fd[s]) = Id(path)
  PROVE  path \in Inodes /\ fd[s] = path
  BY IdLemma DEF TypeOK, Id

(* Only who has locked the file at the path goes on to load it. *)
LEMMA CompareWithPathKeeps ==
  ASSUME IInv, NEW s \in Shells, CompareWithPath(s)
  PROVE  IInv'
<1>1. TypeOK /\ HandlersInformed /\ DescInv /\ LockInv /\ ClockInv /\ KnownInv /\ SaveInv
  BY DEF IInv
<1>2. /\ pc' \in [Shells -> Places]
      /\ \A r \in Shells : r # s => pc'[r] = pc[r]
      /\ pc[s] = "compare" /\ pc'[s] \in {"load", "open"} /\ fd[s] \in Inodes
  BY <1>1 DEF TypeOK, CompareWithPath, Goto, Places, DescInv, Outside
<1>3. UNCHANGED <<path, inode, temps, clock, table, modified, last_read_file, told, flags,
                  signals, tmp, bounds>>
  BY DEF CompareWithPath
<1>4. SaveInv'
  BY <1>1, <1>2, <1>3 DEF SaveInv, Saving, Acquired, Content, flags
<1>5. CASE Id(fd[s]) = Id(path) /\ Goto(s, "load") /\ UNCHANGED <<fd, lock>>
  <2>1. fd[s] = path /\ pc'[s] = "load"
    BY <1>1, <1>2, <1>5, SameFile DEF TypeOK, Goto
  <2>2. TypeOK'
    BY <1>1, <1>2, <1>3, <1>5 DEF TypeOK, flags, signals, bounds
  <2>3. DescInv' /\ LockInv'
    BY <1>1, <1>2, <1>3, <1>5, <2>1 DEF DescInv, LockInv, Outside, Saving, flags
  <2>. QED
    BY <1>1, <1>3, <1>4, <2>2, <2>3
       DEF IInv, HandlersInformed, ClockInv, KnownInv, flags
<1>6. CASE Id(fd[s]) # Id(path) /\ Goto(s, "open") /\ CloseFile(s)
  <2>1. pc'[s] = "open"
    BY <1>1, <1>6 DEF TypeOK, Goto
  <2>2. TypeOK'
    BY <1>1, <1>2, <1>3, <1>6, CloseLemma DEF TypeOK, flags, signals, bounds
  <2>3. DescInv' /\ LockInv'
    <3>1. \A r \in Shells : r # s => \A i \in Inodes : r \in lock[i] => r \in lock'[i]
      BY <1>1, <1>6, CloseLemma
    <3>. QED
      BY <1>1, <1>2, <1>3, <1>6, <2>1, <3>1, CloseLemma
         DEF TypeOK, DescInv, LockInv, Outside, Saving, flags
  <2>. QED
    BY <1>1, <1>3, <1>4, <2>2, <2>3
       DEF IInv, HandlersInformed, ClockInv, KnownInv, flags
<1>. QED
  BY <1>5, <1>6 DEF CompareWithPath

(* Loading under the lock makes the table that may replace the file. *)
LEMMA LoadLockedKeeps ==
  ASSUME IInv, NEW s \in Shells, LoadLocked(s)
  PROVE  IInv'
<1>1. TypeOK /\ HandlersInformed /\ DescInv /\ LockInv /\ ClockInv /\ KnownInv /\ SaveInv
  BY DEF IInv
<1>2. /\ pc' \in [Shells -> Places]
      /\ \A r \in Shells : r # s => pc'[r] = pc[r]
      /\ pc[s] = "load" /\ pc'[s] \in {"idle", "write"}
      /\ fd[s] \in Inodes
  BY <1>1 DEF TypeOK, LoadLocked, Goto, Places, DescInv, Outside
<1>3. LoadFromFd(s)
      /\ UNCHANGED <<path, inode, temps, clock, modified, newer, do_flock, lockless, signals,
                     tmp, sets>>
  BY DEF LoadLocked
<1>4. /\ table' \in [Shells -> Table] /\ told' = table'
      /\ last_read_file' = [last_read_file EXCEPT ![s] = IdOf(fd[s], inode[fd[s]])]
      /\ ok_to_save' \in [Shells -> BOOLEAN]
      /\ \A r \in Shells : r # s => table'[r] = table[r] /\ ok_to_save'[r] = ok_to_save[r]
      /\ s \notin astray' => /\ table'[s] = Acquired(s, inode[fd[s]].table)
                             /\ ok_to_save'[s] => inode[fd[s]].format = "3.0" \/ s \in newer
      /\ astray' \subseteq Shells /\ \A r \in Shells : r # s => (r \in astray' <=> r \in astray)
      /\ faults' \in Nat
      /\ \A v \in Vars : v \in modified[s] => table'[s][v] = table[s][v]
  BY <1>1, <1>2, <1>3, LoadLemma
<1>5. last_read_file' \in [Shells -> Ids]
  BY <1>1, <1>2, <1>4, IdLemma DEF TypeOK
<1>6. \/ ok_to_save'[s] /\ pc'[s] = "write" /\ UNCHANGED <<fd, lock>>
      \/ ~ok_to_save'[s] /\ pc'[s] = "idle" /\ CloseFile(s)
  BY <1>1 DEF LoadLocked, Goto, TypeOK
<1>7. TypeOK'
  <2>1. /\ fd' \in [Shells -> Inodes \cup {NoFile}] /\ lock' \in [Inodes -> SUBSET Shells]
        /\ \A i \in Inodes : \A r, q \in lock'[i] : r = q /\ fd'[q] = i
    BY <1>1, <1>6, CloseLemma DEF TypeOK
  <2>. QED
    BY <1>1, <1>2, <1>3, <1>4, <1>5, <2>1 DEF TypeOK, signals
<1>8. DescInv' /\ LockInv'
  <2>1. \A r \in Shells : r # s => fd'[r] = fd[r] /\ \A i \in Inodes : r \in lock[i] => r \in lock'[i]
    BY <1>1, <1>6, CloseLemma
  <2>. QED
    BY <1>1, <1>2, <1>3, <1>6, <2>1, CloseLemma DEF TypeOK, DescInv, LockInv, Outside, Saving
<1>9. ClockInv'
  <2>1. /\ last_read_file'[s].inode = fd[s] /\ last_read_file'[s].ctime = inode[fd[s]].ctime
        /\ \A r \in Shells : r # s => last_read_file'[r] = last_read_file[r]
    BY <1>1, <1>4 DEF TypeOK, IdOf
  <2>2. inode[fd[s]].ctime \in Nat
    BY <1>1, <1>2 DEF TypeOK, Files
  <2>. QED
    BY <1>1, <1>2, <1>3, <2>1, <2>2 DEF ClockInv
<1>10. KnownInv'
  <2>. SUFFICES ASSUME NEW r \in Shells \ astray', NEW i \in Inodes,
                       last_read_file'[r] = IdOf(i, inode[i])
                PROVE  /\ \A v \in Vars \ modified[r] : table'[r][v] = inode[i].table[v]
                       /\ ok_to_save'[r] => inode[i].format = "3.0" \/ r \in newer
    BY <1>3 DEF KnownInv, IdOf, Size
  <2>1. CASE r # s
    BY <1>1, <1>3, <1>4, <2>1 DEF KnownInv, TypeOK
  <2>2. CASE r = s
    <3>1. i = fd[s]
      BY <1>1, <1>4, <2>2, IdLemma DEF TypeOK
    <3>. QED
      BY <1>4, <2>2, <3>1 DEF Acquired
  <2>. QED
    BY <2>1, <2>2
<1>11. SaveInv'
  <2>1. \A r \in Shells : r # s => table'[r] = table[r] /\ last_read_file'[r] = last_read_file[r]
    BY <1>1, <1>4 DEF TypeOK
  <2>2. s \notin astray' /\ ~lockless /\ pc'[s] \in Saving =>
          /\ table'[s] = Acquired(s, Content(path))'
          /\ inode[path].format = "3.0" \/ s \in newer
    <3>1. SUFFICES ASSUME s \notin astray', ~lockless, pc'[s] \in Saving
                   PROVE  /\ table'[s] = Acquired(s, Content(path))'
                          /\ inode[path].format = "3.0" \/ s \in newer
      OBVIOUS
    <3>2. fd[s] = path /\ ok_to_save'[s]
      BY <1>1, <1>2, <1>6, <3>1 DEF LockInv, Saving
    <3>3. Acquired(s, Content(path))' = Acquired(s, inode[path].table)
      <4>1. Content(path)' = inode[path].table
        BY <1>2, <1>3, <3>2, UniversalAssumption DEF Content
      <4>2. \A v \in Vars : v \in modified[s] => table'[s][v] = table[s][v]
        BY <1>4
      <4>. QED
        BY <1>3, <4>1, <4>2 DEF Acquired
    <3>. QED
      BY <1>4, <3>1, <3>2, <3>3
  <2>3. \A r \in Shells : r # s => Acquired(r, Content(path))' = Acquired(r, Content(path))
    BY <1>3, <2>1 DEF Acquired, Content
  <2>4. pc'[s] \in Saving => ok_to_save'[s] /\ pc'[s] # "rename"
    BY <1>2, <1>6 DEF Saving
  <2>. QED
    BY <1>1, <1>2, <1>3, <1>4, <2>1, <2>2, <2>3, <2>4 DEF SaveInv
<1>. QED
  BY <1>4, <1>7, <1>8, <1>9, <1>10, <1>11 DEF IInv, HandlersInformed

(* save() gives up before or after the temporary file was made. *)
LEMMA GiveUpKeeps ==
  ASSUME IInv, NEW s \in Shells, pc[s] \in Saving, GiveUpSave(s),
         UNCHANGED <<inode, clock, table, last_read_file, told, flags, locally_modified, sets>>
  PROVE  IInv'
<1>1. TypeOK /\ HandlersInformed /\ DescInv /\ LockInv /\ ClockInv /\ KnownInv /\ SaveInv
  BY DEF IInv
<1>2. /\ pc' \in [Shells -> Places] /\ tmp' \in [Shells -> Inodes \cup {NoFile}]
      /\ \A r \in Shells : r # s => pc'[r] = pc[r] /\ tmp'[r] = tmp[r]
      /\ pc'[s] = "idle" /\ tmp'[s] = NoFile
      /\ temps' \subseteq Inodes /\ faults' \in Nat
  BY <1>1 DEF TypeOK, GiveUpSave, Goto, Places, Fault
<1>3. CloseFile(s) /\ UNCHANGED <<path, modified, notified>>
  BY DEF GiveUpSave
<1>4. TypeOK'
  BY <1>1, <1>2, <1>3, CloseLemma DEF TypeOK, flags
<1>5. DescInv' /\ LockInv'
  <2>1. \A r \in Shells : r # s => \A i \in Inodes : r \in lock[i] => r \in lock'[i]
    BY <1>1, <1>3, CloseLemma
  <2>. QED
    BY <1>1, <1>2, <1>3, <2>1, CloseLemma DEF TypeOK, DescInv, LockInv, Outside, Saving, flags
<1>6. SaveInv'
  BY <1>1, <1>2, <1>3 DEF SaveInv, Saving, Acquired, Content, flags
<1>. QED
  BY <1>1, <1>3, <1>4, <1>5, <1>6 DEF IInv, HandlersInformed, ClockInv, KnownInv, flags

(* The temporary file is new, and holds the table of its shell. *)
LEMMA WriteTempKeeps ==
  ASSUME IInv, NEW s \in Shells, WriteTemp(s)
  PROVE  IInv'
<1>1. TypeOK /\ HandlersInformed /\ DescInv /\ LockInv /\ ClockInv /\ KnownInv /\ SaveInv
  BY DEF IInv
<1>2. pc[s] = "write" /\ UNCHANGED <<table, told, newer, do_flock, ok_to_save, lockless,
                                     locally_modified, sets>>
  BY DEF WriteTemp
<1>3. CASE GiveUpSave(s) /\ UNCHANGED <<inode, clock, last_read_file, astray>>
  BY <1>2, <1>3, GiveUpKeeps DEF Saving, flags
<1>4. CASE /\ HasFresh
           /\ Stamp
           /\ inode' = [inode EXCEPT
                          ![Fresh] = File(table[s], IF s \in newer THEN "future" ELSE "3.0")]
           /\ temps' = temps \cup {Fresh}
           /\ tmp' = [tmp EXCEPT ![s] = Fresh]
           /\ last_read_file' = [last_read_file EXCEPT ![s] = IdOf(Fresh, inode'[Fresh])]
           /\ astray' = astray \cup (Deceived(Fresh, inode'[Fresh]) \ {s})
           /\ Goto(s, "rename")
           /\ UNCHANGED <<path, lock, fd, modified, notified, faults>>
  <2>. DEFINE fmt == IF s \in newer THEN "future" ELSE "3.0"
  <2>1. /\ Fresh \in Inodes /\ Fresh # path
        /\ \A r \in Shells : fd[r] # Fresh /\ tmp[r] # Fresh
    BY <1>4, FreshLemma
  <2>2. clock' \in Nat /\ clock <= clock'
    BY <1>1, <1>4, StampLemma DEF TypeOK
  <2>3. /\ inode' \in [Inodes -> Files]
        /\ inode'[Fresh].ctime = clock'
        /\ inode'[Fresh].table = table[s] /\ inode'[Fresh].format = fmt
        /\ \A i \in Inodes : i # Fresh => inode'[i] = inode[i]
    <3>1. File(table[s], fmt) \in Files
      BY <1>1, <2>2 DEF File, Files, TypeOK, Formats
    <3>. QED
      BY <1>1, <1>4, <2>1, <3>1 DEF TypeOK, File
  <2>4. /\ pc' \in [Shells -> Places] /\ tmp' \in [Shells -> Inodes \cup {NoFile}]
        /\ \A r \in Shells : r # s => pc'[r] = pc[r] /\ tmp'[r] = tmp[r]
        /\ pc'[s] = "rename" /\ tmp'[s] = Fresh
    BY <1>1, <1>4, <2>1 DEF TypeOK, Goto, Places
  <2>5. /\ last_read_file' \in [Shells -> Ids]
        /\ \A r \in Shells : r # s => last_read_file'[r] = last_read_file[r]
        /\ last_read_file'[s] = IdOf(Fresh, inode'[Fresh])
        /\ last_read_file'[s].inode = Fresh /\ last_read_file'[s].ctime = clock'
    <3>1. IdOf(Fresh, inode'[Fresh]) \in Ids
      BY <2>1, <2>3, IdLemma
    <3>2. /\ last_read_file' \in [Shells -> Ids]
          /\ \A r \in Shells : r # s => last_read_file'[r] = last_read_file[r]
          /\ last_read_file'[s] = IdOf(Fresh, inode'[Fresh])
      BY <1>1, <1>4, <3>1 DEF TypeOK
    <3>. QED
      BY <2>3, <3>2 DEF IdOf
  <2>6. TypeOK'
    <3>1. temps' \subseteq Inodes
      BY <1>1, <1>4, <2>1 DEF TypeOK
    <3>. QED
      BY <1>1, <1>2, <1>4, <2>2, <2>3, <2>4, <2>5, <3>1 DEF TypeOK, Deceived
  <2>7. DescInv' /\ LockInv'
    BY <1>1, <1>2, <1>4, <2>1, <2>4 DEF TypeOK, DescInv, LockInv, Outside, Saving
  <2>8. ClockInv'
    <3>1. \A i \in Inodes : inode[i].ctime \in Nat /\ inode'[i].ctime <= clock'
      <4>1. clock \in Nat /\ \A i \in Inodes : inode[i].ctime \in Nat /\ inode[i].ctime <= clock
        BY <1>1 DEF ClockInv, TypeOK, Files
      <4>. QED
        BY <2>2, <2>3, <4>1
    <3>2. \A r \in Shells : last_read_file[r].ctime \in Nat /\ last_read_file'[r].ctime <= clock'
      BY <1>1, <2>2, <2>5 DEF ClockInv, TypeOK, Ids
    <3>3. ASSUME NEW r \in Shells, NEW i \in Inodes, last_read_file'[r].inode = i
          PROVE  last_read_file'[r].ctime <= inode'[i].ctime
      <4>1. CASE r = s
        BY <2>2, <2>3, <2>5, <3>3, <4>1
      <4>2. CASE r # s
        BY <1>1, <2>3, <2>5, <3>2, <3>3, <4>2 DEF ClockInv
      <4>. QED
        BY <4>1, <4>2
    <3>. QED
      BY <3>1, <3>2, <3>3 DEF ClockInv
  <2>9. KnownInv'
    <3>. SUFFICES ASSUME NEW r \in Shells \ astray', NEW i \in Inodes,
                         last_read_file'[r] = IdOf(i, inode'[i])
                  PROVE  /\ \A v \in Vars \ modified[r] : table[r][v] = inode'[i].table[v]
                         /\ ok_to_save[r] => inode'[i].format = "3.0" \/ r \in newer
      BY <1>2, <1>4 DEF KnownInv, IdOf, Size
    <3>1. CASE r = s
      <4>1. i = Fresh
        BY <2>5, <3>1, IdLemma
      <4>. QED
        BY <2>3, <3>1, <4>1
    <3>2. CASE r # s
      <4>1. i # Fresh /\ r \notin astray
        BY <1>4, <2>5, <3>2 DEF Deceived
      <4>. QED
        BY <1>1, <2>3, <2>5, <3>2, <4>1 DEF KnownInv
    <3>. QED
      BY <3>1, <3>2
  <2>10. SaveInv'
    <3>1. \A r \in Shells : pc'[r] \in Saving => pc[r] \in Saving /\ ok_to_save'[r]
      BY <1>1, <1>2, <2>4 DEF SaveInv, Saving
    <3>2. \A r \in Shells : pc'[r] = "rename" =>
            /\ inode'[tmp'[r]].table = table'[r]
            /\ inode'[tmp'[r]].format = IF r \in newer' THEN "future" ELSE "3.0"
            /\ last_read_file'[r].inode = tmp'[r]
      <4>1. \A r \in Shells : r # s /\ pc[r] = "rename" => tmp[r] \in Inodes /\ tmp[r] # Fresh
        BY <1>1, <2>1 DEF DescInv, TypeOK
      <4>. QED
        BY <1>1, <1>2, <2>3, <2>4, <2>5, <4>1 DEF SaveInv
    <3>3. ASSUME ~lockless, NEW r \in Shells \ astray, pc[r] \in Saving
          PROVE  /\ table[r] = Acquired(r, Content(path))'
                 /\ inode'[path].format = "3.0" \/ r \in newer
      <4>1. path \in Inodes
        BY <1>1, <3>3 DEF LockInv, DescInv, TypeOK, Saving, Outside
      <4>2. inode'[path] = inode[path]
        BY <2>1, <2>3, <4>1
      <4>. QED
        BY <1>1, <1>2, <1>4, <3>3, <4>2 DEF SaveInv, Acquired, Content
    <3>4. astray \subseteq astray'
      BY <1>4
    <3>. QED
      BY <1>2, <1>4, <3>1, <3>2, <3>3, <3>4 DEF SaveInv
  <2>. QED
    BY <1>1, <1>2, <2>6, <2>7, <2>8, <2>9, <2>10 DEF IInv, HandlersInformed
<1>. QED
  BY <1>3, <1>4 DEF WriteTemp

(* While every shell locks, the one that renames is alone with the file. *)
LEMMA RenameKeeps ==
  ASSUME IInv, NEW s \in Shells, Rename(s)
  PROVE  IInv'
<1>1. TypeOK /\ HandlersInformed /\ DescInv /\ LockInv /\ ClockInv /\ KnownInv /\ SaveInv
  BY DEF IInv
<1>2. pc[s] = "rename" /\ UNCHANGED <<table, last_read_file, told, newer, do_flock, ok_to_save,
                                      lockless, locally_modified, sets>>
  BY DEF Rename
<1>3. CASE GiveUpSave(s) /\ UNCHANGED <<inode, clock, astray>>
  BY <1>2, <1>3, GiveUpKeeps DEF Saving, flags
<1>4. CASE /\ Stamp
           /\ path' = tmp[s]
           /\ inode' = [inode EXCEPT ![tmp[s]].mtime = MtimeAsSaved(tmp[s]),
                                     ![tmp[s]].ctime = clock']
           /\ temps' = temps \ {tmp[s]}
           /\ tmp' = [tmp EXCEPT ![s] = NoFile]
           /\ modified' = [modified EXCEPT ![s] = {}]
           /\ notified' = [r \in Shells |-> TRUE]
           /\ astray' = astray \ {s}
           /\ CloseFile(s)
           /\ Goto(s, "idle")
           /\ UNCHANGED faults
  <2>. DEFINE t == tmp[s]
  <2>1. t \in Inodes /\ last_read_file[s].inode = t
    BY <1>1, <1>2 DEF DescInv, TypeOK, SaveInv
  <2>2. clock' \in Nat /\ clock <= clock'
    BY <1>1, <1>4, StampLemma DEF TypeOK
  <2>3. /\ inode' \in [Inodes -> Files]
        /\ inode'[t].ctime = clock'
        /\ inode'[t].mtime = inode[t].mtime
        /\ \A i \in Inodes : /\ inode'[i].table = inode[i].table
                             /\ inode'[i].format = inode[i].format
                             /\ i # t => inode'[i] = inode[i]
    <3>1. inode \in [Inodes -> Files] /\ inode[t] \in Files
      BY <1>1, <2>1 DEF TypeOK
    <3>2. [[inode[t] EXCEPT !.mtime = inode[t].mtime] EXCEPT !.ctime = clock']
            = [inode[t] EXCEPT !.ctime = clock']
      BY <3>1 DEF Files
    <3>3. inode' = [inode EXCEPT ![t] = [inode[t] EXCEPT !.ctime = clock']]
      BY <1>4, <2>1, <3>1, <3>2 DEF MtimeAsSaved
    <3>4. /\ [inode[t] EXCEPT !.ctime = clock'] \in Files
          /\ [inode[t] EXCEPT !.ctime = clock'].ctime = clock'
          /\ [inode[t] EXCEPT !.ctime = clock'].mtime = inode[t].mtime
          /\ [inode[t] EXCEPT !.ctime = clock'].table = inode[t].table
          /\ [inode[t] EXCEPT !.ctime = clock'].format = inode[t].format
      BY <2>2, <3>1 DEF Files
    <3>. QED
      BY <2>1, <3>1, <3>3, <3>4
  <2>4. /\ pc' \in [Shells -> Places] /\ tmp' \in [Shells -> Inodes \cup {NoFile}]
        /\ modified' \in [Shells -> SUBSET Vars]
        /\ \A r \in Shells : r # s => pc'[r] = pc[r] /\ tmp'[r] = tmp[r] /\ modified'[r] = modified[r]
        /\ pc'[s] = "idle" /\ tmp'[s] = NoFile
    BY <1>1, <1>4 DEF TypeOK, Goto, Places
  <2>5. TypeOK'
    <3>1. temps' \subseteq Inodes /\ notified' \in [Shells -> BOOLEAN]
      BY <1>1, <1>4 DEF TypeOK
    <3>. QED
      BY <1>1, <1>2, <1>4, <2>1, <2>2, <2>3, <2>4, <3>1, CloseLemma DEF TypeOK
  <2>6. DescInv'
    BY <1>1, <1>2, <1>4, <2>4, CloseLemma DEF DescInv, Outside
  <2>7. ~lockless => \A r \in Shells : r # s => pc[r] \notin {"load"} \cup Saving
    BY <1>1, <1>2 DEF LockInv, TypeOK, DescInv, Saving, Outside
  <2>8. LockInv'
    <3>1. \A r \in Shells : r # s => fd'[r] = fd[r] /\ \A i \in Inodes : r \in lock[i] => r \in lock'[i]
      BY <1>1, <1>4, CloseLemma
    <3>2. \A r \in Shells : pc[r] = "compare" => fd[r] \in Inodes
      BY <1>1 DEF DescInv, TypeOK, Outside
    <3>. QED
      BY <1>1, <1>2, <2>4, <2>7, <3>1, <3>2 DEF LockInv, Saving
  <2>9. ClockInv'
    <3>1. \A i \in Inodes : inode[i].ctime \in Nat /\ inode'[i].ctime <= clock'
      BY <1>1, <2>2, <2>3 DEF ClockInv, TypeOK, Files
    <3>2. \A r \in Shells : last_read_file[r].ctime \in Nat /\ last_read_file'[r].ctime <= clock'
      BY <1>1, <1>2, <2>2 DEF ClockInv, TypeOK, Ids
    <3>3. ASSUME NEW r \in Shells, NEW i \in Inodes, last_read_file[r].inode = i
          PROVE  last_read_file[r].ctime <= inode'[i].ctime
      BY <1>1, <1>2, <2>3, <3>2, <3>3 DEF ClockInv
    <3>. QED
      BY <1>2, <3>1, <3>2, <3>3 DEF ClockInv
  <2>10. KnownInv'
    <3>. SUFFICES ASSUME NEW r \in Shells \ astray', NEW i \in Inodes,
                         last_read_file[r] = IdOf(i, inode'[i])
                  PROVE  /\ \A v \in Vars \ modified'[r] : table[r][v] = inode'[i].table[v]
                         /\ ok_to_save[r] => inode'[i].format = "3.0" \/ r \in newer
      BY <1>2 DEF KnownInv, IdOf, Size
    <3>1. last_read_file[r].ctime = inode'[i].ctime /\ last_read_file[r].inode = i
      BY DEF IdOf
    <3>2. CASE r = s
      <4>1. i = t
        BY <2>1, <3>1, <3>2
      <4>. QED
        BY <1>1, <1>2, <2>3, <3>2, <4>1 DEF SaveInv
    <3>3. CASE r # s
      <4>1. r \notin astray
        BY <1>4, <3>3
      <4>2. IdOf(i, inode'[i]) = IdOf(i, inode[i])
        <5>1. CASE i # t
          BY <2>3, <5>1
        <5>2. CASE i = t
          <6>1. last_read_file[r].ctime <= inode[t].ctime /\ inode[t].ctime <= clock
            BY <1>1, <2>1, <3>1, <5>2 DEF ClockInv
          <6>2. inode[t].ctime \in Nat /\ last_read_file[r].ctime \in Nat /\ clock \in Nat
            BY <1>1, <2>1 DEF TypeOK, Files, Ids
          <6>3. inode'[t].ctime = inode[t].ctime
            BY <2>2, <2>3, <3>1, <5>2, <6>1, <6>2
          <6>. QED
            BY <2>1, <2>3, <5>2, <6>3 DEF IdOf
        <5>. QED
          BY <5>1, <5>2
      <4>. QED
        BY <1>1, <2>3, <2>4, <3>3, <4>1, <4>2 DEF KnownInv
    <3>. QED
      BY <3>2, <3>3
  <2>11. SaveInv'
    <3>1. \A r \in Shells : pc'[r] \in Saving => r # s /\ pc[r] \in Saving /\ ok_to_save'[r]
      BY <1>1, <1>2, <2>4 DEF SaveInv, Saving
    <3>2. \A r \in Shells : pc'[r] = "rename" =>
            /\ inode'[tmp'[r]].table = table'[r]
            /\ inode'[tmp'[r]].format = IF r \in newer' THEN "future" ELSE "3.0"
            /\ last_read_file'[r].inode = tmp'[r]
      <4>1. \A r \in Shells : pc[r] = "rename" => tmp[r] \in Inodes
        BY <1>1 DEF DescInv, TypeOK
      <4>. QED
        BY <1>1, <1>2, <2>3, <2>4, <4>1 DEF SaveInv
    <3>. QED
      BY <1>2, <2>7, <3>1, <3>2 DEF SaveInv
  <2>. QED
    BY <1>1, <1>2, <2>5, <2>6, <2>8, <2>9, <2>10, <2>11 DEF IInv, HandlersInformed
<1>. QED
  BY <1>3, <1>4 DEF Rename

(* A killed shell holds no lock and knows no file. *)
LEMMA CrashKeeps ==
  ASSUME IInv, NEW s \in Shells, Crash(s)
  PROVE  IInv'
<1>1. TypeOK /\ HandlersInformed /\ DescInv /\ LockInv /\ ClockInv /\ KnownInv /\ SaveInv
  BY DEF IInv
<1>2. /\ UNCHANGED <<path, inode, temps, clock, newer, lockless, sets>>
      /\ CloseFile(s) /\ astray' = astray \ {s}
  BY DEF Crash
<1>3. Empty \in Table
  BY DEF Empty, Table
<1>4. /\ table' \in [Shells -> Table] /\ told' \in [Shells -> Table] /\ told' = table'
      /\ modified' \in [Shells -> SUBSET Vars] /\ last_read_file' \in [Shells -> Ids]
      /\ \A r \in Shells : r # s => /\ table'[r] = table[r] /\ modified'[r] = modified[r]
                                    /\ last_read_file'[r] = last_read_file[r]
      /\ last_read_file'[s] = InvalidId
  BY <1>1, <1>3, IdLemma DEF Crash, TypeOK, HandlersInformed
<1>5. /\ do_flock' \in [Shells -> BOOLEAN] /\ ok_to_save' \in [Shells -> BOOLEAN]
      /\ locally_modified' \in [Shells -> BOOLEAN] /\ notified' \in [Shells -> BOOLEAN]
      /\ \A r \in Shells : r # s => do_flock'[r] = do_flock[r] /\ ok_to_save'[r] = ok_to_save[r]
      /\ do_flock'[s] = TRUE
  BY <1>1 DEF Crash, TypeOK
<1>6. /\ pc' \in [Shells -> Places] /\ tmp' \in [Shells -> Inodes \cup {NoFile}]
      /\ \A r \in Shells : r # s => pc'[r] = pc[r] /\ tmp'[r] = tmp[r]
      /\ pc'[s] = "stat" /\ tmp'[s] = NoFile /\ faults' \in Nat
  BY <1>1 DEF Crash, TypeOK, Goto, Places, Fault
<1>7. TypeOK'
  BY <1>1, <1>2, <1>4, <1>5, <1>6, CloseLemma DEF TypeOK
<1>8. DescInv' /\ LockInv'
  <2>1. \A r \in Shells : r # s => fd'[r] = fd[r] /\ \A i \in Inodes : r \in lock[i] => r \in lock'[i]
    BY <1>1, <1>2, CloseLemma
  <2>2. \A r \in Shells : pc[r] \in {"compare"} \cup Saving => fd[r] \in Inodes
    BY <1>1 DEF DescInv, TypeOK, Outside, Saving
  <2>3. DescInv'
    BY <1>1, <1>2, <1>6, CloseLemma DEF DescInv, Outside
  <2>4. LockInv'
    <3>1. \A r \in Shells : pc[r] = "load" => fd[r] \in Inodes
      BY <1>1 DEF DescInv, TypeOK, Outside
    <3>. QED
      BY <1>1, <1>2, <1>5, <1>6, <2>1, <2>2, <3>1 DEF LockInv, Saving
  <2>. QED
    BY <2>3, <2>4
<1>9. ClockInv'
  <2>1. last_read_file'[s].inode = NoFile /\ last_read_file'[s].ctime = 0 /\ clock \in Nat
    BY <1>1, <1>4 DEF InvalidId, TypeOK
  <2>. QED
    BY <1>1, <1>2, <1>4, <2>1 DEF ClockInv
<1>10. KnownInv'
  <2>1. \A i \in Inodes : last_read_file'[s] # IdOf(i, inode[i])
    BY <1>4, IdLemma
  <2>. SUFFICES ASSUME NEW r \in Shells \ astray', NEW i \in Inodes,
                       last_read_file'[r] = IdOf(i, inode[i])
                PROVE  /\ \A v \in Vars \ modified'[r] : table'[r][v] = inode[i].table[v]
                       /\ ok_to_save'[r] => inode[i].format = "3.0" \/ r \in newer
    BY <1>2 DEF KnownInv, IdOf, Size
  <2>2. r # s
    BY <2>1
  <2>. QED
    BY <1>1, <1>2, <1>4, <1>5, <2>2 DEF KnownInv
<1>11. SaveInv'
  <2>1. \A r \in Shells : pc'[r] \in Saving => r # s /\ pc[r] \in Saving
    BY <1>6 DEF Saving
  <2>2. \A r \in Shells : pc'[r] = "rename" => r # s /\ pc[r] = "rename"
    BY <1>6
  <2>3. \A r \in Shells : r # s => Acquired(r, Content(path))' = Acquired(r, Content(path))
    BY <1>2, <1>4 DEF Acquired, Content
  <2>. QED
    BY <1>1, <1>2, <1>4, <1>5, <1>6, <2>1, <2>2, <2>3 DEF SaveInv
<1>. QED
  BY <1>4, <1>7, <1>8, <1>9, <1>10, <1>11 DEF IInv, HandlersInformed

-----------------------------------------------------------------------------
(* Every step keeps the invariant, and so every state has it. *)
LEMMA StepInvariant == IInv /\ [Next]_vars => IInv'
<1>. SUFFICES ASSUME IInv, [Next]_vars PROVE IInv'
  OBVIOUS
<1>1. ASSUME NEW s \in Shells, NEW v \in Vars, NEW x \in Values \cup {Unset}, Change(s, v, x)
      PROVE  IInv'
  BY <1>1, ChangeKeeps
<1>2. ASSUME NEW s \in Shells, NEW external \in BOOLEAN, SyncAfterJob(s, external)
      PROVE  IInv'
  BY <1>2, BeginSyncKeeps DEF SyncAfterJob, IInv, TypeOK
<1>3. ASSUME NEW s \in Shells, SyncNotified(s)
      PROVE  IInv'
  <2>1. notified' \in [Shells -> BOOLEAN]
    BY <1>3 DEF SyncNotified, IInv, TypeOK
  <2>. QED
    BY <1>3, <2>1, BeginSyncKeeps DEF SyncNotified
<1>4. ASSUME NEW s \in Shells, SyncStep(s)
      PROVE  IInv'
  BY <1>4, StatPathKeeps, OpenToReadKeeps, ReadFileKeeps, OpenForUpdateKeeps, TakeLockKeeps,
     CompareWithPathKeeps, LoadLockedKeeps, WriteTempKeeps, RenameKeeps DEF SyncStep
<1>5. ASSUME NEW s \in Shells, Crash(s)
      PROVE  IInv'
  BY <1>5, CrashKeeps
<1>6. CASE UNCHANGED vars
  BY <1>6 DEF vars, disk, flags, signals, bounds, IInv, TypeOK, HandlersInformed, DescInv,
              LockInv, ClockInv, KnownInv, SaveInv, Acquired, Content, IdOf, Size
<1>. QED
  BY <1>1, <1>2, <1>3, <1>4, <1>5, <1>6 DEF Next

THEOREM Invariance == Spec => []IInv
  BY InitInvariant, StepInvariant, PTL DEF Spec

-----------------------------------------------------------------------------
(* The tables are of their types, only the descriptor of an open file is   *)
(* locked, and handlers know what the tables say        *)
(* (generate_callbacks_and_update_exports() agrees with the merge).        *)
THEOREM AlwaysConsistent == Spec => []TablesConsistent
<1>1. IInv => TablesConsistent
  BY DEF IInv, TablesConsistent
<1>. QED
  BY <1>1, Invariance, PTL

(* FileId tells the content of the file (wutil/fileid.rs), although inodes *)
(* are used again and times do not tell two saves apart, to every shell    *)
(* but those whose read failed or whose identity went to another file.     *)
THEOREM IdentityIsContent == Spec => []IdentityTellsContent
<1>1. IInv => IdentityTellsContent
  <2>. SUFFICES ASSUME IInv, NEW s \in Shells \ astray, path # NoFile, last_read_file[s] = Id(path)
                PROVE  \A v \in Vars \ modified[s] : table[s][v] = Content(path)[v]
    BY DEF IdentityTellsContent
  <2>1. path \in Inodes /\ Id(path) = IdOf(path, inode[path]) /\ Content(path) = inode[path].table
    BY DEF IInv, TypeOK, Id, Content
  <2>. QED
    BY <2>1 DEF IInv, KnownInv
<1>. QED
  BY <1>1, Invariance, PTL

(* The name is moved by open(O_CREAT) and by rename(), and nothing else. *)
LEMMA PathMoves ==
  ASSUME IInv, [Next]_vars, path' # path
  PROVE  \/ path = NoFile
         \/ \E s \in Shells : pc[s] = "rename" /\ path' = tmp[s] /\ tmp[s] \in Inodes
<1>1. ASSUME NEW s \in Shells, GiveUpSave(s) PROVE path' = path
  BY <1>1 DEF GiveUpSave
<1>2. ASSUME NEW s \in Shells, SyncStep(s)
      PROVE  \/ path' = path \/ path = NoFile
             \/ pc[s] = "rename" /\ path' = tmp[s] /\ tmp[s] \in Inodes
  <2>1. CASE StatPath(s) \/ OpenToRead(s) \/ ReadFile(s) \/ TakeLock(s) \/ CompareWithPath(s)
             \/ LoadLocked(s)
    BY <2>1 DEF StatPath, OpenToRead, ReadFile, TakeLock, CompareWithPath, LoadLocked, disk
  <2>2. CASE OpenForUpdate(s)
    BY <2>2 DEF OpenForUpdate, disk
  <2>3. CASE WriteTemp(s)
    BY <1>1, <2>3 DEF WriteTemp
  <2>4. CASE Rename(s)
    BY <1>1, <2>4 DEF Rename, IInv, DescInv, TypeOK
  <2>. QED
    BY <1>2, <2>1, <2>2, <2>3, <2>4 DEF SyncStep
<1>. QED
  BY <1>2 DEF Next, Change, SyncAfterJob, SyncNotified, BeginSync, Crash, vars, disk

(* A shell that replaces a file of a later format writes that format, since *)
(* it looked at the format under the lock it still holds (load_from_fd()), *)
(* unless it could not read the file or took it for another.               *)
THEOREM LaterFormatStays == Spec => LaterFormatKept
<1>1. IInv /\ [Next]_vars =>
        [\A s \in Shells \ astray :
           path \notin {NoFile, path'} /\ path' = tmp[s] /\ inode[path].format = "future" /\ ~lockless
             => inode[path'].format = "future"]_path
  <2>. SUFFICES ASSUME IInv, [Next]_vars, NEW s \in Shells \ astray,
                       path # NoFile, path' # path, path' = tmp[s],
                       inode[path].format = "future", ~lockless
                PROVE  inode[path'].format = "future"
    OBVIOUS
  <2>1. path' # NoFile
    BY PathMoves
  <2>2. pc[s] = "rename"
    BY <2>1 DEF IInv, DescInv
  <2>3. s \in newer
    BY <2>2 DEF IInv, SaveInv, Saving
  <2>. QED
    BY <2>2, <2>3 DEF IInv, SaveInv
<1>. QED
  BY <1>1, Invariance, PTL DEF Spec, LaterFormatKept

-----------------------------------------------------------------------------
(* The refinement of SharedVars.                                           *)
Views == [s \in Shells |-> View(s)]
Mistaken == {s \in astray : ~Open(s)}

(* What a step of one shell leaves of the views of the others. *)
LEMMA OthersSee ==
  ASSUME IInv, NEW s \in Shells,
         \A r \in Shells : r # s => /\ pc'[r] = pc[r] /\ fd'[r] = fd[r]
                                    /\ table'[r] = table[r] /\ modified'[r] = modified[r],
         \A r \in Shells : fd[r] \in Inodes => inode'[fd[r]].table = inode[fd[r]].table
  PROVE  Views' = [Views EXCEPT ![s] = View(s)']
<1>1. ASSUME NEW r \in Shells, r # s PROVE View(r)' = View(r)
  <2>1. pc[r] \in {"read", "load"} => fd[r] \in Inodes
    BY DEF IInv, DescInv, TypeOK, Outside
  <2>2. CASE pc[r] \in {"read", "load"}
    <3>1. Content(fd[r])' = Content(fd[r])
      BY <1>1, <2>1, <2>2 DEF Content
    <3>2. Acquired(r, Content(fd[r]))' = Acquired(r, Content(fd[r]))
      BY <1>1, <3>1 DEF Acquired
    <3>. QED
      BY <1>1, <2>2, <3>2 DEF View, Open
  <2>3. CASE pc[r] \notin {"read", "load"}
    BY <1>1, <2>3 DEF View, Open
  <2>. QED
    BY <2>2, <2>3
<1>. QED
  BY <1>1 DEF Views

(* The view of a shell while it has the file open, and at other times. *)
LEMMA OwnView ==
  ASSUME NEW s \in Shells
  PROVE  /\ pc[s] \in {"read", "load"} => View(s) = Acquired(s, Content(fd[s]))
         /\ pc[s] \notin {"read", "load"} => View(s) = table[s]
         /\ pc'[s] \in {"read", "load"} => View(s)' = Acquired(s, Content(fd[s]))'
         /\ pc'[s] \notin {"read", "load"} => View(s)' = table'[s]
         /\ Views[s] = View(s)
         /\ Views = [Views EXCEPT ![s] = View(s)]
  BY DEF View, Views, Open

(* What a step of one shell leaves of the others that are mistaken. *)
LEMMA OthersMistaken ==
  ASSUME IInv, NEW s \in Shells,
         \A r \in Shells : r # s => pc'[r] = pc[r] /\ (r \in astray' <=> r \in astray),
         astray' \subseteq Shells
  PROVE  /\ s \in astray' /\ pc'[s] \notin {"read", "load"} => Mistaken' = Mistaken \cup {s}
         /\ ~(s \in astray' /\ pc'[s] \notin {"read", "load"}) => Mistaken' = Mistaken \ {s}
         /\ s \in Mistaken <=> s \in astray /\ pc[s] \notin {"read", "load"}
         /\ (s \in astray' <=> s \in astray) /\ {pc[s], pc'[s]} \cap {"read", "load"} = {}
              => Mistaken' = Mistaken
         /\ s \notin astray' /\ pc[s] \in {"read", "load"} => Mistaken' = Mistaken
<1>1. astray \subseteq Shells
  BY DEF IInv, TypeOK
<1>. QED
  BY <1>1 DEF Mistaken, Open

(* Steps that show in nothing SharedVars speaks of. *)
LEMMA Stutter ==
  ASSUME Views' = Views, Content(path)' = Content(path), Mistaken' = Mistaken,
         UNCHANGED <<modified, lockless>>
  PROVE  UNCHANGED Shared!vars
  BY DEF Shared!vars, Views, Mistaken

(* A step that shows the shell what the file holds, under its own changes. *)
LEMMA RefreshStep ==
  ASSUME NEW s \in Shells,
         Views' = [Views EXCEPT ![s] = Acquired(s, Content(path))], View(s) = table[s],
         Content(path)' = Content(path), Mistaken' = Mistaken \ {s}, UNCHANGED <<modified, lockless>>
  PROVE  Shared!Next
<1>1. Acquired(s, Content(path)) = Shared!Overlay(Content(path), Views[s], modified[s])
  BY DEF Acquired, Shared!Overlay, Views
<1>2. Shared!Refresh(s)
  BY <1>1 DEF Shared!Refresh, Views, Mistaken
<1>. QED
  BY <1>2 DEF Shared!Next

(* A step that shows it something else there. *)
LEMMA MisreadStep ==
  ASSUME IInv, NEW s \in Shells, NEW read \in Table,
         Views' = [Views EXCEPT ![s] = Acquired(s, read)],
         \A v \in modified[s] : Views[s][v] = table[s][v],
         Content(path)' = Content(path), Mistaken' = Mistaken \cup {s}, UNCHANGED <<modified, lockless>>
  PROVE  Shared!Next
<1>1. Acquired(s, read) = Shared!Overlay(read, Views[s], modified[s])
  BY DEF Acquired, Shared!Overlay
<1>2. Shared!Misread(s, read)
  BY <1>1 DEF Shared!Misread, Views, Mistaken
<1>3. read \in Shared!Table
  BY DEF Table, Shared!Table
<1>. QED
  BY <1>2, <1>3 DEF Shared!Next

(* A step that gives the identity a shell has read to another file. *)
LEMMA DeceiveStep ==
  ASSUME Views' = Views, Content(path)' = Content(path), UNCHANGED <<modified, lockless>>,
         NEW some \in SUBSET Shells, Mistaken' = Mistaken \cup some
  PROVE  Shared!Next
<1>1. Shared!Deceive(some)
  BY DEF Shared!Deceive, Views, Mistaken
<1>. QED
  BY <1>1 DEF Shared!Next

(* A change of a variable is one of the view of its shell. *)
LEMMA ChangeShows ==
  ASSUME IInv, NEW s \in Shells, NEW v \in Vars, NEW x \in Values \cup {Unset}, Change(s, v, x)
  PROVE  Shared!Next \/ UNCHANGED Shared!vars
<1>1. pc[s] = "idle" /\ UNCHANGED <<path, inode, lockless, astray, pc, fd>>
  BY DEF Change, disk, flags
<1>2. Content(path)' = Content(path) /\ Mistaken' = Mistaken
  BY <1>1 DEF Content, Mistaken, Open
<1>3. CASE UNCHANGED <<table, modified, told>>
  <2>1. Views' = Views
    BY <1>1, <1>3 DEF Views, View, Open, Acquired, Content
  <2>. QED
    BY <1>1, <1>2, <1>3, <2>1, Stutter
<1>4. CASE /\ table' = [table EXCEPT ![s][v] = x]
           /\ modified' = [modified EXCEPT ![s] = @ \cup {v}]
  <2>1. /\ table'[s] = [table[s] EXCEPT ![v] = x]
        /\ \A r \in Shells : r # s => table'[r] = table[r] /\ modified'[r] = modified[r]
    BY <1>4 DEF IInv, TypeOK
  <2>2. Views' = [Views EXCEPT ![s] = View(s)']
    BY <1>1, <2>1, OthersSee
  <2>3. View(s)' = [Views[s] EXCEPT ![v] = x]
    BY <1>1, <2>1, OwnView
  <2>4. Views' = [Views EXCEPT ![s][v] = x]
    BY <2>2, <2>3
  <2>5. Shared!Change(s, v, x)
    BY <1>1, <1>2, <1>4, <2>4 DEF Shared!Change, Views, Mistaken
  <2>. QED
    BY <2>5 DEF Shared!Next
<1>. QED
  BY <1>3, <1>4 DEF Change

(* Starting a synchronisation, and the steps that only look. *)
LEMMA QuietShows ==
  ASSUME IInv, NEW s \in Shells, BeginSync(s) \/ StatPath(s)
  PROVE  UNCHANGED Shared!vars
<1>1. /\ UNCHANGED <<path, inode, lockless, astray, fd, table, modified>>
      /\ pc[s] \notin {"read", "load"} /\ pc'[s] \notin {"read", "load"}
      /\ \A r \in Shells : r # s => pc'[r] = pc[r]
  BY DEF BeginSync, StatPath, disk, flags, Goto, IInv, TypeOK
<1>2. Views' = Views /\ Mistaken' = Mistaken
  BY <1>1 DEF Views, Mistaken, View, Open, Acquired, Content, IInv, TypeOK
<1>. QED
  BY <1>1, <1>2, Stutter DEF Content

(* From open() on the shell shows the file as it was then. *)
LEMMA OpenToReadShows ==
  ASSUME IInv, NEW s \in Shells, OpenToRead(s)
  PROVE  Shared!Next \/ UNCHANGED Shared!vars
<1>1. /\ UNCHANGED <<path, inode, lockless, astray, table, modified>>
      /\ \A r \in Shells : r # s => pc'[r] = pc[r] /\ fd'[r] = fd[r]
      /\ pc[s] = "reopen"
      /\ \/ pc'[s] = "read" /\ fd'[s] = path
         \/ pc'[s] = "idle"
  BY DEF OpenToRead, disk, flags, Goto, IInv, TypeOK
<1>2. Views' = [Views EXCEPT ![s] = View(s)'] /\ View(s) = table[s]
  BY <1>1, OthersSee, OwnView
<1>3. Content(path)' = Content(path) /\ astray' \subseteq Shells
  BY <1>1 DEF Content, IInv, TypeOK
<1>4. CASE pc'[s] = "idle"
  <2>1. Mistaken' = Mistaken
    BY <1>1, <1>3, <1>4, OthersMistaken
  <2>. QED
    BY <1>1, <1>2, <1>3, <1>4, <2>1, OwnView, Stutter
<1>5. CASE pc'[s] = "read" /\ fd'[s] = path
  <2>1. View(s)' = Acquired(s, Content(path))
    BY <1>1, <1>3, <1>5, OwnView DEF Acquired, Content
  <2>2. Mistaken' = Mistaken \ {s}
    BY <1>1, <1>3, <1>5, OthersMistaken
  <2>. QED
    BY <1>1, <1>2, <1>3, <2>1, <2>2, RefreshStep
<1>. QED
  BY <1>1, <1>4, <1>5

(* Loading gives the shell the table that it showed already, or leaves it  *)
(* with something else, and then it is astray.                             *)
LEMMA LoadShows ==
  ASSUME IInv, NEW s \in Shells, ReadFile(s) \/ LoadLocked(s)
  PROVE  Shared!Next \/ UNCHANGED Shared!vars
<1>1. /\ UNCHANGED <<path, inode, lockless, modified>> /\ LoadFromFd(s)
      /\ \A r \in Shells : r # s => pc'[r] = pc[r] /\ fd'[r] = fd[r]
      /\ pc[s] \in {"read", "load"} /\ pc'[s] \notin {"read", "load"}
  BY CloseLemma DEF ReadFile, LoadLocked, Goto, IInv, TypeOK
<1>2. fd[s] \in Inodes
  BY <1>1 DEF IInv, TypeOK, DescInv, Outside
<1>3. /\ \A r \in Shells : r # s => table'[r] = table[r] /\ (r \in astray' <=> r \in astray)
      /\ s \notin astray' => table'[s] = Acquired(s, inode[fd[s]].table)
      /\ \E read \in Table : table'[s] = Acquired(s, read)
      /\ astray' \subseteq Shells
  BY <1>1, <1>2, LoadLemma DEF IInv
<1>4. Content(fd[s]) = inode[fd[s]].table /\ Content(path)' = Content(path)
  BY <1>1, <1>2, UniversalAssumption DEF Content
<1>5. Views' = [Views EXCEPT ![s] = table'[s]] /\ View(s) = Acquired(s, Content(fd[s]))
  BY <1>1, <1>3, OthersSee, OwnView
<1>6. CASE s \notin astray'
  <2>1. Mistaken' = Mistaken
    BY <1>1, <1>3, <1>6, OthersMistaken
  <2>2. Views' = Views
    BY <1>3, <1>4, <1>5, <1>6, OwnView
  <2>. QED
    BY <1>1, <1>4, <2>1, <2>2, Stutter
<1>7. CASE s \in astray'
  <2>1. Mistaken' = Mistaken \cup {s}
    BY <1>1, <1>3, <1>7, OthersMistaken
  <2>2. PICK read \in Table : table'[s] = Acquired(s, read)
    BY <1>3
  <2>3. \A v \in modified[s] : Views[s][v] = table[s][v]
    BY <1>5, OwnView DEF Acquired, IInv, TypeOK
  <2>. QED
    BY <1>1, <1>4, <1>5, <2>1, <2>2, <2>3, MisreadStep
<1>. QED
  BY <1>6, <1>7

(* A file that open() creates is as empty as a missing one. *)
LEMMA OpenForUpdateShows ==
  ASSUME IInv, NEW s \in Shells, OpenForUpdate(s)
  PROVE  Shared!Next \/ UNCHANGED Shared!vars
<1>1. /\ UNCHANGED <<lockless, table, modified>>
      /\ \A r \in Shells : r # s => pc'[r] = pc[r] /\ fd'[r] = fd[r]
      /\ pc[s] = "open" /\ pc'[s] \in {"lock", "idle"}
  BY DEF OpenForUpdate, Goto, IInv, TypeOK
<1>2. CASE UNCHANGED <<disk, astray>>
  <2>1. Views' = [Views EXCEPT ![s] = View(s)'] /\ View(s)' = View(s)
    BY <1>1, <1>2, OthersSee, OwnView DEF disk
  <2>2. Views' = Views /\ Content(path)' = Content(path)
    BY <1>2, <2>1, OwnView DEF disk, Content
  <2>3. Mistaken' = Mistaken
    BY <1>1, <1>2, OthersMistaken DEF IInv, TypeOK
  <2>. QED
    BY <1>1, <2>2, <2>3, Stutter
<1>3. CASE /\ path = NoFile /\ HasFresh /\ path' = Fresh
           /\ inode' = [inode EXCEPT ![Fresh] = File(Empty, "3.0")]
           /\ astray' = astray \cup Deceived(Fresh, inode'[Fresh])
  <2>1. Fresh \in Inodes /\ \A r \in Shells : fd[r] # Fresh
    BY <1>3, FreshLemma
  <2>2. inode'[Fresh].table = Empty /\ \A i \in Inodes : i # Fresh => inode'[i] = inode[i]
    BY <1>3, <2>1 DEF File, IInv, TypeOK
  <2>3. /\ Content(path)' = Content(path)
        /\ \A r \in Shells : fd[r] \in Inodes => inode'[fd[r]].table = inode[fd[r]].table
    BY <1>3, <2>1, <2>2, UniversalAssumption DEF Content
  <2>4. Views' = [Views EXCEPT ![s] = View(s)'] /\ View(s)' = View(s)
    BY <1>1, <2>3, OthersSee, OwnView
  <2>5. Views' = Views
    BY <2>4, OwnView
  <2>. DEFINE some == {r \in Deceived(Fresh, inode'[Fresh]) : ~Open(r)}
  <2>6. Mistaken' = Mistaken \cup some
    BY <1>1, <1>3 DEF Mistaken, Open, Deceived, IInv, TypeOK
  <2>7. some \in SUBSET Shells
    BY DEF Deceived
  <2>. QED
    BY <1>1, <2>3, <2>5, <2>6, <2>7, DeceiveStep
<1>. QED
  BY <1>2, <1>3 DEF OpenForUpdate

(* Taking a lock shows in nothing; giving up locks is a step of its own. *)
LEMMA TakeLockShows ==
  ASSUME IInv, NEW s \in Shells, TakeLock(s)
  PROVE  Shared!Next \/ UNCHANGED Shared!vars
<1>1. /\ UNCHANGED <<path, inode, astray, table, modified, fd>>
      /\ \A r \in Shells : r # s => pc'[r] = pc[r]
      /\ pc[s] = "lock" /\ pc'[s] = "compare"
  BY DEF TakeLock, Goto, IInv, TypeOK
<1>2. Views' = [Views EXCEPT ![s] = View(s)'] /\ View(s)' = View(s)
  BY <1>1, OthersSee, OwnView
<1>3. Views' = Views /\ Content(path)' = Content(path) /\ Mistaken' = Mistaken
  BY <1>1, <1>2, OwnView, OthersMistaken DEF Content, IInv, TypeOK
<1>4. CASE UNCHANGED lockless
  BY <1>1, <1>3, <1>4, Stutter
<1>5. CASE lockless' = TRUE
  <2>1. Shared!GiveUpLocking
    BY <1>1, <1>3, <1>5 DEF Shared!GiveUpLocking, Views, Mistaken
  <2>. QED
    BY <2>1 DEF Shared!Next
<1>. QED
  BY <1>4, <1>5 DEF TakeLock

(* To find the locked file at the path is to take over what it holds. *)
LEMMA CompareWithPathShows ==
  ASSUME IInv, NEW s \in Shells, CompareWithPath(s)
  PROVE  Shared!Next \/ UNCHANGED Shared!vars
<1>1. /\ UNCHANGED <<path, inode, lockless, astray, table, modified>>
      /\ \A r \in Shells : r # s => pc'[r] = pc[r] /\ fd'[r] = fd[r]
      /\ pc[s] = "compare" /\ fd[s] # NoFile
  BY CloseLemma DEF CompareWithPath, flags, Goto, IInv, TypeOK, DescInv, Outside
<1>2. Views' = [Views EXCEPT ![s] = View(s)'] /\ View(s) = table[s]
  BY <1>1, OthersSee, OwnView
<1>3. Content(path)' = Content(path) /\ astray' \subseteq Shells
  BY <1>1 DEF Content, IInv, TypeOK
<1>4. CASE Id(fd[s]) = Id(path) /\ Goto(s, "load") /\ UNCHANGED <<fd, lock>>
  <2>1. fd'[s] = path /\ pc'[s] = "load"
    BY <1>1, <1>4, SameFile DEF Goto, IInv, TypeOK
  <2>2. View(s)' = Acquired(s, Content(path))
    BY <1>1, <1>3, <2>1, OwnView DEF Acquired, Content
  <2>3. Mistaken' = Mistaken \ {s}
    BY <1>1, <1>3, <2>1, OthersMistaken
  <2>. QED
    BY <1>1, <1>2, <1>3, <2>2, <2>3, RefreshStep
<1>5. CASE Goto(s, "open")
  <2>1. pc'[s] = "open"
    BY <1>5 DEF Goto, IInv, TypeOK
  <2>2. Views' = Views
    BY <1>1, <1>2, <2>1, OwnView
  <2>3. Mistaken' = Mistaken
    BY <1>1, <1>3, <2>1, OthersMistaken
  <2>. QED
    BY <1>1, <1>3, <2>2, <2>3, Stutter
<1>. QED
  BY <1>4, <1>5 DEF CompareWithPath

(* Nobody reads a temporary file, and giving up leaves everything as it is. *)
LEMMA GiveUpShows ==
  ASSUME IInv, NEW s \in Shells, pc[s] \in Saving, GiveUpSave(s),
         UNCHANGED <<inode, table, lockless, astray>>
  PROVE  UNCHANGED Shared!vars
<1>1. /\ UNCHANGED <<path, inode, lockless, astray, table, modified>>
      /\ \A r \in Shells : r # s => pc'[r] = pc[r] /\ fd'[r] = fd[r]
      /\ pc[s] \notin {"read", "load"} /\ pc'[s] \notin {"read", "load"}
  BY CloseLemma DEF GiveUpSave, Goto, IInv, TypeOK, Saving
<1>2. Views' = [Views EXCEPT ![s] = View(s)'] /\ View(s)' = View(s)
  BY <1>1, OthersSee, OwnView
<1>3. Mistaken' = Mistaken
  BY <1>1, OthersMistaken DEF IInv, TypeOK
<1>. QED
  BY <1>1, <1>2, <1>3, OwnView, Stutter DEF Content

(* A temporary file shows in nothing, but may take in who knew its inode. *)
LEMMA WriteTempShows ==
  ASSUME IInv, NEW s \in Shells, WriteTemp(s)
  PROVE  Shared!Next \/ UNCHANGED Shared!vars
<1>1. pc[s] = "write" /\ UNCHANGED <<table, lockless>>
  BY DEF WriteTemp
<1>2. CASE GiveUpSave(s) /\ UNCHANGED <<inode, clock, last_read_file, astray>>
  BY <1>1, <1>2, GiveUpShows DEF Saving
<1>3. CASE /\ HasFresh
           /\ inode' = [inode EXCEPT
                          ![Fresh] = File(table[s], IF s \in newer THEN "future" ELSE "3.0")]
           /\ astray' = astray \cup (Deceived(Fresh, inode'[Fresh]) \ {s})
           /\ Goto(s, "rename")
           /\ UNCHANGED <<path, fd, modified>>
  <2>1. Fresh \in Inodes /\ Fresh # path /\ \A r \in Shells : fd[r] # Fresh
    BY <1>3, FreshLemma
  <2>2. \A i \in Inodes : i # Fresh => inode'[i] = inode[i]
    BY <1>3, <2>1 DEF IInv, TypeOK
  <2>3. Content(path)' = Content(path)
    BY <1>3, <2>1, <2>2 DEF Content, IInv, TypeOK
  <2>4. /\ \A r \in Shells : r # s => pc'[r] = pc[r]
        /\ pc'[s] = "rename"
    BY <1>3 DEF Goto, IInv, TypeOK
  <2>5. Views' = [Views EXCEPT ![s] = View(s)'] /\ View(s)' = View(s)
    BY <1>1, <1>3, <2>1, <2>2, <2>4, OthersSee, OwnView
  <2>6. Views' = Views
    BY <2>5, OwnView
  <2>. DEFINE some == {r \in Deceived(Fresh, inode'[Fresh]) \ {s} : ~Open(r)}
  <2>7. Mistaken' = Mistaken \cup some
    BY <1>1, <1>3, <2>4 DEF Mistaken, Open, Deceived, IInv, TypeOK
  <2>8. some \in SUBSET Shells
    BY DEF Deceived
  <2>. QED
    BY <1>1, <1>3, <2>3, <2>6, <2>7, <2>8, DeceiveStep
<1>. QED
  BY <1>2, <1>3 DEF WriteTemp

(* The rename commits: on top of the file, or of what the shell took for   *)
(* it, once locks are given up or if it is mistaken.                       *)
LEMMA RenameShows ==
  ASSUME IInv, NEW s \in Shells, Rename(s)
  PROVE  Shared!Next \/ UNCHANGED Shared!vars
<1>1. pc[s] = "rename" /\ UNCHANGED <<table, lockless>>
  BY DEF Rename
<1>2. CASE GiveUpSave(s) /\ UNCHANGED <<inode, clock, astray>>
  BY <1>1, <1>2, GiveUpShows DEF Saving
<1>3. CASE /\ path' = tmp[s]
           /\ inode' = [inode EXCEPT ![tmp[s]].mtime = MtimeAsSaved(tmp[s]),
                                     ![tmp[s]].ctime = clock']
           /\ modified' = [modified EXCEPT ![s] = {}]
           /\ astray' = astray \ {s}
           /\ CloseFile(s)
           /\ Goto(s, "idle")
  <2>1. tmp[s] \in Inodes /\ inode[tmp[s]].table = table[s]
    BY <1>1 DEF IInv, DescInv, TypeOK, SaveInv
  <2>2. \A i \in Inodes : inode'[i].table = inode[i].table
    BY <1>3, <2>1 DEF IInv, TypeOK, Files
  <2>3. Content(path)' = table[s]
    BY <1>3, <2>1, <2>2, UniversalAssumption DEF Content
  <2>4. /\ \A r \in Shells : r # s => pc'[r] = pc[r] /\ fd'[r] = fd[r] /\ modified'[r] = modified[r]
        /\ pc'[s] = "idle"
    BY <1>3, CloseLemma DEF Goto, IInv, TypeOK
  <2>5. Views' = [Views EXCEPT ![s] = View(s)'] /\ View(s)' = View(s) /\ View(s) = table[s]
    BY <1>1, <2>2, <2>4, OthersSee, OwnView
  <2>6. Views' = Views /\ Views[s] = table[s]
    BY <2>5, OwnView
  <2>7. Mistaken' = Mistaken \ {s} /\ (s \in Mistaken <=> s \in astray)
    BY <1>1, <1>3, <2>4, OthersMistaken DEF IInv, TypeOK
  <2>8. CASE ~lockless /\ s \notin astray
    <3>1. table[s] = Acquired(s, Content(path))
      BY <1>1, <2>8 DEF IInv, SaveInv, Saving
    <3>2. Acquired(s, Content(path)) = Shared!Overlay(Content(path), Views[s], modified[s])
      BY <2>6 DEF Acquired, Shared!Overlay
    <3>3. Views' = [Views EXCEPT ![s] = Content(path)']
      BY <2>3, <2>5
    <3>4. Shared!Commit(s)
      BY <1>1, <1>3, <2>3, <2>7, <3>1, <3>2, <3>3 DEF Shared!Commit, Views, Mistaken
    <3>. QED
      BY <3>4 DEF Shared!Next
  <2>9. CASE lockless \/ s \in astray
    <3>1. Shared!CommitStale(s)
      BY <1>1, <1>3, <2>3, <2>6, <2>9, <2>7 DEF Shared!CommitStale, Views, Mistaken
    <3>. QED
      BY <3>1 DEF Shared!Next
  <2>. QED
    BY <2>8, <2>9
<1>. QED
  BY <1>2, <1>3 DEF Rename

(* A shell that is killed starts over with nothing. *)
LEMMA CrashShows ==
  ASSUME IInv, NEW s \in Shells, Crash(s)
  PROVE  Shared!Next
<1>1. /\ UNCHANGED <<path, inode, lockless>>
      /\ \A r \in Shells : r # s => /\ pc'[r] = pc[r] /\ fd'[r] = fd[r]
                                    /\ table'[r] = table[r] /\ modified'[r] = modified[r]
      /\ pc'[s] = "stat" /\ table'[s] = Empty /\ astray' = astray \ {s}
      /\ modified' = [modified EXCEPT ![s] = {}]
  BY CloseLemma DEF Crash, Goto, IInv, TypeOK
<1>2. Views' = [Views EXCEPT ![s] = Empty]
  BY <1>1, OthersSee, OwnView
<1>3. Mistaken' = Mistaken \ {s}
  BY <1>1, OthersMistaken DEF IInv, TypeOK
<1>4. Shared!Crash(s)
  BY <1>1, <1>2, <1>3 DEF Shared!Crash, Shared!Empty, Empty, Views, Mistaken, Content
<1>. QED
  BY <1>4 DEF Shared!Next

(* The detailed specification implements the shared file of SharedVars:    *)
(* however open(), read(), flock(), stat() and rename() of the shells       *)
(* interleave and fail, a commit puts the changes of its shell on top of   *)
(* everything committed before, and a refresh loses no change of its own,  *)
(* but for shells that are mistaken about the file.                        *)
THEOREM ImplementsSharedVars == Spec => SharedFile
<1>1. Init => Shared!Init
  <2>. SUFFICES ASSUME Init PROVE Shared!Init
    OBVIOUS
  <2>1. Content(path) \in Table
    BY InitInvariant DEF IInv, TypeOK, Content, Empty, Table, Files
  <2>. QED
    BY <2>1 DEF Init, Shared!Init, Shared!Table, Table, View, Open
<1>2. IInv /\ [Next]_vars => [Shared!Next]_Shared!vars
  <2>. SUFFICES ASSUME IInv, [Next]_vars PROVE Shared!Next \/ UNCHANGED Shared!vars
    OBVIOUS
  <2>1. ASSUME NEW s \in Shells, NEW v \in Vars, NEW x \in Values \cup {Unset}, Change(s, v, x)
        PROVE  Shared!Next \/ UNCHANGED Shared!vars
    BY <2>1, ChangeShows
  <2>2. ASSUME NEW s \in Shells, BeginSync(s)
        PROVE  Shared!Next \/ UNCHANGED Shared!vars
    BY <2>2, QuietShows
  <2>3. ASSUME NEW s \in Shells, SyncStep(s)
        PROVE  Shared!Next \/ UNCHANGED Shared!vars
    BY <2>3, QuietShows, OpenToReadShows, LoadShows, OpenForUpdateShows, TakeLockShows,
       CompareWithPathShows, WriteTempShows, RenameShows DEF SyncStep
  <2>4. ASSUME NEW s \in Shells, Crash(s)
        PROVE  Shared!Next \/ UNCHANGED Shared!vars
    BY <2>4, CrashShows
  <2>5. CASE UNCHANGED vars
    <3>1. Views' = Views /\ Mistaken' = Mistaken
      BY <2>5 DEF vars, disk, flags, Views, Mistaken, View, Open, Acquired, Content
    <3>. QED
      BY <2>5, <3>1, Stutter DEF vars, disk, flags, Content
  <2>. QED
    BY <2>1, <2>2, <2>3, <2>4, <2>5 DEF Next, SyncAfterJob, SyncNotified
<1>. QED
  BY <1>1, <1>2, Invariance, PTL DEF Spec, SharedFile, Shared!Spec
=============================================================================
