------------------------------ MODULE FdMonitor ------------------------------
(***************************************************************************)
(* Capturing output: the fd monitor of src/src/fd_monitor.rs and its only  *)
(* client, IoBufferfill of src/src/io.rs (command substitutions, and       *)
(* blocks that pipe into something).                                       *)
(*                                                                         *)
(* A bufferfill is a pipe whose read end the main thread hands to the      *)
(* monitor as an item.  A background thread polls the fds of all items and *)
(* reads what there is into the item's buffer.  Children write to the      *)
(* pipe; builtins append to the buffer directly.  To finish, the main      *)
(* thread takes the item back and reads what is left.                      *)
(*                                                                         *)
(* Grain: a critical section under the monitor's mutex is one step, except *)
(* that the thread holds it across several callbacks, each a step.  poll() *)
(* is left with what was ready then, and the mutex is taken again later.   *)
(***************************************************************************)
EXTENDS Naturals, Sequences, SequencesExt

CONSTANTS
  Items,       \* bufferfills; FdMonitorItemIds are not recycled
  Fds,         \* file descriptors, which are
  NoFd,        \* a closed fd
  Lingering,   \* the items whose child may outlive the capture (cmd &)
  Capacity,    \* what a pipe holds, in chunks
  MaxWrites,   \* bound on the chunks written to one pipe
  MaxDirect,   \* bound on the chunks appended to one buffer by builtins
  Limit        \* buffer_limit, 0 for none

ASSUME NoFdIsNone == NoFd \notin Fds
ASSUME LingeringItems == Lingering \subseteq Items
ASSUME Bounds == Capacity \in Nat \ {0} /\ MaxWrites \in Nat /\ MaxDirect \in Nat /\ Limit \in Nat

VARIABLES
  \* the monitor
  items,      \* data.items: the ids present
  running,    \* data.running
  signalled,  \* change_signaller
  bg,         \* the background thread
  snapshot,   \* item_ids
  polled,     \* the fds it polls
  ready,      \* what poll() found: fds, and whether the signaller was ready
  serving,    \* items whose turn in the service loop is to come
  \* the bufferfills
  fd,         \* the fd of each item, NoFd when closed
  reads,      \* the pipe an fd reads from
  pipe,       \* what is in each pipe
  child,      \* the writing child of each item
  wrote, direct,     \* chunks written to the pipe, and appended directly
  buffer, discard,   \* SeparatedBuffer
  \* the main thread
  main,       \* where it is
  current,    \* the item it adds or finishes
  done        \* the items whose buffer was taken

monitor == <<items, running, signalled>>
thread == <<bg, snapshot, polled, ready, serving>>
pipes == <<reads, pipe, child, wrote>>
buffers == <<buffer, discard, direct>>
mainVars == <<main, current, done>>
vars == <<monitor, thread, fd, pipes, buffers, mainVars>>

NoItem == "none"
ASSUME NoItemIsNone == NoItem \notin Items

Nothing == [fds |-> {}, signaller |-> FALSE]
Chunks == 0..MaxWrites         \* 0: appended by a builtin
Locked == bg = "serving"       \* the background thread holds the mutex

OutputType ==
  /\ pipe \in [Items -> Seq(1..MaxWrites)] /\ \A i \in Items : Len(pipe[i]) <= Capacity
  /\ wrote \in [Items -> 0..MaxWrites] /\ direct \in [Items -> 0..MaxDirect]
  /\ buffer \in [Items -> Seq(Chunks)] /\ discard \in [Items -> BOOLEAN]

ThreadType ==
  /\ items \subseteq Items /\ running \in BOOLEAN /\ signalled \in BOOLEAN
  /\ bg \in {"none", "starting", "top", "poll", "relock", "serving"}
  /\ snapshot \subseteq Items /\ serving \subseteq snapshot
  /\ polled \subseteq Fds
  /\ ready \in [fds : SUBSET polled, signaller : BOOLEAN]

TypeOK ==
  /\ ThreadType /\ OutputType
  /\ fd \in [Items -> Fds \cup {NoFd}]
  /\ reads \in [Fds -> Items \cup {NoItem}]
  /\ child \in [Items -> {"none", "writing", "closed"}]
  /\ main \in {"run", "spawn", "post", "drain"}
  /\ current \in Items \cup {NoItem} /\ done \subseteq Items

Init ==
  /\ items = {} /\ running = FALSE /\ signalled = FALSE
  /\ bg = "none" /\ snapshot = {} /\ polled = {} /\ ready = Nothing /\ serving = {}
  /\ fd = [i \in Items |-> NoFd]
  /\ reads = [f \in Fds |-> NoItem]
  /\ pipe = [i \in Items |-> <<>>]
  /\ child = [i \in Items |-> "none"]
  /\ wrote = [i \in Items |-> 0] /\ direct = [i \in Items |-> 0]
  /\ buffer = [i \in Items |-> <<>>] /\ discard = [i \in Items |-> FALSE]
  /\ main = "run" /\ current = NoItem /\ done = {}

-----------------------------------------------------------------------------
(* Buffers and reads. *)

(* SeparatedBuffer::append(): over the limit everything is discarded, and  *)
(* from then on everything is refused.                                     *)
Added(buf, disc, data) ==
  IF disc THEN [buf |-> buf, disc |-> TRUE]
  ELSE IF Limit > 0 /\ Len(buf) + Len(data) > Limit THEN [buf |-> <<>>, disc |-> TRUE]
  ELSE [buf |-> buf \o data, disc |-> FALSE]

Append1(i, data) ==
  LET new == Added(buffer[i], discard[i], data) IN
  /\ buffer' = [buffer EXCEPT ![i] = new.buf]
  /\ discard' = [discard EXCEPT ![i] = new.disc]

(* IoBuffer::read_once() on item i's fd, with the pipe it leads to: some   *)
(* of the data; nothing (EAGAIN) if there is none now.                     *)
ReadOnce(i) ==
  LET p == reads[fd[i]] IN
  IF pipe[p] = <<>>
    THEN UNCHANGED <<pipe, buffer, discard>>
    ELSE \E n \in 1..Len(pipe[p]) :
           /\ pipe' = [pipe EXCEPT ![p] = SubSeq(@, n + 1, Len(@))]
           /\ Append1(i, SubSeq(pipe[p], 1, n))

(* The end of the data is not seen while an item is monitored: the filler  *)
(* itself keeps a write end open until finish() is over.                   *)
Readable(f) == reads[f] # NoItem /\ pipe[reads[f]] # <<>>

-----------------------------------------------------------------------------
(* The main thread and the children. *)

(* IoBufferfill::create_opts() and FdMonitor::add(): a pipe, and its item. *)
(* If no thread runs, this one will start it.                              *)
Add(i, f) ==
  /\ main = "run" /\ ~Locked
  /\ i \notin items \cup done /\ child[i] = "none" /\ reads[f] = NoItem
  /\ reads' = [reads EXCEPT ![f] = i]
  /\ fd' = [fd EXCEPT ![i] = f]
  /\ child' = [child EXCEPT ![i] = "writing"]
  /\ items' = items \cup {i}
  /\ running' = TRUE
  /\ main' = IF running THEN "post" ELSE "spawn"
  /\ UNCHANGED <<signalled, thread, pipe, wrote, buffers, current, done>>

SpawnThread ==
  /\ main = "spawn"
  /\ bg' = "starting"
  /\ main' = "post"
  /\ UNCHANGED <<monitor, snapshot, polled, ready, serving, fd, pipes, buffers,
                 current, done>>

(* Mutant: a thread that polls is left alone. *)
PostUnlessPolling ==
  /\ main = "post"
  /\ signalled' = (signalled \/ bg # "poll")
  /\ main' = IF current = NoItem THEN "run" ELSE "drain"
  /\ UNCHANGED <<items, running, thread, fd, pipes, buffers, current, done>>

(* add() and remove_item() end by posting. *)
PostChange ==
  /\ main = "post"
  /\ signalled' = TRUE
  /\ main' = IF current = NoItem THEN "run" ELSE "drain"
  /\ UNCHANGED <<items, running, thread, fd, pipes, buffers, current, done>>

(* The child of a foreground capture has exited before it is finished.     *)
Finish(i) ==
  /\ main = "run" /\ ~Locked
  /\ i \in items
  /\ i \in Lingering \/ child[i] = "closed"
  /\ items' = items \ {i}
  /\ current' = i
  /\ main' = "post"
  /\ UNCHANGED <<running, signalled, thread, fd, pipes, buffers, done>>

(* Mutant: one read, instead of reading until there is nothing. *)
DrainOnce ==
  /\ main = "drain"
  /\ IF fd[current] # NoFd THEN ReadOnce(current) ELSE UNCHANGED <<pipe, buffer, discard>>
  /\ reads' = [f \in Fds |-> IF f = fd[current] THEN NoItem ELSE reads[f]]
  /\ fd' = [fd EXCEPT ![current] = NoFd]
  /\ done' = done \cup {current}
  /\ current' = NoItem /\ main' = "run"
  /\ UNCHANGED <<monitor, thread, child, wrote, direct>>

(* complete_and_take_buffer(): read until there is nothing; then the fd is *)
(* closed and the buffer taken.                                            *)
Drain ==
  /\ main = "drain"
  /\ IF fd[current] # NoFd /\ pipe[reads[fd[current]]] # <<>>
       THEN ReadOnce(current) /\ UNCHANGED <<reads, fd, mainVars>>
       ELSE /\ reads' = [f \in Fds |-> IF f = fd[current] THEN NoItem ELSE reads[f]]
            /\ fd' = [fd EXCEPT ![current] = NoFd]
            /\ done' = done \cup {current}
            /\ current' = NoItem /\ main' = "run"
            /\ UNCHANGED <<pipe, buffer, discard>>
  /\ UNCHANGED <<monitor, thread, child, wrote, direct>>

(* A builtin whose output is captured: BufferedOutputStream::append().     *)
DirectAppend(i) ==
  /\ main = "run" /\ i \in items
  /\ direct[i] < MaxDirect
  /\ direct' = [direct EXCEPT ![i] = @ + 1]
  /\ Append1(i, <<0>>)
  /\ UNCHANGED <<monitor, thread, fd, pipes, mainVars>>

(* A child writes if there is room, or closes its end.  When fish has      *)
(* closed the read end it cannot write.                                    *)
Write(i) ==
  /\ child[i] = "writing"
  /\ i \notin done
  /\ wrote[i] < MaxWrites /\ Len(pipe[i]) < Capacity
  /\ wrote' = [wrote EXCEPT ![i] = @ + 1]
  /\ pipe' = [pipe EXCEPT ![i] = Append(@, wrote[i] + 1)]
  /\ UNCHANGED <<monitor, thread, fd, reads, child, buffers, mainVars>>

Close(i) ==
  /\ child[i] = "writing"
  /\ child' = [child EXCEPT ![i] = "closed"]
  /\ UNCHANGED <<monitor, thread, fd, reads, pipe, wrote, buffers, mainVars>>

-----------------------------------------------------------------------------
(* The background thread: BackgroundFdMonitor::run(). *)

ThreadStarts ==
  /\ bg = "starting"
  /\ bg' = "top"
  /\ UNCHANGED <<monitor, snapshot, polled, ready, serving, fd, pipes, buffers, mainVars>>

(* Snapshot the ids and fds under the mutex, and release it. *)
Snapshot ==
  /\ bg = "top"
  /\ snapshot' = {i \in items : fd[i] # NoFd}
  /\ polled' = {fd[i] : i \in snapshot'}
  /\ bg' = "poll"
  /\ UNCHANGED <<monitor, ready, serving, fd, pipes, buffers, mainVars>>

(* poll() returns when something is readable; on a wait-lap (no items),    *)
(* also after a while.                                                     *)
Poll ==
  LET found == {f \in polled : Readable(f)} IN
  /\ bg = "poll"
  /\ found # {} \/ signalled \/ snapshot = {}
  /\ ready' = [fds |-> found, signaller |-> signalled]
  /\ bg' = "relock"
  /\ UNCHANGED <<monitor, snapshot, polled, serving, fd, pipes, buffers, mainVars>>

(* The mutex is taken again for the items of the snapshot. *)
Relock ==
  /\ bg = "relock"
  /\ serving' = snapshot
  /\ bg' = "serving"
  /\ UNCHANGED <<monitor, snapshot, polled, ready, fd, pipes, buffers, mainVars>>

(* An item of the snapshot that is still present, and whose fd was ready,  *)
(* is serviced: its callback reads once.                                   *)
Serve(i) ==
  /\ bg = "serving" /\ i \in serving
  /\ serving' = serving \ {i}
  /\ IF i \in items /\ fd[i] # NoFd /\ fd[i] \in ready.fds
       THEN ReadOnce(i)
       ELSE UNCHANGED <<pipe, buffer, discard>>
  /\ UNCHANGED <<fd, monitor, bg, snapshot, polled, ready, reads, child, wrote,
                 direct, mainVars>>

(* Mutant: on a wait-lap the thread exits without looking at the items. *)
EndLapBlindly ==
  /\ bg = "serving" /\ serving = {}
  /\ ready' = Nothing /\ snapshot' = {} /\ polled' = {}
  /\ signalled' = IF ready.signaller \/ snapshot = {} THEN FALSE ELSE signalled
  /\ IF snapshot = {} /\ ~ready.signaller
       THEN running' = FALSE /\ bg' = "none"
       ELSE bg' = "top" /\ UNCHANGED running
  /\ UNCHANGED <<items, serving, fd, pipes, buffers, mainVars>>

(* The end of the critical section: consume the signal; exit after a       *)
(* wait-lap without items and without a signal.                            *)
EndLap ==
  /\ bg = "serving" /\ serving = {}
  /\ ready' = Nothing /\ snapshot' = {} /\ polled' = {}
  /\ signalled' = IF ready.signaller \/ snapshot = {} THEN FALSE ELSE signalled
  /\ IF snapshot = {} /\ items = {} /\ ~ready.signaller
       THEN running' = FALSE /\ bg' = "none"
       ELSE bg' = "top" /\ UNCHANGED running
  /\ UNCHANGED <<items, serving, fd, pipes, buffers, mainVars>>

-----------------------------------------------------------------------------
ThreadStep ==
  ThreadStarts \/ Snapshot \/ Poll \/ Relock \/ EndLap \/ \E i \in Items : Serve(i)

Next ==
  \/ \E i \in Items :
       \/ \E f \in Fds : Add(i, f)
       \/ Finish(i) \/ DirectAppend(i) \/ Write(i) \/ Close(i)
  \/ SpawnThread \/ PostChange \/ Drain
  \/ ThreadStep

(* The background thread runs, and the main thread completes its calls.    *)
Fairness ==
  /\ WF_vars(ThreadStep)
  /\ WF_vars(SpawnThread \/ PostChange \/ Drain)

Spec == Init /\ [][Next]_vars /\ Fairness

-----------------------------------------------------------------------------
(* Properties. *)

(* How many of the chunks that item i's child wrote have been read. *)
Taken(i) == wrote[i] - Len(pipe[i])

(* The buffer has the first n of those chunks, in order. *)
InOrder(buf, n) ==
  LET own == {k \in DOMAIN buf : buf[k] # 0} IN
  /\ {buf[k] : k \in own} = 1..n
  /\ \A j, k \in own : j < k => buf[j] < buf[k]

(* Output is neither lost, doubled, reordered nor taken by another item:   *)
(* what the child wrote is in the buffer, in order, and the rest of it in  *)
(* the pipe, unless the buffer was discarded.  (Chunks of builtins, 0, may *)
(* overtake chunks that are still in the pipe: nothing in the code orders  *)
(* them.)                                                                  *)
NothingLost ==
  \A i \in Items :
    /\ pipe[i] = [n \in 1..Len(pipe[i]) |-> Taken(i) + n]
    /\ ~discard[i] => InOrder(buffer[i], Taken(i)) /\ Len(buffer[i]) = Taken(i) + direct[i]

(* A finished capture has all that its child wrote before it exited, and   *)
(* is discarded exactly if the whole exceeds the limit.                    *)
CaptureComplete ==
  \A i \in done :
    /\ i \notin Lingering /\ ~discard[i] => Len(buffer[i]) = wrote[i] + direct[i]
    /\ i \notin Lingering => (discard[i] <=> Limit > 0 /\ wrote[i] + direct[i] > Limit)

(* A thread watches, or is about to: while there are items the thread      *)
(* exists or is being started, at most one, and if it polls without one of *)
(* the items it will be woken.                                             *)
ItemsWatched ==
  /\ running <=> bg # "none" \/ main = "spawn"
  /\ items # {} => running
  /\ bg = "poll" /\ items \ snapshot # {} => signalled \/ main \in {"spawn", "post"}

(* A child blocked on a full pipe is let go on: the pipe is read, or the   *)
(* capture is finished.                                                    *)
WritersFreed ==
  \A i \in Items :
    i \in items /\ Len(pipe[i]) = Capacity ~> i \notin items \/ Len(pipe[i]) < Capacity

(* The state is of its types, each item has its output in order, and the   *)
(* background thread watches it or is about to.                            *)
ItemsConsistent == TypeOK /\ NothingLost /\ ItemsWatched
=============================================================================
