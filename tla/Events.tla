------------------------------- MODULE Events -------------------------------
(***************************************************************************)
(* Events of src/src/event.rs: signals noted by the signal handler, events *)
(* that wait because of a block, and the handlers that run as functions on *)
(* the main thread.                                                        *)
(*                                                                         *)
(* Handlers run script code, which may raise events, add and remove        *)
(* handlers and set blocks, so firing nests.  `stack` holds the calls of   *)
(* fire_internal() (kind "run") and of fire_delayed() (kind "delayed");    *)
(* whenever the main thread is in script code (UserCode) any such command  *)
(* may come next.  The signal handler may run between any two steps.       *)
(***************************************************************************)
EXTENDS Naturals, Integers, FiniteSets, SequencesExt

CONSTANTS
  SignalOrder,  \* the signals that scripts handle, by number
  Winch,        \* SIGWINCH
  Handlers,     \* the event handlers that may be added
  Desc,         \* the description of each handler, fixed
  OneShot,      \* the handlers that is_one_shot() holds for
  Named,        \* descriptions of events that scripts raise: emit, set
  Exits,        \* descriptions of exits of a process or a job
  None,
  MaxOps,       \* bound on what script code does
  MaxMarks,     \* bound on the signals
  MaxInts       \* bound on the cancellations

Signals == ToSet(SignalOrder)
ASSUME SignalsAreListed == SignalOrder \in Seq(Signals)
ASSUME DescIsADescription == Desc \in [Handlers -> Signals \cup Named \cup Exits]
ASSUME OneShotAreForExits == \A h \in OneShot : Desc[h] \in Exits

VARIABLES
  received, counter, last_counter,   \* PENDING_SIGNALS
  blocked,      \* BLOCKED_EVENTS
  handlers,     \* EVENT_HANDLERS
  fired,        \* the handlers whose flag `fired` is set
  gone,         \* the handlers whose flag `removed` is set
  stack,        \* the calls on the stack, outermost first
  global,       \* global_event_blocks
  scope,        \* is event_blocks set in a block of the script itself?
  cancel,       \* signal_check_cancel()
  exited,       \* the exits that have happened, by their wait handles
  raised,       \* how many events there have been: each has a number
  dispatched,   \* the numbers of the events that fire_internal() got
  owed,         \* the signals marked since an event for them was last fired
  bounds        \* what is left of MaxOps, MaxMarks and MaxInts

pending == <<received, counter, last_counter>>
registry == <<handlers, fired, gone>>
blocks == <<global, scope>>
history == <<raised, dispatched, owed>>
vars == <<pending, blocked, registry, stack, blocks, cancel, exited, history, bounds>>

Event == [desc : Signals \cup Named \cup Exits, id : Nat]
NoEvent == [desc |-> None, id |-> 0]

Run == [kind : {"run"}, event : Event, todo : Seq(Handlers),
        handler : Handlers \cup {None}, blocks : BOOLEAN, one_shot : BOOLEAN]
Delayed == [kind : {"delayed"}, pc : {"count", "scan", "clear", "convert", "resized"},
            scan : Seq(Signals), signals : Seq(Signals), to_send : Seq(Event),
            guard : BOOLEAN, next : Event \cup {NoEvent}]

TypeOK ==
  /\ received \subseteq Signals /\ counter \in Nat /\ last_counter \in 0..counter
  /\ blocked \in Seq(Event)
  /\ handlers \in Seq(Handlers) /\ fired \subseteq Handlers /\ gone \subseteq Handlers
  /\ stack \in Seq(Run \cup Delayed)
  /\ global \in Nat /\ scope \in BOOLEAN /\ cancel \in BOOLEAN /\ exited \subseteq Exits
  /\ raised \in Nat /\ dispatched \subseteq 1..raised /\ owed \subseteq Signals

Init ==
  /\ received = {} /\ counter = 0 /\ last_counter = 0
  /\ blocked = <<>> /\ handlers = <<>> /\ fired = {} /\ gone = {} /\ stack = <<>>
  /\ global = 0 /\ scope = FALSE /\ cancel = FALSE /\ exited = {}
  /\ raised = 0 /\ dispatched = {} /\ owed = {}
  /\ bounds = [ops |-> MaxOps, marks |-> MaxMarks, ints |-> MaxInts]

----------------------------------------------------------------------------
(* The signal handler *)

Observed(s) == \E h \in ToSet(handlers) : Desc[h] = s

Mark(s) ==
  /\ bounds.marks > 0 /\ Observed(s)
  /\ bounds' = [bounds EXCEPT !.marks = @ - 1]
  /\ received' = received \cup {s}
  /\ counter' = counter + 1
  /\ owed' = owed \cup {s}
  /\ UNCHANGED <<last_counter, blocked, registry, stack, blocks, cancel, exited, raised, dispatched>>

\* SIGINT asks the evaluation to unwind.
Interrupt ==
  /\ bounds.ints > 0 /\ ~cancel
  /\ bounds' = [bounds EXCEPT !.ints = @ - 1]
  /\ cancel' = TRUE
  /\ UNCHANGED <<pending, blocked, registry, stack, blocks, exited, history>>

----------------------------------------------------------------------------
(* The stack *)

Top == stack[Len(stack)]
Below == SubSeq(stack, 1, Len(stack) - 1)
With(frame) == Append(Below, frame)
InRun == stack # <<>> /\ Top.kind = "run"
InDelayed(pc) == stack # <<>> /\ Top.kind = "delayed" /\ Top.pc = pc

is_event(calls) == \E k \in DOMAIN calls : calls[k].kind = "run"

\* Mutant: the events of signals are not held by a block.
IsBlockedUnlessSignal(desc) ==
  /\ desc \notin Signals
  /\ global > 0 \/ scope \/ \E k \in DOMAIN stack : stack[k].kind = "run" /\ stack[k].blocks

\* Event::is_blocked(): the blocks of the script, or `block --global`.
IsBlocked(desc) ==
  global > 0 \/ scope \/ \E k \in DOMAIN stack : stack[k].kind = "run" /\ stack[k].blocks

\* The elements of seq that are in S, in order.
UpTo(n, places) == Cardinality(places \cap (1..n))
Only(seq, S) ==
  LET places == {n \in DOMAIN seq : seq[n] \in S}
  IN [k \in 1..Cardinality(places) |-> seq[CHOOSE n \in places : UpTo(n, places) = k]]

\* The call of fire_internal(): the handlers among `known` that match.
RunFrame(event, known) ==
  [kind |-> "run", event |-> event, handler |-> None, blocks |-> FALSE, one_shot |-> FALSE,
   todo |-> Only(known, {h \in Handlers : Desc[h] = event.desc})]

\* The end of fire(), with `calls` on the stack: queue the event or fire it.
Deliver(event, calls, known) ==
  IF IsBlocked(event.desc)
  THEN /\ blocked' = Append(blocked, event) /\ stack' = calls
       /\ UNCHANGED <<dispatched, owed>>
  ELSE /\ stack' = Append(calls, RunFrame(event, known))
       /\ dispatched' = dispatched \cup {event.id} /\ owed' = owed \ {event.desc}
       /\ UNCHANGED blocked

DelayedFrame(next) ==
  [kind |-> "delayed", pc |-> "count", scan |-> <<>>, signals |-> <<>>,
   to_send |-> blocked, guard |-> FALSE, next |-> next]

\* fire_delayed(): the events that waited are taken.  `next` is the event that
\* fire() goes on with.
FireDelayed(calls, next) ==
  /\ stack' = Append(calls, DelayedFrame(next))
  /\ blocked' = <<>>
  /\ UNCHANGED <<dispatched, owed>>

\* fire() of a new event: those that waited go first, but not from within a
\* handler and not when unwinding.
Fire(desc, calls, known) ==
  LET event == [desc |-> desc, id |-> raised + 1] IN
  /\ raised' = raised + 1
  /\ IF is_event(calls) \/ cancel THEN Deliver(event, calls, known) ELSE FireDelayed(calls, event)

----------------------------------------------------------------------------
(* Script code: of the script itself, or of the handler that runs *)

UserCode == stack = <<>> \/ (InRun /\ Top.handler # None)
Op == /\ UserCode /\ ~cancel /\ bounds.ops > 0
      /\ bounds' = [bounds EXCEPT !.ops = @ - 1]

\* emit, or set of a variable.
Emit(desc) ==
  /\ Op /\ Fire(desc, stack, handlers)
  /\ UNCHANGED <<pending, registry, blocks, cancel, exited>>

\* A reap finds that a process or a job in the background has ended.
ProcessExit(desc) ==
  /\ Op /\ desc \notin exited
  /\ exited' = exited \cup {desc}
  /\ Fire(desc, stack, handlers)
  /\ UNCHANGED <<pending, registry, blocks, cancel>>

\* function --on-...: add_handler(), and the event at once if it has been.
DefineFunction(h) ==
  /\ Op /\ h \notin ToSet(handlers) \cup gone
  /\ handlers' = Append(handlers, h)
  /\ IF Desc[h] \in exited THEN Fire(Desc[h], stack, handlers')
     ELSE UNCHANGED <<blocked, stack, history>>
  /\ UNCHANGED <<pending, fired, gone, blocks, cancel, exited>>

\* remove_handlers_if(), for the handlers in `which`.
RemoveHandlers(which) ==
  /\ handlers' = Only(handlers, Handlers \ which)
  /\ gone' = gone \cup which

\* functions --erase: remove_function_handlers().
EraseFunction(h) ==
  /\ Op /\ h \in ToSet(handlers)
  /\ RemoveHandlers({h})
  /\ UNCHANGED <<pending, blocked, fired, stack, blocks, cancel, exited, history>>

\* block, in the innermost block, and the end of a block of the script.
BlockLocal ==
  /\ Op
  /\ IF stack = <<>> THEN scope' = TRUE /\ UNCHANGED stack
     ELSE stack' = With([Top EXCEPT !.blocks = TRUE]) /\ UNCHANGED scope
  /\ UNCHANGED <<pending, blocked, registry, global, cancel, exited, history>>

EndScope ==
  /\ stack = <<>> /\ scope /\ scope' = FALSE
  /\ UNCHANGED <<pending, blocked, registry, stack, global, cancel, exited, history, bounds>>

BlockGlobal ==
  /\ Op /\ global' = global + 1
  /\ UNCHANGED <<pending, blocked, registry, stack, scope, cancel, exited, history>>

BlockErase ==
  /\ UserCode /\ ~cancel /\ global > 0 /\ global' = global - 1
  /\ UNCHANGED <<pending, blocked, registry, stack, scope, cancel, exited, history, bounds>>

\* The reader, before and after it waits for a key.
ReadInput ==
  /\ stack = <<>>
  /\ cancel' = FALSE
  /\ FireDelayed(stack, NoEvent)
  /\ UNCHANGED <<pending, registry, blocks, exited, raised, bounds>>

----------------------------------------------------------------------------
(* fire_delayed() *)

AfterCount == [Top EXCEPT !.pc = "scan", !.scan = SignalOrder]

\* Mutant: without new signals the call ends, with the events it took.
LoadCountReturns ==
  /\ InDelayed("count")
  /\ IF counter = last_counter
     THEN stack' = With([Top EXCEPT !.pc = "convert", !.to_send = <<>>]) /\ UNCHANGED last_counter
     ELSE stack' = With(AfterCount) /\ last_counter' = counter
  /\ UNCHANGED <<received, counter, blocked, registry, blocks, cancel, exited, history, bounds>>

\* acquire_pending(): nothing to look for if the counter is what it was.
LoadCount ==
  /\ InDelayed("count")
  /\ IF counter = last_counter
     THEN stack' = With([Top EXCEPT !.pc = "convert"]) /\ UNCHANGED last_counter
     ELSE stack' = With(AfterCount) /\ last_counter' = counter
  /\ UNCHANGED <<received, counter, blocked, registry, blocks, cancel, exited, history, bounds>>

\* Mutant: the counter is noted at each flag instead of before the scan.
LoadSignalRereads ==
  /\ InDelayed("scan")
  /\ stack' = With(IF Top.scan = <<>> THEN [Top EXCEPT !.pc = "convert"]
                   ELSE IF Head(Top.scan) \in received THEN [Top EXCEPT !.pc = "clear"]
                   ELSE [Top EXCEPT !.scan = Tail(@)])
  /\ last_counter' = counter
  /\ UNCHANGED <<received, counter, blocked, registry, blocks, cancel, exited, history, bounds>>

\* The load of one flag of `received`; the store that resets it is a step of its own.
LoadSignal ==
  /\ InDelayed("scan")
  /\ stack' = With(IF Top.scan = <<>> THEN [Top EXCEPT !.pc = "convert"]
                   ELSE IF Head(Top.scan) \in received THEN [Top EXCEPT !.pc = "clear"]
                   ELSE [Top EXCEPT !.scan = Tail(@)])
  /\ UNCHANGED <<pending, blocked, registry, blocks, cancel, exited, history, bounds>>

ClearSignal ==
  /\ InDelayed("clear")
  /\ received' = received \ {Head(Top.scan)}
  /\ stack' = With([Top EXCEPT !.pc = "scan", !.scan = Tail(@),
                               !.signals = Append(@, Head(Top.scan))])
  /\ UNCHANGED <<counter, last_counter, blocked, registry, blocks, cancel, exited, history, bounds>>

\* SIGWINCH: COLUMNS and LINES are set, if the size changed, before the event
\* is made.
Resize(desc) ==
  /\ InDelayed("convert") /\ Top.signals # <<>> /\ Head(Top.signals) = Winch
  /\ Fire(desc, With([Top EXCEPT !.pc = "resized"]), handlers)
  /\ UNCHANGED <<pending, registry, blocks, cancel, exited, bounds>>

MakeEvent ==
  /\ InDelayed("convert") \/ InDelayed("resized")
  /\ Top.signals # <<>>
  /\ raised' = raised + 1
  /\ stack' = With([Top EXCEPT !.pc = "convert", !.signals = Tail(@),
                               !.to_send = Append(@, [desc |-> Head(Top.signals), id |-> raised + 1])])
  /\ UNCHANGED <<pending, blocked, registry, blocks, cancel, exited, dispatched, owed, bounds>>

Sending == InDelayed("convert") /\ Top.signals = <<>>

\* Fire or re-block: from the first one that is blocked on, BLOCKED_EVENTS stays locked.
Send ==
  /\ Sending /\ Top.to_send # <<>>
  /\ LET event == Head(Top.to_send) IN
     IF IsBlocked(event.desc)
     THEN /\ stack' = With([Top EXCEPT !.to_send = Tail(@), !.guard = TRUE])
          /\ blocked' = Append(blocked, event)
          /\ UNCHANGED <<dispatched, owed>>
     ELSE Deliver(event, With([Top EXCEPT !.to_send = Tail(@)]), handlers)
  /\ UNCHANGED <<pending, registry, blocks, cancel, exited, raised, bounds>>

EndDelayed ==
  /\ Sending /\ Top.to_send = <<>>
  /\ IF Top.next = NoEvent THEN stack' = Below /\ UNCHANGED <<blocked, dispatched, owed>>
     ELSE Deliver(Top.next, Below, handlers)
  /\ UNCHANGED <<pending, registry, blocks, cancel, exited, raised, bounds>>

----------------------------------------------------------------------------
(* fire_internal() *)

\* Mutant: the flag `removed` is not looked at.
TakeHandlerUnchecked ==
  /\ InRun /\ Top.handler = None /\ Top.todo # <<>>
  /\ stack' = With([Top EXCEPT !.todo = Tail(@), !.handler = Head(Top.todo)])
  /\ UNCHANGED <<pending, blocked, registry, blocks, cancel, exited, history, bounds>>

\* The next handler; one that was removed in the meantime is skipped.
TakeHandler ==
  /\ InRun /\ Top.handler = None /\ Top.todo # <<>>
  /\ stack' = With([Top EXCEPT !.todo = Tail(@),
                               !.handler = IF Head(Top.todo) \in gone THEN None ELSE Head(Top.todo)])
  /\ UNCHANGED <<pending, blocked, registry, blocks, cancel, exited, history, bounds>>

\* The evaluation ends, with the blocks that were set in it.  `fired` is set now.
HandlerReturns ==
  /\ InRun /\ Top.handler # None
  /\ fired' = fired \cup {Top.handler}
  /\ stack' = With([Top EXCEPT !.handler = None, !.blocks = FALSE,
                               !.one_shot = @ \/ Top.handler \in OneShot])
  /\ UNCHANGED <<pending, blocked, handlers, gone, blocks, cancel, exited, history, bounds>>

\* After the last handler, those that fired and do so but once are removed.
EndRun ==
  /\ InRun /\ Top.handler = None /\ Top.todo = <<>>
  /\ IF Top.one_shot THEN RemoveHandlers(ToSet(handlers) \cap fired \cap OneShot)
     ELSE UNCHANGED <<handlers, gone>>
  /\ stack' = Below
  /\ UNCHANGED <<pending, blocked, fired, blocks, cancel, exited, history, bounds>>

----------------------------------------------------------------------------
FireStep == LoadCount \/ LoadSignal \/ ClearSignal \/ MakeEvent \/ Send \/ EndDelayed
            \/ TakeHandler \/ HandlerReturns \/ EndRun

Script ==
  \/ \E desc \in Named : Emit(desc)
  \/ \E desc \in Exits : ProcessExit(desc)
  \/ \E h \in Handlers : DefineFunction(h) \/ EraseFunction(h)
  \/ BlockLocal \/ BlockGlobal \/ BlockErase

Next ==
  \/ \E s \in Signals : Mark(s)
  \/ Interrupt
  \/ Script
  \/ \E desc \in Named : Resize(desc)
  \/ EndScope \/ ReadInput
  \/ FireStep

\* Handlers return and blocks of the script end, though it may read input inside
\* them; the reader goes on to wait for keys.
Fairness == WF_vars(FireStep) /\ SF_vars(EndScope) /\ WF_vars(ReadInput)

Spec == Init /\ [][Next]_vars /\ Fairness

----------------------------------------------------------------------------
(* Properties *)

DelayedCalls == {k \in DOMAIN stack : stack[k].kind = "delayed"}
IdsOf(events) == {events[k].id : k \in DOMAIN events}

\* A signal that a script observes is not lost, however its arrival falls
\* between the loads and the stores of acquire_pending(): it is marked, with a
\* counter that will be noticed or a scan that has not passed it, or it has
\* become an event that has still to be fired.
SignalsAccounted ==
  /\ \A s \in received : \/ counter # last_counter
                         \/ \E k \in DelayedCalls : s \in ToSet(stack[k].scan)
  /\ \A s \in owed : \/ s \in received
                     \/ \E k \in DOMAIN blocked : blocked[k].desc = s
                     \/ \E k \in DelayedCalls : \/ s \in ToSet(stack[k].signals)
                                                \/ \E n \in DOMAIN stack[k].to_send :
                                                     stack[k].to_send[n].desc = s

Distinct(events) == \A m, n \in DOMAIN events : m # n => events[m].id # events[n].id

\* The numbers of the events in BLOCKED_EVENTS (0), or in the hands of a call.
Held(k) ==
  IF k = 0 THEN IdsOf(blocked)
  ELSE IF stack[k].kind = "delayed" THEN IdsOf(stack[k].to_send) \cup ({stack[k].next.id} \ {0})
  ELSE {}

\* Each event is in one place: in BLOCKED_EVENTS, in the hands of a
\* fire_delayed() or of the fire() that called it, or with fire_internal(),
\* which gets it once.
EventsAccounted ==
  /\ Distinct(blocked)
  /\ \A k \in DelayedCalls : /\ Distinct(stack[k].to_send)
                             /\ stack[k].next.id \notin IdsOf(stack[k].to_send)
  /\ \A j, k \in 0..Len(stack) : j # k => Held(j) \cap Held(k) = {}
  /\ UNION {Held(k) : k \in 0..Len(stack)} = (1..raised) \ dispatched

\* No handler runs while BLOCKED_EVENTS is locked, or a command in it that
\* raises an event would wait for the lock that its own caller holds.
NoSelfDeadlock == \A k \in DelayedCalls : stack[k].guard => k = Len(stack)

\* A handler that was removed is not started, though it was captured before.
RemovedStaysQuiet ==
  [][(InRun /\ Top.handler = None /\ stack' # Below /\ stack'[Len(stack)].handler # None)
       => stack'[Len(stack)].handler \in ToSet(handlers)]_vars

\* An event that was raised or a signal that was received is fired in the end,
\* unless a global block is there to hold it.
EventsDelivered ==
  /\ \A s \in Signals : s \in owed ~> (s \notin owed \/ global > 0)
  /\ \A n \in 1..MaxOps + 2 * MaxMarks : n <= raised ~> (n \in dispatched \/ global > 0)

(* The state is of its types, and no signal and no event is forgotten or   *)
(* held twice.                                                             *)
NothingForgotten == TypeOK /\ SignalsAccounted /\ EventsAccounted
=============================================================================
