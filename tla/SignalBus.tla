------------------------------ MODULE SignalBus ------------------------------
(***************************************************************************)
(* The core of GNU Gadu 2: the boot sequence of src/src/main.c, the plugin *)
(* table of src/lib/plugins.c and the signal bus of src/lib/signals.c.     *)
(*                                                                         *)
(* The GUI thread is modelled by its call stack.  A frame is a function    *)
(* the thread is inside of: a plugin's callback ("call"), do_signal        *)
(* ("send"), flush_queued_signals ("flush") or the loop that drains the    *)
(* GLib main loop at the end of signal_emit_full ("drain").  Whenever the  *)
(* thread drains the main loop, GLib may dispatch another callback on top  *)
(* of the frames that are already there.  Worker threads hand their        *)
(* signals over through a GAsyncQueue and one byte each in a pipe.         *)
(***************************************************************************)
EXTENDS Naturals, Sequences, FiniteSets, SequencesExt

CONSTANTS
    Plugins,         \* every module there is
    Modules,         \* the modules of the library directory that modules.load lists
    Kind,            \* [Plugins -> {"UI", "PROTOCOL", "MISC"}]
    Names,           \* signal names
    Registers,       \* [Plugins -> SUBSET Names]: what start_plugin registers
    Emissions,       \* the signals plugins emit from the GUI thread
    WorkerEmissions, \* the signals they emit from threads of theirs
    Workers,         \* those threads
    EarlyWorkers,    \* TRUE: a worker may run before the main loop is entered
    Managers,        \* plugins that load and unload others (GUI preferences, remote)
    Removable,       \* the plugins they unload
    UnloadDepth,     \* bound: deepest stack on which they do it
    MaxSignals,      \* bound: signals emitted in one behaviour
    MaxDepth         \* bound: deepest stack on which a callback is entered

(* destination_plugin_name is NULL ("all"), the name of one plugin ("name",*)
(* which is in "who" alone) or a mask ("mask", "who" matches it).          *)
Destination == [kind : {"all", "name", "mask"}, who : SUBSET Plugins]
(* by only records which of the two functions emitted it.                  *)
Emission    == [src : Plugins, name : Names, dest : Destination, by : {"main", "thread"}]
SigIds      == 1..MaxSignals

ASSUME BoundsAssumption ==
    MaxSignals \in Nat /\ MaxDepth \in Nat /\ UnloadDepth \in Nat
ASSUME WorkersAssumption == IsFiniteSet(Workers)
ASSUME ModulesAssumption == Modules \in Seq(Plugins) /\ IsInjective(Modules)
ASSUME EmissionsAssumption ==
    /\ Emissions \subseteq {e \in Emission : e.by = "main"}
    /\ WorkerEmissions \subseteq {e \in Emission : e.by = "thread"}
ASSUME PluginsAssumption == Managers \subseteq Plugins /\ Removable \subseteq Plugins

VARIABLES
    boot,       \* where gnu_gadu_init is: "load", "start", "flush", then "loop"
    loaded,     \* config->loaded_plugins
    started,    \* plugins whose start_plugin has been called
    registered, \* plugins whose names are in handler->signals
    allLoaded,  \* config->all_plugins_loaded
    waiting,    \* config->waiting_signals
    stack,      \* the GUI thread's frames, the innermost one last
    info,       \* source, name and destination of signal 1, 2, ...
    stage,      \* where the GGaduSignal is; "ended" and "lost": freed, never made
    payload,    \* its data: "live" until signal->free is called with it
    seen,       \* the plugins it was delivered to
    queue,      \* thread_signal_queue
    pipe,       \* unread bytes of the pipe behind thread_signal_channel
    writer,     \* per worker, the signal it pushed and has not written a byte for
    reader,     \* thread_signal_test_chan; not "idle": thread_signal_mutex is held
    fault       \* "none" until the GUI thread uses or frees freed memory

pluginVars == <<boot, loaded, started, registered, allLoaded>>
sigVars    == <<info, stage, payload, seen>>
threadVars == <<queue, pipe, writer, reader>>
vars       == <<pluginVars, waiting, stack, sigVars, threadVars, fault>>

-----------------------------------------------------------------------------
(* Frames.  "stale" is set when memory the frame points to is freed.       *)

Call(p, s, why) == [op |-> "call", plugin |-> p, sig |-> s, why |-> why, stale |-> FALSE]
Send(s, rest)   == [op |-> "send", sig |-> s, rest |-> rest, drain |-> FALSE, stale |-> FALSE]
Flush(by)       == [op |-> "flush", by |-> by, pos |-> 0, stale |-> FALSE]
Drain           == [op |-> "drain", stale |-> FALSE]

Top       == Last(stack)
TopIs(op) == stack # <<>> /\ Top.op = op
Push(f)   == stack' = Append(stack, f)
Pop       == stack' = Front(stack)
Become(f) == stack' = Append(Front(stack), f)

(* Pop, and mark the frames of J: what they point to has been freed.       *)
PopMarking(J) ==
    stack' = [i \in DOMAIN Front(stack) |->
                 IF i \in J THEN [stack[i] EXCEPT !.stale = TRUE] ELSE stack[i]]

(* No fault yet, and the thread is not in the loop that empties the queue. *)
Running == fault = "none" /\ reader \in {"idle", "flush"}

(* g_main_iteration is running: callbacks may be dispatched.               *)
Draining ==
    /\ Running
    /\ \/ boot = "loop" /\ stack = <<>>
       \/ TopIs("drain")
       \/ TopIs("send") /\ Top.drain

Loaded == ToSet(loaded)

(* find_signal: some loaded plugin has registered the name.                *)
Registered(name) == \E p \in Loaded \cap registered : name \in Registers[p]

(* The order of the nodes in loaded_plugins.                               *)
Before(p, q) ==
    \E i, j \in DOMAIN loaded : i < j /\ loaded[i] = p /\ loaded[j] = q
Foremost(ps) == {p \in ps : \A q \in ps : ~Before(q, p)}

(* The plugins do_signal still has to go to: {the node its walk over the   *)
(* live list is at}, or the handlers that find_plugin_by_name or           *)
(* find_plugin_by_pattern found when it began.                             *)
FirstRest(dest) ==
    IF dest.kind = "all" THEN Foremost(Loaded) ELSE dest.who \cap Loaded

(* Mutant of NextNode: the walk starts again.                               *)
NextNodeRestarts(p) == Foremost(Loaded \ {p})

NextNode(p) == Foremost({q \in Loaded : Before(p, q)})

(* A signal is allocated: it enters the given stage.                       *)
NewSignal(e, st) ==
    LET s == Len(info) + 1
    IN  /\ Len(info) < MaxSignals
        /\ info' = Append(info, e)
        /\ stage' = [stage EXCEPT ![s] = st]
        /\ payload' = [payload EXCEPT ![s] = "live"]
        /\ UNCHANGED seen

Fail(kind) ==
    /\ fault' = kind
    /\ UNCHANGED <<pluginVars, waiting, stack, sigVars, threadVars>>

-----------------------------------------------------------------------------
(* Boot: gnu_gadu_init                                                     *)

Rank(p) == CASE Kind[p] = "UI" -> 1 [] Kind[p] = "PROTOCOL" -> 2 [] OTHER -> 3

StartsBefore(p, q) ==
    \/ Rank(p) < Rank(q)
    \/ /\ Rank(p) = Rank(q)
       /\ \E i, j \in DOMAIN Modules : i < j /\ Modules[i] = p /\ Modules[j] = q

(* load_available_modules: load_plugin while all_plugins_loaded is FALSE.  *)
LoadModule ==
    /\ boot = "load"
    /\ IF Len(loaded) < Len(Modules)
       THEN /\ loaded' = Append(loaded, Modules[Len(loaded) + 1])
            /\ UNCHANGED boot
       ELSE /\ boot' = "start"
            /\ UNCHANGED loaded
    /\ UNCHANGED <<started, registered, allLoaded, waiting, stack, sigVars, threadVars, fault>>

(* start_plugins_ordered calls the next start_plugin of the handlers it    *)
(* collected before the first: one unloaded since then is freed memory.    *)
StartModule ==
    /\ Running /\ boot = "start" /\ stack = <<>>
    /\ \E p \in ToSet(Modules) \ started :
          /\ \A q \in ToSet(Modules) \ started : ~StartsBefore(q, p)
          /\ started' = started \cup {p}
          /\ IF p \in Loaded
             THEN Push(Call(p, 0, "start")) /\ UNCHANGED fault
             ELSE fault' = "use_after_free" /\ UNCHANGED stack
    /\ UNCHANGED <<boot, loaded, registered, allLoaded, waiting, sigVars, threadVars>>

BootFlush ==
    /\ Running /\ boot = "start" /\ stack = <<>>
    /\ ToSet(Modules) \subseteq started
    /\ boot' = "flush"
    /\ Push(Flush("boot"))
    /\ UNCHANGED <<loaded, started, registered, allLoaded, waiting, sigVars, threadVars, fault>>

(* The register_signal calls of a start_plugin.  Some plugins emit before  *)
(* them ("gui register protocol"), some after them, some both.             *)
Register ==
    /\ Running /\ TopIs("call") /\ ~Top.stale
    /\ Top.why = "start" /\ Top.plugin \notin registered
    /\ registered' = registered \cup {Top.plugin}
    /\ UNCHANGED <<boot, loaded, started, allLoaded, waiting, stack, sigVars, threadVars, fault>>

-----------------------------------------------------------------------------
(* signal_emit_full, called by the callback on top of the stack            *)

(* all_plugins_loaded and nobody registers the name: NULL is returned.     *)
EmitUnregistered(e) ==
    /\ allLoaded /\ ~Registered(e.name)
    /\ NewSignal(e, "lost")
    /\ UNCHANGED <<waiting, stack>>

EmitNow(e) ==
    /\ allLoaded /\ Registered(e.name)
    /\ NewSignal(e, "running")
    /\ stack' = stack \o <<Drain, Send(Len(info) + 1, FirstRest(e.dest))>>
    /\ UNCHANGED waiting

EmitLater(e) ==
    /\ ~allLoaded
    /\ NewSignal(e, "waiting")
    /\ waiting' = Append(waiting, Len(info) + 1)
    /\ Push(Drain)

Emit ==
    /\ Running /\ TopIs("call") /\ ~Top.stale /\ Len(stack) < MaxDepth
    /\ \E e \in Emissions :
          /\ e.src = Top.plugin
          /\ EmitUnregistered(e) \/ EmitNow(e) \/ EmitLater(e)
    /\ UNCHANGED <<pluginVars, threadVars, fault>>

-----------------------------------------------------------------------------
(* do_signal                                                               *)

(* The next receiver.  A broadcast skips its source, and everybody when    *)
(* the source is no longer loaded; it drains the main loop after each.     *)
Deliver ==
    /\ Running /\ TopIs("send") /\ ~Top.drain /\ ~Top.stale
    /\ LET s    == Top.sig
           e    == info[s]
           wide == e.dest.kind = "all"
       IN  /\ stage[s] = "running"
           /\ wide => e.src \in Loaded
           /\ \E p \in Foremost(Top.rest) :
                 LET on == IF wide THEN [Top EXCEPT !.drain = TRUE]
                                   ELSE [Top EXCEPT !.rest = @ \ {p}]
                 IN  IF wide /\ p = e.src
                     THEN Become(on) /\ UNCHANGED seen
                     ELSE /\ stack' = Front(stack) \o <<on, Call(p, s, "receive")>>
                          /\ seen' = [seen EXCEPT ![s] = @ \cup {p}]
    /\ UNCHANGED <<pluginVars, waiting, info, stage, payload, threadVars, fault>>

(* tmp = tmp->next of the broadcast's walk, once nothing is pending.       *)
NextReceiver ==
    /\ Running /\ TopIs("send") /\ ~Top.stale
    /\ info[Top.sig].dest.kind = "all"
    /\ \/ Top.drain /\ (pipe = 0 \/ reader # "idle")
       \/ ~Top.drain /\ stage[Top.sig] = "running" /\ info[Top.sig].src \notin Loaded
    /\ \E p \in Top.rest : Become([Top EXCEPT !.drain = FALSE, !.rest = NextNode(p)])
    /\ UNCHANGED <<pluginVars, waiting, sigVars, threadVars, fault>>

(* A named destination that is not loaded: do_signal frees the signal and  *)
(* returns, and its caller frees it again; the data is never freed.        *)
UnknownDestination ==
    /\ Running /\ TopIs("send") /\ ~Top.drain /\ Top.rest = {}
    /\ stage[Top.sig] = "running"
    /\ info[Top.sig].dest.kind = "name" /\ seen[Top.sig] = {}
    /\ stage' = [stage EXCEPT ![Top.sig] = "ended"]
    /\ fault' = "double_free"
    /\ UNCHANGED <<pluginVars, waiting, stack, info, payload, seen, threadVars>>

(* The end of do_signal, and the caller's g_free of the signal.            *)
EndSend ==
    /\ Running /\ TopIs("send") /\ ~Top.drain /\ Top.rest = {}
    /\ stage[Top.sig] = "running"
    /\ info[Top.sig].dest.kind = "name" => seen[Top.sig] # {}
    /\ payload' = [payload EXCEPT ![Top.sig] = "freed"]
    /\ stage' = [stage EXCEPT ![Top.sig] = "ended"]
    /\ Pop
    /\ UNCHANGED <<pluginVars, waiting, info, seen, threadVars, fault>>

(* The frame on top goes on with a list node, a plugin, a signal or code   *)
(* that was freed while it was waiting for the frames above it.            *)
UseAfterFree ==
    /\ Running /\ stack # <<>>
    /\ \/ Top.stale
       \/ Top.op = "send" /\ ~Top.drain /\ stage[Top.sig] # "running"
    /\ Fail("use_after_free")

(* while (g_main_pending ()) ends, and signal_emit_full returns.           *)
EndDrain ==
    /\ Running /\ TopIs("drain")
    /\ pipe = 0 \/ reader # "idle"
    /\ Pop
    /\ UNCHANGED <<pluginVars, waiting, sigVars, threadVars, fault>>

-----------------------------------------------------------------------------
(* flush_queued_signals: the walk unlinks nothing until it has ended       *)

FlushNext ==
    /\ Running /\ TopIs("flush") /\ ~Top.stale /\ Top.pos < Len(waiting)
    /\ LET s    == waiting[Top.pos + 1]
           next == [Top EXCEPT !.pos = @ + 1]
       IN  \/ /\ stage[s] \in {"waiting", "running"} /\ Registered(info[s].name)
              /\ stage' = [stage EXCEPT ![s] = "running"]
              /\ stack' = Front(stack) \o <<next, Send(s, FirstRest(info[s].dest))>>
              /\ UNCHANGED <<payload, fault>>
           \/ /\ stage[s] \in {"waiting", "running"} /\ ~Registered(info[s].name)
              /\ stage' = [stage EXCEPT ![s] = "ended"]
              /\ payload' = [payload EXCEPT ![s] = "freed"]
              /\ Become(next)
              /\ UNCHANGED fault
           \/ /\ stage[s] = "ended"
              /\ fault' = "use_after_free"
              /\ UNCHANGED <<stage, payload, stack>>
    /\ UNCHANGED <<pluginVars, waiting, info, seen, threadVars>>

(* Mutant of FlushEnd: the list of waiting signals is not emptied.         *)
FlushEndKeeping ==
    /\ Running /\ TopIs("flush") /\ ~Top.stale /\ Top.pos = Len(waiting)
    /\ allLoaded' = TRUE
    /\ PopMarking({i \in DOMAIN stack : stack[i].op = "flush"})
    /\ boot' = IF Top.by = "boot" THEN "loop" ELSE boot
    /\ reader' = IF Top.by = "thread" THEN "idle" ELSE reader
    /\ UNCHANGED <<waiting, loaded, started, registered, sigVars, queue, pipe, writer, fault>>

(* all_plugins_loaded is set and the list freed, also under the feet of    *)
(* another flush further down the stack.                                   *)
FlushEnd ==
    /\ Running /\ TopIs("flush") /\ ~Top.stale /\ Top.pos = Len(waiting)
    /\ allLoaded' = TRUE
    /\ waiting' = <<>>
    /\ PopMarking({i \in DOMAIN stack : stack[i].op = "flush"})
    /\ boot' = IF Top.by = "boot" THEN "loop" ELSE boot
    /\ reader' = IF Top.by = "thread" THEN "idle" ELSE reader
    /\ UNCHANGED <<loaded, started, registered, sigVars, queue, pipe, writer, fault>>

-----------------------------------------------------------------------------
(* Callbacks the main loop dispatches, and what plugins do in them         *)

(* A GTK, timer or socket callback of a started plugin.                    *)
Event ==
    /\ Draining /\ Len(stack) < MaxDepth
    /\ \E p \in started \cap Loaded : Push(Call(p, 0, "event"))
    /\ UNCHANGED <<pluginVars, waiting, sigVars, threadVars, fault>>

(* A callback returns.  When it was destroy_plugin, unload_plugin goes on: *)
(* the handler, its signals and its node in loaded_plugins are freed.      *)
Return ==
    /\ Running /\ TopIs("call") /\ ~Top.stale
    /\ Top.why = "start" => Top.plugin \in registered
    /\ IF Top.why = "destroy"
       THEN LET p == Top.plugin
                Uses(f) == \/ f.op = "call" /\ f.plugin = p
                           \/ f.op = "send" /\ p \in f.rest
            IN  /\ \E i \in DOMAIN loaded :
                      loaded[i] = p /\ loaded' = RemoveAt(loaded, i)
                /\ registered' = registered \ {p}
                /\ PopMarking({i \in DOMAIN stack : Uses(stack[i])})
       ELSE Pop /\ UNCHANGED <<loaded, registered>>
    /\ UNCHANGED <<boot, started, allLoaded, waiting, sigVars, threadVars, fault>>

(* unload_plugin, up to and including the call of destroy_plugin.          *)
Unload ==
    /\ Running /\ TopIs("call") /\ ~Top.stale /\ Top.why = "event" /\ Top.plugin \in Managers
    /\ Len(stack) <= UnloadDepth /\ Len(stack) < MaxDepth
    /\ \E p \in Removable \cap Loaded : Push(Call(p, 0, "destroy"))
    /\ UNCHANGED <<pluginVars, waiting, sigVars, threadVars, fault>>

(* load_plugin once all_plugins_loaded is set: initialised and started at  *)
(* once.  Bound: not while start_plugins_ordered still runs.               *)
Load ==
    /\ Running /\ TopIs("call") /\ ~Top.stale /\ Top.why = "event" /\ Top.plugin \in Managers
    /\ allLoaded /\ boot # "start" /\ Len(stack) < MaxDepth
    /\ \E p \in ToSet(Modules) \ Loaded :
          /\ loaded' = Append(loaded, p)
          /\ started' = started \cup {p}
          /\ Push(Call(p, 0, "start"))
    /\ UNCHANGED <<boot, registered, allLoaded, waiting, sigVars, threadVars, fault>>

-----------------------------------------------------------------------------
(* Signals from threads                                                    *)

(* signal_emit_from_thread_full: push the signal, then write one byte.     *)
WorkerPush(w) ==
    /\ writer[w] = 0 /\ fault = "none"
    /\ EarlyWorkers \/ boot = "loop"
    /\ \E e \in WorkerEmissions : e.src \in started \cap Loaded /\ NewSignal(e, "queue")
    /\ queue' = Append(queue, Len(info) + 1)
    /\ writer' = [writer EXCEPT ![w] = Len(info) + 1]
    /\ UNCHANGED <<pluginVars, waiting, stack, pipe, reader, fault>>

(* Mutant of WorkerWrite: the byte is never written.                       *)
WorkerForgets(w) ==
    /\ writer[w] # 0 /\ fault = "none"
    /\ writer' = [writer EXCEPT ![w] = 0]
    /\ UNCHANGED <<pluginVars, waiting, stack, sigVars, queue, pipe, reader, fault>>

WorkerWrite(w) ==
    /\ writer[w] # 0 /\ fault = "none"
    /\ pipe' = pipe + 1
    /\ writer' = [writer EXCEPT ![w] = 0]
    /\ UNCHANGED <<pluginVars, waiting, stack, sigVars, queue, reader, fault>>

(* thread_signal_test_chan is dispatched; GLib does not re-enter it.       *)
DispatchReader ==
    /\ Draining /\ reader = "idle" /\ pipe > 0
    /\ reader' = "pop"
    /\ UNCHANGED <<pluginVars, waiting, stack, sigVars, queue, pipe, writer, fault>>

(* Mutant of PopSignal: g_slist_prepend.                                   *)
PopSignalPrepends ==
    /\ reader = "pop" /\ queue # <<>>
    /\ waiting' = <<Head(queue)>> \o waiting
    /\ stage' = [stage EXCEPT ![Head(queue)] = "waiting"]
    /\ queue' = Tail(queue)
    /\ reader' = "read"
    /\ UNCHANGED <<pluginVars, stack, info, payload, seen, pipe, writer, fault>>

PopSignal ==
    /\ reader = "pop" /\ queue # <<>>
    /\ waiting' = Append(waiting, Head(queue))
    /\ stage' = [stage EXCEPT ![Head(queue)] = "waiting"]
    /\ queue' = Tail(queue)
    /\ reader' = "read"
    /\ UNCHANGED <<pluginVars, stack, info, payload, seen, pipe, writer, fault>>

(* Mutant of ReadByte: every byte is read.                               *)
ReadAllBytes ==
    /\ reader = "read" /\ pipe > 0
    /\ pipe' = 0
    /\ reader' = "pop"
    /\ UNCHANGED <<pluginVars, waiting, stack, sigVars, queue, writer, fault>>

(* A blocking read of one byte.                                            *)
ReadByte ==
    /\ reader = "read" /\ pipe > 0
    /\ pipe' = pipe - 1
    /\ reader' = "pop"
    /\ UNCHANGED <<pluginVars, waiting, stack, sigVars, queue, writer, fault>>

(* Mutant of QueueEmpty: the waiting signals are not flushed.              *)
QueueEmptyUnflushed ==
    /\ reader = "pop" /\ queue = <<>>
    /\ reader' = "idle"
    /\ UNCHANGED <<pluginVars, waiting, stack, sigVars, queue, pipe, writer, fault>>

QueueEmpty ==
    /\ reader = "pop" /\ queue = <<>>
    /\ reader' = "flush"
    /\ Push(Flush("thread"))
    /\ UNCHANGED <<pluginVars, waiting, sigVars, queue, pipe, writer, fault>>

-----------------------------------------------------------------------------

Init ==
    /\ boot = "load" /\ loaded = <<>> /\ started = {} /\ registered = {} /\ allLoaded = FALSE
    /\ waiting = <<>> /\ stack = <<>>
    /\ info = <<>>
    /\ stage = [s \in SigIds |-> "unborn"]
    /\ payload = [s \in SigIds |-> "none"]
    /\ seen = [s \in SigIds |-> {}]
    /\ queue = <<>> /\ pipe = 0 /\ writer = [w \in Workers |-> 0] /\ reader = "idle"
    /\ fault = "none"

Next ==
    \/ LoadModule \/ StartModule \/ Register \/ BootFlush
    \/ Emit \/ Deliver \/ NextReceiver \/ UnknownDestination \/ EndSend
    \/ UseAfterFree \/ EndDrain \/ FlushNext \/ FlushEnd
    \/ Event \/ Return \/ Unload \/ Load
    \/ DispatchReader \/ PopSignal \/ ReadByte \/ QueueEmpty
    \/ \E w \in Workers : WorkerPush(w) \/ WorkerWrite(w)

Spec == Init /\ [][Next]_vars

-----------------------------------------------------------------------------
(***************************************************************************)
(* Properties.                                                             *)
(***************************************************************************)
Frames ==
    [op : {"call"}, plugin : Plugins, sig : 0..MaxSignals,
     why : {"start", "receive", "event", "destroy"}, stale : BOOLEAN]
    \cup [op : {"send"}, sig : SigIds, rest : SUBSET Plugins, drain : BOOLEAN, stale : BOOLEAN]
    \cup [op : {"flush"}, by : {"boot", "thread"}, pos : Nat, stale : BOOLEAN]
    \cup [op : {"drain"}, stale : BOOLEAN]

(* Every variable of the bus has its type.                                 *)
TypeOK ==
    /\ boot \in {"load", "start", "flush", "loop"}
    /\ loaded \in Seq(Plugins) /\ started \in SUBSET Plugins /\ registered \in SUBSET Plugins
    /\ allLoaded \in BOOLEAN
    /\ waiting \in Seq(DOMAIN info) /\ stack \in Seq(Frames)
    /\ info \in Seq(Emission) /\ Len(info) <= MaxSignals
    /\ stage \in [SigIds -> {"unborn", "queue", "waiting", "running", "ended", "lost"}]
    /\ payload \in [SigIds -> {"none", "live", "freed"}]
    /\ seen \in [SigIds -> SUBSET Plugins]
    /\ queue \in Seq(DOMAIN info) /\ pipe \in Nat
    /\ writer \in [Workers -> 0..MaxSignals]
    /\ reader \in {"idle", "pop", "read", "flush"}
    /\ fault \in {"none", "use_after_free", "double_free"}

(* The GUI thread never goes on with freed memory nor frees it twice, in   *)
(* any nesting of callbacks, flushes and deliveries.                       *)
NoFault == fault = "none"

(* No wake-up is lost: the bytes in the pipe and the bytes still to be     *)
(* written are as many as the signals in the queue and the popped one that *)
(* thread_signal_test_chan has not read a byte for.                        *)
PipeMatchesQueue ==
    pipe + Cardinality({w \in Workers : writer[w] # 0})
        = Len(queue) + (IF reader = "read" THEN 1 ELSE 0)

(* The thread signals as a mailbox: those posted and not yet begun, which  *)
(* are numbered in the order of their emission, and those begun.  The bus  *)
(* implements Mailbox: none is taken twice, out of order or lost.          *)
FromWorker(s) == s \in DOMAIN info /\ info[s] \in WorkerEmissions
Box   == {s \in SigIds : FromWorker(s) /\ stage[s] \in {"queue", "waiting"}}
Taken == {s \in SigIds : FromWorker(s) /\ stage[s] \notin {"queue", "waiting"}}
M == INSTANCE Mailbox WITH Messages <- SigIds, box <- Box, taken <- Taken
ImplementsMailbox == M!Spec

(* doc/gg2-doc/sgmld/signals.sgml: signal_free releases the data after the *)
(* signal has ended, never while do_signal is still delivering it.         *)
DataOutlivesDelivery ==
    \A i \in DOMAIN stack : stack[i].op = "send" => payload[stack[i].sig] = "live"

(* The same page, the other half: when the thread is back in the outer main*)
(* loop the waiting list is empty, no signal is half delivered, and the    *)
(* data of every signal whose emission is over has been freed.  Except one *)
(* kind, which leaks: the emission of a name nobody has registered returns *)
(* at once and leaves the data to nobody (signals.c:349-353).              *)
Abandoned == {s \in SigIds : stage[s] = "lost"}
NothingLeftBehind ==
    boot = "loop" /\ stack = <<>> /\ reader = "idle" =>
        /\ waiting = <<>>
        /\ \A s \in SigIds : stage[s] \notin {"waiting", "running"}
        /\ \A s \in SigIds \ Abandoned : stage[s] \in {"unborn", "queue"} \/ payload[s] = "freed"

(* A delivered broadcast reached every plugin that is loaded when it ends, *)
(* its source excepted, and a named signal reached its destination; and no *)
(* plugin receives a signal twice, although the list a broadcast walks     *)
(* changes under it and the waiting list grows while it is walked.         *)
DeliveredOnce ==
    [][\A s \in SigIds :
          /\ stage[s] = "running" /\ stage'[s] = "ended" =>
                \/ info[s].dest.kind = "mask"
                \/ info[s].src \notin Loaded
                \/ (info[s].dest.who \cap Loaded) \ {info[s].src} \subseteq seen[s]
          /\ \A p \in Plugins :
                Len(stack') > Len(stack) /\ Last(stack') = Call(p, s, "receive") => p \notin seen[s]]_vars

(* What keeps NoFault, NothingLeftBehind and DeliveredOnce: no thread emits*)
(* before the main loop is entered; plugins are unloaded from a callback of*)
(* the outer main loop only, and not those that unload; what is named as a *)
(* destination was loaded at boot and is never unloaded.                   *)
Orderly ==
    /\ ~EarlyWorkers
    /\ UnloadDepth <= 1 /\ Managers \cap Removable = {}
    /\ \A e \in Emissions \cup WorkerEmissions : e.dest.kind = "name" =>
          e.dest.who # {} /\ e.dest.who \subseteq ToSet(Modules) \ Removable

(* Scheduling: the thread keeps running, a worker writes its byte, GLib    *)
(* dispatches every ready source, and in each frame pending events run out *)
(* and callbacks return.                                                   *)
Fairness ==
    /\ WF_vars(LoadModule \/ StartModule \/ Register \/ BootFlush)
    /\ WF_vars(Deliver \/ EndSend \/ FlushNext \/ FlushEnd)
    /\ WF_vars(PopSignal \/ ReadByte \/ QueueEmpty)
    /\ SF_vars(DispatchReader)
    /\ \A d \in 1..(MaxDepth - 1) :
          SF_vars(Len(stack) = d /\ (Return \/ EndDrain \/ NextReceiver))
    /\ WF_vars(Len(stack) >= MaxDepth /\ (Return \/ EndDrain \/ NextReceiver))
    /\ \A w \in Workers : WF_vars(WorkerWrite(w))

FairSpec == Spec /\ Fairness

(* A signal a thread has pushed is delivered in the end.                   *)
ThreadSignalsServed ==
    \A s \in SigIds : stage[s] = "queue" ~> stage[s] = "ended"
=============================================================================
