-------------------------------- MODULE Repo ---------------------------------
(***************************************************************************)
(* The repository of src/lib/ggadu_repo.c: named tables of contacts and    *)
(* protocols that plugins fill, and the watches ("patrzalki") by which     *)
(* other plugins are told of every change.                                 *)
(*                                                                         *)
(* ggadu_repo_watch_notify calls plugins back while it walks live lists    *)
(* and while its caller holds pointers into the tables.  A callback that   *)
(* runs a Perl script may emit a signal, which drains the main loop, so    *)
(* any operation may be nested in it.  As in SignalBus the thread is a     *)
(* stack of frames: a notification ("notify"), a callback ("callback") and *)
(* docklet's walk over a table, which emits signals on its way ("walk").   *)
(* Left out, because no code calls them: ggadu_repo_(dis|en)able_          *)
(* notification, ggadu_repo_watch_value_del, ggadu_repo_watch_clear_       *)
(* callback.                                                               *)
(***************************************************************************)
EXTENDS Naturals, Sequences, FiniteSets, SequencesExt

CONSTANTS
    Tables,        \* names of the repos protocol plugins keep contacts in
    Protocols,     \* the repo "_protocols_", a name of its own
    Keys,          \* keys of values
    NoKey,         \* NULL
    Callbacks,     \* functions given to ggadu_repo_watch_add
    Reentrant,     \* those that may run a Perl script
    Requests,      \* the watches plugins ask for
    KeyRequests,   \* the watches on one key plugins ask for
    MaxDepth       \* bound: deepest stack on which an operation is begun

Repos == Tables \cup {Protocols}
All   == "all"     \* repo_name = NULL: a watch on every repo

RepoMask  == {"NEW", "DEL", "CHANGE"}
ValueMask == {"VALUE_NEW", "VALUE_DEL", "VALUE_CHANGE"}
Types     == {"CONTACT", "PROTOCOL"}
TypeIn(r) == IF r = Protocols THEN "PROTOCOL" ELSE "CONTACT"

Watch   == [callback : Callbacks, actions : SUBSET (RepoMask \cup ValueMask), types : SUBSET Types]
Request == [repo : Repos \cup {All}, watch : Watch]
KeyRequest == [repo : Repos, key : Keys, callback : Callbacks, actions : SUBSET ValueMask \ {{}}]

ASSUME RepoNamesAssumption == Protocols \notin Tables /\ All \notin Repos /\ NoKey \notin Keys
ASSUME RequestsAssumption ==
    Requests \subseteq Request /\ KeyRequests \subseteq KeyRequest /\ Reentrant \subseteq Callbacks
ASSUME DepthAssumption == MaxDepth \in Nat

VARIABLES
    exists,     \* the repos there are
    values,     \* the keys of each, in list order
    watches,    \* the watches of each repo, and of All
    keyWatches, \* the watches of each value
    freed,      \* repos whose list of watches was freed and is still pointed to
    stack,      \* the frames the thread is in, the innermost one last
    fault       \* "none" until freed memory is used or freed again

tables == <<exists, values>>
vars   == <<exists, values, watches, keyWatches, freed, stack, fault>>

-----------------------------------------------------------------------------

Top       == Last(stack)
TopIs(op) == stack # <<>> /\ Top.op = op
Push(f)   == stack' = Append(stack, f)
Become(f) == stack' = Append(Front(stack), f)
Present(r, k) == r \in exists /\ k \in ToSet(values[r])

(* Pop, and mark the frames at the positions given.                        *)
PopMarking(used) ==
    stack' = [i \in DOMAIN Front(stack) |->
                 IF i \in used THEN [stack[i] EXCEPT !.stale = TRUE] ELSE stack[i]]

(* What repo.sgml and ggadu_repo.h promise: the callbacks that ask for one *)
(* of the actions on a value of one of the types.                          *)
Asks(w, acts, types) == w.actions \cap acts # {} /\ w.types \cap types # {}
Due(r, acts, types) ==
    {w.callback : w \in {v \in ToSet(watches[r]) \cup ToSet(watches[All]) : Asks(v, acts, types)}}

(* A call of ggadu_repo_watch_notify, and what its caller does after it.   *)
(* due and told only record: whom it has to tell and whom it did tell.     *)
Notify(r, k, acts, types, then) ==
    [op |-> "notify", repo |-> r, key |-> k, acts |-> acts, types |-> types, then |-> then,
     level |-> "key", pos |-> 0, completed |-> {}, stale |-> FALSE,
     due |-> Due(r, acts, types), told |-> {}]
Callback(cb) == [op |-> "callback", callback |-> cb, stale |-> FALSE]
Walk(r, k, visited, start) ==
    [op |-> "walk", repo |-> r, key |-> k, visited |-> visited, start |-> start, stale |-> FALSE]

(* Where an operation may be begun: in an event of the main loop, which    *)
(* also a script's signal_emit and docklet's signal_emit dispatch.         *)
Idle == fault = "none" /\ Len(stack) < MaxDepth
Open == /\ Idle
        /\ \/ stack = <<>> \/ TopIs("walk")
           \/ TopIs("callback") /\ Top.callback \in Reentrant

-----------------------------------------------------------------------------
(* ggadu_repo_watch_notify                                                 *)

(* The list walked at each level, if the level is entered at all.          *)
WatchList(f) ==
    CASE f.level = "key" ->
            IF f.acts \cap ValueMask # {} /\ Present(f.repo, f.key)
            THEN keyWatches[f.repo][f.key] ELSE <<>>
      [] f.level = "repo" ->
            IF f.acts \cap {"DEL", "CHANGE"} # {} /\ f.repo \in exists
            THEN watches[f.repo] ELSE <<>>
      [] f.level = "all" ->
            IF f.acts \cap RepoMask # {} THEN watches[All] ELSE <<>>

(* Which watch of the list is called.  Repo watches do not look at the     *)
(* actions they were asked for.                                            *)
Matches(f, w) ==
    /\ w.types \cap f.types # {}
    /\ f.level # "key" => w.callback \notin f.completed
    /\ CASE f.level = "key"  -> w.actions \cap f.acts \cap ValueMask # {}
         [] f.level = "repo" -> TRUE
         [] f.level = "all"  -> \/ f.acts \cap w.actions # {}
                                \/ w.actions \cap RepoMask # {} /\ f.acts \cap ValueMask # {}

(* Mutants of Reached: the walk skips a node; it stays where it is.        *)
ReachedSkipping(f) == {i \in DOMAIN WatchList(f) : i > f.pos + 1 /\ Matches(f, WatchList(f)[i])}
ReachedAgain(f) ==
    {i \in DOMAIN WatchList(f) : i >= f.pos /\ i > 0 /\ Matches(f, WatchList(f)[i])}

Reached(f) == {i \in DOMAIN WatchList(f) : i > f.pos /\ Matches(f, WatchList(f)[i])}

(* The walk is at a list that was freed, or it has ended and the caller    *)
(* frees, for the second time, what it looked up before it.                *)
ReadsFreed(f) ==
    \/ f.stale /\ (f.level = "all" => Reached(f) = {})
    \/ f.level = "repo" /\ f.repo \in freed

(* The next watch of the level: its callback is called.                    *)
CallWatch ==
    /\ fault = "none" /\ TopIs("notify") /\ ~ReadsFreed(Top)
    /\ \E i \in Reached(Top) :
          /\ \A j \in Reached(Top) : i <= j
          /\ LET cb == WatchList(Top)[i].callback
             IN  stack' = Append(Front(stack),
                            [Top EXCEPT !.pos = i, !.told = @ \cup {cb},
                                        !.completed = IF Top.level = "all" THEN @ ELSE @ \cup {cb}])
                          \o <<Callback(cb)>>
    /\ UNCHANGED <<tables, watches, keyWatches, freed, fault>>

NextLevel ==
    /\ fault = "none" /\ TopIs("notify") /\ ~ReadsFreed(Top)
    /\ Top.level # "all" /\ Reached(Top) = {}
    /\ Become([Top EXCEPT !.level = IF @ = "key" THEN "repo" ELSE "all", !.pos = 0])
    /\ UNCHANGED <<tables, watches, keyWatches, freed, fault>>

CallbackReturns ==
    /\ fault = "none" /\ TopIs("callback")
    /\ stack' = Front(stack)
    /\ UNCHANGED <<tables, watches, keyWatches, freed, fault>>

(* A list or table the frame on top points to was freed above it.          *)
UseAfterFree ==
    /\ fault = "none"
    /\ \/ TopIs("notify") /\ ReadsFreed(Top)
       \/ TopIs("walk") /\ Top.stale
    /\ fault' = "use_after_free"
    /\ UNCHANGED <<tables, watches, keyWatches, freed, stack>>

Finished(then) ==
    /\ fault = "none" /\ TopIs("notify") /\ ~Top.stale
    /\ Top.level = "all" /\ Reached(Top) = {} /\ Top.then = then

-----------------------------------------------------------------------------
(* Tables and values                                                       *)

RepoAdd(r) ==
    /\ Open /\ r \notin exists
    /\ exists' = exists \cup {r}
    /\ Push(Notify(r, NoKey, {"NEW"}, Types, "return"))
    /\ UNCHANGED <<values, watches, keyWatches, freed, fault>>

(* Mutants of AddValue: the key is not looked up; the value is prepended.  *)
AddValueUnchecked(r, k) ==
    /\ Open /\ r \in exists
    /\ values' = [values EXCEPT ![r] = Append(@, k)]
    /\ Push(Notify(r, k, {"CHANGE", "VALUE_NEW"}, {TypeIn(r)}, "return"))
    /\ UNCHANGED <<exists, watches, keyWatches, freed, fault>>
AddValuePrepends(r, k) ==
    /\ Open /\ r \in exists /\ ~Present(r, k)
    /\ values' = [values EXCEPT ![r] = <<k>> \o @]
    /\ Push(Notify(r, k, {"CHANGE", "VALUE_NEW"}, {TypeIn(r)}, "return"))
    /\ UNCHANGED <<exists, watches, keyWatches, freed, fault>>

(* Callers add to a repo of theirs, which is there.                        *)
AddValue(r, k) ==
    /\ Open /\ r \in exists /\ ~Present(r, k)
    /\ values' = [values EXCEPT ![r] = Append(@, k)]
    /\ Push(Notify(r, k, {"CHANGE", "VALUE_NEW"}, {TypeIn(r)}, "return"))
    /\ UNCHANGED <<exists, watches, keyWatches, freed, fault>>

(* With REPO_VALUE_DC, as all callers but one do: the type stays.          *)
ChangeValue(r, k) ==
    /\ Open /\ Present(r, k)
    /\ Push(Notify(r, k, {"CHANGE", "VALUE_CHANGE"}, {TypeIn(r)}, "return"))
    /\ UNCHANGED <<tables, watches, keyWatches, freed, fault>>

NotifyReturns ==
    /\ Finished("return")
    /\ stack' = Front(stack)
    /\ UNCHANGED <<tables, watches, keyWatches, freed, fault>>

DelValue(r, k) ==
    /\ Open /\ Present(r, k)
    /\ Push(Notify(r, k, {"CHANGE", "VALUE_DEL"}, {TypeIn(r)}, "del value"))
    /\ UNCHANGED <<tables, watches, keyWatches, freed, fault>>

(* The watchers have been told; the value goes, and with it (tmp->watches  *)
(* instead of tmpv->watches) the list of the whole repo's watches.         *)
ValueDeleted ==
    /\ Finished("del value")
    /\ LET r == Top.repo
           k == Top.key
           Uses(f) == \/ f.op = "walk" /\ f.repo = r /\ f.key = k
                      \/ f.op = "notify" /\ f.repo = r /\ f.key = k /\ f.then = "del value"
                      \/ f.op = "notify" /\ f.repo = r /\ f.level = "repo" /\ watches[r] # <<>>
       IN  /\ \E i \in DOMAIN values[r] :
                 values[r][i] = k /\ values' = [values EXCEPT ![r] = RemoveAt(@, i)]
           /\ keyWatches' = [keyWatches EXCEPT ![r][k] = <<>>]
           /\ freed' = IF watches[r] # <<>> THEN freed \cup {r} ELSE freed
           /\ fault' = IF r \in freed THEN "double_free" ELSE fault
           /\ PopMarking({i \in DOMAIN stack : Uses(stack[i])})
    /\ UNCHANGED <<exists, watches>>

RepoDel(r) ==
    /\ Open /\ r \in exists
    /\ Push(Notify(r, NoKey, {"DEL", "VALUE_DEL"}, Types, "del repo"))
    /\ UNCHANGED <<tables, watches, keyWatches, freed, fault>>

(* The list of watches is freed once for every value and once more.        *)
RepoDeleted ==
    /\ Finished("del repo")
    /\ LET r == Top.repo
           Uses(f) == \/ f.op = "walk" /\ f.repo = r
                      \/ /\ f.op = "notify" /\ f.repo = r
                         /\ f.level = "repo" \/ f.then \in {"del value", "del repo"}
       IN  /\ exists' = exists \ {r}
           /\ values' = [values EXCEPT ![r] = <<>>]
           /\ watches' = [watches EXCEPT ![r] = <<>>]
           /\ keyWatches' = [keyWatches EXCEPT ![r] = [k \in Keys |-> <<>>]]
           /\ freed' = freed \ {r}
           /\ fault' = IF watches[r] # <<>> /\ (values[r] # <<>> \/ r \in freed)
                       THEN "double_free" ELSE fault
           /\ PopMarking({i \in DOMAIN stack : Uses(stack[i])})

-----------------------------------------------------------------------------
(* Watches                                                                 *)

(* Mutant of Widen: a second request is a second watch.                    *)
WidenAppends(ws, w) == Append(ws, w)

(* One watch per callback: a second request widens the first.              *)
Widen(ws, w) ==
    IF \E i \in DOMAIN ws : ws[i].callback = w.callback
    THEN [i \in DOMAIN ws |->
             IF ws[i].callback = w.callback
             THEN [callback |-> w.callback, actions |-> ws[i].actions \cup w.actions,
                   types |-> ws[i].types \cup w.types]
             ELSE ws[i]]
    ELSE Append(ws, w)

(* The first watch of the callback loses bits, and goes with its last one. *)
Narrow(ws, w) ==
    LET i == CHOOSE j \in DOMAIN ws : /\ ws[j].callback = w.callback
                                     /\ \A k \in 1..(j - 1) : ws[k].callback # w.callback
        v == [callback |-> w.callback, actions |-> ws[i].actions \ w.actions,
              types |-> ws[i].types \ w.types]
    IN  IF v.actions = {} THEN RemoveAt(ws, i) ELSE [ws EXCEPT ![i] = v]

Edit(r, ws) ==
    IF r \in freed
    THEN fault' = "use_after_free" /\ UNCHANGED watches
    ELSE watches' = [watches EXCEPT ![r] = ws] /\ UNCHANGED fault

WatchAdd(q) ==
    /\ Open /\ q.repo \in exists \cup {All}
    /\ Edit(q.repo, Widen(watches[q.repo], q.watch))
    /\ UNCHANGED <<tables, keyWatches, freed, stack>>

(* Never inside a notification: no code does it, and the walk would go on  *)
(* from the node it freed.                                                 *)
WatchDel(q) ==
    /\ Idle /\ stack = <<>> /\ q.repo \in exists \cup {All}
    /\ q.watch.callback \in {w.callback : w \in ToSet(watches[q.repo])}
    /\ Edit(q.repo, Narrow(watches[q.repo], q.watch))
    /\ UNCHANGED <<tables, keyWatches, freed, stack>>

(* A watch on a key: its types stay 0.                                     *)
WatchValueAdd(q) ==
    /\ Open /\ Present(q.repo, q.key)
    /\ keyWatches' = [keyWatches EXCEPT ![q.repo][q.key] =
                         Widen(@, [callback |-> q.callback, actions |-> q.actions, types |-> {}])]
    /\ UNCHANGED <<tables, watches, freed, stack, fault>>

-----------------------------------------------------------------------------
(* docklet's go_status: ggadu_repo_value_first and _next around a          *)
(* signal_emit for every protocol.                                         *)

WalkBegin ==
    /\ Open /\ stack = <<>> /\ Protocols \in exists /\ values[Protocols] # <<>>
    /\ LET k == Head(values[Protocols])
       IN  Push(Walk(Protocols, k, {k}, ToSet(values[Protocols])))
    /\ UNCHANGED <<tables, watches, keyWatches, freed, fault>>

WalkNext ==
    /\ fault = "none" /\ TopIs("walk") /\ ~Top.stale
    /\ LET ks == values[Top.repo]
       IN  \E i \in DOMAIN ks :
              /\ ks[i] = Top.key
              /\ IF i = Len(ks) THEN stack' = Front(stack)
                 ELSE Become([Top EXCEPT !.key = ks[i + 1], !.visited = @ \cup {ks[i + 1]}])
    /\ UNCHANGED <<tables, watches, keyWatches, freed, fault>>

-----------------------------------------------------------------------------

(* gnu_gadu_init has added "_protocols_".                                  *)
Init ==
    /\ exists = {Protocols}
    /\ values = [r \in Repos |-> <<>>]
    /\ watches = [r \in Repos \cup {All} |-> <<>>]
    /\ keyWatches = [r \in Repos |-> [k \in Keys |-> <<>>]]
    /\ freed = {} /\ stack = <<>> /\ fault = "none"

(* Protocol plugins delete contacts and their own repos; the values of     *)
(* "_protocols_" are never deleted: destroy_plugin passes the protocol     *)
(* where the key, its name, is wanted, and ggadu_repo_del_value finds none. *)
Next ==
    \/ CallWatch \/ NextLevel \/ CallbackReturns \/ UseAfterFree
    \/ NotifyReturns \/ ValueDeleted \/ RepoDeleted
    \/ \E r \in Tables : RepoAdd(r) \/ RepoDel(r)
    \/ \E r \in Repos, k \in Keys : AddValue(r, k)
    \/ \E r \in Tables, k \in Keys : ChangeValue(r, k) \/ DelValue(r, k)
    \/ \E q \in Requests : WatchAdd(q) \/ WatchDel(q)
    \/ \E q \in KeyRequests : WatchValueAdd(q)
    \/ WalkBegin \/ WalkNext

Spec == Init /\ [][Next]_vars

-----------------------------------------------------------------------------
(***************************************************************************)
(* Properties.                                                             *)
(***************************************************************************)

(* ggadu_repo_find_value depends on it: no repo has a key twice, and only  *)
(* a repo that is there has values, however operations nest.               *)
KeysUnique ==
    \A r \in Repos : IsInjective(values[r]) /\ (r \notin exists => values[r] = <<>>)

(* ggadu_repo.h: a second request of a callback updates its watch, so each *)
(* callback has one watch in a list, also after requests it made itself    *)
(* while the list was walked.                                              *)
OneWatchEach ==
    \A r \in Repos \cup {All} :
        \A i, j \in DOMAIN watches[r] :
            watches[r][i].callback = watches[r][j].callback => i = j

(* The tables that every plugin trusts are sound: keys and watches.        *)
TablesSound == KeysUnique /\ OneWatchEach

(* One change calls a callback at most once, although it may watch the     *)
(* repo and all repos at the same time.                                    *)
CalledOnce ==
    [][\A cb \in Callbacks :
          Len(stack') = Len(stack) + 1 /\ Last(stack') = Callback(cb) => cb \notin Top.told]_vars

(* A change is told to every callback that asked for it before it was      *)
(* made, whatever the callbacks do meanwhile.                              *)
EveryoneTold ==
    fault = "none" /\ TopIs("notify") /\ ~Top.stale /\ Top.level = "all" /\ Reached(Top) = {}
        => Top.due \subseteq Top.told

(* docklet's walk ends having visited every protocol there is, also those  *)
(* that were added while the change of status was being delivered.         *)
AllProtocolsVisited ==
    [][TopIs("walk") /\ Len(stack') < Len(stack) => ToSet(values[Top.repo]) \subseteq Top.visited]_vars

(* repo.sgml: watches are removed by ggadu_repo_watch_del; nothing else    *)
(* frees the list of watches of a repo that is there.                      *)
RepoWatchKept == exists \cap freed = {}

(* repo.sgml: a watch on a key is told of the actions it asked for.        *)
KeyWatchTold ==
    fault = "none" /\ TopIs("notify") /\ ~Top.stale /\ Top.level = "all" /\ Reached(Top) = {}
        /\ Top.key \in Keys /\ Top.then = "return"
    => \A i \in DOMAIN keyWatches[Top.repo][Top.key] :
          LET w == keyWatches[Top.repo][Top.key][i]
          IN  w.actions \cap Top.acts # {} => w.callback \in Top.told
=============================================================================
