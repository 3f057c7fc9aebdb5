----------------------------- MODULE GaduSession -----------------------------
(***************************************************************************)
(* The connection of the Gadu-Gadu plugin to its server:                   *)
(* src/src/plugins/gadu_gadu/gadu_gadu_plugin.c: gadu_gadu_login,          *)
(* test_chan, ggadu_gadu_gadu_reconnect, ggadu_gadu_gadu_disconnect, the   *)
(* "change status" handler, the ping timer and the SIGHUP handler.         *)
(*                                                                         *)
(* Everything runs in the GUI thread, but every signal_emit drains the     *)
(* main loop, so each of these functions may be entered again while        *)
(* another is half done.  The stack holds what is still to be done, the    *)
(* innermost last.  libgadu is external: a session is connecting or        *)
(* connected, waits to read or to write, and gg_watch_fd reports progress, *)
(* success, failure or an error.                                           *)
(*                                                                         *)
(* A watch may be dispatched at any time: also one whose descriptor was    *)
(* closed, since any file the program opens may get that number.           *)
(***************************************************************************)
EXTENDS Naturals, Sequences, FiniteSets, SequencesExt

CONSTANTS
    WatchIds,    \* ids of GLib sources; bounds the watches alive at a time
    Hangups,     \* TRUE: the process may be sent SIGHUP
    MaxPings,    \* bound: ping timers alive at a time
    MaxDepth     \* bound: deepest stack on which an event is dispatched

ASSUME IdsAssumption == IsFiniteSet(WatchIds) /\ 0 \notin WatchIds
ASSUME GaduBoundsAssumption == MaxPings \in Nat /\ MaxDepth \in Nat

VARIABLES
    session,     \* NULL ("none") or the state of the gg_session: "connecting", "connected"
    check,       \* session->check
    connected,   \* the flag of that name
    count,       \* connect_count
    watches,     \* the sources on test_chan that GLib polls
    own,         \* those of them on the channel of the present session
    watch,       \* the variable of that name: 0 or a source, dead or alive
    channel,     \* source_chan: "null", or is the plugin's reference "held" or "released"
    prevCheck,   \* prev_check of test_chan
    pings,       \* timers that run gadu_gadu_ping
    stack,       \* what the thread has still to do, the innermost last
    fault        \* "none" until NULL is dereferenced or a reference dropped twice

sessionVars == <<session, check, connected>>
watchVars   == <<watches, own, watch, channel, prevCheck>>
vars        == <<sessionVars, count, watchVars, pings, stack, fault>>

-----------------------------------------------------------------------------

Do(what)       == [do |-> what, source |-> 0]
DoFor(w, what) == [do |-> what, source |-> w]

Top         == Last(stack)
TopIs(what) == stack # <<>> /\ Top.do = what
Then(todo)  == stack' = Front(stack) \o todo     \* replaces what is on top
Dispatched  == {stack[i].source : i \in DOMAIN stack}

(* The main loop is running, in gnu_gadu_main or at the end of an emission. *)
Draining == fault = "none" /\ (stack = <<>> \/ TopIs("drain"))
Running(what) == fault = "none" /\ TopIs(what)

(* Pending work of ggadu_gadu_gadu_disconnect_msg: disconnect, then warn.  *)
DisconnectMsg == <<Do("drain"), Do("disconnect")>>

(* A new source, with an id nothing refers to.                             *)
FreshWatch(w) == w \in WatchIds \ (watches \cup Dispatched \cup {watch})

-----------------------------------------------------------------------------
(* ggadu_gadu_gadu_disconnect: the source is removed, the reference to the *)
(* channel dropped (source_chan keeps pointing to it), the session freed,  *)
(* and "gui disconnected" emitted.                                         *)
Disconnect ==
    /\ Running("disconnect")
    /\ IF channel = "released"
       THEN /\ fault' = "unref_twice"
            /\ UNCHANGED <<sessionVars, watchVars, stack>>
       ELSE /\ watches' = watches \ {watch}
            /\ own' = {}
            /\ channel' = IF channel = "held" THEN "released" ELSE channel
            /\ session' = "none"
            /\ connected' = FALSE
            /\ Then(<<Do("drain")>>)
            /\ UNCHANGED <<check, watch, prevCheck, fault>>
    /\ UNCHANGED <<count, pings>>

(* gadu_gadu_login, called while the flag is set.                          *)
LoginWhenConnected ==
    /\ Running("login") /\ connected
    /\ session' = "none"
    /\ connected' = FALSE
    /\ own' = {}
    /\ Then(<<>>)
    /\ UNCHANGED <<check, count, watches, watch, channel, prevCheck, pings, fault>>

(* A session that is still connecting is overwritten, as are source_chan   *)
(* and watch: the old source stays.  With a configured server libgadu      *)
(* connects at once and waits to write, else it waits for the resolver.    *)
LoginBegins ==
    /\ Running("login") /\ ~connected
    /\ session' = "connecting"
    /\ check' \in {"read", "write"}
    /\ \E w \in WatchIds :
          /\ FreshWatch(w)
          /\ watches' = watches \cup {w}
          /\ own' = {w}
          /\ watch' = w
    /\ channel' = "held"
    /\ Then(<<>>)
    /\ UNCHANGED <<connected, count, prevCheck, pings, fault>>

(* gg_login returns NULL: no resolver, or the network is unreachable.      *)
LoginFails ==
    /\ Running("login") /\ ~connected
    /\ Then(DisconnectMsg)
    /\ UNCHANGED <<sessionVars, count, watchVars, pings, fault>>

(* No number or password: the preferences and a warning are shown first.   *)
LoginWithoutPassword ==
    /\ Running("login") /\ ~connected
    /\ Then(<<Do("disconnect"), Do("drain")>>)
    /\ UNCHANGED <<sessionVars, count, watchVars, pings, fault>>

(* ggadu_gadu_gadu_reconnect reads session->status before it disconnects.  *)
Reconnect ==
    /\ Running("reconnect")
    /\ count' = count + 1
    /\ IF count + 1 < 3
       THEN IF session = "none"
            THEN fault' = "null_session" /\ UNCHANGED stack
            ELSE Then(<<Do("login"), Do("disconnect")>>) /\ UNCHANGED fault
       ELSE Then(<<Do("give up")>> \o DisconnectMsg) /\ UNCHANGED fault
    /\ UNCHANGED <<sessionVars, watchVars, pings>>

GiveUp ==
    /\ Running("give up")
    /\ count' = 0
    /\ Then(<<>>)
    /\ UNCHANGED <<sessionVars, watchVars, pings, fault>>

-----------------------------------------------------------------------------
(* test_chan, dispatched by GLib for source w, which it does not re-enter  *)

Dispatch(w, todo) ==
    /\ Draining /\ Len(stack) < MaxDepth
    /\ w \in watches \ Dispatched
    /\ stack' = stack \o <<DoFor(w, IF todo = "lost" THEN "drop" ELSE "rewatch")>>
                      \o (CASE todo \in {"lost", "failed"} -> <<Do("reconnect")>>
                            [] todo = "success"          -> <<Do("succeed"), Do("drain")>>
                            [] todo = "event"            -> <<Do("drain")>>
                            [] todo = "none"             -> <<>>)

(* No session, an error of gg_watch_fd, or a condition that says so.       *)
ConnectionLost(w) ==
    /\ Dispatch(w, "lost")
    /\ UNCHANGED <<sessionVars, count, watchVars, pings, fault>>

(* GG_EVENT_NONE, libgadu goes on to another stage of the connection.      *)
Progress(w) ==
    /\ session = "connecting" /\ Dispatch(w, "none")
    /\ check' \in {"read", "write"}
    /\ UNCHANGED <<session, connected, count, watchVars, pings, fault>>

(* Mutants of ConnSuccess: the flag is not set; connect_count starts anew. *)
ConnSuccessUnflagged(w) ==
    /\ session = "connecting" /\ Dispatch(w, "success")
    /\ session' = "connected"
    /\ check' = "read"
    /\ pings < MaxPings /\ pings' = pings + 1
    /\ UNCHANGED <<connected, count, watchVars, fault>>
ConnSuccessResets(w) ==
    /\ session = "connecting" /\ Dispatch(w, "success")
    /\ session' = "connected"
    /\ check' = "read"
    /\ connected' = TRUE
    /\ count' = 0
    /\ pings < MaxPings /\ pings' = pings + 1
    /\ UNCHANGED <<watchVars, fault>>

(* GG_EVENT_CONN_SUCCESS, up to the drain of "gui status changed".         *)
ConnSuccess(w) ==
    /\ session = "connecting" /\ Dispatch(w, "success")
    /\ session' = "connected"
    /\ check' = "read"
    /\ connected' = TRUE
    /\ pings < MaxPings /\ pings' = pings + 1
    /\ UNCHANGED <<count, watchVars, fault>>

(* After it, session->server_addr is read.                                 *)
SuccessEnds ==
    /\ Running("succeed")
    /\ IF session = "none"
       THEN fault' = "null_session" /\ UNCHANGED stack
       ELSE Then(<<>>) /\ UNCHANGED fault
    /\ UNCHANGED <<sessionVars, count, watchVars, pings>>

ConnFailed(w) ==
    /\ session = "connecting" /\ Dispatch(w, "failed")
    /\ UNCHANGED <<sessionVars, count, watchVars, pings, fault>>

(* A message or another event of the server whose handler emits a signal.  *)
ServerEvent(w) ==
    /\ session = "connected" /\ Dispatch(w, "event")
    /\ UNCHANGED <<sessionVars, count, watchVars, pings, fault>>

(* The end of test_chan: a source for the new check is put on the channel  *)
(* this one was dispatched for, which is removed.                          *)
Rewatch ==
    /\ Running("rewatch")
    /\ IF session # "none" /\ prevCheck # check
       THEN /\ prevCheck' = check
            /\ \E w \in WatchIds :
                  /\ FreshWatch(w)
                  /\ watches' = (watches \ {Top.source}) \cup {w}
                  /\ own' = IF Top.source \in own THEN (own \ {Top.source}) \cup {w} ELSE own
                  /\ watch' = w
       ELSE UNCHANGED <<prevCheck, watches, own, watch>>
    /\ Then(<<>>)
    /\ UNCHANGED <<sessionVars, count, channel, pings, fault>>

(* Mutant of Drop: the newest source is removed instead.                   *)
DropNewest ==
    /\ Running("drop")
    /\ watches' = watches \ {watch}
    /\ own' = own \ {watch}
    /\ Then(<<>>)
    /\ UNCHANGED <<sessionVars, count, watch, channel, prevCheck, pings, fault>>

(* return FALSE after a lost connection.                                   *)
Drop ==
    /\ Running("drop")
    /\ watches' = watches \ {Top.source}
    /\ own' = own \ {Top.source}
    /\ Then(<<>>)
    /\ UNCHANGED <<sessionVars, count, watch, channel, prevCheck, pings, fault>>

-----------------------------------------------------------------------------
(* Other events of the main loop                                           *)

EndDrain ==
    /\ Running("drain")
    /\ Then(<<>>)
    /\ UNCHANGED <<sessionVars, count, watchVars, pings, fault>>

(* "change status" to an online status: log in, or tell the server.        *)
Online ==
    /\ Draining /\ Len(stack) < MaxDepth
    /\ IF connected
       THEN stack' = Append(stack, Do("drain")) /\ UNCHANGED count
       ELSE stack' = Append(stack, Do("login")) /\ count' = 0
    /\ UNCHANGED <<sessionVars, watchVars, pings, fault>>

(* To an offline status: the same, and then ggadu_gadu_gadu_disconnect.    *)
Offline ==
    /\ Draining /\ Len(stack) < MaxDepth
    /\ IF connected
       THEN stack' = stack \o <<Do("disconnect"), Do("drain")>> /\ UNCHANGED count
       ELSE stack' = stack \o <<Do("disconnect"), Do("login")>> /\ count' = 0
    /\ UNCHANGED <<sessionVars, watchVars, pings, fault>>

(* gadu_gadu_ping removes its timer once the flag is cleared.              *)
Ping ==
    /\ Draining /\ pings > 0 /\ ~connected
    /\ pings' = pings - 1
    /\ UNCHANGED <<sessionVars, count, watchVars, stack, fault>>

(* handle_sighup frees the session, whatever the thread is doing.          *)
Sighup ==
    /\ Hangups /\ fault = "none" /\ session # "none"
    /\ session' = "none"
    /\ own' = {}
    /\ UNCHANGED <<check, connected, count, watches, watch, channel, prevCheck, pings, stack, fault>>

-----------------------------------------------------------------------------

(* start_plugin logs in if "autoconnect" is set.                           *)
Init ==
    /\ session = "none" /\ check = "read" /\ connected = FALSE /\ count = 0
    /\ watches = {} /\ own = {} /\ watch = 0 /\ channel = "null" /\ prevCheck = "read"
    /\ pings = 0 /\ fault = "none"
    /\ stack \in {<<>>, <<Do("login")>>}

Next ==
    \/ Disconnect \/ LoginWhenConnected \/ LoginBegins \/ LoginFails \/ LoginWithoutPassword
    \/ Reconnect \/ GiveUp \/ SuccessEnds \/ Rewatch \/ Drop \/ EndDrain
    \/ \E w \in WatchIds :
          \/ ConnectionLost(w) \/ Progress(w) \/ ConnSuccess(w)
          \/ ConnFailed(w) \/ ServerEvent(w)
    \/ Online \/ Offline \/ Ping \/ Sighup

Spec == Init /\ [][Next]_vars

-----------------------------------------------------------------------------
(***************************************************************************)
(* Properties.                                                             *)
(***************************************************************************)

(* The flag and the session agree in every nesting of events: the flag is  *)
(* set from the success of a login to the end of that session, except that *)
(* it stays set when SIGHUP takes the session away.                        *)
ConnectedFlag ==
    /\ session = "connected" => connected
    /\ session = "connecting" => ~connected

(* While the plugin is connected a timer pings the server.                 *)
PingsWhileConnected == connected => pings > 0

(* Whoever waits for the server is told: in the outer main loop a session  *)
(* that is there has a source on its own channel that GLib polls.          *)
SessionWatched ==
    fault = "none" /\ stack = <<>> /\ session # "none" => own \cap watches # {}

(* The plugin does not reconnect for ever by itself: it begins infinitely  *)
(* many sessions only if the user asks infinitely often.                   *)
RetriesEnd == []<><<LoginBegins>>_vars => []<><<Online \/ Offline>>_vars

(* gadu_gadu_plugin.c:432: an error or a lost connection is treated like a *)
(* disconnection, whatever happened before.                                *)
LossIsDisconnection == fault = "none"
=============================================================================
