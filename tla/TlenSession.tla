---------------------------- MODULE TlenSession ----------------------------
(***************************************************************************)
(* The session of the Tlen plugin (tlen_plugin.c): logging in and out, the *)
(* source that GLib polls for it, and the status the user asked for.       *)
(*                                                                         *)
(* test_chan emits signals, and an emission runs the main loop: what is    *)
(* left of it waits in `calls`, while the user changes his status or       *)
(* another source is dispatched.                                           *)
(*                                                                         *)
(* External: libtlen.  tlen_watch_fd makes progress, fails, or hands out   *)
(* events; tlen_presence keeps the status in the session; no function of   *)
(* it accepts NULL.  A source whose session was freed may fire, because    *)
(* the number of its descriptor is used again.                             *)
(*                                                                         *)
(* Not modelled: contacts (TlenContacts), pings, descriptions as such.     *)
(***************************************************************************)
EXTENDS Naturals, Sequences

CONSTANTS
    Moods,       \* the statuses to be online with
    Available,   \* the one among them a description is logged in with
    TlenSources, \* bound on the sources alive at once
    MaxNested    \* bound on the calls of test_chan that are under way

ASSUME TlenAssumption ==
    Available \in Moods /\ "offline" \notin Moods /\ 0 \notin TlenSources /\ MaxNested \in Nat

VARIABLES
    stage,       \* of the session; "none" if it is NULL
    mood,        \* session->status
    loginMood,   \* loginstatus
    connected,
    events,      \* what tlen_getevent will return
    sources,     \* the sources of the main loop with test_chan
    own,         \* those among them on the session's descriptor
    tag,
    calls,       \* calls of test_chan that have emitted a signal
    configured,  \* there are a login and a password
    dialogs,     \* dialogs for a description: the status each was opened with
    asked,       \* history: the status the user asked for last
    excused,     \* history: why the status may be another
    disturbed,   \* history: the user logged in while a failure was announced
    fault        \* NULL was used

tlenVars == <<stage, mood, loginMood, connected, events, sources, own, tag, calls, configured,
              dialogs, asked, excused, disturbed, fault>>
theSession == <<stage, mood, events>>
polled     == <<sources, own, tag>>
wishes     == <<configured, dialogs, asked>>

Failed == {"unauthorized", "failed"}
Stages == {"none", "fresh", "login", "authorized", "listed"} \cup Failed
News   == {"authorized", "end of roster", "message"}

(* The main loop runs: nothing of the plugin does, or an emission drains.  *)
(* Nothing runs after NULL was used.                                       *)
Top     == Head(calls)
Idle    == calls # <<>> => Top.op # "next"
Running == ~fault

(* Numbers for a new source: not of one that lives or is being dispatched.  *)
Unused == TlenSources \ (sources \cup {calls[i].src : i \in DOMAIN calls})

Freed == stage' = "none" /\ mood' = "offline" /\ events' = <<>>

-----------------------------------------------------------------------------
(* updatewatch, for a session that has a descriptor: the static fd it      *)
(* compares with is always 0, so that the source is always replaced.  It   *)
(* fails if the source the tag names is gone.                              *)
UpdateWatch ==
    IF tag # 0 /\ tag \notin sources THEN UNCHANGED <<sources, tag>>
    ELSE \E new \in Unused : tag' = new /\ sources' = (sources \ {tag}) \cup {new}

Rewatch == IF stage = "fresh" THEN UNCHANGED <<sources, tag>> ELSE UpdateWatch

(* test_chan returns FALSE: GLib removes the source it was called for.     *)
Removed(src) == sources' = sources \ {src} /\ own' = own \ {src}

-----------------------------------------------------------------------------
(* ggadu_tlen_login, called only when there is no connection.  Without a   *)
(* login or a password the new session is left as it is.                   *)
Login(m) ==
    /\ events' = <<>>
    /\ IF configured
       THEN /\ stage' = "login" /\ mood' = m /\ loginMood' = m
            /\ UpdateWatch /\ own' = sources' \ sources
       ELSE /\ stage' = "fresh" /\ mood' = "offline"
            /\ own' = {} /\ UNCHANGED <<loginMood, sources, tag>>
    /\ disturbed' = (disturbed \/ \E i \in DOMAIN calls : calls[i].op = "warns")
    /\ UNCHANGED connected

(* Mutant of GoesOffline: the source stays.                                *)
GoesOfflineWatched ==
    /\ connected' = FALSE /\ Freed /\ tag' = 0 /\ own' = {}
    /\ UNCHANGED <<sources, loginMood, disturbed>>

(* "change status" to offline with a connection.                           *)
GoesOffline ==
    /\ connected' = FALSE /\ Freed
    /\ tag' = 0 /\ own' = {} /\ sources' = sources \ {tag}
    /\ UNCHANGED <<loginMood, disturbed>>

(* tlen_presence for another status; the answer to the roster request will *)
(* set the one of the login again.                                         *)
SetsMood(m) == mood' = m /\ UNCHANGED <<stage, events, connected, polled, loginMood, disturbed>>

NothingDone == UNCHANGED <<theSession, connected, polled, loginMood, disturbed>>

(* "change status": without a connection, to be offline is not an order.   *)
ChangeStatus(m) ==
    /\ Idle /\ Running /\ asked' = m
    /\ IF connected THEN IF m = "offline" THEN GoesOffline ELSE SetsMood(m)
       ELSE IF m = "offline" THEN NothingDone ELSE Login(m)
    /\ excused' = CASE connected /\ stage = "authorized" /\ m # "offline" /\ m # loginMood -> TRUE
                    [] ~connected /\ m = "offline" /\ stage = "login" -> TRUE
                    [] OTHER -> FALSE
    /\ UNCHANGED <<calls, configured, dialogs, fault>>

(* "change status" to describe the status opens a dialog that knows it.    *)
AskDescription ==
    /\ Idle /\ Running /\ connected
    /\ dialogs' = dialogs \cup {mood}
    /\ UNCHANGED <<theSession, connected, polled, loginMood, calls, configured, asked, excused,
                   disturbed, fault>>

(* "change status descr dialog"                                            *)
AnswerDescription(m) ==
    /\ Idle /\ Running /\ m \in dialogs /\ dialogs' = dialogs \ {m}
    /\ IF connected
       THEN /\ SetsMood(m) /\ UNCHANGED asked
            /\ excused' = (excused \/ m # asked)
       ELSE Login(Available) /\ asked' = Available /\ excused' = FALSE
    /\ UNCHANGED <<calls, configured, fault>>

UpdateConfig ==
    /\ Idle /\ Running /\ ~configured /\ configured' = TRUE
    /\ UNCHANGED <<theSession, connected, polled, loginMood, calls, dialogs, asked, excused,
                   disturbed, fault>>

-----------------------------------------------------------------------------
(* test_chan                                                               *)

Call(op, src) == [op |-> op, src |-> src]

UsesNull ==
    /\ fault' = TRUE
    /\ UNCHANGED <<theSession, connected, polled, loginMood, calls, wishes, excused, disturbed>>

(* tlen_watch_fd: what a session may meet in each stage.                   *)
Progress ==
    CASE stage = "login"      -> {<<>>, <<"authorized">>}
      [] stage = "authorized" -> {<<>>, <<"end of roster">>, <<"end of roster", "message">>}
      [] stage = "listed"     -> {<<>>, <<"message">>}
      [] OTHER                -> {<<>>}

Dispatched(src) ==
    /\ Idle /\ Running /\ src \in sources
    /\ \A i \in DOMAIN calls : calls[i].src # src
    /\ Len(calls) < MaxNested

(* The events are fetched in "next".                                       *)
Dispatch(src) ==
    /\ Dispatched(src) /\ stage \notin Failed
    /\ IF stage = "none" THEN UsesNull
       ELSE /\ \E news \in Progress : events' = events \o news
            /\ calls' = <<Call("next", src)>> \o calls
            /\ UNCHANGED <<stage, mood, connected, polled, loginMood, wishes, excused, disturbed,
                           fault>>

(* The session fails or has failed, of which a warning is shown first.     *)
DispatchFailure(src, failure) ==
    /\ Dispatched(src)
    /\ \/ stage = failure
       \/ stage = "login"
       \/ stage \in {"authorized", "listed"} /\ failure = "failed"
    /\ stage' = failure
    /\ calls' = <<[op |-> "warns", src |-> src, failure |-> failure]>> \o calls
    /\ UNCHANGED <<mood, events, connected, polled, loginMood, wishes, excused, disturbed, fault>>

(* What follows the warning.  A session that was not authorized is kept,   *)
(* its source is forgotten; any other is freed, after its source has been  *)
(* replaced.                                                               *)
Warned ==
    /\ Running /\ calls # <<>> /\ Top.op = "warns" /\ Top.failure = "unauthorized"
    /\ connected' = FALSE /\ tag' = 0
    /\ Removed(Top.src)
    /\ calls' = Tail(calls)
    /\ UNCHANGED <<theSession, loginMood, wishes, excused, disturbed, fault>>

Fails ==
    /\ Running /\ calls # <<>> /\ Top.op = "warns" /\ Top.failure = "failed"
    /\ IF stage = "none" THEN UsesNull
       ELSE /\ Rewatch /\ own' = {}
            /\ connected' = FALSE /\ Freed
            /\ calls' = <<Call("leaves", Top.src)>> \o Tail(calls)
            /\ UNCHANGED <<loginMood, wishes, excused, disturbed, fault>>

(* After "gui disconnected" the callback returns FALSE.                    *)
Leaves ==
    /\ Running /\ calls # <<>> /\ Top.op = "leaves"
    /\ Removed(Top.src)
    /\ calls' = Tail(calls)
    /\ UNCHANGED <<theSession, connected, tag, loginMood, wishes, excused, disturbed, fault>>

(* tlen_getevent                                                           *)
Fetches(e) ==
    /\ Running /\ calls # <<>> /\ Top.op \in {"next", "told"}
    /\ events # <<>> /\ Head(events) = e /\ events' = Tail(events)

Authorized ==
    /\ Fetches("authorized")
    /\ stage' = "authorized" /\ connected' = TRUE
    /\ calls' = <<Call("next", Top.src)>> \o Tail(calls)
    /\ UNCHANGED <<mood, polled, loginMood, wishes, excused, disturbed, fault>>

(* Mutant of EndOfRoster: to be available comes first.                     *)
EndOfRosterAvailable ==
    /\ Fetches("end of roster")
    /\ stage' = "listed" /\ mood' = Available
    /\ calls' = <<Call("told", Top.src)>> \o Tail(calls)
    /\ UNCHANGED <<connected, polled, loginMood, wishes, excused, disturbed, fault>>

(* The status is set, then the GUI is told.                                *)
EndOfRoster ==
    /\ Fetches("end of roster")
    /\ stage' = "listed" /\ mood' = loginMood
    /\ calls' = <<Call("told", Top.src)>> \o Tail(calls)
    /\ UNCHANGED <<connected, polled, loginMood, wishes, excused, disturbed, fault>>

Message ==
    /\ Fetches("message")
    /\ calls' = <<Call("told", Top.src)>> \o Tail(calls)
    /\ UNCHANGED <<stage, mood, connected, polled, loginMood, wishes, excused, disturbed, fault>>

(* No event is left, and the source is replaced.                           *)
Returns ==
    /\ Running /\ calls # <<>> /\ Top.op \in {"next", "told"} /\ events = <<>>
    /\ IF stage = "none" THEN UsesNull
       ELSE /\ Rewatch /\ own' = (own \ {tag}) \cup (sources' \ sources)
            /\ calls' = Tail(calls)
            /\ UNCHANGED <<theSession, connected, loginMood, wishes, excused, disturbed, fault>>

-----------------------------------------------------------------------------

TlenInit ==
    /\ stage = "none" /\ mood = "offline" /\ loginMood = Available /\ connected = FALSE
    /\ events = <<>> /\ sources = {} /\ own = {} /\ tag = 0 /\ calls = <<>>
    /\ configured \in BOOLEAN /\ dialogs = {}
    /\ asked = "offline" /\ excused = FALSE /\ disturbed = FALSE /\ fault = FALSE

TlenNext ==
    \/ \E m \in Moods \cup {"offline"} : ChangeStatus(m)
    \/ AskDescription \/ UpdateConfig
    \/ \E m \in dialogs : AnswerDescription(m)
    \/ \E src \in sources :
          Dispatch(src) \/ \E failure \in Failed : DispatchFailure(src, failure)
    \/ Warned \/ Fails \/ Leaves
    \/ Authorized \/ EndOfRoster \/ Message \/ Returns

TlenSpec == TlenInit /\ [][TlenNext]_tlenVars

-----------------------------------------------------------------------------
(***************************************************************************)
(* Properties.                                                             *)
(***************************************************************************)
Waits == stage \in {"login", "authorized", "listed"}

(* Between callbacks the status of a session that is logged in is the one  *)
(* the user asked for last, in whatever nesting of emissions he did,       *)
(* unless he asked between the authorization and the answer to the roster  *)
(* request, which sets the status of the login again                       *)
(* (tlen_plugin.c:291-299), asked to be offline while logging in, which is *)
(* ignored (tlen_plugin.c:958), described a status he has left since, or   *)
(* logged in while a failure was announced.                                *)
MoodAsAsked ==
    calls = <<>> /\ stage = "listed" /\ ~excused /\ ~disturbed => mood = asked

(* Between callbacks a session that waits for something is polled, and no  *)
(* source is there but the one the tag names, which "change status" will   *)
(* remove, unless the user logged in while a failure was announced: then   *)
(* test_chan forgets his new source (tlen_plugin.c:201) or ends his new    *)
(* session (tlen_plugin.c:230-232).                                        *)
SessionPolled ==
    calls = <<>> /\ ~fault =>
        /\ Waits => own # {}
        /\ ~disturbed => sources \subseteq {tag} /\ (Waits => own = {tag})
=============================================================================
