----------------------------- MODULE GaduLogin -----------------------------
(***************************************************************************)
(* Logging in to Gadu-Gadu: the session of libgadu (gg_login, gg_watch_fd, *)
(* gg_logoff, gg_free_session) driven by a GLib source of the plugin       *)
(* (test_chan, gadu_gadu_login, ggadu_gadu_gadu_reconnect).                *)
(*                                                                         *)
(* A login goes through several descriptors: the pipe of the resolver      *)
(* thread, a socket to the hub, one to the server.  libgadu closes each    *)
(* before it opens the next; the plugin polls the number it got first, and *)
(* relies on the kernel giving the lowest free number again.               *)
(*                                                                         *)
(* Callbacks run to completion here: what happens in the main loops nested *)
(* in them is the subject of GaduSession.  Not modelled: TLS, and logins   *)
(* in the foreground, which the plugin never asks for (p.async = 1).       *)
(***************************************************************************)
EXTENDS Naturals, FiniteSets

CONSTANTS
    Fds,         \* numbers of descriptors, enough of them or not
    MaxOthers,   \* bound on the descriptors of other parts of the program
    Statuses,    \* the statuses a user can ask for
    SourceIds,   \* ids of GLib sources; bounds the sources alive at a time
    Tries,       \* 3 in the code: the attempts that are made at a login
    Proxies      \* {FALSE}, {TRUE} or both: is a proxy configured

ASSUME LoginAssumption ==
    /\ Fds \subseteq Nat \ {0} /\ SourceIds \subseteq Nat \ {0}
    /\ MaxOthers \in Nat /\ "none" \notin Statuses
    /\ Tries \in Nat /\ Proxies \subseteq BOOLEAN

VARIABLES
    session,     \* the gg_session and the far end of its descriptor
    open,        \* the open descriptors of the process
    others,      \* those that other parts of the program have opened
    sources,     \* GLib sources on test_chan
    watch,       \* the variable of that name: the id of the last source made
    prevCheck,   \* prev_check of test_chan
    count,       \* connect_count
    server,      \* the variable "server" of the configuration is set
    proxyOn,     \* gg_proxy_enabled, which is set but never reset
    asked,       \* the status the user asked for last
    disturbed,   \* others has changed since the login began
    fault        \* session == NULL was dereferenced

pluginVars == <<sources, watch, prevCheck, count, server, proxyOn>>
vars == <<session, open, others, pluginVars, asked, disturbed, fault>>

(* A session that does not exist (NULL).  link is what the kernel knows of *)
(* fd, next what its peer sends next ("request": it waits for ours), inbox *)
(* how much of that has arrived.  end is the resolver thread's end of its  *)
(* pipe; 0 is no descriptor.  fits is history: the source of this login    *)
(* could be right, see SourceFits.                                         *)
NoSession ==
    [state |-> "none", check |-> "in", fd |-> 0, end |-> 0, proxy |-> FALSE,
     direct |-> FALSE, status |-> "none", initial |-> "none",
     link |-> "none", next |-> "none", inbox |-> "empty", fits |-> TRUE]

Lowest(n, free) == n \in free /\ \A m \in free : n <= m

-----------------------------------------------------------------------------
(***************************************************************************)
(* libgadu.  Each operator is the set of the outcomes of a call: the       *)
(* session, the open descriptors and the event it returns.                 *)
(***************************************************************************)
Outcome(s, o, e) == [session |-> s, open |-> o, event |-> e]

Shut(s) == [s EXCEPT !.fd = 0, !.link = "none", !.next = "none", !.inbox = "empty"]

(* close(sess->fd)                                                         *)
Without(s, o) == o \ {s.fd}

Enters(s, state, check) == [s EXCEPT !.state = state, !.check = check]

(* Mutant of Fails: the descriptor is forgotten instead of closed.         *)
FailsOpen(s, o) == {Outcome(Enters(Shut(s), "idle", s.check), o, "failed")}

(* fail_connecting, and the other ends of a login that failed.             *)
Fails(s, o) == {Outcome(Enters(Shut(s), "idle", s.check), Without(s, o), "failed")}

(* gg_connect: a socket on which the connection is being made, or -1.  Its *)
(* call of bind, after which a failure leaves the socket open, succeeds.   *)
Socket(s, n, next) ==
    [s EXCEPT !.fd = n, !.link = "connecting", !.next = next, !.inbox = "empty"]

(* Mutant of Reconnects: the closed descriptor is kept for the next call.  *)
ReconnectsLate(s, o, next, state, check) ==
    {Outcome(Enters(s, state, check), Without(s, o), "none")}

(* Closes the descriptor, if any, and connects: to enter state.            *)
Reconnects(s, o, next, state, check) ==
    LET free == Fds \ Without(s, o)
    IN  {Outcome(Enters(Socket(s, n, next), state, check), Without(s, o) \cup {n}, "none") :
            n \in {m \in free : Lowest(m, free)}}
        \cup Fails(s, o)

(* Mutant of ToServer: the new socket is made before the old is closed.    *)
ToServerFirst(s, o) ==
    LET free == Fds \ o
    IN  {Outcome(Enters(Socket(s, n, "welcome"), "connecting gg", "out"),
                 Without(s, o \cup {n}), "none") : n \in {m \in free : Lowest(m, free)}}
        \cup Fails(s, o)

(* A connection to the server or through the proxy, which wants to be asked. *)
ToServer(s, o) ==
    Reconnects(s, o, IF s.proxy THEN "request" ELSE "welcome", "connecting gg", "out")

(* GG_STATE_RESOLVING.  The thread is cancelled; if it has not closed its  *)
(* end of the pipe yet, nobody will.  Through a proxy the server is asked  *)
(* for at once if the plugin named it.                                     *)
Resolving(s, o) ==
    LET r == [s EXCEPT !.end = 0]
    IN  Fails(r, o) \cup
        (IF s.proxy /\ s.direct THEN ToServer(r, o)
         ELSE Reconnects(r, o, "request", "connecting hub", "out"))

(* GG_STATE_CONNECTING_HUB: without a hub, its port 8074 is tried.         *)
ConnectingHub(s, o) ==
    (IF s.link \in {"up", "closed"}
     THEN {Outcome([Enters(s, "reading data", "in") EXCEPT !.next = "page"], o, "none")} ELSE {})
    \cup (IF s.link \in {"refused", "closed"} /\ ~s.proxy THEN ToServer(s, o) ELSE {})
    \cup (IF s.link # "up" THEN Fails(s, o) ELSE {})

(* GG_STATE_READING_DATA: a page names the server, what is not a page      *)
(* sends the login to the hub's other ports; a page that breaks off names  *)
(* a server that is none.                                                  *)
ReadingData(s, o) ==
    ToServer(s, o) \cup (IF s.inbox = "part" THEN Fails(s, o) ELSE {})

(* GG_STATE_CONNECTING_GG: without a server, port 443 is tried, and the    *)
(* reading begins before that connection is made.                          *)
ConnectingGG(s, o) ==
    (IF s.link # "refused" /\ ~(s.proxy /\ s.link = "connecting")
     THEN {Outcome([Enters(s, "reading key", "in") EXCEPT
                       !.next = IF s.proxy THEN "proxy reply" ELSE @], o, "none")} ELSE {})
    \cup (IF s.link \in {"refused", "closed"} /\ ~s.proxy
          THEN Reconnects(s, o, "welcome", "reading key", "in") ELSE {})
    \cup (IF s.link # "up" /\ s.proxy THEN Fails(s, o) ELSE {})

(* GG_STATE_READING_KEY: the proxy's reply is skipped, as far as it has    *)
(* arrived; then the first packet has to be there, and GG_LOGIN60 goes out. *)
ReadingKey(s, o) ==
    IF s.proxy
    THEN {Outcome([s EXCEPT !.proxy = FALSE, !.inbox = "empty",
                            !.next = IF s.inbox = "whole" THEN "welcome" ELSE @], o, "none")}
    ELSE Fails(s, o) \cup
         (IF s.next = "welcome" /\ s.inbox = "whole"
          THEN {Outcome([s EXCEPT !.state = "reading reply", !.inbox = "empty",
                                  !.next = "login reply"], o, "none")}
          ELSE {})

(* Mutant of ReadingReply: an unknown status is taken for the one asked.   *)
ReadingReplyAvailable(s, o) ==
    Fails(s, o) \cup
    (IF s.inbox = "whole"
     THEN {Outcome([s EXCEPT !.state = "connected", !.inbox = "empty", !.next = "packets",
                             !.status = "available"], o, "success")}
     ELSE {})

(* GG_STATE_READING_REPLY: the status is the one the login asked for, or   *)
(* available if it asked for none.                                         *)
ReadingReply(s, o) ==
    Fails(s, o) \cup
    (IF s.inbox = "whole"
     THEN {Outcome([s EXCEPT !.state = "connected", !.inbox = "empty", !.next = "packets",
                             !.status = IF s.initial = "none" THEN "available" ELSE s.initial],
                   o, "success")}
     ELSE {})

(* GG_STATE_CONNECTED: the descriptor stays open when reading fails.       *)
Connected(s, o) ==
    IF s.inbox = "whole" THEN {Outcome([s EXCEPT !.inbox = "empty"], o, "event")}
    ELSE IF s.link = "closed" THEN {Outcome(s, o, "null")}
    ELSE {Outcome(s, o, "none")}

WatchFd(s, o) ==
    CASE s.state = "resolving"      -> Resolving(s, o)
      [] s.state = "connecting hub" -> ConnectingHub(s, o)
      [] s.state = "reading data"   -> ReadingData(s, o)
      [] s.state = "connecting gg"  -> ConnectingGG(s, o)
      [] s.state = "reading key"    -> ReadingKey(s, o)
      [] s.state = "reading reply"  -> ReadingReply(s, o)
      [] s.state = "connected"      -> Connected(s, o)
      [] OTHER                      -> {Outcome(s, o, "none")}

-----------------------------------------------------------------------------
(***************************************************************************)
(* The plugin                                                              *)
(***************************************************************************)

(* gg_login, for a status or "none": the pipe of a resolver, or at once a  *)
(* socket to the server of the configuration.  NULL if there is none.      *)
Login(o, status, named, proxy, clean) ==
    LET s == [NoSession EXCEPT !.initial = status, !.proxy = proxy, !.direct = named,
                               !.fits = clean /\ (named => proxy)]
        free == Fds \ o
    IN  {NoSession} \cup
        (IF named /\ ~proxy
         THEN {Enters(Socket(s, n, "welcome"), "connecting gg", "out") :
                  n \in {m \in free : Lowest(m, free)}}
         ELSE {[Enters(s, "resolving", "in") EXCEPT !.fd = p[1], !.end = p[2], !.link = "asking"] :
                  p \in {q \in free \X free :
                            Lowest(q[1], free) /\ Lowest(q[2], free \ {q[1]})}})

Source(id, n, check) == [id |-> id, fd |-> n, check |-> check]

(***************************************************************************)
(* One callback runs several of the following, each on the state x that    *)
(* the one before leaves; x.running is the id of its source.               *)
(***************************************************************************)
Present(running) ==
    [running |-> running, session |-> session, open |-> open, sources |-> sources, watch |-> watch,
     prevCheck |-> prevCheck, count |-> count, server |-> server,
     proxyOn |-> proxyOn, disturbed |-> disturbed]

Leaves(x) ==
    /\ session' = x.session /\ open' = x.open /\ sources' = x.sources /\ watch' = x.watch
    /\ prevCheck' = x.prevCheck /\ count' = x.count /\ server' = x.server
    /\ proxyOn' = x.proxyOn /\ disturbed' = x.disturbed

FreshId(x) ==
    LET free == SourceIds \ ({src.id : src \in x.sources} \cup {x.running})
    IN  {id \in free : Lowest(id, free)}

(* A source for the descriptor n, unless there are too many (the bound).   *)
Watching(x, n, check) ==
    {[x EXCEPT !.sources = @ \cup {Source(id, n, check)}, !.watch = id] : id \in FreshId(x)}

(* Nothing is left over from another login.                                *)
Clean(x) == x.count = 0 /\ x.prevCheck = "in" /\ x.sources = {}

(* ggadu_gadu_gadu_disconnect: the last source made is removed; gg_logoff  *)
(* cancels the resolver's thread and closes the descriptor.                *)
Disconnected(x) ==
    [x EXCEPT !.sources = {src \in @ : src.id # x.watch},
              !.open = Without(x.session, @), !.session = NoSession]

(* gadu_gadu_login: the source waits to read, whatever session->check      *)
(* says; without a session the plugin disconnects.                         *)
LogsIn(x, status) ==
    UNION {LET y == [x EXCEPT !.session = s, !.open = @ \cup ({s.fd, s.end} \ {0}),
                              !.disturbed = FALSE]
           IN  IF s.state = "none" THEN {Disconnected(y)} ELSE Watching(y, s.fd, "in") :
              s \in Login(x.open, status, x.server, x.proxyOn, Clean(x))}

(* Mutant of TriesAgain: what is asked for next is not asked any more.     *)
TriesAgainForever(x) == LogsIn(Disconnected(x), x.session.status)

(* ggadu_gadu_gadu_reconnect: session->status is not yet set in a login.   *)
TriesAgain(x) ==
    IF x.count + 1 < Tries
    THEN LogsIn([Disconnected(x) EXCEPT !.count = @ + 1], x.session.status)
    ELSE {[Disconnected(x) EXCEPT !.count = 0]}

(* Mutant of Rewatched: prev_check is updated, the source is not.          *)
RewatchedLate(x, src) ==
    {[x EXCEPT !.prevCheck = IF x.session.state = "none" THEN @ ELSE x.session.check]}

(* The end of test_chan for the source src.                                *)
Rewatched(x, src) ==
    IF x.session.state # "none" /\ x.prevCheck # x.session.check
    THEN {[y EXCEPT !.prevCheck = x.session.check, !.sources = @ \ {src}] :
             y \in Watching(x, src.fd, x.session.check)}
    ELSE {x}

(* What poll says of src: of other people's descriptors it may say anything. *)
Polled(src, error) ==
    IF src.fd # session.fd THEN src.fd \in open
    ELSE /\ \/ src.check = "in" /\ (session.inbox # "empty" \/ session.link = "answered")
            \/ src.check = "out" /\ session.link = "up"
            \/ session.link \in {"closed", "refused"}
         /\ error => session.link \in {"closed", "refused"}
         /\ session.link = "refused" => error

(* G_IO_HUP counts after gg_watch_fd unless that made a connection.        *)
HungUp(src, s) ==
    /\ src.fd = session.fd /\ session.link = "answered" /\ session.end = 0
    /\ s.state # "connecting gg" /\ s.check # "out"

(* test_chan after gg_watch_fd: an error or a lost connection drops src.   *)
Handled(src, t, error) ==
    LET x == [Present(src.id) EXCEPT !.session = t.session, !.open = t.open]
    IN  CASE t.event = "null" \/ error \/ HungUp(src, t.session) ->
                {[y EXCEPT !.sources = @ \ {src}] : y \in TriesAgain(x)}
          [] t.event = "failed" /\ ~error /\ ~HungUp(src, t.session) ->
                UNION {Rewatched(y, src) : y \in TriesAgain([x EXCEPT !.server = FALSE])}
          [] t.event = "success" /\ ~error -> Rewatched([x EXCEPT !.server = TRUE], src)
          [] OTHER -> Rewatched(x, src)

Dispatch(src, error) ==
    /\ ~fault /\ Polled(src, error) /\ session.state # "none"
    /\ \E t \in WatchFd(session, open) : \E y \in Handled(src, t, error) : Leaves(y)
    /\ UNCHANGED <<others, asked, fault>>

(* A source that a disconnection left behind finds no session.             *)
DispatchStale(src, error) ==
    /\ ~fault /\ Polled(src, error) /\ session.state = "none"
    /\ IF count + 1 < Tries
       THEN fault' = TRUE /\ UNCHANGED <<session, open, pluginVars, disturbed>>
       ELSE /\ Leaves([Disconnected(Present(src.id)) EXCEPT !.count = 0, !.sources = @ \ {src}])
            /\ UNCHANGED fault
    /\ UNCHANGED <<others, asked>>

-----------------------------------------------------------------------------
(* The user, the peers and the rest of the program                         *)

(* "change status" while not connected; a proxy may have been set.  A      *)
(* login that is pending is overwritten: its descriptor and source stay,   *)
(* and its resolver's thread runs on, to close its end of the pipe later.  *)
Overwrites(status, proxy) ==
    LogsIn([Present(0) EXCEPT !.count = 0, !.proxyOn = @ \/ proxy], status)

Ask(status, proxy) ==
    /\ ~fault /\ session.state # "connected"
    /\ asked' = status
    /\ \E x \in Overwrites(status, proxy) : Leaves(x)
    /\ others' = others \cup ({session.end} \ {0})
    /\ UNCHANGED fault

(* "change status" to an offline one, which logs in first if need be.      *)
Leave ==
    /\ ~fault /\ session.state = "connected"
    /\ Leaves(Disconnected(Present(0)))
    /\ UNCHANGED <<others, asked, fault>>

LeaveEarly(proxy) ==
    /\ ~fault /\ session.state # "connected"
    /\ \E x \in Overwrites("none", proxy) : Leaves(Disconnected(x))
    /\ others' = others \cup ({session.end} \ {0})
    /\ UNCHANGED <<asked, fault>>

(* What the other end and the kernel do to the session's descriptor.       *)
Peer(s) == session' = s /\ UNCHANGED <<open, others, pluginVars, asked, disturbed, fault>>

Resolves == session.link = "asking" /\ Peer([session EXCEPT !.link = "answered"])

ResolverExits ==
    /\ session.link = "answered" /\ session.end # 0
    /\ session' = [session EXCEPT !.end = 0]
    /\ open' = open \ {session.end}
    /\ UNCHANGED <<others, pluginVars, asked, disturbed, fault>>

Establishes(link) ==
    /\ session.link = "connecting" /\ link \in {"up", "refused"}
    /\ Peer([session EXCEPT !.link = link])

Arrives(part) ==
    /\ session.link = "up" /\ session.next # "request" /\ session.inbox # "whole"
    /\ part \in {"part", "whole"} \ {session.inbox}
    /\ Peer([session EXCEPT !.inbox = part])

Closes == session.link = "up" /\ Peer([session EXCEPT !.link = "closed"])

OtherOpens(n) ==
    /\ Lowest(n, Fds \ open) /\ Cardinality(others) < MaxOthers
    /\ open' = open \cup {n}
    /\ others' = others \cup {n}
    /\ disturbed' = TRUE
    /\ UNCHANGED <<session, pluginVars, asked, fault>>

OtherCloses(n) ==
    /\ n \in others
    /\ open' = open \ {n}
    /\ others' = others \ {n}
    /\ disturbed' = TRUE
    /\ UNCHANGED <<session, pluginVars, asked, fault>>

-----------------------------------------------------------------------------

Init ==
    /\ session = NoSession /\ others = {} /\ open = {}
    /\ sources = {} /\ watch = 0 /\ prevCheck = "in" /\ count = 0
    /\ server \in BOOLEAN /\ proxyOn = FALSE /\ asked = "none" /\ disturbed = FALSE /\ fault = FALSE

PeerActs ==
    \/ Resolves \/ ResolverExits \/ Closes
    \/ \E link \in {"up", "refused"} : Establishes(link)
    \/ \E part \in {"part", "whole"} : Arrives(part)

DispatchAny == \E src \in sources, error \in BOOLEAN : Dispatch(src, error)

Next ==
    \/ DispatchAny
    \/ \E src \in sources, error \in BOOLEAN : DispatchStale(src, error)
    \/ \E status \in Statuses, proxy \in Proxies : Ask(status, proxy)
    \/ Leave
    \/ \E proxy \in Proxies : LeaveEarly(proxy)
    \/ PeerActs
    \/ \E n \in Fds : OtherOpens(n) \/ OtherCloses(n)

(* GLib dispatches what is ready; a peer answers, or closes the connection *)
(* in the end (libgadu's timeout, which the plugin ignores, is no help).   *)
Fairness == WF_vars(DispatchAny) /\ WF_vars(PeerActs)

Spec == Init /\ [][Next]_vars /\ Fairness

-----------------------------------------------------------------------------
(***************************************************************************)
(* Properties.                                                             *)
(***************************************************************************)
Pending == session.state \notin {"none", "connected"}

(* libgadu never holds a number that another part of the program has got   *)
(* since: it closes a descriptor where it forgets it, in every state of    *)
(* gg_watch_fd and in gg_logoff, so that no close hits somebody else's.    *)
DescriptorsKept ==
    /\ others \subseteq open
    /\ session.fd \notin others /\ session.end \notin others

(* No descriptor is left open, except the resolver's end of the pipe when  *)
(* its thread is cancelled before it closes it (events.c:838,              *)
(* libgadu.c:1095), and those of a login that the plugin overwrites with   *)
(* another (gadu_gadu_plugin.c:325).                                       *)
Lost == open \ (others \cup {session.fd, session.end})

DescriptorsAccounted ==
    [][\/ Lost' \subseteq Lost \cup {session.end}
       \/ Pending /\ \E status \in Statuses, proxy \in Proxies : Ask(status, proxy)
       \/ \E proxy \in Proxies : LeaveEarly(proxy)]_vars

(* The plugin waits for what libgadu says: one source polls the descriptor *)
(* of the session for session->check, although it was made for another     *)
(* descriptor (gadu_gadu_plugin.c:333, 830), unless another part of the    *)
(* program opened or closed a descriptor meanwhile, the login went to a    *)
(* server at once, or something was left over: prev_check, or a source, as *)
(* GG_EVENT_CONN_FAILED leaves two of them to the retry (764, 824).        *)
SourceFits ==
    Pending /\ ~disturbed /\ session.fits =>
        \E src \in sources :
            sources = {src} /\ src.fd = session.fd /\ src.check = session.check

(* Who is connected without a retry has the status asked for; a retry goes *)
(* on with the status of the session, which a login has not (events.c:1482 *)
(* and gadu_gadu_plugin.c:407).                                            *)
StatusAsAsked ==
    session.state = "connected" /\ count = 0 => session.status = asked

(* A login that begins with nothing left over comes to its end, or to its  *)
(* first retry, if nobody opens or closes a descriptor for ever and the    *)
(* peers answer or hang up: each state of gg_watch_fd waits for something  *)
(* that the plugin polls.                                                  *)
LoginEnds ==
    (<>[]~disturbed /\ []~fault) => (Pending ~> ~Pending \/ ~session.fits)
=============================================================================
