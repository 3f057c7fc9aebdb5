------------------------------- MODULE Jabber -------------------------------
(***************************************************************************)
(* The connection of the Jabber plugin: login threads (jabber_login.c),    *)
(* the callbacks of the connection (jabber_cb.c), changes of status and    *)
(* the queue of requests that wait for an answer (jabber_protocol.c), and  *)
(* the GUI's view of it.                                                   *)
(*                                                                         *)
(* Login threads run beside the main thread and one at a time, under the   *)
(* connect_mutex of jabber_login_connect.  Callbacks of the connection run *)
(* in the main thread, each to its end; a connection that is closed calls  *)
(* jabber_disconnect_cb in the thread that closes it.  Loudmouth is        *)
(* external: a connection opens, authenticates, answers, fails or is lost. *)
(*                                                                         *)
(* Not modelled: contacts, messages and the other requests of the queue,   *)
(* descriptions, TLS, and the main loops nested in the callbacks.          *)
(***************************************************************************)
EXTENDS Naturals, Sequences

CONSTANTS
    Conns,       \* connections; one that is lost may be made again
    MaxLogins,   \* bound on the login threads alive at a time
    MaxActions,  \* bound on the requests that wait for an answer
    Wanted,      \* the statuses other than "unavailable"
    MaxRetries   \* 3 in the code

VARIABLES
    conn,        \* jabber_data.connection, 0 for NULL
    link,        \* each connection: its phase and the status its login is for
    owed,        \* of each, since it was opened: requests of the roster
    handlers,    \* the message handlers exist (iq_handler and the rest)
    registered,  \* the connections they are registered with
    logins,      \* login threads, those that wait for connect_mutex in order
    status,      \* jabber_data.status
    retries,     \* reconnect_count
    actions,     \* jabber_data.actions: the statuses of "fetch_roster"
    shown,       \* the status the GUI shows
    mail,        \* "gui disconnected" signals of threads, not yet delivered
    asked,       \* the status the user asked for last, unless hasty
    hasty,       \* the user asked again before that was done
    trouble      \* "failed": a login did; "lost": a connection that was open was

connVars  == <<conn, link, owed, handlers, registered>>
dataVars  == <<status, retries, actions>>
guiVars   == <<shown, mail>>
ghostVars == <<asked, hasty, trouble>>
jabberVars == <<connVars, logins, dataVars, guiVars, ghostVars>>

Off      == "unavailable"
Statuses == Wanted \cup {Off}

(* lm_connection_is_open, lm_connection_is_authenticated                   *)
Open(c)   == c # 0 /\ link[c].phase \in {"open", "authenticating", "online"}
Online(c) == c # 0 /\ link[c].phase = "online"
Live(c)   == c # 0 /\ link[c].phase \in {"opening", "open", "authenticating", "online"}

NoLink == [phase |-> "closed", want |-> Off]

Login(s, at) == [status |-> s, at |-> at]

-----------------------------------------------------------------------------
(* g_thread_create (jabber_login_connect, s)                               *)
Spawns(s) ==
    /\ Len(logins) < MaxLogins
    /\ logins' = Append(logins, Login(s, "start"))

Troubled(kind) == trouble' = trouble \cup {kind}

Tells == mail' = IF mail < MaxLogins THEN mail + 1 ELSE mail

(* Mutant of Unregisters: the handlers are kept for another time.          *)
UnregistersKeeps(c) == handlers' = handlers /\ registered' = registered \ {c}

(* jabber_disconnect_cb unregisters the handlers from the connection it is *)
(* called for and forgets them.                                            *)
Unregisters(c) ==
    /\ handlers' = FALSE
    /\ registered' = registered \ {c}

Shuts(c) == link' = [link EXCEPT ![c] = NoLink]

(* Mutant of GivesUp: the status is kept, as for a reconnection.           *)
GivesUpKeepsStatus(c) ==
    /\ Shuts(c) /\ Unregisters(c)
    /\ retries' = 0 /\ status' = status
    /\ Tells

(* It gives up: reason LM_DISCONNECT_REASON_OK, or one reconnection after  *)
(* another.                                                                *)
GivesUp(c) ==
    /\ Shuts(c) /\ Unregisters(c)
    /\ retries' = 0 /\ status' = Off
    /\ Tells

(* lm_connection_close                                                     *)
ClosesConn(c) ==
    IF Open(c) THEN GivesUp(c)
    ELSE UNCHANGED <<link, handlers, registered, retries, status, mail>>

(* jabber_change_status                                                    *)
ChangesStatus(s) ==
    \/ /\ s = Off /\ status = Off
       /\ shown' = Off
       /\ UNCHANGED <<link, handlers, registered, logins, retries, status, mail>>
    \/ /\ s = Off /\ status # Off
       /\ ClosesConn(conn)
       /\ UNCHANGED <<logins, shown>>
    \/ /\ s # Off /\ status = Off /\ ~Online(conn)
       /\ Spawns(s)
       /\ UNCHANGED <<link, handlers, registered, retries, status, mail, shown>>
    \/ /\ s # Off /\ status # Off /\ ~Online(conn)
       /\ UNCHANGED <<link, handlers, registered, logins, retries, status, mail, shown>>
    \/ /\ s # Off /\ Online(conn)
       /\ status' = s /\ shown' = s
       /\ UNCHANGED <<link, handlers, registered, logins, retries, mail>>

-----------------------------------------------------------------------------
(* The user                                                                *)

Busy ==
    \/ logins # <<>>
    \/ \E c \in Conns : Live(c) /\ (Online(c) => owed[c] > 0)

Asks(s) == hasty' = (hasty \/ Busy) /\ asked' = IF hasty' THEN Off ELSE s

(* "change status"                                                         *)
Ask(s) ==
    /\ ChangesStatus(s)
    /\ Asks(s)
    /\ UNCHANGED <<conn, owed, actions, trouble>>

(* The preferences are changed so that the plugin has to connect anew.     *)
Reconfigure ==
    /\ status # Off
    /\ ClosesConn(conn)
    /\ Spawns("available")
    /\ Asks("available")
    /\ UNCHANGED <<conn, owed, actions, shown, trouble>>

(* The signal of a thread reaches the GUI.                                 *)
Told ==
    /\ mail > 0 /\ mail' = mail - 1
    /\ shown' = Off
    /\ UNCHANGED <<connVars, logins, dataVars, ghostVars>>

-----------------------------------------------------------------------------
(* jabber_login_connect: the first thread in line has connect_mutex.       *)

At(place) == logins # <<>> /\ Head(logins).at = place
MovesTo(place) == logins' = [logins EXCEPT ![1].at = place]
Leaves == logins' = Tail(logins)

(* The configuration lacks a JID, a password or a server.                  *)
LoginImpossible ==
    /\ At("start") /\ Leaves /\ Tells
    /\ Troubled("failed")
    /\ UNCHANGED <<connVars, dataVars, shown, asked, hasty>>

(* A connection that is not open is replaced, and never freed.             *)
LoginBegins(c) ==
    /\ At("start") /\ ~Open(conn)
    /\ c # conn /\ ~Live(c)
    /\ conn' = c
    /\ registered' = registered \ {c}
    /\ MovesTo("register")
    /\ UNCHANGED <<link, owed, handlers, dataVars, guiVars, ghostVars>>

(* An open one is used again, and closed first if the server is another.   *)
LoginAgain(moved) ==
    /\ At("start") /\ Open(conn)
    /\ IF moved THEN ClosesConn(conn)
       ELSE UNCHANGED <<link, handlers, registered, retries, status, mail>>
    /\ MovesTo("register")
    /\ UNCHANGED <<conn, owed, actions, shown, ghostVars>>

(* Handlers that exist already are not registered with the connection.     *)
LoginRegisters ==
    /\ At("register")
    /\ handlers' = TRUE
    /\ registered' = IF handlers THEN registered ELSE registered \cup {conn}
    /\ MovesTo("open")
    /\ UNCHANGED <<conn, link, owed, dataVars, guiVars, ghostVars>>

LoginOpens ==
    /\ At("open") /\ link[conn].phase = "closed" /\ Leaves
    /\ link' = [link EXCEPT ![conn] =
                   [phase |-> "opening", want |-> Head(logins).status]]
    /\ owed' = [owed EXCEPT ![conn] = 0]
    /\ UNCHANGED <<conn, handlers, registered, dataVars, guiVars, ghostVars>>

(* lm_connection_open fails, as it always does for a connection in use.    *)
LoginFails ==
    /\ At("open") /\ Leaves /\ Tells
    /\ Troubled("failed")
    /\ UNCHANGED <<connVars, dataVars, shown, asked, hasty>>

-----------------------------------------------------------------------------
(* The callbacks of a connection, and the server                           *)

(* connection_open_result_cb, and lm_connection_authenticate in it.        *)
Opened(c) ==
    /\ link[c].phase = "opening"
    /\ link' = [link EXCEPT ![c].phase = "authenticating"]
    /\ UNCHANGED <<conn, owed, handlers, registered, logins, dataVars, guiVars, ghostVars>>

AuthenticationNotSent(c) ==
    /\ link[c].phase = "opening"
    /\ link' = [link EXCEPT ![c].phase = "open"]
    /\ Troubled("failed")
    /\ UNCHANGED <<conn, owed, handlers, registered, logins, dataVars, guiVars, asked, hasty>>

(* Nobody is told.                                                         *)
OpeningFails(c) ==
    /\ link[c].phase = "opening"
    /\ link' = [link EXCEPT ![c] = NoLink]
    /\ Troubled("failed")
    /\ UNCHANGED <<conn, owed, handlers, registered, logins, dataVars, guiVars, asked, hasty>>

(* Mutant of Authenticated: the status is the present one, not the login's. *)
AuthenticatedPresent(c) ==
    /\ link[c].phase = "authenticating" /\ Len(actions) < MaxActions
    /\ link' = [link EXCEPT ![c].phase = "online"]
    /\ IF Open(conn)
       THEN /\ actions' = Append(actions, status)
            /\ owed' = [owed EXCEPT ![conn] = @ + 1]
       ELSE UNCHANGED <<actions, owed>>
    /\ UNCHANGED <<conn, handlers, registered, logins, status, retries, guiVars, ghostVars>>

(* connection_auth_cb and jabber_fetch_roster, which asks for the roster   *)
(* on jabber_data.connection.                                              *)
Authenticated(c) ==
    /\ link[c].phase = "authenticating" /\ Len(actions) < MaxActions
    /\ link' = [link EXCEPT ![c].phase = "online"]
    /\ IF Open(conn)
       THEN /\ actions' = Append(actions, link[c].want)
            /\ owed' = [owed EXCEPT ![conn] = @ + 1]
       ELSE UNCHANGED <<actions, owed>>
    /\ UNCHANGED <<conn, handlers, registered, logins, status, retries, guiVars, ghostVars>>

AuthenticationRefused(c) ==
    /\ link[c].phase = "authenticating"
    /\ GivesUp(c)
    /\ Troubled("failed")
    /\ UNCHANGED <<conn, owed, logins, actions, shown, asked, hasty>>

(* iq_cb: the first entry of the queue is taken for the one that asked;    *)
(* then iq_roster_cb.  A connection without handlers ignores the answer.   *)
RosterArrives(c) ==
    /\ Online(c) /\ owed[c] > 0
    /\ owed' = [owed EXCEPT ![c] = @ - 1]
    /\ IF c \in registered /\ actions # <<>>
       THEN ChangesStatus(Head(actions)) /\ actions' = Tail(actions)
       ELSE UNCHANGED <<link, handlers, registered, logins, dataVars, guiVars>>
    /\ UNCHANGED <<conn, ghostVars>>

(* An error is no answer that the queue waits for.                         *)
RosterRefused(c) ==
    /\ Online(c) /\ owed[c] > 0
    /\ owed' = [owed EXCEPT ![c] = @ - 1]
    /\ Troubled("failed")
    /\ UNCHANGED <<conn, link, handlers, registered, logins, dataVars, guiVars, asked, hasty>>

(* Mutant of Lost: reconnections are not counted.                          *)
LostUncounted(c) ==
    /\ Open(c) /\ Shuts(c) /\ Unregisters(c) /\ Spawns(status)
    /\ Troubled("lost")
    /\ UNCHANGED <<conn, owed, dataVars, guiVars, asked, hasty>>

(* jabber_disconnect_cb, for any reason but LM_DISCONNECT_REASON_OK.       *)
Lost(c) ==
    /\ Open(c)
    /\ IF retries < MaxRetries
       THEN /\ Shuts(c) /\ Unregisters(c)
            /\ retries' = retries + 1 /\ Spawns(status)
            /\ UNCHANGED <<status, mail>>
       ELSE GivesUp(c) /\ UNCHANGED logins
    /\ Troubled("lost")
    /\ UNCHANGED <<conn, owed, actions, shown, asked, hasty>>

-----------------------------------------------------------------------------

JabberInit ==
    /\ conn = 0 /\ link = [c \in Conns |-> NoLink]
    /\ handlers = FALSE /\ registered = {} /\ owed = [c \in Conns |-> 0]
    /\ logins = <<>> /\ status = Off /\ retries = 0 /\ actions = <<>>
    /\ shown = Off /\ mail = 0
    /\ asked = Off /\ hasty = FALSE /\ trouble = {}

UserAsks == (\E s \in Statuses : Ask(s)) \/ Reconfigure

LoginThread ==
    \/ \E c \in Conns : LoginBegins(c)
    \/ \E moved \in BOOLEAN : LoginAgain(moved)
    \/ LoginRegisters \/ LoginOpens

Answers(c) == Opened(c) \/ Authenticated(c) \/ RosterArrives(c)

JabberNext ==
    \/ UserAsks \/ Told
    \/ LoginThread \/ LoginImpossible \/ LoginFails
    \/ \E c \in Conns :
          \/ Answers(c) \/ Lost(c)
          \/ OpeningFails(c) \/ AuthenticationNotSent(c)
          \/ AuthenticationRefused(c) \/ RosterRefused(c)

(* Threads run, the main loop delivers signals, and the server answers.    *)
JabberFairness ==
    /\ WF_jabberVars(LoginThread) /\ WF_jabberVars(Told)
    /\ \A c \in Conns : WF_jabberVars(Answers(c))

JabberSpec == JabberInit /\ [][JabberNext]_jabberVars /\ JabberFairness

-----------------------------------------------------------------------------
(***************************************************************************)
(* Properties.                                                             *)
(***************************************************************************)
Quiet == ~Busy /\ mail = 0

(* The connection in use is the only one, and the handlers are registered  *)
(* with it, reconnections included, unless the user asked for a status     *)
(* while a login was pending (jabber_login.c:100) or an attempt failed     *)
(* before, of which nobody is told: the handlers are then kept for a       *)
(* connection that is gone (jabber_login.c:178, jabber_cb.c:253).          *)
HandlersFollow ==
    ~hasty =>
        /\ \A c \in Conns : Live(c) => c = conn
        /\ Online(conn) /\ "failed" \notin trouble => conn \in registered

(* The program is not stuck: if nothing is under way and there is no       *)
(* connection, the status is unavailable, in the program and in the GUI,   *)
(* so that the next status asked for begins a login (jabber_protocol.c:115).*)
(* Only when a connection was lost and another attempt failed is the old   *)
(* status kept, and nothing but a new configuration helps.                 *)
StatusBacked ==
    Quiet /\ ~Online(conn) /\ ~({"lost", "failed"} \subseteq trouble) =>
        status = Off /\ shown = Off

(* The program does not reconnect for ever on its own: a connection is     *)
(* lost again and again only if the user asks again and again              *)
(* (reconnect_count, jabber_cb.c:88).                                      *)
ReconnectsEnd ==
    []<><<\E c \in Conns : Lost(c)>>_jabberVars => []<><<UserAsks>>_jabberVars

(* A status that is asked for when nothing is under way is set in the end, *)
(* in the program, if nothing fails, through the login thread, three       *)
(* answers of the server and the queue of requests.                        *)
AskedIsSet ==
    [](~hasty /\ trouble = {}) =>
        \A s \in Wanted : asked = s ~> status = s \/ asked # s
=============================================================================
