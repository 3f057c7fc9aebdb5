--------------------------- MODULE JabberContacts ---------------------------
(***************************************************************************)
(* The contacts of the Jabber plugin: the server's roster, the repository  *)
(* "jabber", which the GUI shows, the queue of requests that wait for an   *)
(* answer (jabber_protocol.c), and the callbacks for rosters and presence  *)
(* (jabber_cb.c).                                                          *)
(*                                                                         *)
(* Requests of one kind all have the same id, and answers are given to the *)
(* first entry of the queue that has it.  Errors are no answers, and the   *)
(* queue outlives the connection.                                          *)
(*                                                                         *)
(* External: Loudmouth hands over one stanza at a time; the server answers *)
(* requests in their order, pushes changes of the roster to all clients of *)
(* the account before it answers the one that made them, and sends the     *)
(* presence of the contacts after the client's own.  What it sends in one  *)
(* go about several contacts is one stanza here.                           *)
(*                                                                         *)
(* Not modelled: nicks, descriptions, resources and versions, requests for *)
(* authorization made by others, transports, and the login (Jabber).       *)
(***************************************************************************)
EXTENDS Naturals, Sequences, SequencesExt, FiniteSets

CONSTANTS
    People,
    Restless,    \* those of them about whom others do something
    MaxStanzas,  \* bound on what is under way, in each direction
    MaxQueue,    \* bound on the requests that wait for an answer
    MaxRemovals  \* bound on the dialogs that ask whether to remove contacts

ASSUME PeopleAssumption == IsFiniteSet(People) /\ Restless \subseteq People

VARIABLES
    linked,      \* the connection is authenticated
    listed,      \* the repository: the status of each contact that is in it
    queue,       \* jabber_data.actions: id and data
    removals,    \* dialogs "user remove action": the selected contacts
    roster,      \* the server's: the subscription of each contact
    presence,    \* of everybody, as his server knows it
    available,   \* the client's presence has reached the server
    toServer, toClient,
    orphaned,    \* history: ids with an entry in the queue that nobody will answer
    strays,      \* history: contacts that changed while the program did not look
    unseen       \* history: contacts whose presence did

rosterVars == <<linked, listed, queue, removals, roster, presence, available, toServer, toClient,
                orphaned, strays, unseen>>
serverSide == <<roster, presence, available>>
histories  == <<orphaned, strays, unseen>>

NoOne == "no one"

(* Entries of the queue, and stanzas.                                      *)
Requests == {"fetch_roster", "roster_add", "roster_remove"}

Wait(id, c)              == [id |-> id, data |-> c]
Stanza(kind, id, c, what) == [kind |-> kind, id |-> id, who |-> c, what |-> what]
Request(id, c)           == Stanza("request", id, c, {})
Announce(cs)             == Stanza("presence", "presence", NoOne, cs)    \* and probes of cs
Probe(c)                 == Request("probe", c)

(* What the repository shows of a contact, before a presence arrives.      *)
Shown(subscription) == IF subscription = "none" THEN "noauth" ELSE "off"

Offer(pkts)   == Len(toServer) + Len(pkts) <= MaxStanzas /\ toServer' = toServer \o pkts
Deliver(pkts) == Len(toClient) + Len(pkts) <= MaxStanzas /\ toClient' = toClient \o pkts

(* action_queue_add                                                        *)
Enqueue(entries) == Len(queue) + Len(entries) <= MaxQueue /\ queue' = queue \o entries

-----------------------------------------------------------------------------
(* The connection                                                          *)

(* connection_auth_cb asks for the roster (jabber_fetch_roster).           *)
Authenticate ==
    /\ ~linked /\ linked' = TRUE
    /\ toServer' = <<Request("fetch_roster", NoOne)>>
    /\ Enqueue(<<Wait("fetch_roster", NoOne)>>)
    /\ UNCHANGED <<listed, removals, serverSide, toClient, histories>>

(* The connection ends: what is under way is lost, and requests that were  *)
(* not answered stay in the queue.                                         *)
Cut ==
    /\ linked /\ linked' = FALSE /\ available' = FALSE
    /\ toServer' = <<>> /\ toClient' = <<>>
    /\ orphaned' = orphaned \cup {queue[i].id : i \in DOMAIN queue}
    /\ UNCHANGED <<queue, removals, roster, presence>>

(* jabber_disconnect_cb before a reconnection: contacts are kept.          *)
CutOff ==
    /\ Cut
    /\ strays' = DOMAIN listed /\ unseen' = DOMAIN listed
    /\ UNCHANGED listed

(* Mutant of SignOff: the contacts are kept, as for a reconnection.        *)
SignOffKeeps == Cut /\ UNCHANGED listed /\ strays' = {} /\ unseen' = {}

(* jabber_disconnect_cb without one: the repository is deleted and added.  *)
SignOff == Cut /\ listed' = <<>> /\ strays' = {} /\ unseen' = {}

-----------------------------------------------------------------------------
(* The user                                                                *)

(* "add user", to add a contact or to edit one.                            *)
AddUser(c) ==
    /\ linked
    /\ Enqueue(<<Wait("roster_add", c)>>)
    /\ Offer(<<Request("roster_add", c)>>)
    /\ UNCHANGED <<linked, listed, removals, serverSide, toClient, histories>>

(* user_ask_remove_action                                                  *)
AskRemoval(cs) ==
    /\ cs # {} /\ cs \subseteq DOMAIN listed
    /\ Cardinality(removals) < MaxRemovals /\ removals' = removals \cup {cs}
    /\ UNCHANGED <<linked, listed, queue, serverSide, toServer, toClient, histories>>

(* "user remove action": one request for each of them, if there is a       *)
(* connection when the dialog is answered.                                 *)
AnswerRemoval(cs, ok) ==
    /\ cs \in removals /\ removals' = removals \ {cs}
    /\ IF ok /\ linked
       THEN \E all \in SetToSeqs(cs) :
                /\ Offer([i \in DOMAIN all |-> Request("roster_remove", all[i])])
                /\ Enqueue([i \in DOMAIN all |-> Wait("roster_remove", all[i])])
       ELSE UNCHANGED <<toServer, queue>>
    /\ UNCHANGED <<linked, listed, serverSide, toClient, histories>>

-----------------------------------------------------------------------------
(* Stanzas that arrive                                                     *)

Arrives(kind) == linked /\ toClient # <<>> /\ Head(toClient).kind = kind

(* Mutant of Taken: the last request of its kind is taken.                 *)
TakenLast(id) == SelectLastInSeq(queue, LAMBDA e : e.id = id)

(* iq_cb: the place of the first entry with that id, 0 if there is none.   *)
Taken(id) == SelectInSeq(queue, LAMBDA e : e.id = id)

(* iq_roster_cb for items, a function like roster: a contact that is known *)
(* keeps its status unless it is not authorized.                           *)
Merged(items) ==
    [c \in DOMAIN listed \cup DOMAIN items |->
        IF c \notin DOMAIN items THEN listed[c]
        ELSE IF c \in DOMAIN listed /\ items[c] # "none" THEN listed[c]
        ELSE Shown(items[c])]

(* action_roster_fetch_result sets the status, which the server is told,   *)
(* and lists the contacts; the first time, all are asked for theirs.       *)
RosterIsHere ==
    /\ Arrives("roster")
    /\ LET items == Head(toClient).what
           at == Taken("fetch_roster")
       IN  /\ queue' = RemoveAt(queue, at)
           /\ listed' = Merged(items)
           /\ Offer(<<Announce(IF listed = <<>> THEN DOMAIN items ELSE {})>>)
           /\ strays' = (strays \cap DOMAIN listed) \ DOMAIN items
    /\ toClient' = Tail(toClient)
    /\ UNCHANGED <<linked, removals, serverSide, orphaned, unseen>>

(* iq_roster_cb for a change of the roster.  It returns at an item that is *)
(* to be removed; the first contact of all is asked for his status.        *)
Pushed ==
    /\ Arrives("push")
    /\ LET item == Head(toClient)
       IN  IF item.what = "remove"
           THEN strays' = strays \cup ({item.who} \cap DOMAIN listed) /\ UNCHANGED <<listed, toServer>>
           ELSE /\ listed' = Merged([c \in {item.who} |-> item.what])
                /\ strays' = strays \ {item.who}
                /\ IF listed = <<>> THEN Offer(<<Probe(item.who)>>) ELSE UNCHANGED toServer
    /\ toClient' = Tail(toClient)
    /\ UNCHANGED <<linked, queue, removals, serverSide, orphaned, unseen>>

(* iq_cb with action_roster_add_result or action_roster_remove_result,     *)
(* which deletes the contact named in the entry.                           *)
Answered ==
    /\ Arrives("result")
    /\ LET reply == Head(toClient)
           at == Taken(reply.id)
           c == queue[at].data
       IN  IF at = 0 THEN UNCHANGED <<queue, listed, strays, unseen>>
           ELSE /\ queue' = RemoveAt(queue, at)
                /\ IF reply.id # "roster_remove" THEN UNCHANGED <<listed, strays, unseen>>
                   ELSE /\ listed' = [d \in DOMAIN listed \ {c} |-> listed[d]]
                        /\ IF c = reply.who THEN strays' = strays \ {c} /\ UNCHANGED unseen
                           ELSE strays' = strays \cup {c, reply.who} /\ unseen' = unseen \cup {c}
    /\ toClient' = Tail(toClient)
    /\ UNCHANGED <<linked, removals, serverSide, toServer, orphaned>>

(* iq_cb waits for results: an error leaves the request in the queue.      *)
Refused ==
    /\ Arrives("error")
    /\ orphaned' = orphaned \cup {Head(toClient).id}
    /\ toClient' = Tail(toClient)
    /\ UNCHANGED <<linked, listed, queue, removals, serverSide, toServer, strays, unseen>>

(* presence_cb, for contacts that are in the repository.                   *)
PresenceIsHere ==
    /\ Arrives("presence")
    /\ LET on == Head(toClient).what
       IN  /\ listed' = [c \in DOMAIN listed |-> IF c \in DOMAIN on THEN on[c] ELSE listed[c]]
           /\ unseen' = unseen \ (DOMAIN on \cap DOMAIN listed)
    /\ toClient' = Tail(toClient)
    /\ UNCHANGED <<linked, queue, removals, serverSide, toServer, orphaned, strays>>

-----------------------------------------------------------------------------
(* The server, and everybody else                                          *)

Answer(kind, request)  == Stanza(kind, request.id, request.who, {})
RosterOf(request)      == Stanza("roster", request.id, NoOne, roster)
Push(c, subscription)  == Stanza("push", "push", c, subscription)
Report(cs)             == Stanza("presence", "presence", NoOne, [c \in cs |-> presence'[c]])

Granted == {c \in DOMAIN roster : roster[c] = "both"}

(* The roster with c, who has authorized nobody yet, and without him.      *)
With(c)    == [d \in DOMAIN roster \cup {c} |-> IF d = c THEN "none" ELSE roster[d]]
Without(c) == [d \in DOMAIN roster \ {c} |-> roster[d]]

Serves(id) == toServer # <<>> /\ Head(toServer).id = id /\ toServer' = Tail(toServer)

ServesRoster ==
    /\ Serves("fetch_roster")
    /\ Deliver(<<RosterOf(Head(toServer))>>)
    /\ UNCHANGED <<linked, listed, queue, removals, serverSide, histories>>

(* The client's presence: it is sent those of the contacts that are there, *)
(* and of those it probed.                                                 *)
ServesPresence ==
    /\ Serves("presence") /\ available' = TRUE
    /\ UNCHANGED presence
    /\ LET cs == {c \in Granted : presence[c] = "on" \/ c \in Head(toServer).what}
       IN  Deliver(IF cs = {} THEN <<>> ELSE <<Report(cs)>>)
    /\ UNCHANGED <<linked, listed, queue, removals, roster, histories>>

ServesProbe ==
    /\ Serves("probe")
    /\ UNCHANGED presence
    /\ LET c == Head(toServer).who
       IN  IF available /\ c \in Granted THEN Deliver(<<Report({c})>>) ELSE UNCHANGED toClient
    /\ UNCHANGED <<linked, listed, queue, removals, roster, available, histories>>

ServesAdd ==
    /\ Serves("roster_add")
    /\ LET request == Head(toServer)
           c == request.who
       IN  /\ roster' = IF c \in DOMAIN roster THEN roster ELSE With(c)
           /\ Deliver(<<Push(c, roster'[c]), Answer("result", request)>>)
    /\ UNCHANGED <<linked, listed, queue, removals, presence, available, histories>>

ServesRemove ==
    /\ Serves("roster_remove")
    /\ LET request == Head(toServer)
           c == request.who
       IN  IF c \in DOMAIN roster
           THEN /\ roster' = Without(c)
                /\ Deliver(<<Push(c, "remove"), Answer("result", request)>>)
           ELSE Deliver(<<Answer("error", request)>>) /\ UNCHANGED roster
    /\ UNCHANGED <<linked, listed, queue, removals, presence, available, histories>>

(* The server pushes to clients that asked for the roster.                 *)
Interested == linked /\ \A i \in DOMAIN toServer : toServer[i].id # "fetch_roster"

Elsewhere(c, r, pkts) ==
    /\ roster' = r
    /\ IF Interested THEN Deliver(pkts) ELSE UNCHANGED toClient
    /\ UNCHANGED <<linked, listed, queue, removals, presence, available, toServer, histories>>

(* Another client of the account adds or removes a contact.                *)
AddedElsewhere(c) ==
    c \notin DOMAIN roster /\ Elsewhere(c, With(c), <<Push(c, "none")>>)
RemovedElsewhere(c) ==
    c \in DOMAIN roster
    /\ Elsewhere(c, Without(c), <<Push(c, "remove")>>)

(* A contact allows his presence to be seen, or no longer.                 *)
Authorizes(c) ==
    /\ c \in DOMAIN roster \ Granted
    /\ UNCHANGED presence
    /\ Elsewhere(c, [roster EXCEPT ![c] = "both"],
                 IF available /\ presence[c] = "on" THEN <<Push(c, "both"), Report({c})>>
                                                    ELSE <<Push(c, "both")>>)
Withdraws(c) ==
    c \in Granted /\ Elsewhere(c, [roster EXCEPT ![c] = "none"], <<Push(c, "none")>>)

ComesOrGoes(c) ==
    /\ presence' = [presence EXCEPT ![c] = IF @ = "on" THEN "off" ELSE "on"]
    /\ IF available /\ c \in Granted THEN Deliver(<<Report({c})>>) ELSE UNCHANGED toClient
    /\ UNCHANGED <<linked, listed, queue, removals, roster, available, toServer, histories>>

-----------------------------------------------------------------------------

RosterInit ==
    /\ linked = FALSE /\ listed = <<>> /\ queue = <<>> /\ removals = {}
    /\ roster = [c \in People |-> "both"] /\ presence = [c \in People |-> "off"]
    /\ available = FALSE /\ toServer = <<>> /\ toClient = <<>>
    /\ orphaned = {} /\ strays = {} /\ unseen = {}

RosterNext ==
    \/ Authenticate \/ CutOff \/ SignOff
    \/ RosterIsHere \/ Pushed \/ Answered \/ Refused \/ PresenceIsHere
    \/ ServesRoster \/ ServesPresence \/ ServesProbe \/ ServesAdd \/ ServesRemove
    \/ \E c \in People : AddUser(c)
    \/ \E c \in Restless :
          \/ AddedElsewhere(c) \/ RemovedElsewhere(c)
          \/ Authorizes(c) \/ Withdraws(c) \/ ComesOrGoes(c)
    \/ \E cs \in SUBSET People : AskRemoval(cs) \/ \E ok \in BOOLEAN : AnswerRemoval(cs, ok)

RosterSpec == RosterInit /\ [][RosterNext]_rosterVars

-----------------------------------------------------------------------------
(***************************************************************************)
(* Properties.                                                             *)
(***************************************************************************)
Settled == linked /\ available /\ toServer = <<>> /\ toClient = <<>>

(* What waits in the queue for the answers to one kind of requests is what *)
(* is under way, in that order, so that each answer is given to the        *)
(* request it answers, although all of them have one id (iq_cb,            *)
(* jabber_cb.c:453), until an answer is an error or is lost with the       *)
(* connection.  Then every answer is given to an older request, for ever.  *)
Underway == toClient \o toServer

Places(s, id) == {i \in DOMAIN s : s[i].id = id}

(* Entries and stanzas of one id correspond, in their order.               *)
Matched(entries, stanzas, id) ==
    \E at \in [Places(entries, id) -> Places(stanzas, id)] :
        /\ \A i, j \in DOMAIN at : i < j => at[i] < at[j]
        /\ \A k \in Places(stanzas, id) : \E i \in DOMAIN at : at[i] = k
        /\ \A i \in DOMAIN at : entries[i].data = stanzas[at[i]].who

AnswersMatch == \A id \in Requests \ orphaned : Matched(queue, Underway, id)

(* When nothing is under way the contacts shown are those of the server,   *)
(* whatever overlapped, and the status shown of an authorized one is what  *)
(* his server knows.  Except for contacts that another client removed,     *)
(* which iq_roster_cb ignores (jabber_cb.c:958), those removed while the   *)
(* connection was lost, and those an answer was mistaken about; those of   *)
(* whom no presence arrived since a connection was lost that was made      *)
(* again seem to be there still, and who is away when he gives his         *)
(* authorization seems not to have given it.                               *)
RosterShown ==
    Settled =>
        \A c \in People \ strays :
            /\ c \in DOMAIN listed <=> c \in DOMAIN roster
            /\ c \in (Granted \cap DOMAIN listed) \ unseen =>
                  \/ listed[c] = presence[c]
                  \/ listed[c] = "noauth" /\ presence[c] = "off"
=============================================================================
