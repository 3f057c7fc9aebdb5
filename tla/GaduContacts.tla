---------------------------- MODULE GaduContacts ----------------------------
(***************************************************************************)
(* The contacts of the Gadu-Gadu plugin: the list in the repository, the   *)
(* server's list of those whose presence it reports, and the copy that the *)
(* user can keep on the server (export, import).                           *)
(*                                                                         *)
(* Both directions of the connection are sequences of whole packets, see   *)
(* GaduPackets.  The server is external: it handles the packets one after  *)
(* another and answers each at once.  Logging in and losing the connection *)
(* are one step each, see GaduSession and GaduLogin.                       *)
(*                                                                         *)
(* Lists of contacts are sets: which of them share a packet is left open.  *)
(*                                                                         *)
(* Not modelled: names and the other data of a contact, descriptions,      *)
(* messages, and lines of a list that are no contacts with a number.       *)
(***************************************************************************)
EXTENDS Integers, Sequences, SequencesExt, FiniteSets

CONSTANTS
    Contacts,    \* numbers of people
    NotifyPart,  \* contacts in a packet of gg_notify, 400 in the code
    ListPart,    \* contacts in a packet of a list, 2047 bytes in the code
    ImportLines, \* contacts an import looks at, 1000 in the code
    MaxSent,     \* bound on the packets under way to the server,
    MaxAnswers,  \* and on those under way from it, before another is sent
    MaxLists,    \* bound on the packets of lists under way, before another is asked for
    MaxDialogs,  \* bound on the questions that wait for an answer
    MaxAdding    \* bound on the additions whose emission has not returned

ASSUME ContactAssumption == IsFiniteSet(Contacts) /\ ImportLines \in Nat

VARIABLES
    up,          \* connected && session
    contacts,    \* those of the repository
    status,      \* of each, as the repository has it
    toServer, toClient,
    watched,     \* the server reports the presence of these
    presence,    \* as the server knows it
    stored,      \* the list kept on the server
    blocks,      \* sess->userlist_blocks
    reply,       \* sess->userlist_reply, {} for NULL
    adding,      \* "add user search" whose emission has not returned, innermost last
    dialogs,     \* questions whether a contact is to be removed
    answers,     \* history: the lists the server has sent and nobody imported
    strays,      \* history: the server was told of them, after they were removed
    late,        \* history: added again before the server had forgotten them
    kept,        \* history: shown as available since a connection that ended unseen
    contactFault \* memory of a contact was used after it was freed

linkVars    == <<up, blocks, reply>>
listVars    == <<contacts, status>>
serverVars  == <<watched, presence, stored>>
historyVars == <<answers, strays, late, kept>>
contactVars == <<linkVars, listVars, toServer, toClient, serverVars, adding, dialogs,
                 historyVars, contactFault>>

Packet(is, of) == [is |-> is, of |-> of]

(* The contacts cs in parts of n, the last one of at most n.               *)
Parts(cs, n) ==
    UNION {{parts \in [1..k -> SUBSET cs] :
               /\ UNION {parts[i] : i \in 1..k} = cs
               /\ \A i \in 1..k :
                     /\ parts[i] # {} /\ Cardinality(parts[i]) <= n
                     /\ i < k => Cardinality(parts[i]) = n
                     /\ \A j \in 1..(i - 1) : parts[i] \cap parts[j] = {}} :
           k \in 0..Cardinality(cs)}

(* Mutant of Notify: the list ends with its first full part.               *)
NotifyFirst(cs) ==
    IF cs = {} THEN {<<Packet("list_empty", {})>>}
    ELSE {<<Packet("notify_last", parts[1])>> : parts \in Parts(cs, NotifyPart)}

(* gg_notify                                                               *)
Notify(cs) ==
    IF cs = {} THEN {<<Packet("list_empty", {})>>}
    ELSE {[i \in DOMAIN parts |->
              Packet(IF i < Len(parts) THEN "notify_first" ELSE "notify_last", parts[i])] :
          parts \in Parts(cs, NotifyPart)}

(* A list of contacts in parts, of which there is at least one.            *)
Sheets(cs) == IF cs = {} THEN {<<{}>>} ELSE Parts(cs, ListPart)

(* gg_userlist_request (GG_USERLIST_PUT, list)                             *)
Put(cs) ==
    {[i \in DOMAIN parts |-> Packet(IF i = 1 THEN "put" ELSE "put_more", parts[i])] :
     parts \in Sheets(cs)}

Works == contactFault = FALSE
Roomy == Len(toServer) < MaxSent

OfLists == {"put", "put_more", "put_reply", "put_more_reply", "get", "get_more_reply", "get_reply"}
Lists   == SelectSeq(toClient \o toServer, LAMBDA p : p.is \in OfLists)

Sends(packets) == toServer' = IF up THEN toServer \o packets ELSE toServer

Notices(parts) == [i \in DOMAIN parts |-> Packet("add", parts[i])]

(* gg_add_notify, for each of them, and gg_remove_notify, if connected     *)
SendsAdd(cs)   == \E parts \in Parts(cs, 1) : Sends(Notices(parts))
SendsRemove(c) == Sends(<<Packet("remove", {c})>>)

(* The server watches c, or is about to, or a report of c is under way.    *)
Known(c) ==
    \/ c \in watched
    \/ \E p \in ToSet(toServer \o toClient) :
          /\ p.is \in {"notify_first", "notify_last", "add", "avail", "not_avail"}
          /\ c \in p.of

(* ggadu_repo_add_value, for each of them: what is there stays.            *)
Adds(cs) ==
    /\ contacts' = contacts \cup cs
    /\ status' = [c \in Contacts |-> IF c \in cs \ contacts THEN "not_avail" ELSE status[c]]
    /\ late' = late \cup {c \in cs \ contacts : Known(c)}

(* Pointers to a contact: own, if it is the one in the repository.         *)
Pointer(c, own) == [contact |-> c, own |-> own, freed |-> FALSE]

(* The repository's contact c is freed.                                    *)
Freed(pointers, c) ==
    [i \in DOMAIN pointers |->
        [pointers[i] EXCEPT !.freed = @ \/ (pointers[i].contact = c /\ pointers[i].own)]]

-----------------------------------------------------------------------------
(* The connection                                                          *)

(* GG_EVENT_CONN_SUCCESS                                                   *)
Connects ==
    /\ Works /\ ~up
    /\ up' = TRUE
    /\ toServer' \in Notify(contacts)
    /\ UNCHANGED <<blocks, reply, listVars, toClient, serverVars, adding, dialogs,
                   historyVars, contactFault>>

(* The session is freed, and with it the connection is over.              *)
SessionOver ==
    /\ up' = FALSE /\ blocks' = 0 /\ reply' = {}
    /\ toServer' = <<>> /\ toClient' = <<>>
    /\ watched' = {} /\ answers' = <<>> /\ strays' = {} /\ late' = {}
    /\ UNCHANGED <<contacts, presence, stored, adding, dialogs, contactFault>>

(* Mutant of Disconnects: contacts keep the status they had.               *)
DisconnectsShown == Works /\ SessionOver /\ UNCHANGED <<status, kept>>

(* ggadu_gadu_gadu_disconnect, also called when there is no session.       *)
Disconnects ==
    /\ Works /\ SessionOver
    /\ status' = [c \in Contacts |-> "not_avail"] /\ kept' = {}

(* The handler of SIGHUP, or gadu_gadu_login while the flag is set, free   *)
(* the session and leave the statuses as they are.                         *)
Vanishes ==
    /\ Works /\ up /\ SessionOver
    /\ kept' = {c \in contacts : status[c] # "not_avail"}
    /\ UNCHANGED status

-----------------------------------------------------------------------------
(* The user                                                                *)

(* "add user"                                                              *)
AddUser(c) ==
    /\ Works /\ Roomy
    /\ Adds({c}) /\ SendsAdd({c})
    /\ UNCHANGED <<linkVars, toClient, serverVars, adding, dialogs, answers, strays, kept, contactFault>>

(* "add user search": the list is shown before the server is told.         *)
AddFound(c) ==
    /\ Works /\ Len(adding) < MaxAdding
    /\ Adds({c})
    /\ adding' = Append(adding, Pointer(c, c \notin contacts))
    /\ UNCHANGED <<linkVars, toServer, toClient, serverVars, dialogs, answers, strays, kept, contactFault>>

(* The emission has returned.                                              *)
FoundAdded ==
    /\ Works /\ Roomy /\ adding # <<>>
    /\ LET c == Last(adding).contact
       IN  IF Last(adding).freed
           THEN contactFault' = up /\ UNCHANGED <<toServer, strays>>
           ELSE /\ SendsAdd({c}) /\ UNCHANGED contactFault
                /\ strays' = IF up /\ c \notin contacts THEN strays \cup {c} ELSE strays
    /\ adding' = Front(adding)
    /\ UNCHANGED <<linkVars, listVars, toClient, serverVars, dialogs, answers, late, kept>>

(* user_ask_remove_user_action: the dialog points to the contact.          *)
AskRemove(c) ==
    /\ Works /\ Len(dialogs) < MaxDialogs /\ c \in contacts
    /\ dialogs' = Append(dialogs, Pointer(c, TRUE))
    /\ UNCHANGED <<linkVars, listVars, toServer, toClient, serverVars, adding,
                   historyVars, contactFault>>

(* user_remove_user_action                                                 *)
Removes(c, others) ==
    /\ contacts' = contacts \ {c}
    /\ status' = [status EXCEPT ![c] = "not_avail"]
    /\ SendsRemove(c)
    /\ adding' = Freed(adding, c) /\ dialogs' = Freed(others, c)
    /\ kept' = kept \ {c}

(* "user remove user action", the answer to the question i.                *)
AnswerRemove(i, yes) ==
    /\ Works /\ Roomy /\ i \in DOMAIN dialogs
    /\ CASE ~yes -> /\ dialogs' = RemoveAt(dialogs, i)
                    /\ UNCHANGED <<listVars, toServer, adding, kept, contactFault>>
         [] yes /\ dialogs[i].freed ->
                    /\ contactFault' = TRUE
                    /\ UNCHANGED <<listVars, toServer, adding, dialogs, kept>>
         [] OTHER -> Removes(dialogs[i].contact, RemoveAt(dialogs, i)) /\ UNCHANGED contactFault
    /\ UNCHANGED <<linkVars, toClient, serverVars, answers, strays, late>>

(* export_userlist_action, and delete_userlist_action for no contacts.     *)
Export(cs) ==
    /\ Works /\ Roomy /\ up /\ Len(Lists) < MaxLists
    /\ \E packets \in Put(cs) :
          toServer' = toServer \o packets /\ blocks' = Len(packets)
    /\ UNCHANGED <<up, reply, listVars, toClient, serverVars, adding, dialogs,
                   historyVars, contactFault>>

(* import_userlist_action                                                  *)
Import ==
    /\ Works /\ Roomy /\ up /\ Len(Lists) < MaxLists
    /\ toServer' = Append(toServer, Packet("get", {})) /\ blocks' = 1
    /\ UNCHANGED <<up, reply, listVars, toClient, serverVars, adding, dialogs,
                   historyVars, contactFault>>

-----------------------------------------------------------------------------
(* The server                                                              *)

Available(cs) == {c \in cs : presence[c] = "avail"}

Reports(is, cs) == IF cs = {} THEN <<>> ELSE <<Packet(is, cs)>>

Stored ==
    {[i \in DOMAIN parts |->
         Packet(IF i < Len(parts) THEN "get_more_reply" ELSE "get_reply", parts[i])] :
     parts \in Sheets(stored)}

(* What it answers to the packet p.                                        *)
Answers(p) ==
    CASE p.is = "notify_last" -> {Reports("avail", Available(watched \cup p.of))}
      [] p.is = "add"         -> {Reports("avail", Available(p.of))}
      [] p.is = "put"         -> {<<Packet("put_reply", {})>>}
      [] p.is = "put_more"    -> {<<Packet("put_more_reply", {})>>}
      [] p.is = "get"         -> Stored
      [] OTHER                -> {<<>>}

ServerHandles ==
    /\ Works /\ toServer # <<>> /\ Len(toClient) < MaxAnswers
    /\ LET p == Head(toServer)
       IN  /\ \E answer \in Answers(p) : toClient' = toClient \o answer
           /\ watched' = CASE p.is \in {"notify_first", "notify_last", "add"} ->
                                  watched \cup p.of
                            [] p.is = "remove" -> watched \ p.of
                            [] OTHER -> watched
           /\ stored' = CASE p.is = "put" -> p.of
                           [] p.is = "put_more" -> stored \cup p.of
                           [] OTHER -> stored
           /\ answers' = IF p.is = "get" THEN Append(answers, stored) ELSE answers
    /\ toServer' = Tail(toServer)
    /\ UNCHANGED <<linkVars, listVars, presence, adding, dialogs, strays, late, kept, contactFault>>

(* Somebody comes or goes.                                                 *)
ServerReports(c, s) ==
    /\ Works /\ presence[c] # s /\ Len(toClient) < MaxAnswers
    /\ presence' = [presence EXCEPT ![c] = s]
    /\ toClient' = IF c \in watched THEN Append(toClient, Packet(s, {c})) ELSE toClient
    /\ UNCHANGED <<linkVars, listVars, toServer, watched, stored, adding, dialogs,
                   historyVars, contactFault>>

-----------------------------------------------------------------------------
(* What arrives from it (gg_watch_fd_connected, test_chan)                 *)

ComesIn(kinds) ==
    Works /\ toClient # <<>> /\ Head(toClient).is \in kinds /\ toClient' = Tail(toClient)

(* GG_NOTIFY_REPLY60, GG_STATUS60: who is not in the list is ignored.      *)
StatusArrives ==
    /\ ComesIn({"avail", "not_avail"})
    /\ status' = [c \in Contacts |->
                     IF c \in Head(toClient).of \cap contacts
                     THEN Head(toClient).is ELSE status[c]]
    /\ kept' = kept \ Head(toClient).of
    /\ UNCHANGED <<linkVars, contacts, toServer, serverVars, adding, dialogs,
                   answers, strays, late, contactFault>>

(* GG_USERLIST_REPLY of an export: GG_EVENT_USERLIST, to which the plugin  *)
(* does nothing, when blocks is 0; it takes what has arrived of a reply.   *)
PutReplyArrives ==
    /\ ComesIn({"put_reply", "put_more_reply"})
    /\ blocks' = blocks - 1
    /\ reply' = IF blocks = 1 THEN {} ELSE reply
    /\ UNCHANGED <<up, listVars, toServer, serverVars, adding, dialogs, historyVars, contactFault>>

ListPartArrives ==
    /\ ComesIn({"get_more_reply"})
    /\ reply' = reply \cup Head(toClient).of
    /\ UNCHANGED <<up, blocks, listVars, toServer, serverVars, adding, dialogs,
                   historyVars, contactFault>>

(* What import_userlist makes of a list: no more lines than it looks at.   *)
Imported(list) ==
    IF Cardinality(list) <= ImportLines THEN {list}
    ELSE {some \in SUBSET list : Cardinality(some) = ImportLines}

(* Mutant of ListArrives: the last part overwrites those before it.        *)
ListArrivesLast ==
    /\ ComesIn({"get_reply"})
    /\ \E list \in Imported(Head(toClient).of) : Adds(list) /\ SendsAdd(list \ contacts)
    /\ reply' = {} /\ answers' = Tail(answers)
    /\ UNCHANGED <<up, blocks, serverVars, adding, dialogs, strays, kept, contactFault>>

(* The last part: GG_EVENT_USERLIST, import_userlist.                      *)
ListArrives ==
    /\ ComesIn({"get_reply"})
    /\ \E list \in Imported(reply \cup Head(toClient).of) :
          Adds(list) /\ SendsAdd(list \ contacts)
    /\ reply' = {} /\ answers' = Tail(answers)
    /\ UNCHANGED <<up, blocks, serverVars, adding, dialogs, strays, kept, contactFault>>

-----------------------------------------------------------------------------

ContactsInit ==
    /\ up = FALSE /\ contacts = {} /\ status = [c \in Contacts |-> "not_avail"]
    /\ toServer = <<>> /\ toClient = <<>>
    /\ watched = {} /\ presence = [c \in Contacts |-> "not_avail"] /\ stored = {}
    /\ blocks = 0 /\ reply = {} /\ adding = <<>> /\ dialogs = <<>>
    /\ answers = <<>> /\ strays = {} /\ late = {} /\ kept = {} /\ contactFault = FALSE

ContactsNext ==
    \/ Connects \/ Disconnects \/ Vanishes
    \/ \E c \in Contacts : AddUser(c) \/ AddFound(c) \/ AskRemove(c)
    \/ FoundAdded
    \/ \E i \in DOMAIN dialogs, yes \in BOOLEAN : AnswerRemove(i, yes)
    \/ Export(contacts) \/ Export({}) \/ Import
    \/ ServerHandles \/ \E c \in Contacts, s \in {"avail", "not_avail"} : ServerReports(c, s)
    \/ StatusArrives \/ PutReplyArrives \/ ListPartArrives \/ ListArrives

ContactsSpec == ContactsInit /\ [][ContactsNext]_contactVars

-----------------------------------------------------------------------------
(***************************************************************************)
(* Properties.                                                             *)
(***************************************************************************)
Settled == Works /\ up /\ toServer = <<>> /\ adding = <<>>

(* The server watches the contacts of the list once it has handled what    *)
(* was sent, whatever was added, imported or removed while the connection  *)
(* came and went.  It may watch others only if the user removed them while *)
(* the addition of the same number again was under way (plugin:2131).      *)
NotifyAgrees ==
    Settled => /\ contacts \subseteq watched
               /\ watched \subseteq contacts \cup strays

(* Nobody is shown as available who is not: without a connection everybody *)
(* is not available, and with one the status is what the server knows once *)
(* its packets have arrived (plugin:112, 617, 690).  Defect: SIGHUP, and a *)
(* login while connected, end a connection and leave the statuses it had   *)
(* (plugin:1604, 246); whoever was available then stays so, also on a      *)
(* later connection, until the server reports him or the plugin            *)
(* disconnects (kept).  And somebody who was removed and added again       *)
(* before the server had handled the removal may have an old status: the   *)
(* server tells nothing of those who are not available when they are added *)
(* (late).                                                                 *)
StatusFollows ==
    /\ ~up => \A c \in contacts \ kept : status[c] = "not_avail"
    /\ Settled /\ toClient = <<>> =>
          \A c \in contacts \ (late \cup kept) : status[c] = presence[c]

(* An import adds the list that the server kept when it was asked, all of  *)
(* it and nothing else, also between exports and other imports             *)
(* (events.c:743-765).  Defect: of a list that is longer than an import    *)
(* looks at, the contacts after that are left out (plugin:1173).           *)
ImportedWhole ==
    [][up' /\ Len(answers') < Len(answers) =>
          \E list \in SUBSET Head(answers) :
             /\ contacts' = contacts \cup list
             /\ list = Head(answers) \/ Cardinality(list) = ImportLines]_contactVars
=============================================================================
