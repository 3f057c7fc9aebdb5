---------------------------- MODULE TlenContacts ----------------------------
(***************************************************************************)
(* The contacts of the Tlen plugin and its searches (tlen_plugin.c).  The  *)
(* contacts are structures in `userlist`, and the repository "tlen" lists  *)
(* the same ones, each under the address of its id, so that one contact    *)
(* may be there twice.  What the GUI shows of a contact is what its        *)
(* structure said when the GUI was told to look.                           *)
(*                                                                         *)
(* One call of test_chan handles the events one by one as long as there    *)
(* are any; only the first presence of a call reaches the GUI, since the   *)
(* walk along the list that tells it starts once per call.                 *)
(*                                                                         *)
(* External: libtlen and the server, which handles requests in their       *)
(* order.  Contacts authorize at once.  Callbacks run to their end here,   *)
(* and a session is authorized as soon as it is there (TlenSession).       *)
(***************************************************************************)
EXTENDS Naturals, Sequences, SequencesExt, FiniteSets

CONSTANTS
    Tlenites,     \* contacts
    MaxEntries,   \* bound on the contacts in the list
    MaxUnderWay,  \* bound on what is under way, in each direction
    MaxSearches

ASSUME TlenitesAssumption == IsFiniteSet(Tlenites)

VARIABLES
    online,       \* there is a session
    userlist,     \* structures: who, its status, and the status the GUI shows
    results,      \* search_results: by which searches they were found
    call,         \* test_chan: "none", "fresh", or "walked" if the list was walked along
    searches,     \* history: how many there were
    presented,    \* history: a search that ended, and the results shown then
    atServer,     \* the list of contacts on the server
    present,      \* contacts that are there
    announced,    \* the server knows that the user is
    requests, reports,   \* under way to and from the server
    misled,       \* history: contacts the list may be wrong about
    missed,       \* history: contacts that were not heard of since a connection ended
    untold,       \* history: contacts whose presence the GUI was not told
    cut,          \* history: searches that had found somebody when a connection ended
    nullUsed      \* libtlen was given no session

contactVars == <<online, userlist, call, results, searches, presented, atServer, present, announced,
                 requests, reports, misled, missed, untold, cut, nullUsed>>
searching == <<results, searches, presented, cut>>
wire      == <<requests, reports>>
elsewhere == <<atServer, present, announced>>
judged    == <<misled, missed, untold>>

Entry(c)  == [who |-> c, status |-> "off", shown |-> "off"]
Known     == {userlist[i].who : i \in DOMAIN userlist}

(* "gui send userlist": the GUI looks at all of them again.                *)
Seen(list) == [i \in DOMAIN list |-> [list[i] EXCEPT !.shown = list[i].status]]

Note(kind, what) == [kind |-> kind, what |-> what]
AsksFor(what) == Len(requests) < MaxUnderWay /\ requests' = Append(requests, what)
Sends(what)   == Len(reports) + Len(what) <= MaxUnderWay /\ reports' = reports \o what
SendsPresence(cs) ==
    \E all \in SetToSeqs(cs) :
        Sends([i \in DOMAIN all |-> Note(IF all[i] \in present' THEN "on" ELSE "off", all[i])])

-----------------------------------------------------------------------------
(* The user                                                                *)

LogsIn ==
    /\ ~online /\ online' = TRUE
    /\ AsksFor(Note("roster", {}))
    /\ UNCHANGED <<userlist, call, searching, elsewhere, reports, judged, nullUsed>>

(* The connection ends.  The contacts stay, with their statuses.           *)
Ends ==
    /\ online /\ online' = FALSE /\ announced' = FALSE
    /\ requests' = <<>> /\ reports' = <<>>
    /\ misled' = misled \cup {c \in Tlenites : \E i \in DOMAIN requests : requests[i] = Note("add", c)}
    /\ missed' = Known /\ cut' = cut \cup ToSet(results)
    /\ UNCHANGED <<call, results, searches, presented, atServer, present, nullUsed>>

LogsOut == Ends /\ userlist' = Seen(userlist) /\ untold' = {}
Lost    == Ends /\ UNCHANGED <<userlist, untold>>

NoSession ==
    /\ nullUsed' = TRUE
    /\ UNCHANGED <<online, userlist, call, searching, elsewhere, wire, judged>>

(* A report from before a contact is removed may arrive after he is added. *)
Old(c) == {Note("remove", c), Note("on", c), Note("off", c)} \cap ToSet(requests \o reports) # {}

(* Mutant of AddContact: the server is not told.                           *)
AddContactLocally(c) ==
    /\ online /\ Len(userlist) < MaxEntries
    /\ userlist' = Seen(Append(userlist, Entry(c)))
    /\ misled' = IF c \in Known \/ Old(c) THEN misled \cup {c} ELSE misled
    /\ untold' = {} /\ UNCHANGED missed
    /\ UNCHANGED <<online, call, searching, elsewhere, wire, nullUsed>>

(* "add user" and "add user search": whether the contact is known is not   *)
(* asked, nor whether there is a session.                                  *)
AddContact(c) ==
    IF ~online THEN NoSession
    ELSE /\ Len(userlist) < MaxEntries
         /\ userlist' = Seen(Append(userlist, Entry(c)))
         /\ AsksFor(Note("add", c))
         /\ misled' = IF c \in Known \/ Old(c) THEN misled \cup {c} ELSE misled
         /\ untold' = {}
         /\ missed' = missed \ {c}
         /\ UNCHANGED <<online, call, searching, elsewhere, reports, nullUsed>>

(* user_remove_user_action: a contact is listed again if the server's list *)
(* is on its way.                                                          *)
RemoveContact(i) ==
    IF ~online THEN NoSession
    ELSE LET c == userlist[i].who
         IN  /\ userlist' = Seen(RemoveAt(userlist, i))
             /\ AsksFor(Note("remove", c))
             /\ misled' = IF {Note("roster", {}), Note("item", c)} \cap ToSet(requests \o reports) = {}
                          THEN misled ELSE misled \cup {c}
             /\ untold' = {}
             /\ UNCHANGED <<online, call, searching, elsewhere, reports, missed, nullUsed>>

(* "search"                                                                *)
Search ==
    /\ searches < MaxSearches
    /\ IF ~online THEN NoSession
       ELSE /\ searches' = searches + 1
            /\ AsksFor(Note("search", searches'))
            /\ UNCHANGED <<online, userlist, call, results, presented, cut, elsewhere, reports, judged,
                           nullUsed>>

-----------------------------------------------------------------------------
(* test_chan: tlen_watch_fd reads what has arrived, tlen_getevent gives    *)
(* the events of it one by one, and no other callback runs before there    *)
(* are no more.  What the server does meanwhile is not read by this call,  *)
(* so it may as well be done after it.                                     *)
Called ==
    /\ online /\ reports # <<>> /\ call = "none"
    /\ call' = IF userlist = <<>> THEN "walked" ELSE "fresh"
    /\ UNCHANGED <<online, userlist, searching, elsewhere, wire, judged, nullUsed>>

CallEnds ==
    /\ call # "none" /\ call' = "none"
    /\ UNCHANGED <<online, userlist, searching, elsewhere, wire, judged, nullUsed>>

Event(kinds) ==
    /\ call # "none" /\ reports # <<>> /\ Head(reports).kind \in kinds
    /\ reports' = Tail(reports)

EntriesOf(c) == {i \in DOMAIN userlist : userlist[i].who = c}

(* TLEN_EVENT_PRESENCE: set_userlist_status sets the first structure of    *)
(* the contact, the walk has the GUI look at all of them.                  *)
Presence ==
    /\ Event({"on", "off"})
    /\ LET c    == Head(reports).what
           list == [i \in DOMAIN userlist |->
                       IF i \in EntriesOf(c) /\ \A j \in EntriesOf(c) : i <= j
                       THEN [userlist[i] EXCEPT !.status = Head(reports).kind] ELSE userlist[i]]
       IN  /\ userlist' = [i \in DOMAIN list |->
                              IF call = "fresh" /\ i \in EntriesOf(c)
                              THEN [list[i] EXCEPT !.shown = list[i].status] ELSE list[i]]
           /\ missed' = missed \ {c}
           /\ untold' = IF call = "fresh" THEN untold \ {c} ELSE untold \cup {c}
    /\ call' = "walked"
    /\ UNCHANGED <<online, searching, elsewhere, requests, misled, nullUsed>>

(* TLEN_EVENT_GOTROSTERITEM                                                *)
Item ==
    /\ Event({"item"})
    /\ LET c == Head(reports).what
       IN  IF c \in Known THEN UNCHANGED <<userlist, missed>>
           ELSE /\ Len(userlist) < MaxEntries
                /\ userlist' = Append(userlist, Entry(c)) /\ missed' = missed \ {c}
    /\ UNCHANGED <<online, call, searching, elsewhere, requests, misled, untold, nullUsed>>

(* TLEN_EVENT_ENDROSTER                                                    *)
EndRoster ==
    /\ Event({"end"})
    /\ AsksFor(Note("status", {}))
    /\ userlist' = Seen(userlist) /\ untold' = {}
    /\ UNCHANGED <<online, call, searching, elsewhere, misled, missed, nullUsed>>

(* TLEN_EVENT_GOTSEARCHITEM: handle_search_item                            *)
Found ==
    /\ Event({"found"})
    /\ results' = Append(results, Head(reports).what)
    /\ UNCHANGED <<online, userlist, call, searches, presented, cut, elsewhere, requests, judged,
                   nullUsed>>

(* Mutant of EndOfSearch: the results are not forgotten.                   *)
EndOfSearchKeeps ==
    /\ Event({"done"})
    /\ presented' = [search |-> Head(reports).what, found |-> ToSet(results)]
    /\ UNCHANGED <<online, userlist, call, results, searches, cut, elsewhere, requests, judged,
                   nullUsed>>

(* TLEN_EVENT_ENDSEARCH                                                    *)
EndOfSearch ==
    /\ Event({"done"})
    /\ presented' = [search |-> Head(reports).what, found |-> ToSet(results)]
    /\ results' = <<>>
    /\ UNCHANGED <<online, userlist, call, searches, cut, elsewhere, requests, judged, nullUsed>>

-----------------------------------------------------------------------------
(* The server, and everybody else                                          *)

Takes(kind) == requests # <<>> /\ Head(requests).kind = kind /\ requests' = Tail(requests)

TakesRoster ==
    /\ Takes("roster")
    /\ \E all \in SetToSeqs(atServer) :
          Sends(Append([i \in DOMAIN all |-> Note("item", all[i])], Note("end", {})))
    /\ UNCHANGED <<online, userlist, call, searching, elsewhere, judged, nullUsed>>

TakesStatus ==
    /\ Takes("status") /\ announced' = TRUE
    /\ UNCHANGED <<atServer, present>>
    /\ SendsPresence(atServer \cap present)
    /\ UNCHANGED <<online, userlist, call, searching, judged, nullUsed>>

TakesAdd ==
    /\ Takes("add")
    /\ UNCHANGED <<present, announced>>
    /\ LET c == Head(requests).what
       IN  /\ atServer' = atServer \cup {c}
           /\ SendsPresence(IF announced THEN {c} \cap present ELSE {})
    /\ UNCHANGED <<online, userlist, call, searching, judged, nullUsed>>

TakesRemove ==
    /\ Takes("remove") /\ atServer' = atServer \ {Head(requests).what}
    /\ UNCHANGED <<online, userlist, call, searching, present, announced, reports, judged, nullUsed>>

TakesSearch ==
    /\ Takes("search")
    /\ LET n == Head(requests).what
       IN  \E found \in {<<>>, <<Note("found", n)>>} : Sends(Append(found, Note("done", n)))
    /\ UNCHANGED <<online, userlist, call, searching, elsewhere, judged, nullUsed>>

(* Another client of the user removes a contact.                           *)
RemovedByOthers(c) ==
    /\ c \in atServer /\ atServer' = atServer \ {c} /\ misled' = misled \cup {c}
    /\ UNCHANGED <<online, userlist, call, searching, present, announced, wire, missed, untold, nullUsed>>

PresenceChanges(c) ==
    /\ present' = IF c \in present THEN present \ {c} ELSE present \cup {c}
    /\ UNCHANGED <<atServer, announced>>
    /\ SendsPresence(IF announced /\ c \in atServer THEN {c} ELSE {})
    /\ UNCHANGED <<online, userlist, call, searching, requests, judged, nullUsed>>

-----------------------------------------------------------------------------

ContactsInit ==
    /\ online = FALSE /\ userlist = <<>> /\ call = "none"
    /\ results = <<>> /\ searches = 0 /\ presented = [search |-> 0, found |-> {}]
    /\ atServer = Tlenites /\ present = {} /\ announced = FALSE
    /\ requests = <<>> /\ reports = <<>>
    /\ misled = {} /\ missed = {} /\ untold = {} /\ cut = {} /\ nullUsed = FALSE

ContactsNext ==
    /\ ~nullUsed
    /\ \/ /\ call = "none"
          /\ \/ LogsIn \/ LogsOut \/ Lost \/ Search
             \/ \E c \in Tlenites : AddContact(c) \/ RemovedByOthers(c) \/ PresenceChanges(c)
             \/ \E i \in DOMAIN userlist : RemoveContact(i)
             \/ TakesRoster \/ TakesStatus \/ TakesAdd \/ TakesRemove \/ TakesSearch
       \/ Called \/ Presence \/ Item \/ EndRoster \/ Found \/ EndOfSearch \/ CallEnds

ContactsSpec == ContactsInit /\ [][ContactsNext]_contactVars

-----------------------------------------------------------------------------
(***************************************************************************)
(* Properties.                                                             *)
(***************************************************************************)
AtRest == online /\ announced /\ requests = <<>> /\ reports = <<>>

FirstEntry(c) == userlist[CHOOSE i \in EntriesOf(c) : \A j \in EntriesOf(c) : i <= j]

(* When nothing is under way the list is the server's and shows who is     *)
(* there, unless a contact was added twice (tlen_plugin.c:1110), removed   *)
(* while the list was under way, which lists him again, added again before *)
(* all of his removal was over, removed by another client, or added when   *)
(* the connection ended.  Whoever left while there was no connection seems *)
(* to be there still, and the GUI is not told of a presence if another one *)
(* came before it in the same call (tlen_plugin.c:454).                    *)
ContactsTold ==
    AtRest =>
        \A c \in Tlenites \ misled :
            /\ c \in Known <=> c \in atServer
            /\ c \in Known =>
                  /\ c \notin missed => (FirstEntry(c).status = "on" <=> c \in present)
                  /\ c \notin untold => FirstEntry(c).shown = FirstEntry(c).status

(* Whom a search found is shown as its result and no other's, however      *)
(* searches overlap, but for what was found before a connection ended:     *)
(* search_results is kept (tlen_plugin.c:740-742).                         *)
ResultsFit == presented.found \subseteq {presented.search} \cup cut
=============================================================================
