------------------------------- MODULE UserView -------------------------------
(***************************************************************************)
(* The list of contacts in the main window: a notebook with a page for     *)
(* each protocol, or a tree with a row for each, and the icons that show   *)
(* the user's own status and blink while he logs in.                       *)
(*                                                                         *)
(* Building a page asks the protocol for its status: an emission, which    *)
(* drains the main loop while some pages are destroyed and not yet built.  *)
(* The stack holds what is waiting for such an emission.  A handler that   *)
(* meets memory that was freed, or an iterator that was never set, ends    *)
(* the behaviour with a fault.                                             *)
(*                                                                         *)
(* Not modelled: the order and looks of the rows, tooltips, the lines of   *)
(* chats about changes of status, and what follows when a view is built    *)
(* inside the building of another: the second one is begun, and there the  *)
(* behaviour ends.                                                         *)
(***************************************************************************)
EXTENDS Naturals, Sequences, SequencesExt, FiniteSets, TLC

CONSTANTS
    Networks,    \* the protocols
    Contacts,
    Of,          \* the protocol of each contact
    Configs,     \* initial values of config
    Sources,     \* bound on the timers that blink
    MaxCalls,    \* bound on the calls that wait
    MaxPages     \* bound on the pages, those of protocols that left included

VARIABLES
    config,      \* tree, showActive (show_active), osd (use_xosd_for_status_change), blink
    tree,        \* what is shown: a tree, or a notebook
    known,       \* the protocols, in the order of their registration
    userlist,    \* gp->userlist, the contacts in the repository
    online,      \* the contacts that are not offline
    up,          \* the protocols whose own status is not offline
    pages,       \* pages, or rows at the top of the tree: [protocol, rows], where rows
                 \* says of each contact that has a row whether it is shown as online
    page,        \* users_liststore or tree_path: which page; 0 if it is gone
    leftover,    \* protocols in users_treestore while the notebook is shown
    statusIcon,  \* what statuslist_eventbox shows: "none" (NULL), "online", "offline"
    boxes,       \* the icons of each protocol in the window
    sources,     \* timers that run: the protocol, or Gone
    blinker,     \* gp->blinker; 0 is -1
    waits,       \* calls that wait in an emission, innermost last
    odd,         \* history: what overlapped: "refresh", "status", "blink"
    blanked,     \* history: contacts shown as offline since their protocol disconnected
    viewFault    \* "none", "stale", "used", "gone", "hang"

viewVars == <<config, tree, known, userlist, online, up, pages, page, leftover, statusIcon, boxes,
              sources, blinker, waits, odd, blanked, viewFault>>
contacts == <<userlist, online, blanked>>
view     == <<config, tree, known, pages, page, leftover>>
status   == <<up, statusIcon, boxes, sources, blinker>>

Gone == "gone"

UserAssumption == Of \in [Contacts -> Networks] /\ Gone \notin Networks /\ 0 \notin Sources

Works      == viewFault = "none" /\ "refresh" \notin odd
Dispatches == Works /\ (waits # <<>> => Len(waits) < MaxCalls)
Known      == ToSet(known)
Inner      == Last(waits)
At(at)     == Works /\ waits # <<>> /\ Inner.at = at

Call(at, p, c) == [at |-> at, protocol |-> p, contact |-> c, status |-> p \in up,
                   stale |-> FALSE]

(* Contacts of other protocols.                                            *)
Others(p, cs) == {c \in cs : Of[c] # p}

Waiting(at) == \E i \in DOMAIN waits : waits[i].at = at

(* What was pointed to by the calls that Hit is freed.                     *)
Spoils(st, Hit(_)) == [i \in DOMAIN st |-> [st[i] EXCEPT !.stale = @ \/ Hit(st[i])]]

Iterates(p, f) == f.at = "notify" /\ f.protocol = p

Faults(kind) ==
    /\ viewFault' = kind
    /\ UNCHANGED <<contacts, view, status, waits, odd>>

-----------------------------------------------------------------------------
(* Rows                                                                    *)

HasPage(p) == page[p] \in DOMAIN pages

(* gui_user_view_add_userlist: what is to be seen of the contacts cs.      *)
Wanted(cs, on) == [c \in {d \in cs : config.showActive => d \in on} |-> c \in on]

WithRows(i, rows) == [pages EXCEPT ![i].rows = rows]

(* Mutant of Notified: a contact that comes online is not given a row.     *)
NotifiedRows(rows, c, on) ==
    LET kept == IF config.showActive /\ ~on THEN DOMAIN rows \ {c} ELSE DOMAIN rows
    IN  [d \in kept |-> IF d = c THEN on ELSE rows[d]]

(* gui_user_view_notify: a row goes, changes or comes.                     *)
Notified(rows, c, on) ==
    LET kept == IF ~config.showActive THEN DOMAIN rows
                ELSE IF on THEN DOMAIN rows \cup {c} ELSE DOMAIN rows \ {c}
    IN  [d \in kept |-> IF d = c THEN on ELSE rows[d]]

(* handle_send_userlist, after the protocol added or removed a contact.    *)
ListChanges(p, cs) ==
    /\ Dispatches /\ p \in Known
    /\ IF ~HasPage(p) THEN Faults("stale")
       ELSE /\ userlist' = [userlist EXCEPT ![p] = cs]
            /\ online' = {c \in online : Of[c] = p => c \in cs}
            /\ blanked' = Others(p, blanked)
            /\ pages' = WithRows(page[p], Wanted(cs, online'))
            /\ waits' = Spoils(waits, LAMBDA f : Iterates(p, f))
            /\ UNCHANGED <<config, tree, known, page, leftover, status, odd, viewFault>>

AddContact(c)    == c \notin userlist[Of[c]] /\ ListChanges(Of[c], userlist[Of[c]] \cup {c})
RemoveContact(c) == c \in userlist[Of[c]] /\ ListChanges(Of[c], userlist[Of[c]] \ {c})

(* notify_callback: the GUI watches the repository.  A contact comes, goes *)
(* or has another status in between.  The OSD is told while the iterator   *)
(* is at the row.                                                          *)
ContactChanges(c, on) ==
    LET p == Of[c]
        rows == pages[page[p]].rows
        tells == c \in DOMAIN rows /\ ~(config.showActive /\ ~on) /\ config.osd
    IN  /\ Dispatches /\ p \in Known /\ c \in userlist[p] /\ (on \/ c \in online)
        /\ IF ~HasPage(p) THEN Faults("stale")
           ELSE /\ on => p \in up
                /\ online' = IF on THEN online \cup {c} ELSE online \ {c}
                /\ blanked' = blanked \ {c}
                /\ pages' = WithRows(page[p], Notified(rows, c, on))
                /\ LET st == Spoils(waits, LAMBDA f : Iterates(p, f) /\ f.contact = c
                                                        /\ c \notin DOMAIN pages'[page[p]].rows)
                   IN  waits' = IF tells THEN Append(st, Call("notify", p, c)) ELSE st
                /\ UNCHANGED <<config, tree, known, userlist, page, leftover, status, odd,
                               viewFault>>

(* The loop over the rows goes on.                                         *)
NotifyEnds ==
    /\ At("notify")
    /\ IF Inner.stale THEN Faults("used")
       ELSE waits' = Front(waits) /\ UNCHANGED <<contacts, view, status, odd, viewFault>>

-----------------------------------------------------------------------------
(* The status of the user                                                  *)

(* Mutant of StopsBlinking: the timer is forgotten and runs on.            *)
ForgetsBlinking(p) == sources

StopsBlinking(p) == [i \in DOMAIN sources \ {blinker[p]} |-> sources[i]]

(* The image is set in the icon; while there is none, it is lost.          *)
ShowsStatus(p, image) ==
    /\ sources' = StopsBlinking(p) /\ blinker' = [blinker EXCEPT ![p] = 0]
    /\ statusIcon' = [statusIcon EXCEPT ![p] = IF @ = "none" THEN @ ELSE image]
    /\ odd' = IF statusIcon[p] = "none" THEN odd \cup {"status"} ELSE odd
    /\ UNCHANGED boxes

(* handle_status_changed                                                   *)
StatusChanged(p) ==
    /\ Dispatches /\ p \in Known
    /\ up' = up \cup {p}
    /\ ShowsStatus(p, "online")
    /\ UNCHANGED <<contacts, view, waits, viewFault>>

(* handle_disconnected: every contact is shown as offline.  The repository *)
(* is not asked: Gadu-Gadu sets them offline there before it disconnects;  *)
(* Tlen does not, nor does Jabber when a login fails.                      *)
Disconnected(p) ==
    /\ Dispatches /\ p \in Known
    /\ IF ~HasPage(p) THEN Faults("stale")
       ELSE /\ up' = up \ {p}
            /\ ShowsStatus(p, "offline")
            /\ blanked' = blanked \cup (online \ Others(p, online))
            /\ LET rows == pages[page[p]].rows
               IN  IF config.showActive
                   THEN /\ pages' = WithRows(page[p], <<>>)
                        /\ waits' = Spoils(waits, LAMBDA f : Iterates(p, f))
                   ELSE /\ pages' = WithRows(page[p], [c \in DOMAIN rows |-> FALSE])
                        /\ UNCHANGED waits
            /\ UNCHANGED <<userlist, online, config, tree, known, page, leftover, viewFault>>

(* change_status: the user wants to be offline,                            *)
WantsOffline(p) ==
    /\ Dispatches /\ p \in Known /\ statusIcon[p] # "none" /\ blinker[p] # 0
    /\ sources' = StopsBlinking(p) /\ blinker' = [blinker EXCEPT ![p] = 0]
    /\ UNCHANGED <<contacts, view, up, statusIcon, boxes, waits, odd, viewFault>>

(* or online: the icon may blink, depending on the status at present.      *)
WantsOnline(p) ==
    /\ Dispatches /\ p \in Known /\ statusIcon[p] # "none" /\ config.blink
    /\ sources' = StopsBlinking(p) /\ blinker' = [blinker EXCEPT ![p] = 0]
    /\ odd' = IF \E i \in DOMAIN waits : waits[i].at = "blink" /\ waits[i].protocol = p
              THEN odd \cup {"blink"} ELSE odd
    /\ waits' = Append(waits, Call("blink", p, 0))
    /\ UNCHANGED <<contacts, view, up, statusIcon, boxes, viewFault>>

(* Who unregistered is not freed, but nobody knows its timer.              *)
Blinks ==
    /\ At("blink")
    /\ waits' = Front(waits)
    /\ IF Inner.status THEN UNCHANGED <<sources, blinker>>
       ELSE \E i \in Sources \ DOMAIN sources :
               /\ \A j \in Sources \ DOMAIN sources : i <= j
               /\ sources' = [j \in DOMAIN sources \cup {i} |->
                     IF j # i THEN sources[j] ELSE IF Inner.stale THEN Gone ELSE Inner.protocol]
               /\ blinker' = IF Inner.stale THEN blinker ELSE [blinker EXCEPT ![Inner.protocol] = i]
    /\ UNCHANGED <<contacts, view, up, statusIcon, boxes, odd, viewFault>>

(* status_blinker for an icon that was destroyed.                          *)
BlinksGone ==
    /\ Dispatches /\ \E i \in DOMAIN sources : sources[i] = Gone
    /\ Faults(Gone)

-----------------------------------------------------------------------------
(* Building the view                                                       *)

(* The first half of gui_list_add, gui_tree_add: up to the emission.       *)
Begun(pgs, t, p) == IF t THEN Append(pgs, [protocol |-> p, rows |-> <<>>]) ELSE pgs

(* The second half: the page of a notebook is complete only now.           *)
Built(p)     == IF tree THEN pages ELSE Append(pages, [protocol |-> p, rows |-> <<>>])
PageBuilt(p) == IF tree THEN page ELSE [page EXCEPT ![p] = Len(pages) + 1]

IconBuilt(p, on) ==
    /\ statusIcon' = [statusIcon EXCEPT ![p] = IF on THEN "online" ELSE "offline"]
    /\ boxes' = [boxes EXCEPT ![p] = @ + 1]

(* handle_register_protocol                                                *)
Register(p) ==
    /\ Dispatches /\ p \notin Known /\ Len(pages) < MaxPages
    /\ \A i \in DOMAIN waits : ~(waits[i].at = "register" /\ waits[i].protocol = p)
    /\ pages' = Begun(pages, tree, p)
    /\ page' = [page EXCEPT ![p] = IF tree THEN Len(pages) + 1 ELSE 0]
    /\ waits' = Append(waits, Call("register", p, 0))
    /\ odd' = IF Waiting("refresh") THEN odd \cup {"refresh"} ELSE odd
    /\ UNCHANGED <<contacts, config, tree, known, leftover, status, viewFault>>

Registered ==
    /\ At("register")
    /\ LET p == Inner.protocol
       IN  /\ pages' = Built(p) /\ page' = PageBuilt(p)
           /\ IconBuilt(p, Inner.status)
           /\ known' = Append(known, p)
    /\ waits' = Front(waits)
    /\ UNCHANGED <<contacts, config, tree, leftover, up, sources, blinker, odd, viewFault>>

(* gui_user_view_unregister and gui_user_view_rescan_paths, which goes     *)
(* through the tree, also if it is not shown any more, and stays at a row  *)
(* of this protocol.  The page of a notebook remains.                      *)
Unregister(p) ==
    /\ Dispatches /\ p \in Known
    /\ IF ~HasPage(p) THEN Faults("stale")
       ELSE LET rest == IF tree THEN RemoveAt(pages, page[p]) ELSE WithRows(page[p], <<>>)
                last(q) == CHOOSE i \in DOMAIN rest : /\ rest[i].protocol = q
                              /\ \A j \in DOMAIN rest : rest[j].protocol = q => j <= i
            IN  IF IF tree THEN \E i \in DOMAIN rest : rest[i].protocol = p ELSE p \in leftover
                THEN Faults("hang")
                ELSE /\ pages' = rest
                     /\ page' = [q \in Networks |->
                           IF q = p THEN 0
                           ELSE IF tree /\ \E i \in DOMAIN rest : rest[i].protocol = q
                           THEN last(q) ELSE page[q]]
                     /\ known' = RemoveFirst(known, p)
                     /\ userlist' = [userlist EXCEPT ![p] = {}]
                     /\ online' = Others(p, online) /\ blanked' = Others(p, blanked)
                     /\ up' = up \ {p}
                     /\ statusIcon' = [statusIcon EXCEPT ![p] = "none"]
                     /\ boxes' = [boxes EXCEPT ![p] = IF statusIcon[p] = "none" THEN @ ELSE @ - 1]
                     /\ sources' = [i \in DOMAIN sources |->
                           IF sources[i] = p THEN Gone ELSE sources[i]]
                     /\ blinker' = [blinker EXCEPT ![p] = 0]
                     /\ waits' = Spoils(waits, LAMBDA f : f.protocol = p)
                     /\ UNCHANGED <<config, tree, leftover, odd, viewFault>>

(* A turn in gui_user_view_refresh: the icon of p is destroyed and its     *)
(* page begun, when the pages are pgs, known as old.                       *)
Turn(p, pgs, old, t, st, icons, box) ==
    /\ statusIcon' = [icons EXCEPT ![p] = "none"]
    /\ boxes' = [box EXCEPT ![p] = IF statusIcon[p] = "none" THEN @ ELSE @ - 1]
    /\ pages' = Begun(pgs, t, p)
    /\ page' = [old EXCEPT ![p] = IF t THEN Len(pgs) + 1 ELSE @]
    /\ waits' = Append(st, Call("refresh", p, 0))

(* The view is destroyed; what points to it is not reset.                  *)
Refresh(c) ==
    /\ Dispatches
    /\ config' = c /\ tree' = c.tree
    /\ leftover' = IF c.tree THEN {} ELSE IF tree THEN {pages[i].protocol : i \in DOMAIN pages}
                   ELSE leftover
    /\ odd' = IF Waiting("refresh") \/ Waiting("register") THEN odd \cup {"refresh"} ELSE odd
    /\ LET dead == [q \in Networks |-> 0]
           st == Spoils(waits, LAMBDA f : f.at = "notify")
       IN  IF known = <<>>
           THEN pages' = <<>> /\ page' = dead /\ waits' = st /\ UNCHANGED <<statusIcon, boxes>>
           ELSE Turn(Head(known), <<>>, dead, c.tree, st, statusIcon, boxes)
    /\ UNCHANGED <<contacts, known, up, sources, blinker, viewFault>>

(* In the toolbar, which is insensitive until the refresh has ended,       *)
ShowHideInactive == ~Waiting("refresh") /\ Refresh([config EXCEPT !.showActive = ~@])

(* and in the dialog of the preferences.                                   *)
Preferences == \E t \in BOOLEAN : Refresh([config EXCEPT !.tree = t])

(* The emission has returned: the page is completed and filled,            *)
(* and it is the next protocol's turn.                                     *)
RefreshGoesOn ==
    /\ At("refresh")
    /\ IF Inner.stale THEN Faults("used")
       ELSE LET p == Inner.protocol
                at == PageBuilt(p)
                k == CHOOSE i \in DOMAIN known : known[i] = p
                full == [Built(p) EXCEPT ![at[p]].rows = Wanted(userlist[p], online)]
                st == Spoils(Front(waits), LAMBDA f : Iterates(p, f))
                icons == [statusIcon EXCEPT ![p] = IF Inner.status THEN "online" ELSE "offline"]
                more == [boxes EXCEPT ![p] = @ + 1]
            IN  /\ IF k < Len(known)
                   THEN Turn(known[k + 1], full, at, tree, st, icons, more)
                   ELSE /\ pages' = full /\ page' = at /\ waits' = st
                        /\ statusIcon' = icons /\ boxes' = more
                /\ blanked' = Others(p, blanked)
                /\ UNCHANGED <<userlist, online, config, tree, known, leftover, up, sources,
                               blinker, odd, viewFault>>

-----------------------------------------------------------------------------

ViewInit ==
    /\ config \in Configs
    /\ tree = config.tree
    /\ known = <<>> /\ pages = <<>> /\ waits = <<>> /\ sources = <<>>
    /\ userlist = [p \in Networks |-> {}] /\ page = [p \in Networks |-> 0]
    /\ statusIcon = [p \in Networks |-> "none"] /\ boxes = [p \in Networks |-> 0]
    /\ blinker = [p \in Networks |-> 0]
    /\ online = {} /\ up = {} /\ leftover = {} /\ odd = {} /\ blanked = {} /\ viewFault = "none"

ViewNext ==
    \/ \E c \in Contacts :
          AddContact(c) \/ RemoveContact(c) \/ \E on \in BOOLEAN : ContactChanges(c, on)
    \/ \E p \in Networks :
          \/ StatusChanged(p) \/ Disconnected(p) \/ WantsOffline(p) \/ WantsOnline(p)
          \/ Register(p) \/ Unregister(p)
    \/ NotifyEnds \/ Blinks \/ BlinksGone \/ Registered \/ RefreshGoesOn
    \/ ShowHideInactive \/ Preferences

ViewSpec == ViewInit /\ [][ViewNext]_viewVars

-----------------------------------------------------------------------------
(***************************************************************************)
(* Properties.                                                             *)
(***************************************************************************)

(* Who is to be shown as online: who is, unless his protocol disconnected  *)
(* without a word about him, and none since.                               *)
Seen == online \ blanked

(* Between the callbacks, the view shows each protocol once, with its      *)
(* status and exactly the contacts to be seen as they are, whatever was    *)
(* handled inside an emission, except a second refresh or a change of the  *)
(* status that is just asked for (gui_userview.c:355, 431).  A protocol    *)
(* that disconnects and leaves contacts online in the repository           *)
(* (tlen_plugin.c:227-234, jabber_login.c:233) has them shown as offline   *)
(* until they change or the list is built anew, and none but them.  And    *)
(* what was destroyed is met only from inside an emission, apart from what *)
(* a protocol that unregisters leaves (gui_handlers.c:205).                *)
ViewFollows ==
    odd \subseteq {"blink"} =>
        /\ viewFault \in {"none", "gone", "hang"} \/ waits # <<>>
        /\ viewFault = "none" /\ waits = <<>> =>
              \A p \in Known :
                 /\ HasPage(p) /\ boxes[p] = 1
                 /\ statusIcon[p] = IF p \in up THEN "online" ELSE "offline"
                 /\ \A i \in DOMAIN pages :
                       pages[i].protocol = p =>
                           pages[i].rows = IF i = page[p] THEN Wanted(userlist[p], Seen) ELSE <<>>

(* Every timer is known to its protocol, which stops it when the login has *)
(* ended, unless the user asks again while his status is looked up         *)
(* (GUI_plugin.c:728-751).                                                 *)
BlinkersKnown ==
    "blink" \notin odd =>
        \A i \in DOMAIN sources : sources[i] = Gone \/ blinker[sources[i]] = i
=============================================================================
