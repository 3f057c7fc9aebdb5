--------------------------------- MODULE Chat ---------------------------------
(***************************************************************************)
(* Conversations in the GUI: sessions, their chats (pages of one window,   *)
(* or windows), the list of chats that wait to be shown, and the icon in   *)
(* the system tray that says so.                                           *)
(*                                                                         *)
(* gui_msg_receive and on_send_clicked emit signals on their way; each     *)
(* emission drains the main loop, so that further messages and clicks are  *)
(* handled inside it.  The stack holds what the calls still have to do.    *)
(*                                                                         *)
(* Not modelled: the text and looks of a chat, spelling, emoticons, and a  *)
(* change of chat_type while there are chats.                              *)
(***************************************************************************)
EXTENDS Naturals, TLC, Sequences, SequencesExt, FiniteSets

CONSTANTS
    ChatProtocols,  \* plugins that registered a protocol
    Messages,       \* what may be received: [protocol, from, with, said]; with are the
                    \* recipients, empty but in a conference; ~said is a user's click
    Sessions,       \* bounds the sessions that are alive or still pointed to,
    Chats,          \* and the chats
    MaxChatCalls,   \* bound on the calls on the stack
    MaxWaiting      \* bound on the entries of invisible_chats

ASSUME ChatsAssumption == 0 \notin Chats
ASSUME MessagesAssumption == \A m \in Messages : m.protocol \in ChatProtocols /\ m.said \in BOOLEAN

VARIABLES
    settings,    \* style (chat_type), autoShow (chat_window_auto_show), noisy
                 \* (sounds and the OSD are configured), docklet (it is loaded)
    lists,       \* gp->chat_sessions of each protocol
    session,     \* those not freed: the protocol, id, recipients and chat (0 is NULL)
    chats,       \* the chats that are not destroyed: the session each was made for
    tabs,        \* the pages of the notebook, in order
    shown,       \* chats whose page (window, in classic style) is visible
    window,      \* chat_window in tabbed style: "none", "hidden", "shown"
    buttons,     \* the session its buttons were made for: that of its first page
    invisible,   \* invisible_chats
    icon,        \* what the docklet shows: "default" or "message"
    calls,       \* calls that wait in an emission, innermost last
    unread,      \* history: chats with a message that was never visible
    overlapped,  \* history: a first message was overtaken, or a session closed under a call
    missed,      \* history: the icon was reset while a first message was waiting, or
                 \* a chat was hidden under a call that appends to it
    chatFault    \* freed memory was used: "used"; a chat in invisible: "dangling"; the
                 \* session of the buttons: "outlived"

chatVars == <<settings, lists, session, chats, tabs, shown, window, buttons, invisible, icon,
              calls, unread, overlapped, missed, chatFault>>

Tabbed == settings.style = "tabbed"
Alive  == DOMAIN chats
Live   == DOMAIN session

(* GTK_WIDGET_VISIBLE of the window that c is in; and what the user sees.  *)
WindowVisible(c) == IF Tabbed THEN window = "shown" ELSE c \in shown
Visible(c)       == c \in shown /\ WindowVisible(c)

(* The main loop runs: nothing is on the stack, or an emission drains it.  *)
ChatWorks      == chatFault = "none"
ChatDispatches == ChatWorks /\ (calls # <<>> => Last(calls).drains)

ChatCall(at, s, c, m, show, drains) ==
    [at |-> at, session |-> s, chat |-> c, message |-> m, show |-> show, drains |-> drains]

Latest     == Last(calls)
CallAt(at) == ChatWorks /\ calls # <<>> /\ Latest.at = at
Returns    == calls' = Front(calls)

Goes(at, c, drains) ==
    calls' = Append(Front(calls), [Latest EXCEPT !.at = at, !.chat = c, !.drains = drains])

chatView == <<lists, session, chats, tabs, shown, window, buttons>>
ghosts   == <<unread, overlapped, missed>>

ChatFaults(kind) ==
    /\ chatFault' = kind
    /\ UNCHANGED <<settings, chatView, invisible, icon, calls, ghosts>>

-----------------------------------------------------------------------------
(* Sessions and chats                                                      *)

(* gui_session_find, gui_session_find_confer: the first one that fits.     *)
Fits(s, m) ==
    IF m.with = {} THEN Cardinality(session[s].with) < 2 /\ session[s].from = m.from
    ELSE m.with \subseteq session[s].with

Found(m) ==
    LET list == lists[m.protocol]
    IN  {list[i] : i \in {i \in DOMAIN list : /\ Fits(list[i], m)
                                            /\ \A j \in 1..(i - 1) : ~Fits(list[j], m)}}

(* Nothing points to it; which of them is taken makes no difference.       *)
FreshSessions ==
    Sessions \ (Live \cup buttons \cup {chats[c] : c \in Alive}
                      \cup {calls[i].session : i \in DOMAIN calls})

FreshChats ==
    Chats \ (Alive \cup ToSet(invisible) \cup {session[s].chat : s \in Live}
                   \cup {calls[i].chat : i \in DOMAIN calls})

Used(ss) == \E i \in DOMAIN calls : calls[i].session \in ss

(* gtk_widget_show_all of the window of c, where the chats cs are alive.   *)
Presents(c, cs) ==
    /\ shown' = IF Tabbed THEN cs ELSE shown \cup {c}
    /\ window' = IF Tabbed THEN "shown" ELSE window
    /\ unread' = unread \ shown'

(* Mutant of Unlinks: the session is freed, and stays in the list.         *)
UnlinksNothing(s) == lists

(* g_slist_remove (gp->chat_sessions, session), which is freed then.       *)
Unlinks(s) == [p \in ChatProtocols |-> RemoveFirst(lists[p], s)]

(* The chat c is destroyed, its session s freed.                           *)
Forgets(c, s) ==
    /\ chats' = [d \in Alive \ {c} |-> chats[d]]
    /\ session' = [t \in Live \ {s} |-> session[t]]
    /\ lists' = Unlinks(s)
    /\ tabs' = RemoveFirst(tabs, c)
    /\ overlapped' = (overlapped \/ Used({s}))

(* gui_remove_all_chat_sessions: the window takes all chats along.         *)
ForgetsAll ==
    /\ chats' = <<>> /\ tabs' = <<>> /\ shown' = {} /\ unread' = {}
    /\ window' = "none" /\ buttons' = {}
    /\ lists' = [p \in ChatProtocols |-> <<>>] /\ session' = <<>>
    /\ overlapped' = (overlapped \/ Used(Live))

-----------------------------------------------------------------------------
(* gui_msg_receive, for a message or for a contact that is clicked         *)

Show(m)   == settings.autoShow \/ ~m.said
Tray(m)   == ~Show(m) /\ settings.docklet
Sounds(m) == m.said /\ settings.noisy

(* The session s has no chat: "docklet set icon", or it will be shown.     *)
Announces(s, m) ==
    /\ icon' = IF Tray(m) THEN "message" ELSE icon
    /\ calls' = Append(calls, ChatCall("create", s, 0, m, ~Tray(m), Tray(m) \/ Sounds(m)))

(* A new session, in the list before anything is emitted.                  *)
ReceiveFirst(m) ==
    /\ ChatDispatches /\ Len(calls) < MaxChatCalls /\ Found(m) = {}
    /\ FreshSessions # {}
    /\ LET s == CHOOSE s \in FreshSessions : TRUE
           new == [protocol |-> m.protocol, from |-> m.from, with |-> {}, chat |-> 0]
       IN /\ session' = [t \in Live \cup {s} |-> IF t = s THEN new ELSE session[t]]
          /\ lists' = [lists EXCEPT ![m.protocol] = Append(@, s)]
          /\ Announces(s, m)
    /\ UNCHANGED <<settings, chats, tabs, shown, window, buttons, invisible, ghosts, chatFault>>

(* The session was found, but its first message still waits for its chat.  *)
ReceiveOvertaking(m) ==
    /\ ChatDispatches /\ Len(calls) < MaxChatCalls
    /\ \E s \in Found(m) : session[s].chat = 0 /\ Announces(s, m)
    /\ overlapped' = TRUE
    /\ UNCHANGED <<settings, chatView, invisible, unread, missed, chatFault>>

ReceiveAgain(m) ==
    /\ ChatDispatches /\ Len(calls) < MaxChatCalls
    /\ \E s \in Found(m) :
          /\ session[s].chat # 0
          /\ calls' = Append(calls, ChatCall("look", s, 0, m, Show(m), Sounds(m)))
    /\ UNCHANGED <<settings, chatView, invisible, icon, ghosts, chatFault>>

(* create_chat, when what was emitted has returned: a page or a window.  A *)
(* chat that is not shown waits in invisible_chats.  In tabbed style there *)
(* is one row of buttons, below the pages, which is made with the window.  *)
Create ==
    /\ CallAt("create") /\ Latest.session \in Live
    /\ Latest.show \/ Len(invisible) < MaxWaiting
    /\ FreshChats # {}
    /\ LET c == CHOOSE c \in FreshChats : TRUE IN
          /\ session' = [session EXCEPT ![Latest.session].with = Latest.message.with,
                                        ![Latest.session].chat = c]
          /\ chats' = [d \in Alive \cup {c} |-> IF d = c THEN Latest.session ELSE chats[d]]
          /\ tabs' = IF Tabbed THEN Append(tabs, c) ELSE tabs
          /\ buttons' = IF Tabbed /\ window = "none" THEN {Latest.session} ELSE buttons
          /\ IF Latest.show
             THEN Presents(c, Alive \cup {c}) /\ UNCHANGED invisible
             ELSE /\ invisible' = Append(invisible, c)
                  /\ window' = IF Tabbed /\ window = "none" THEN "hidden" ELSE window
                  /\ UNCHANGED <<shown, unread>>
    /\ Goes("append", 0, Sounds(Latest.message))
    /\ UNCHANGED <<settings, lists, icon, overlapped, missed, chatFault>>

(* The icon is reset; a first message may be waiting that will be hidden.  *)
ResetsIcon ==
    /\ icon' = "default"
    /\ missed' = (missed \/ \E i \in DOMAIN calls : calls[i].at = "create" /\ ~calls[i].show)

(* A chat whose window is visible is left as it is.                        *)
LookVisible ==
    /\ CallAt("look") /\ Latest.session \in Live
    /\ LET c == session[Latest.session].chat IN c \in Alive /\ WindowVisible(c)
    /\ Goes("append", 0, Sounds(Latest.message))
    /\ UNCHANGED <<settings, chatView, invisible, icon, ghosts, chatFault>>

LookShow ==
    /\ CallAt("look") /\ Latest.session \in Live
    /\ LET c == session[Latest.session].chat
       IN  /\ c \in Alive /\ ~WindowVisible(c)
           /\ Latest.show \/ ~settings.docklet
           /\ invisible' = IF Latest.show THEN RemoveFirst(invisible, c) ELSE invisible
           /\ IF Latest.show /\ invisible' = <<>> THEN ResetsIcon ELSE UNCHANGED <<icon, missed>>
           /\ Goes("present", c, Latest.show /\ invisible' = <<>>)
    /\ UNCHANGED <<settings, chatView, unread, overlapped, chatFault>>

(* Mutant of LookHide: the chat is not entered, the icon shows it.         *)
LookHideOnly ==
    /\ CallAt("look") /\ Latest.session \in Live
    /\ LET c == session[Latest.session].chat
       IN  /\ c \in Alive /\ ~WindowVisible(c)
           /\ ~Latest.show /\ settings.docklet
           /\ icon' = "message"
           /\ Goes("append", 0, TRUE)
    /\ UNCHANGED <<settings, chatView, invisible, ghosts, chatFault>>

(* It waits once more, and is in the list once more.                       *)
LookHide ==
    /\ CallAt("look") /\ Latest.session \in Live
    /\ LET c == session[Latest.session].chat
       IN  /\ c \in Alive /\ ~WindowVisible(c)
           /\ ~Latest.show /\ settings.docklet /\ Len(invisible) < MaxWaiting
           /\ invisible' = Append(invisible, c)
           /\ icon' = "message"
           /\ Goes("append", 0, TRUE)
    /\ UNCHANGED <<settings, chatView, ghosts, chatFault>>

PresentChat ==
    /\ CallAt("present") /\ Latest.chat \in Alive
    /\ Presents(Latest.chat, Alive)
    /\ Goes("append", 0, Sounds(Latest.message))
    /\ UNCHANGED <<settings, lists, session, chats, tabs, buttons, invisible, icon, overlapped,
                   missed, chatFault>>

(* gui_chat_append, after the OSD was told.                                *)
AppendMessage ==
    /\ CallAt("append") /\ Latest.session \in Live /\ session[Latest.session].chat \in Alive
    /\ LET c == session[Latest.session].chat
       IN  unread' = IF Latest.message.said /\ ~Visible(c) THEN unread \cup {c} ELSE unread
    /\ Returns
    /\ UNCHANGED <<settings, chatView, invisible, icon, overlapped, missed, chatFault>>

(* The session or the chat is gone when the emission has returned.         *)
CallFaults ==
    /\ ChatWorks /\ calls # <<>>
    /\ \/ Latest.at \in {"create", "look", "append"} /\ Latest.session \notin Live
       \/ /\ Latest.at \in {"look", "append"} /\ Latest.session \in Live
          /\ session[Latest.session].chat \notin Alive
       \/ Latest.at \in {"present", "sent"} /\ Latest.chat \notin Alive
    /\ ChatFaults("used")

-----------------------------------------------------------------------------
(* The user and the chats                                                  *)

(* on_send_clicked, in a chat that is seen: "send message" is emitted,     *)
(* then the input is cleared.                                              *)
Send(c) ==
    /\ ChatDispatches /\ Len(calls) < MaxChatCalls /\ c \in Alive /\ Visible(c)
    /\ IF chats[c] \notin Live THEN ChatFaults("used")
       ELSE /\ calls' = Append(calls, ChatCall("sent", chats[c],
                                           IF Tabbed THEN c ELSE session[chats[c]].chat,
                                           [said |-> FALSE], TRUE, TRUE))
            /\ UNCHANGED <<settings, chatView, invisible, icon, ghosts, chatFault>>

Sent ==
    /\ CallAt("sent") /\ Latest.chat \in Alive
    /\ Returns
    /\ UNCHANGED <<settings, chatView, invisible, icon, ghosts, chatFault>>

(* on_destroy_chat for the page c.  Without another session of the         *)
(* protocol and another visible page the window is destroyed, with what    *)
(* other protocols have in it.                                             *)
ClosesPage(c) ==
    LET s == chats[c]
    IN  IF s \notin Live THEN ChatFaults("used")
        ELSE /\ IF Unlinks(s)[session[s].protocol] = <<>> /\ shown \ {c} = {}
                THEN ForgetsAll
                ELSE /\ Forgets(c, s)
                     /\ shown' = shown \ {c} /\ unread' = unread \ {c}
                     /\ window' = IF shown \ {c} = {} THEN "hidden" ELSE window
                     /\ UNCHANGED buttons
             /\ UNCHANGED <<settings, invisible, icon, calls, missed, chatFault>>

(* The button at the bottom, or Escape, in the present page.               *)
CloseCurrent(c) ==
    /\ ChatDispatches /\ Tabbed /\ c \in Alive /\ Visible(c)
    /\ ClosesPage(c)

(* The button of the tab c, which knows its session, and that its chat.    *)
CloseTab(c) ==
    /\ ChatDispatches /\ Tabbed /\ c \in Alive /\ Visible(c)
    /\ IF chats[c] \notin Live THEN ChatFaults("used")
       ELSE LET d == session[chats[c]].chat
            IN  ClosesPage(IF d \in Alive THEN d ELSE Last(tabs))

(* The window manager closes the window of all chats.                      *)
CloseWindow ==
    /\ ChatDispatches /\ Tabbed /\ window = "shown"
    /\ ForgetsAll
    /\ UNCHANGED <<settings, invisible, icon, calls, missed, chatFault>>

(* The same for the window of the chat c, in classic style.                *)
CloseChat(c) ==
    /\ ChatDispatches /\ ~Tabbed /\ c \in Alive /\ Visible(c)
    /\ LET s == chats[c]
       IN  IF s \notin Live \/ session[s].chat \notin Alive THEN ChatFaults("used")
           ELSE /\ Forgets(c, s)
                /\ shown' = shown \ {c} /\ unread' = unread \ {c}
                /\ UNCHANGED <<settings, window, buttons, invisible, icon, calls, missed, chatFault>>

(* The button at the bottom, or Escape, in classic style.                  *)
HideChat(c) ==
    /\ ChatDispatches /\ ~Tabbed /\ c \in Alive /\ Visible(c)
    /\ shown' = shown \ {c}
    /\ missed' = (missed \/ Used({chats[c]}))
    /\ UNCHANGED <<settings, lists, session, chats, tabs, window, buttons, invisible, icon,
                   calls, unread, overlapped, chatFault>>

(* on_stick_clicked: the pin knows the session it was made with, which in  *)
(* tabbed style is that of the first page, closed or not.  The window      *)
(* manager does the rest.                                                  *)
Stick(s) ==
    /\ ChatDispatches
    /\ IF Tabbed THEN window = "shown" /\ s \in buttons
       ELSE \E c \in Alive : Visible(c) /\ chats[c] = s
    /\ IF s \in Live THEN session[s].chat \notin Alive \cup {0} /\ ChatFaults("used")
       ELSE ChatFaults(IF Tabbed THEN "outlived" ELSE "used")

(* The icon is clicked: "gui show invisible chats".                        *)
ShowInvisible ==
    /\ ChatDispatches /\ settings.docklet /\ ToSet(invisible) \subseteq Alive
    /\ ResetsIcon
    /\ IF invisible = <<>> THEN UNCHANGED <<shown, window, unread>>
       ELSE /\ shown' = IF Tabbed THEN Alive ELSE shown \cup ToSet(invisible)
            /\ window' = IF Tabbed THEN "shown" ELSE window
            /\ unread' = unread \ shown'
    /\ invisible' = <<>>
    /\ UNCHANGED <<settings, lists, session, chats, tabs, buttons, calls, overlapped, chatFault>>

(* A chat in the list was destroyed: the memory is looked at, and skipped  *)
(* if it does not look like an object.                                     *)
ShowDestroyed ==
    /\ ChatDispatches /\ settings.docklet /\ ~(ToSet(invisible) \subseteq Alive)
    /\ \/ ChatFaults("dangling")
       \/ /\ ResetsIcon
          /\ LET cs == ToSet(invisible) \cap Alive
             IN  IF cs = {} THEN UNCHANGED <<shown, window, unread>>
                 ELSE /\ shown' = IF Tabbed THEN Alive ELSE shown \cup cs
                      /\ window' = IF Tabbed THEN "shown" ELSE window
                      /\ unread' = unread \ shown'
          /\ invisible' = <<>>
          /\ UNCHANGED <<settings, lists, session, chats, tabs, buttons, calls, overlapped,
                         chatFault>>

-----------------------------------------------------------------------------

ChatInit ==
    /\ settings \in [style : {"tabbed", "classic"}, autoShow : BOOLEAN, noisy : BOOLEAN,
                     docklet : BOOLEAN]
    /\ lists = [p \in ChatProtocols |-> <<>>]
    /\ session = <<>> /\ chats = <<>> /\ tabs = <<>> /\ shown = {} /\ window = "none"
    /\ buttons = {}
    /\ invisible = <<>> /\ icon = "default" /\ calls = <<>>
    /\ unread = {} /\ overlapped = FALSE /\ missed = FALSE /\ chatFault = "none"

ChatNext ==
    \/ \E m \in Messages : ReceiveFirst(m) \/ ReceiveOvertaking(m) \/ ReceiveAgain(m)
    \/ Create \/ LookVisible \/ LookShow \/ LookHide \/ PresentChat \/ AppendMessage \/ CallFaults
    \/ \E c \in Chats :
          \/ Send(c) \/ CloseCurrent(c) \/ CloseTab(c) \/ CloseChat(c) \/ HideChat(c)
    \/ Sent \/ CloseWindow \/ ShowInvisible \/ ShowDestroyed
    \/ \E s \in Sessions : Stick(s)

ChatSpec == ChatInit /\ [][ChatNext]_chatVars

-----------------------------------------------------------------------------
(***************************************************************************)
(* Properties.                                                             *)
(***************************************************************************)

(* Every chat belongs to a session in a list, which knows it as its chat,  *)
(* and nothing that was freed is used, unless a message overtook the first *)
(* one of its session (GUI_plugin.c:929-959) or a session was closed under *)
(* a call that emits.  In particular the callbacks that keep a session as  *)
(* their argument (gui_chat.c:1265-1275) are gone before it is; except the *)
(* one of the pin below the pages (gui_chat.c:946, 1312), which outlives   *)
(* the first page, and that a closed chat stays in invisible_chats.        *)
ChatsOwned ==
    ~overlapped =>
        /\ chatFault # "used"
        /\ \A c \in Alive : chats[c] \in Live /\ session[chats[c]].chat = c
        /\ \A p \in ChatProtocols : ToSet(lists[p]) = {s \in Live : session[s].protocol = p}

(* A chat with a message that nobody could see waits in invisible_chats,   *)
(* and the icon says so, unless the icon was reset between its setting and *)
(* the creation of the chat (GUI_plugin.c:947, 959), or the user hid the   *)
(* chat while the sound of the message was played.                         *)
UnreadAnnounced ==
    LET waiting == unread \ {calls[i].chat : i \in {j \in DOMAIN calls : calls[j].at = "present"}}
    IN  ~missed /\ waiting # {} => waiting \subseteq ToSet(invisible) /\ icon = "message"
=============================================================================
