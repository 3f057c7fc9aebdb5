------------------------------ MODULE MCDesktop ------------------------------
(***************************************************************************)
(* An instance of the repository and of the GUI for TLC: tables and        *)
(* watches, conversations, and the list of contacts.  They share no state  *)
(* (the view's part of the repository is its own), so a behaviour is one   *)
(* of one part, chosen at the beginning.                                   *)
(***************************************************************************)
EXTENDS MCRepo, UserView, Chat

CONSTANTS jabber, anna, bob, carol

VARIABLE part   \* which of them

ProtocolPlugins == {gadu, jabber}
Said(p, c, cs)  == [protocol |-> p, from |-> c, with |-> cs, said |-> TRUE]

(* A chat and a conference, a chat of another protocol, and a click.       *)
MCMessages == {Said(gadu, anna, {}), Said(gadu, anna, {anna, bob}), Said(jabber, carol, {}),
               [Said(gadu, anna, {}) EXCEPT !.said = FALSE]}

MCContacts == {anna}
MCOf       == [c \in MCContacts |-> gadu]
MCConfigs  == [tree : BOOLEAN, showActive : BOOLEAN, osd : {TRUE}, blink : {TRUE}]

mcVars == <<part, vars, chatVars, viewVars>>

ASSUME DesktopAssumption == UserAssumption /\ {MaxCalls, MaxChatCalls} \subseteq Nat /\ MaxWaiting \in Nat

-----------------------------------------------------------------------------
(* The initial states of each part.                                        *)
MCInit ==
    /\ part \in {"repo", "chat", "view"}
    /\ Init /\ ChatInit /\ ViewInit
    /\ part # "chat" => settings = [style |-> "tabbed", autoShow |-> TRUE, noisy |-> TRUE,
                                    docklet |-> TRUE]
    /\ part # "view" => ~config.tree /\ ~config.showActive

MCNext ==
    /\ UNCHANGED part
    /\ \/ part = "repo" /\ Next /\ UNCHANGED <<chatVars, viewVars>>
       \/ part = "chat" /\ ChatNext /\ UNCHANGED <<vars, viewVars>>
       \/ part = "view" /\ ViewNext /\ UNCHANGED <<vars, chatVars>>

MCSpec == MCInit /\ [][MCNext]_mcVars
=============================================================================
