----------------------------- MODULE MCServices -----------------------------
(***************************************************************************)
(* An instance of what the plugins keep of the state of somebody else, for *)
(* TLC: the Tlen session and the Tlen contacts, the Jabber contacts, and   *)
(* the statuses auto-away changes.  They share no state, so a behaviour is *)
(* one of one part, chosen at the beginning.                               *)
(***************************************************************************)
EXTENDS TlenSession, AutoAway, JabberContacts, TlenContacts

VARIABLES
    part         \* which of them

MCAccounts == <<"gadu", "jabber">>
MCStatusList   == ("gadu" :> {"available", "busy", "invisible", "offline"})
                  @@ ("jabber" :> {"available", "chat", "away", "dnd", "offline"})
MCOnlineStatus == ("gadu" :> <<"available">>) @@ ("jabber" :> <<"available", "chat">>)
MCAwayStatus   == ("gadu" :> <<"busy", "invisible">>) @@ ("jabber" :> <<"away", "dnd">>)
mcVars     == <<part, tlenVars, rosterVars, contactVars, awayVars>>

ASSUME ServicesAssumption ==
    {MaxStanzas, MaxQueue, MaxRemovals, MaxEntries, MaxUnderWay, MaxSearches} \subseteq Nat

-----------------------------------------------------------------------------
(* The initial states of each part.                                        *)
MCInit ==
    /\ part \in {"tlen", "tlen contacts", "jabber", "away"}
    /\ TlenInit /\ RosterInit /\ ContactsInit /\ AwayInit
    /\ part # "tlen" => configured
    /\ part # "away" => enabled

MCNext ==
    /\ UNCHANGED part
    /\ \/ /\ part = "tlen" /\ TlenNext
          /\ UNCHANGED <<rosterVars, contactVars, awayVars>>
       \/ /\ part = "jabber" /\ RosterNext
          /\ UNCHANGED <<tlenVars, contactVars, awayVars>>
       \/ /\ part = "tlen contacts" /\ ContactsNext
          /\ UNCHANGED <<tlenVars, rosterVars, awayVars>>
       \/ /\ part = "away" /\ AwayNext
          /\ UNCHANGED <<tlenVars, rosterVars, contactVars>>

MCSpec == MCInit /\ [][MCNext]_mcVars
=============================================================================
