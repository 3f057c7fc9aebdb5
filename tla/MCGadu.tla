------------------------------- MODULE MCGadu -------------------------------
(***************************************************************************)
(* An instance of the Gadu-Gadu session for TLC: logging in, reading       *)
(* packets, and keeping the contacts.  Each abstracts what the others are  *)
(* about and they share no state, so a behaviour is one of one part,       *)
(* chosen at the beginning.  The contacts come three times: with additions *)
(* and removals that overlap, with several questions for a removal, and    *)
(* with lists exported and imported.                                       *)
(***************************************************************************)
EXTENDS GaduLogin, GaduPackets, GaduContacts, TLC

VARIABLE part    \* which of them

mcVars == <<part, vars, packetVars, contactVars>>

(* Contacts are alike.                                                     *)
MCSymmetry == Permutations(Contacts)

-----------------------------------------------------------------------------
(* The initial states of each part; only the login has several.            *)
MCInit ==
    /\ part \in {"login", "packets", "additions", "removals", "copies"}
    /\ Init /\ PacketInit /\ ContactsInit
    /\ part # "login" => ~server

(* The parts of ContactsNext.  There are more contacts than an import      *)
(* looks at only where there are lists, and none of them is available.     *)
Few       == Cardinality((contacts \cup Available(Contacts) \cup watched)') < Cardinality(Contacts)
Additions == ContactsNext /\ Lists' = <<>> /\ Len(dialogs') <= 1 /\ Few
Removals  == ContactsNext /\ Lists' = <<>> /\ adding' = <<>> /\ Few
Copies    == /\ ContactsNext /\ adding' = <<>> /\ Len(dialogs') <= 1
             /\ (Few /\ dialogs' = <<>>) \/ Available(Contacts)' = {}

MCNext ==
    /\ UNCHANGED part
    /\ \/ part = "login" /\ Next /\ UNCHANGED <<packetVars, contactVars>>
       \/ part = "packets" /\ PacketNext /\ UNCHANGED <<vars, contactVars>>
       \/ part = "additions" /\ Additions /\ UNCHANGED <<vars, packetVars>>
       \/ part = "removals" /\ Removals /\ UNCHANGED <<vars, packetVars>>
       \/ part = "copies" /\ Copies /\ UNCHANGED <<vars, packetVars>>

MCSpec == MCInit /\ [][MCNext]_mcVars
=============================================================================
