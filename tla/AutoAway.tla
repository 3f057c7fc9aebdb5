------------------------------ MODULE AutoAway ------------------------------
(***************************************************************************)
(* The auto-away plugin (aaway.c), beside a user who changes the statuses  *)
(* of his protocols himself.  Once a second check_idle_time walks along    *)
(* the plugins; for each protocol it asks for the status and may set       *)
(* another one, and both are emissions, in which anything may happen.      *)
(*                                                                         *)
(* External: the protocols, which set the status they are given and log in *)
(* for it if they are not connected, and the X server, which knows how     *)
(* long the user did nothing.                                              *)
(*                                                                         *)
(* Not modelled: descriptions of statuses, plugins that come and go, an    *)
(* interval of 0 minutes.                                                  *)
(***************************************************************************)
EXTENDS Naturals, SequencesExt

CONSTANTS
    Accounts,      \* the protocols, in the order of loaded_plugins
    StatusList,    \* what the user may choose of each, "offline" among it
    OnlineStatus,  \* protocol->online_status: a list, of which any entry will
    AwayStatus     \* protocol->away_status     do, and the first one is set

VARIABLES
    is,        \* the status of each protocol
    aaway,     \* aaway_hash: the protocols it made away
    idle,      \* minutes: none, less than the interval, at least the interval
    enabled,   \* the preference
    walk,      \* check_idle_time: what for, the next plugin, what it was told
    chosen,    \* history: what the user chose last
    restored,  \* history: protocols it made online again since then
    lapsed     \* history: protocols whose status changed behind its back

awayVars == <<is, aaway, idle, enabled, walk, chosen, restored, lapsed>>

Protos    == ToSet(Accounts)
States    == UNION {StatusList[p] : p \in Protos}
Online(p) == ToSet(OnlineStatus[p])
NotAsked  == "not asked"
Resting   == [mode |-> "none", at |-> 1, seen |-> NotAsked]

(* There is a protocol; both lists of each have a first entry, and offline *)
(* is not online.                                                          *)
ASSUME AwayAssumption ==
    /\ Accounts \in Seq(Protos) /\ Accounts # <<>>
    /\ \A p \in Protos :
          /\ "offline" \in StatusList[p] /\ {NotAsked, "set"} \cap StatusList[p] = {}
          /\ OnlineStatus[p] \in Seq(StatusList[p] \ {"offline"}) /\ OnlineStatus[p] # <<>>
          /\ AwayStatus[p] \in Seq(StatusList[p]) /\ AwayStatus[p] # <<>>

Here == Accounts[walk.at]

(* It relies on the status of p: it made p away, or was told its status.   *)
Relies(p) == p \in aaway \/ (walk.seen # NotAsked /\ Here = p)

-----------------------------------------------------------------------------
(* The user, and the connections                                           *)

Chooses(p, s) ==
    /\ is' = [is EXCEPT ![p] = s] /\ chosen' = [chosen EXCEPT ![p] = s]
    /\ restored' = restored \ {p}
    /\ lapsed' = IF Relies(p) THEN lapsed \cup {p} ELSE lapsed \ {p}
    /\ UNCHANGED <<aaway, idle, enabled, walk>>

Breaks(p) ==
    /\ is[p] # "offline" /\ is' = [is EXCEPT ![p] = "offline"]
    /\ lapsed' = IF Relies(p) THEN lapsed \cup {p} ELSE lapsed
    /\ UNCHANGED <<aaway, idle, enabled, walk, chosen, restored>>

IdleGrows ==
    /\ idle # "interval" /\ idle' = IF idle = "none" THEN "some" ELSE "interval"
    /\ UNCHANGED <<is, aaway, enabled, walk, chosen, restored, lapsed>>

Moves ==
    /\ idle # "none" /\ idle' = "none"
    /\ UNCHANGED <<is, aaway, enabled, walk, chosen, restored, lapsed>>

UpdateAwayConfig ==
    /\ enabled' = ~enabled
    /\ UNCHANGED <<is, aaway, idle, walk, chosen, restored, lapsed>>

-----------------------------------------------------------------------------
(* check_idle_time                                                         *)

Tick ==
    /\ walk = Resting
    /\ walk' = CASE idle = "interval" /\ enabled -> [walk EXCEPT !.mode = "leaving"]
                 [] idle = "none"                -> [walk EXCEPT !.mode = "back"]
                 [] OTHER                        -> walk
    /\ UNCHANGED <<is, aaway, idle, enabled, chosen, restored, lapsed>>

(* To the next plugin, if there is one.                                    *)
Onward == walk' = IF walk.at = Len(Accounts) THEN Resting
                  ELSE [walk EXCEPT !.at = @ + 1, !.seen = NotAsked]

(* Mutant of Concerned: the protocols it made away are not told apart.     *)
ConcernedAll == TRUE

Concerned == Here \in aaway <=> walk.mode = "back"

(* "get current status"                                                    *)
AsksStatus ==
    /\ walk.mode # "none" /\ walk.seen = NotAsked
    /\ IF Concerned THEN walk' = [walk EXCEPT !.seen = is[Here]] ELSE Onward
    /\ UNCHANGED <<is, aaway, idle, enabled, chosen, restored, lapsed>>

(* What it changes, and into what: the lists serve for both directions.    *)
Changes(p)  == ToSet(IF walk.mode = "leaving" THEN OnlineStatus[p] ELSE AwayStatus[p])
NewState(p) == Head(IF walk.mode = "leaving" THEN AwayStatus[p] ELSE OnlineStatus[p])

(* "change status", if the status is one to be changed.                    *)
Sets ==
    /\ walk.seen \notin {NotAsked, "set"}
    /\ IF walk.seen \in Changes(Here)
       THEN /\ is' = [is EXCEPT ![Here] = NewState(Here)]
            /\ walk' = [walk EXCEPT !.seen = "set"]
            /\ restored' = IF walk.mode = "back" THEN restored \cup {Here} ELSE restored
       ELSE Onward /\ UNCHANGED <<is, restored>>
    /\ UNCHANGED <<aaway, idle, enabled, chosen, lapsed>>

(* Back from the emission: the protocol is remembered or forgotten.        *)
Remembers ==
    /\ walk.seen = "set" /\ Onward
    /\ aaway' = IF walk.mode = "leaving" THEN aaway \cup {Here}
                ELSE aaway \ {Here}
    /\ UNCHANGED <<is, idle, enabled, chosen, restored, lapsed>>

-----------------------------------------------------------------------------

AwayInit ==
    /\ is = [p \in Protos |-> "offline"] /\ chosen = is
    /\ aaway = {} /\ restored = {} /\ lapsed = {} /\ idle = "none" /\ enabled \in BOOLEAN
    /\ walk = Resting

AwayNext ==
    \/ \E p \in Protos : Breaks(p) \/ \E s \in StatusList[p] : Chooses(p, s)
    \/ IdleGrows \/ Moves \/ UpdateAwayConfig
    \/ Tick \/ AsksStatus \/ Sets \/ Remembers

AwaySpec == AwayInit /\ [][AwayNext]_awayVars

-----------------------------------------------------------------------------
(***************************************************************************)
(* Properties.                                                             *)
(***************************************************************************)

(* A protocol that is connected has the status the user chose, or is away  *)
(* because he chose to be online, and is remembered or about to be, so that*)
(* it will be online again: what auto-away does never takes the place of a *)
(* choice.  Except that it brings back the first status of the online list *)
(* only, so that who chose to chat is made available (aaway.c:176); that a *)
(* protocol is remembered until it is found away while the user is there   *)
(* (aaway.c:161, 185): if it lost its connection or the user chose another *)
(* status meanwhile, the next time he chooses one of the away list (of     *)
(* Gadu-Gadu also to be invisible) he is made online; and a choice or a    *)
(* loss of the connection inside the emissions of check_idle_time          *)
(* (aaway.c:109, 133, 159, 183) is overwritten, or remembered as if        *)
(* auto-away had done it.                                                  *)
ChoiceKept ==
    \A p \in Protos \ lapsed :
        \/ is[p] \in {chosen[p], "offline"}
        \/ /\ chosen[p] \in Online(p)
           /\ \/ /\ is[p] = Head(AwayStatus[p])
                 /\ p \in aaway \/ (walk.seen = "set" /\ Here = p)
              \/ is[p] = Head(OnlineStatus[p]) /\ p \in restored
=============================================================================
