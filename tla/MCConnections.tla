---------------------------- MODULE MCConnections ----------------------------
(***************************************************************************)
(* An instance of the connections for TLC: logging in to Gadu-Gadu, files  *)
(* sent directly, and the Jabber connection.  The three share no state, so *)
(* a behaviour is one of one part, chosen at the beginning.                *)
(***************************************************************************)
EXTENDS Dcc, Jabber, SequencesExt

CONSTANTS first, second, third,                                   \* transfers
    Fds, MaxOthers, SourceIds, Tries, Proxies              \* of GaduLogin

VARIABLES
    part,        \* which of them
    session, open, others, sources, watch, loginPrevCheck, count, server, proxyOn,
    loginAsked, disturbed, loginFault                      \* of GaduLogin

L == INSTANCE GaduLogin WITH
        Statuses <- {"invisible"}, prevCheck <- loginPrevCheck,
        asked <- loginAsked, fault <- loginFault

loginVars == <<session, open, others, sources, watch, loginPrevCheck, count, server, proxyOn,
               loginAsked, disturbed, loginFault>>
mcVars == <<part, vars, loginVars, jabberVars>>

(* A file of more than one chunk, a short one, and an empty one.           *)
MCSize == (first :> 3) @@ (second :> 1) @@ (third :> 0)

(* The empty file is sent alone; a program ends, and a unit is written in  *)
(* part, when it is the first file only that is sent.                      *)
Used    == {t \in Transfers : flow[t] # "unused"}
Partial == torn # {} \/ \E e \in Ends : \E p \in ToSet(wire[e]) : p.is = "data" /\ p.arg.file = "none"
Bounded ==
    /\ Used' = {third} \/ third \notin Used'
    /\ Partial' => Used' = {first}
    /\ running' # running => Used \subseteq {first}

ASSUME ConnectionsAssumption ==
    /\ 0 \notin Conns /\ MaxLogins \in Nat /\ MaxActions \in Nat
    /\ "available" \in Wanted /\ "unavailable" \notin Wanted /\ MaxRetries \in Nat

-----------------------------------------------------------------------------
(* L!Init, JabberInit and Init; one part only has several initial states.  *)
MCInit ==
    /\ part \in {"login", "transfer", "jabber"}
    /\ Init /\ L!Init /\ JabberInit
    /\ part # "login" => ~server

OfLogin(A)    == part = "login" /\ A /\ UNCHANGED <<part, vars, jabberVars>>
OfTransfer(A) == part = "transfer" /\ A /\ Bounded /\ UNCHANGED <<part, loginVars, jabberVars>>
OfJabber(A)   == part = "jabber" /\ A /\ UNCHANGED <<part, vars, loginVars>>

MCNext == OfLogin(L!Next) \/ OfTransfer(Next) \/ OfJabber(JabberNext)

(* L!Fairness, Fairness and JabberFairness, each of the part chosen.       *)
MCFairness ==
    /\ WF_mcVars(OfLogin(L!DispatchAny)) /\ WF_mcVars(OfLogin(L!PeerActs))
    /\ \A e \in Ends : WF_mcVars(OfTransfer(Accept(e) \/ Step(e)))
    /\ \A t \in Transfers : WF_mcVars(OfTransfer(RequestArrives(t)))
    /\ WF_mcVars(OfJabber(LoginThread)) /\ WF_mcVars(OfJabber(Told))
    /\ \A c \in Conns : WF_mcVars(OfJabber(Answers(c)))

MCSpec == MCInit /\ [][MCNext]_mcVars /\ MCFairness

-----------------------------------------------------------------------------
(* Every login ends, see GaduLogin.                                        *)
LoginEnds == L!LoginEnds
=============================================================================
