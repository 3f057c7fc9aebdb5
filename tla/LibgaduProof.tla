---------------------------- MODULE LibgaduProof ----------------------------
(***************************************************************************)
(* libgadu: GaduLogin, for any number of descriptors and of retries, and   *)
(* GaduPackets, for headers, bodies and limits of any length and any       *)
(* number of packets.                                                      *)
(***************************************************************************)
EXTENDS GaduLogin, GaduPackets, Integers, SequenceTheorems, TLAPS

(***************************************************************************)
(* Logging in: the session holds no number of anybody else, and loses none *)
(* but one; the plugin's source polls the right one; and the status is the *)
(* one asked for.                                                          *)
(***************************************************************************)
Fields == {"state", "check", "fd", "end", "proxy", "direct", "status", "initial",
           "link", "next", "inbox", "fits"}

(* The descriptors o contain those of s, which are nobody else's.          *)
Kept(s, o) ==
    /\ DOMAIN s = Fields /\ o \subseteq Fds /\ others \subseteq o
    /\ s.fd = 0 \/ s.fd \in o \ others
    /\ s.end = 0 \/ s.end \in o \ others
    /\ s.fd # 0 => s.fd # s.end
    /\ s.state = "none" => s.fd = 0 /\ s.end = 0

LostOf(s, o) == o \ (others \cup {s.fd, s.end})

(* From s and o to t and p, libgadu may lose the resolver's descriptor.    *)
Keeps(s, o, t, p) ==
    Kept(t, p) /\ t.end \in {0, s.end} /\ LostOf(t, p) \subseteq LostOf(s, o) \cup {s.end}

(* The fields of the state x of a callback.                                *)
Parts == {"running", "session", "open", "sources", "watch", "prevCheck", "count",
          "server", "proxyOn", "disturbed"}

Good(x) == DOMAIN x = Parts /\ Kept(x.session, x.open)

IInv == Kept(session, open)

-----------------------------------------------------------------------------
(* libgadu, call by call.                                                  *)

LEMMA NumberTypes == 0 \notin Fds
BY LoginAssumption

(* fail_connecting closes the descriptor and forgets it.                   *)
LEMMA FailsKeeps ==
    ASSUME NEW s, NEW o, Kept(s, o), s.state # "none", NEW t \in Fails(s, o)
    PROVE  Keeps(s, o, t.session, t.open)
<1>1. t.session = Enters(Shut(s), "idle", s.check) /\ t.open = Without(s, o)
  BY DEF Fails, Outcome
<1>2. Kept(t.session, t.open)
  BY <1>1, NumberTypes DEF Enters, Shut, Without, Kept, Fields
<1>. QED
  BY <1>1, <1>2 DEF Enters, Shut, Without, Keeps, Kept, LostOf, Fields

(* A new socket gets a number that is free once the old one is closed.     *)
LEMMA ReconnectsKeeps ==
    ASSUME NEW s, NEW o, Kept(s, o), s.state # "none",
           NEW next, NEW state, state # "none", NEW check,
           NEW t \in Reconnects(s, o, next, state, check)
    PROVE  Keeps(s, o, t.session, t.open)
<1>1. CASE t \in Fails(s, o)
  BY <1>1, FailsKeeps
<1>2. CASE t \notin Fails(s, o)
  <2>1. PICK n \in Fds \ Without(s, o) :
           t = Outcome(Enters(Socket(s, n, next), state, check), Without(s, o) \cup {n}, "none")
    BY <1>2 DEF Reconnects
  <2>. DEFINE u == Enters(Socket(s, n, next), state, check)
  <2>2. /\ DOMAIN u = Fields /\ u.fd = n /\ u.end = s.end /\ u.state = state
    BY DEF Enters, Socket, Kept, Fields
  <2>3. t.session = u /\ t.open = Without(s, o) \cup {n}
    BY <2>1 DEF Outcome
  <2>. DEFINE w == Without(s, o)
  <2>4. /\ w \subseteq Fds /\ others \subseteq w /\ n \notin w /\ n \in Fds
        /\ s.end = 0 \/ s.end \in w \ others
    BY NumberTypes DEF Kept, Without
  <2>5. LostOf(u, w \cup {n}) \subseteq LostOf(s, o) \cup {s.end}
    BY <2>2 DEF LostOf, Without
  <2>. HIDE DEF u, w
  <2>6. Kept(u, w \cup {n})
    <3>1. DOMAIN u = Fields /\ w \cup {n} \subseteq Fds /\ others \subseteq w \cup {n}
      BY <2>2, <2>4
    <3>2. u.fd \in (w \cup {n}) \ others /\ u.fd # u.end
      BY <2>2, <2>4, NumberTypes
    <3>3. u.end = 0 \/ u.end \in (w \cup {n}) \ others
      BY <2>2, <2>4
    <3>. QED
      BY <2>2, <3>1, <3>2, <3>3 DEF Kept
  <2>. QED
    BY <2>2, <2>3, <2>5, <2>6 DEF Keeps, w
<1>. QED
  BY <1>1, <1>2

(* A change that is not about the descriptors.                             *)
LEMMA SameKeeps ==
    ASSUME NEW s, NEW o, Kept(s, o), s.state # "none",
           NEW t, DOMAIN t = Fields, t.fd = s.fd, t.end = s.end, t.state # "none"
    PROVE  Keeps(t, o, t, o) /\ Keeps(s, o, t, o)
BY DEF Keeps, Kept, LostOf

(* The resolver's thread is cancelled before anything else happens.        *)
LEMMA ResolvingKeeps ==
    ASSUME NEW s, NEW o, Kept(s, o), s.state # "none", NEW t \in Resolving(s, o)
    PROVE  Keeps(s, o, t.session, t.open)
<1>. DEFINE r == [s EXCEPT !.end = 0]
<1>1. Kept(r, o) /\ r.state # "none" /\ r.end = 0
      /\ LostOf(r, o) \subseteq LostOf(s, o) \cup {s.end}
  BY DEF Kept, LostOf, Fields
<1>2. \/ t \in Fails(r, o)
      \/ t \in ToServer(r, o)
      \/ t \in Reconnects(r, o, "request", "connecting hub", "out")
  BY DEF Resolving
<1>. HIDE DEF r
<1>3. Keeps(r, o, t.session, t.open)
  <2>1. CASE t \in Fails(r, o)
    BY <1>1, <2>1, FailsKeeps
  <2>2. CASE t \in ToServer(r, o)
    BY <1>1, <2>2, ReconnectsKeeps DEF ToServer
  <2>3. CASE t \in Reconnects(r, o, "request", "connecting hub", "out")
    BY <1>1, <2>3, ReconnectsKeeps
  <2>. QED
    BY <1>2, <2>1, <2>2, <2>3
<1>. QED
  BY <1>1, <1>3, NumberTypes DEF Keeps, Kept, LostOf

LEMMA ConnectingHubKeeps ==
    ASSUME NEW s, NEW o, Kept(s, o), s.state # "none", NEW t \in ConnectingHub(s, o)
    PROVE  Keeps(s, o, t.session, t.open)
<1>1. \/ t \in Fails(s, o)
      \/ t \in ToServer(s, o)
      \/ t = Outcome([Enters(s, "reading data", "in") EXCEPT !.next = "page"], o, "none")
  BY DEF ConnectingHub
<1>2. CASE t \in Fails(s, o)
  BY <1>2, FailsKeeps
<1>3. CASE t \in ToServer(s, o)
  BY <1>3, ReconnectsKeeps DEF ToServer
<1>4. CASE t = Outcome([Enters(s, "reading data", "in") EXCEPT !.next = "page"], o, "none")
  BY <1>4, SameKeeps DEF Outcome, Enters, Kept, Fields
<1>. QED
  BY <1>1, <1>2, <1>3, <1>4

LEMMA ReadingDataKeeps ==
    ASSUME NEW s, NEW o, Kept(s, o), s.state # "none", NEW t \in ReadingData(s, o)
    PROVE  Keeps(s, o, t.session, t.open)
<1>1. t \in Fails(s, o) \/ t \in ToServer(s, o)
  BY DEF ReadingData
<1>2. CASE t \in Fails(s, o)
  BY <1>2, FailsKeeps
<1>3. CASE t \in ToServer(s, o)
  BY <1>3, ReconnectsKeeps DEF ToServer
<1>. QED
  BY <1>1, <1>2, <1>3

LEMMA ConnectingGGKeeps ==
    ASSUME NEW s, NEW o, Kept(s, o), s.state # "none", NEW t \in ConnectingGG(s, o)
    PROVE  Keeps(s, o, t.session, t.open)
<1>. DEFINE u == [Enters(s, "reading key", "in") EXCEPT
                     !.next = IF s.proxy THEN "proxy reply" ELSE @]
<1>1. \/ t \in Fails(s, o)
      \/ t \in Reconnects(s, o, "welcome", "reading key", "in")
      \/ t = Outcome(u, o, "none")
  BY DEF ConnectingGG
<1>2. CASE t \in Fails(s, o)
  BY <1>2, FailsKeeps
<1>3. CASE t \in Reconnects(s, o, "welcome", "reading key", "in")
  BY <1>3, ReconnectsKeeps
<1>4. CASE t = Outcome(u, o, "none")
  BY <1>4, SameKeeps DEF Outcome, Enters, Kept, Fields
<1>. QED
  BY <1>1, <1>2, <1>3, <1>4

LEMMA ReadingKeyKeeps ==
    ASSUME NEW s, NEW o, Kept(s, o), s.state # "none", NEW t \in ReadingKey(s, o)
    PROVE  Keeps(s, o, t.session, t.open)
<1>. DEFINE u == [s EXCEPT !.proxy = FALSE, !.inbox = "empty",
                           !.next = IF s.inbox = "whole" THEN "welcome" ELSE @]
            v == [s EXCEPT !.state = "reading reply", !.inbox = "empty",
                           !.next = "login reply"]
<1>1. t \in Fails(s, o) \/ t = Outcome(u, o, "none") \/ t = Outcome(v, o, "none")
  BY DEF ReadingKey
<1>2. CASE t \in Fails(s, o)
  BY <1>2, FailsKeeps
<1>3. CASE t = Outcome(u, o, "none")
  BY <1>3, SameKeeps DEF Outcome, Kept, Fields
<1>4. CASE t = Outcome(v, o, "none")
  BY <1>4, SameKeeps DEF Outcome, Kept, Fields
<1>. QED
  BY <1>1, <1>2, <1>3, <1>4

LEMMA ReadingReplyKeeps ==
    ASSUME NEW s, NEW o, Kept(s, o), s.state # "none", NEW t \in ReadingReply(s, o)
    PROVE  Keeps(s, o, t.session, t.open)
<1>. DEFINE u == [s EXCEPT !.state = "connected", !.inbox = "empty", !.next = "packets",
                           !.status = IF s.initial = "none" THEN "available" ELSE s.initial]
<1>1. t \in Fails(s, o) \/ t = Outcome(u, o, "success")
  BY DEF ReadingReply
<1>2. CASE t \in Fails(s, o)
  BY <1>2, FailsKeeps
<1>3. CASE t = Outcome(u, o, "success")
  BY <1>3, SameKeeps DEF Outcome, Kept, Fields
<1>. QED
  BY <1>1, <1>2, <1>3

LEMMA ConnectedKeeps ==
    ASSUME NEW s, NEW o, Kept(s, o), s.state # "none", NEW t \in Connected(s, o)
    PROVE  Keeps(s, o, t.session, t.open)
BY SameKeeps DEF Connected, Outcome, Kept, Fields

(* Every call of gg_watch_fd keeps the descriptors.                        *)
LEMMA WatchFdKeeps ==
    ASSUME NEW s, NEW o, Kept(s, o), s.state # "none", NEW t \in WatchFd(s, o)
    PROVE  Keeps(s, o, t.session, t.open)
<1>1. CASE s.state = "resolving"
  BY <1>1, ResolvingKeeps DEF WatchFd
<1>2. CASE s.state = "connecting hub"
  BY <1>2, ConnectingHubKeeps DEF WatchFd
<1>3. CASE s.state = "reading data"
  BY <1>3, ReadingDataKeeps DEF WatchFd
<1>4. CASE s.state = "connecting gg"
  BY <1>4, ConnectingGGKeeps DEF WatchFd
<1>5. CASE s.state = "reading key"
  BY <1>5, ReadingKeyKeeps DEF WatchFd
<1>6. CASE s.state = "reading reply"
  BY <1>6, ReadingReplyKeeps DEF WatchFd
<1>7. CASE s.state = "connected"
  BY <1>7, ConnectedKeeps DEF WatchFd
<1>8. CASE s.state \notin {"resolving", "connecting hub", "reading data", "connecting gg",
                          "reading key", "reading reply", "connected"}
  <2>1. t = Outcome(s, o, "none")
    BY <1>8 DEF WatchFd
  <2>. QED
    BY <2>1, SameKeeps DEF Outcome, Kept
<1>. QED
  BY <1>1, <1>2, <1>3, <1>4, <1>5, <1>6, <1>7, <1>8

-----------------------------------------------------------------------------
(* The plugin, on the state x of a callback.                               *)

(* A state y that follows x has lost at most the resolver's descriptor.    *)
Follows(x, y) ==
    Good(y) /\ LostOf(y.session, y.open) \subseteq LostOf(x.session, x.open) \cup {x.session.end}

(* gg_login gives free numbers, or fails.                                  *)
LEMMA LoginKeeps ==
    ASSUME NEW o, o \subseteq Fds, others \subseteq o, NEW status, NEW named, NEW proxy,
           NEW clean, NEW s \in Login(o, status, named, proxy, clean)
    PROVE  LET p == o \cup ({s.fd, s.end} \ {0})
           IN  Kept(s, p) /\ s.fd \notin o /\ s.end \notin o
<1>. DEFINE free == Fds \ o
            r == [NoSession EXCEPT !.initial = status, !.proxy = proxy, !.direct = named,
                                   !.fits = clean /\ (named => proxy)]
            p == o \cup ({s.fd, s.end} \ {0})
<1>1. DOMAIN r = Fields /\ r.fd = 0 /\ r.end = 0
  BY DEF NoSession, Fields
<1>. HIDE DEF r
<1>2. CASE s = NoSession
  BY <1>2, NumberTypes DEF NoSession, Kept, LostOf, Fields
<1>3. CASE \E n \in free :
               s = Enters(Socket(r, n, "welcome"), "connecting gg", "out")
  <2>1. PICK n \in free : s = Enters(Socket(r, n, "welcome"), "connecting gg", "out")
    BY <1>3
  <2>2. DOMAIN s = Fields /\ s.fd = n /\ s.end = 0 /\ s.state # "none"
    BY <1>1, <2>1 DEF Enters, Socket, Fields
  <2>. QED
    BY <2>2, NumberTypes DEF Kept, LostOf
<1>4. CASE \E q \in free \X free :
               /\ q[1] # q[2]
               /\ s = [Enters(r, "resolving", "in") EXCEPT
                          !.fd = q[1], !.end = q[2], !.link = "asking"]
  <2>1. PICK m \in free, n \in free :
            /\ m # n
            /\ s = [Enters(r, "resolving", "in") EXCEPT !.fd = m, !.end = n, !.link = "asking"]
    BY <1>4
  <2>2. DOMAIN s = Fields /\ s.fd = m /\ s.end = n /\ s.state # "none"
    BY <1>1, <2>1 DEF Enters, Fields
  <2>. QED
    BY <2>1, <2>2, NumberTypes DEF Kept, LostOf
<1>5. s = NoSession
      \/ \E n \in free : s = Enters(Socket(r, n, "welcome"), "connecting gg", "out")
      \/ \E q \in free \X free :
            /\ q[1] # q[2]
            /\ s = [Enters(r, "resolving", "in") EXCEPT
                       !.fd = q[1], !.end = q[2], !.link = "asking"]
  BY DEF Login, Lowest, r
<1>. QED
  BY <1>2, <1>3, <1>4, <1>5

(* A new source changes no descriptor.                                     *)
LEMMA WatchingKeeps ==
    ASSUME NEW x, Good(x), NEW n, NEW check, NEW y \in Watching(x, n, check)
    PROVE  /\ Good(y) /\ y.session = x.session /\ y.open = x.open
BY DEF Watching, Good, Parts

(* gg_logoff closes the descriptor; the resolver may never close its own.  *)
LEMMA DisconnectedKeeps ==
    ASSUME NEW x, Good(x)
    PROVE  Follows(x, Disconnected(x)) /\ Disconnected(x).session = NoSession
<1>1. /\ DOMAIN Disconnected(x) = Parts /\ Disconnected(x).session = NoSession
      /\ Disconnected(x).open = Without(x.session, x.open)
  BY DEF Disconnected, Good, Parts
<1>2. Kept(NoSession, Without(x.session, x.open))
  BY NumberTypes DEF Good, Kept, Without, NoSession, Fields
<1>3. LostOf(NoSession, Without(x.session, x.open))
          \subseteq LostOf(x.session, x.open) \cup {x.session.end}
  BY DEF LostOf, Without, NoSession
<1>. QED
  BY <1>1, <1>2, <1>3 DEF Follows, Good

(* gadu_gadu_login gets numbers that were free, and forgets the session it *)
(* finds.                                                                  *)
LEMMA LogsInKeeps ==
    ASSUME NEW x, Good(x), NEW status, NEW y \in LogsIn(x, status)
    PROVE  /\ Good(y) /\ x.open \subseteq y.open
           /\ y.session.fd \notin x.open /\ y.session.end \notin x.open
           /\ y.open \subseteq x.open \cup {y.session.fd, y.session.end}
<1>. DEFINE z(s) == [x EXCEPT !.session = s, !.open = @ \cup ({s.fd, s.end} \ {0}),
                              !.disturbed = FALSE]
<1>1. PICK s \in Login(x.open, status, x.server, x.proxyOn, Clean(x)) :
          y \in IF s.state = "none" THEN {Disconnected(z(s))} ELSE Watching(z(s), s.fd, "in")
  BY DEF LogsIn
<1>2. /\ Kept(s, x.open \cup ({s.fd, s.end} \ {0}))
      /\ s.fd \notin x.open /\ s.end \notin x.open
  BY LoginKeeps DEF Good, Kept
<1>3. Good(z(s)) /\ z(s).session = s /\ z(s).open = x.open \cup ({s.fd, s.end} \ {0})
  BY <1>2 DEF Good, Parts
<1>. HIDE DEF z
<1>4. CASE s.state # "none"
  <2>1. Good(y) /\ y.session = s /\ y.open = x.open \cup ({s.fd, s.end} \ {0})
    BY <1>1, <1>3, <1>4, WatchingKeeps
  <2>. QED
    BY <1>2, <2>1
<1>5. CASE s.state = "none"
  <2>1. y = Disconnected(z(s)) /\ s.fd = 0 /\ s.end = 0
    BY <1>1, <1>2, <1>5 DEF Kept
  <2>2. Good(y) /\ y.session = NoSession
    BY <1>3, <2>1, DisconnectedKeeps DEF Follows
  <2>3. y.open = x.open \ {0} /\ 0 \notin x.open
    BY <1>3, <2>1, NumberTypes DEF Disconnected, Without, Good, Parts, Kept
  <2>4. NoSession.fd = 0 /\ NoSession.end = 0
    BY DEF NoSession
  <2>. QED
    BY <2>2, <2>3, <2>4
<1>. QED
  BY <1>4, <1>5

LEMMA TriesAgainKeeps ==
    ASSUME NEW x, Good(x), NEW y \in TriesAgain(x)
    PROVE  Follows(x, y)
<1>. DEFINE d == Disconnected(x)
            u == [d EXCEPT !.count = @ + 1]
            v == [d EXCEPT !.count = 0]
<1>1. Follows(x, d) /\ d.session = NoSession
  BY DisconnectedKeeps
<1>2. y \in LogsIn(u, x.session.status) \/ y = v
  BY DEF TriesAgain
<1>. HIDE DEF d
<1>3. /\ Good(u) /\ u.session = NoSession /\ u.open = d.open
      /\ Good(v) /\ v.session = NoSession /\ v.open = d.open
  BY <1>1 DEF Follows, Good, Parts
<1>4. CASE y = v
  BY <1>1, <1>3, <1>4 DEF Follows
<1>5. CASE y \in LogsIn(u, x.session.status)
  <2>. HIDE DEF u, v
  <2>1. Good(y) /\ y.open \subseteq d.open \cup {y.session.fd, y.session.end}
    BY <1>3, <1>5, LogsInKeeps
  <2>2. LostOf(y.session, y.open) \subseteq LostOf(NoSession, d.open)
    BY <1>1, <2>1, NumberTypes DEF Follows, Good, Kept, LostOf, NoSession
  <2>. QED
    BY <1>1, <2>1, <2>2 DEF Follows
<1>. QED
  BY <1>2, <1>4, <1>5

LEMMA RewatchedKeeps ==
    ASSUME NEW x, Good(x), NEW src, NEW y \in Rewatched(x, src)
    PROVE  Good(y) /\ y.session = x.session /\ y.open = x.open
<1>1. CASE y = x
  BY <1>1
<1>2. CASE y # x
  <2>1. PICK z \in Watching(x, src.fd, x.session.check) :
            y = [z EXCEPT !.prevCheck = x.session.check, !.sources = @ \ {src}]
    BY <1>2 DEF Rewatched
  <2>2. Good(z) /\ z.session = x.session /\ z.open = x.open
    BY WatchingKeeps
  <2>. QED
    BY <2>1, <2>2 DEF Good, Parts
<1>. QED
  BY <1>1, <1>2

(* Everything test_chan does after gg_watch_fd.                            *)
LEMMA HandledKeeps ==
    ASSUME IInv, NEW src, NEW t, Keeps(session, open, t.session, t.open), NEW error,
           NEW y \in Handled(src, t, error)
    PROVE  Kept(y.session, y.open) /\ DOMAIN y = Parts
           /\ LostOf(y.session, y.open) \subseteq Lost \cup {session.end}
<1>. DEFINE x == [Present(src.id) EXCEPT !.session = t.session, !.open = t.open]
            u == [x EXCEPT !.server = FALSE]
            v == [x EXCEPT !.server = TRUE]
<1>1. /\ Good(x) /\ x.session = t.session /\ x.open = t.open
      /\ Good(u) /\ u.session = t.session /\ u.open = t.open
      /\ Good(v) /\ v.session = t.session /\ v.open = t.open
  BY DEF Present, Good, Parts, Keeps
<1>2. \/ \E z \in TriesAgain(x) : y = [z EXCEPT !.sources = @ \ {src}]
      \/ \E z \in TriesAgain(u) : y \in Rewatched(z, src)
      \/ y \in Rewatched(v, src)
      \/ y \in Rewatched(x, src)
  BY DEF Handled
<1>. HIDE DEF x, u, v
<1>3. LostOf(t.session, t.open) \cup {t.session.end} \subseteq Lost \cup {session.end, 0}
  BY DEF Keeps, Lost, LostOf
<1>4. SUFFICES Good(y) /\ LostOf(y.session, y.open)
                            \subseteq LostOf(t.session, t.open) \cup {t.session.end}
  BY <1>3, NumberTypes DEF Good, Kept, LostOf
<1>5. ASSUME NEW z \in TriesAgain(x), y = [z EXCEPT !.sources = @ \ {src}]
      PROVE  Good(y) /\ LostOf(y.session, y.open)
                            \subseteq LostOf(t.session, t.open) \cup {t.session.end}
  <2>1. Follows(x, z)
    BY <1>1, TriesAgainKeeps
  <2>2. Good(y) /\ y.session = z.session /\ y.open = z.open
    BY <1>5, <2>1 DEF Follows, Good, Parts
  <2>. QED
    BY <1>1, <2>1, <2>2 DEF Follows
<1>6. ASSUME NEW z \in TriesAgain(u), y \in Rewatched(z, src)
      PROVE  Good(y) /\ LostOf(y.session, y.open)
                            \subseteq LostOf(t.session, t.open) \cup {t.session.end}
  <2>1. Follows(u, z)
    BY <1>1, TriesAgainKeeps
  <2>2. Good(y) /\ y.session = z.session /\ y.open = z.open
    BY <1>6, <2>1, RewatchedKeeps DEF Follows
  <2>. QED
    BY <1>1, <2>1, <2>2 DEF Follows
<1>7. CASE y \in Rewatched(v, src) \/ y \in Rewatched(x, src)
  <2>1. Good(y) /\ y.session = t.session /\ y.open = t.open
    BY <1>1, <1>7, RewatchedKeeps
  <2>. QED
    BY <2>1
<1>. QED
  BY <1>2, <1>5, <1>6, <1>7

-----------------------------------------------------------------------------

LEMMA InitKept == Init => IInv
BY NumberTypes DEF Init, IInv, Kept, NoSession, Fields

(* What a step does to the invariant and to the descriptors lost.          *)
Accounted ==
    \/ Lost' \subseteq Lost \cup {session.end}
    \/ Pending /\ \E status \in Statuses, proxy \in Proxies : Ask(status, proxy)
    \/ \E proxy \in Proxies : LeaveEarly(proxy)

StepKeeps == IInv' /\ Accounted

LEMMA LeavesKeeps ==
    ASSUME NEW y, Leaves(y), UNCHANGED others, Kept(y.session, y.open),
           LostOf(y.session, y.open) \subseteq Lost \cup {session.end}
    PROVE  StepKeeps
BY DEF Leaves, StepKeeps, Accounted, IInv, Kept, Lost, LostOf

LEMMA PresentGood ==
    ASSUME IInv, NEW id
    PROVE  /\ Good(Present(id)) /\ Present(id).session = session
           /\ Present(id).open = open
BY DEF IInv, Good, Present, Parts

LEMMA OverwritesKeeps ==
    ASSUME IInv, NEW status, NEW proxy, NEW y \in Overwrites(status, proxy)
    PROVE  /\ Good(y) /\ open \subseteq y.open
           /\ y.session.fd \notin open /\ y.session.end \notin open
           /\ y.open \subseteq open \cup {y.session.fd, y.session.end}
<1>. DEFINE x == [Present(0) EXCEPT !.count = 0, !.proxyOn = @ \/ proxy]
<1>1. y \in LogsIn(x, status)
  BY DEF Overwrites
<1>2. Good(x) /\ x.open = open
  BY PresentGood DEF Good, Parts
<1>. HIDE DEF x
<1>. QED
  BY <1>1, <1>2, LogsInKeeps

LEMMA NextKeeps ==
    ASSUME IInv, [Next]_vars
    PROVE  StepKeeps
<1>1. ASSUME NEW src \in sources, NEW error \in BOOLEAN, Dispatch(src, error)
      PROVE  StepKeeps
  <2>1. PICK t \in WatchFd(session, open) : \E y \in Handled(src, t, error) : Leaves(y)
    BY <1>1 DEF Dispatch
  <2>2. PICK y \in Handled(src, t, error) : Leaves(y)
    BY <2>1
  <2>3. Keeps(session, open, t.session, t.open)
    BY <1>1, WatchFdKeeps DEF Dispatch, IInv
  <2>. QED
    BY <1>1, <2>2, <2>3, HandledKeeps, LeavesKeeps DEF Dispatch
<1>2. ASSUME NEW src \in sources, NEW error \in BOOLEAN, DispatchStale(src, error)
      PROVE  StepKeeps
  <2>1. CASE UNCHANGED <<session, open>>
    BY <1>2, <2>1 DEF DispatchStale, StepKeeps, Accounted, IInv, Kept, Lost
  <2>2. CASE ~UNCHANGED <<session, open>>
    <3>. DEFINE d == Disconnected(Present(src.id))
                y == [d EXCEPT !.count = 0, !.sources = @ \ {src}]
    <3>1. Leaves(y) /\ UNCHANGED others
      BY <1>2, <2>2 DEF DispatchStale
    <3>2. Follows(Present(src.id), d)
      BY PresentGood, DisconnectedKeeps
    <3>. HIDE DEF d
    <3>3. y.session = d.session /\ y.open = d.open
      BY <3>2 DEF Follows, Good, Parts
    <3>. QED
      BY <3>1, <3>2, <3>3, PresentGood, LeavesKeeps DEF Follows, Good, Lost, LostOf
  <2>. QED
    BY <2>1, <2>2
<1>3. ASSUME NEW status \in Statuses, NEW proxy \in Proxies, Ask(status, proxy)
      PROVE  StepKeeps
  <2>1. PICK y \in Overwrites(status, proxy) : Leaves(y)
    BY <1>3 DEF Ask
  <2>2. /\ Good(y) /\ open \subseteq y.open
        /\ y.session.fd \notin open /\ y.session.end \notin open
        /\ y.open \subseteq open \cup {y.session.fd, y.session.end}
    BY OverwritesKeeps
  <2>3. /\ session' = y.session /\ open' = y.open
        /\ others' = others \cup ({session.end} \ {0})
    BY <1>3, <2>1 DEF Ask, Leaves
  <2>4. IInv'
    BY <2>2, <2>3 DEF IInv, Good, Kept
  <2>5. CASE Pending
    BY <1>3, <2>4, <2>5 DEF StepKeeps, Accounted
  <2>6. CASE ~Pending
    <3>1. session.fd = 0 /\ session.end = 0
      BY <1>3, <2>6 DEF Ask, Pending, IInv, Kept
    <3>2. Lost' \subseteq Lost
      BY <2>2, <2>3, <3>1, NumberTypes DEF Lost, IInv, Kept
    <3>. QED
      BY <2>4, <3>2 DEF StepKeeps, Accounted
  <2>. QED
    BY <2>5, <2>6
<1>4. ASSUME Leave
      PROVE  StepKeeps
  <2>1. Follows(Present(0), Disconnected(Present(0)))
    BY PresentGood, DisconnectedKeeps
  <2>. QED
    BY <1>4, <2>1, PresentGood, LeavesKeeps DEF Leave, Follows, Good, Lost, LostOf
<1>5. ASSUME NEW proxy \in Proxies, LeaveEarly(proxy)
      PROVE  StepKeeps
  <2>1. PICK y \in Overwrites("none", proxy) : Leaves(Disconnected(y))
    BY <1>5 DEF LeaveEarly
  <2>2. /\ Good(y) /\ open \subseteq y.open
        /\ y.session.fd \notin open /\ y.session.end \notin open
    BY OverwritesKeeps
  <2>3. /\ session' = NoSession /\ open' = Without(y.session, y.open)
        /\ others' = others \cup ({session.end} \ {0})
    BY <1>5, <2>1, <2>2, DisconnectedKeeps DEF LeaveEarly, Leaves, Disconnected, Good, Parts
  <2>4. IInv'
    BY <2>2, <2>3, NumberTypes DEF IInv, Good, Kept, Without, NoSession, Fields
  <2>. QED
    BY <1>5, <2>4 DEF StepKeeps, Accounted
<1>6. ASSUME PeerActs
      PROVE  StepKeeps
  <2>1. CASE ResolverExits
    <3>1. /\ session' = [session EXCEPT !.end = 0] /\ open' = open \ {session.end}
          /\ others' = others
      BY <2>1 DEF ResolverExits
    <3>2. /\ DOMAIN session' = Fields /\ session'.fd = session.fd
          /\ session'.end = 0 /\ session'.state = session.state
      BY <3>1 DEF IInv, Kept, Fields
    <3>. QED
      BY <3>1, <3>2, NumberTypes DEF StepKeeps, Accounted, IInv, Kept, Lost
  <2>2. ASSUME NEW s, Peer(s), DOMAIN s = Fields, s.fd = session.fd, s.end = session.end,
               s.state = session.state
        PROVE  StepKeeps
    BY <2>2 DEF Peer, StepKeeps, Accounted, IInv, Kept, Lost
  <2>3. \/ ResolverExits
        \/ Peer([session EXCEPT !.link = "answered"])
        \/ Peer([session EXCEPT !.link = "closed"])
        \/ \E link : Peer([session EXCEPT !.link = link])
        \/ \E part : Peer([session EXCEPT !.inbox = part])
    BY <1>6 DEF PeerActs, Resolves, Closes, Establishes, Arrives
  <2>. QED
    BY <2>1, <2>2, <2>3 DEF IInv, Kept, Fields
<1>7. ASSUME NEW n \in Fds, OtherOpens(n)
      PROVE  StepKeeps
  BY <1>7, NumberTypes DEF OtherOpens, Lowest, StepKeeps, Accounted, IInv, Kept, Lost
<1>8. ASSUME NEW n \in Fds, OtherCloses(n)
      PROVE  StepKeeps
  BY <1>8, NumberTypes DEF OtherCloses, StepKeeps, Accounted, IInv, Kept, Lost
<1>9. CASE UNCHANGED vars
  BY <1>9 DEF vars, StepKeeps, Accounted, IInv, Kept, Lost
<1>. QED
  BY <1>1, <1>2, <1>3, <1>4, <1>5, <1>6, <1>7, <1>8, <1>9 DEF Next, DispatchAny

(* libgadu never holds a number that another part of the program has got   *)
(* since (gg_watch_fd, gg_logoff: close before forget).                    *)
THEOREM SpecDescriptorsKept == Spec => []DescriptorsKept
<1>1. IInv => DescriptorsKept
  BY NumberTypes DEF IInv, Kept, DescriptorsKept
<1>2. IInv /\ [Next]_vars => IInv'
  BY NextKeeps DEF StepKeeps
<1>. QED
  BY InitKept, <1>1, <1>2, PTL DEF Spec

(* No descriptor is left open but the resolver's end of its pipe           *)
(* (gg_watch_fd, gg_logoff) and those of a login that is overwritten.      *)
THEOREM SpecDescriptorsAccounted == Spec => DescriptorsAccounted
<1>1. IInv /\ [Next]_vars => IInv' /\ [Accounted]_vars
  BY NextKeeps DEF StepKeeps
<1>. QED
  BY InitKept, <1>1, PTL DEF Spec, DescriptorsAccounted, Accounted
-----------------------------------------------------------------------------
(***************************************************************************)
(* The source and the status.  What a login asked for stays with its       *)
(* session, and a descriptor that was the lowest free number when it was   *)
(* made, and is closed, is the lowest free number again: the next one gets *)
(* it as long as nobody else opens or closes one.                          *)
(***************************************************************************)
(* All numbers below the session's descriptor are taken.                   *)
Placed(s, o) ==
    /\ s.fd \in Fds /\ \A m \in Fds : m < s.fd => m \in o
    /\ s.end = 0 \/ s.fd < s.end

(* From s to t, the same login goes on, to the status it asked for.        *)
Carries(s, t) ==
    /\ t.state # "none" /\ t.initial = s.initial /\ t.fits = s.fits
    /\ t.state = "connected" =>
          \/ s.state = "connected" /\ t.status = s.status
          \/ t.status = IF s.initial = "none" THEN "available" ELSE s.initial

(* One outcome of gg_watch_fd: the login goes on on the same descriptor.   *)
Goes(s, o, t) ==
    /\ Carries(s, t.session)
    /\ s.state = "connected" => t.session.state = "connected"
    /\ Placed(s, o) /\ t.event # "failed" =>
           t.session.fd = s.fd /\ Placed(t.session, t.open)

LEMMA FailsGoes ==
    ASSUME NEW s, NEW o, Kept(s, o), s.state \notin {"none", "connected"}, NEW t \in Fails(s, o)
    PROVE  Goes(s, o, t)
<1>1. t.session = Enters(Shut(s), "idle", s.check) /\ t.event = "failed"
  BY DEF Fails, Outcome
<1>2. /\ t.session.state = "idle" /\ t.session.initial = s.initial /\ t.session.fits = s.fits
  BY <1>1 DEF Enters, Shut, Kept, Fields
<1>. QED
  BY <1>1, <1>2 DEF Goes, Carries

LEMMA ReconnectsGoes ==
    ASSUME NEW s, NEW o, Kept(s, o), s.state \notin {"none", "connected"},
           NEW next, NEW state, state \notin {"none", "connected"}, NEW check,
           NEW t \in Reconnects(s, o, next, state, check)
    PROVE  Goes(s, o, t)
<1>1. CASE t \in Fails(s, o)
  BY <1>1, FailsGoes
<1>2. CASE t \notin Fails(s, o)
  <2>. DEFINE w == Without(s, o)
  <2>1. PICK n \in Fds \ w :
           /\ Lowest(n, Fds \ w)
           /\ t = Outcome(Enters(Socket(s, n, next), state, check), w \cup {n}, "none")
    BY <1>2 DEF Reconnects
  <2>. DEFINE u == Enters(Socket(s, n, next), state, check)
  <2>2. /\ u.fd = n /\ u.end = s.end /\ u.state = state /\ u.initial = s.initial /\ u.fits = s.fits
    BY DEF Enters, Socket, Kept, Fields
  <2>3. t.session = u /\ t.open = w \cup {n}
    BY <2>1 DEF Outcome
  <2>4. ASSUME Placed(s, o)
        PROVE  n = s.fd
    <3>1. s.fd \in Fds \ w
      BY <2>4 DEF Placed, Without
    <3>2. n <= s.fd /\ n \in Nat /\ s.fd \in Nat
      BY <2>1, <3>1, LoginAssumption DEF Lowest
    <3>3. SUFFICES ASSUME n < s.fd PROVE FALSE
      BY <3>2
    <3>4. n \in o /\ n # s.fd
      BY <2>4, <3>2, <3>3 DEF Placed
    <3>. QED
      BY <3>4 DEF Without
  <2>. HIDE DEF u
  <2>5. ASSUME Placed(s, o)
        PROVE  u.fd = s.fd /\ Placed(u, w \cup {n})
    BY <2>2, <2>4, <2>5, LoginAssumption DEF Placed, Without
  <2>. QED
    BY <2>2, <2>3, <2>5 DEF Goes, Carries
<1>. QED
  BY <1>1, <1>2

(* A change that is not about the descriptors, before the connection.      *)
LEMMA SameGoes ==
    ASSUME NEW s, NEW o, s.state \notin {"none", "connected"},
           NEW u, u.fd = s.fd, u.end = s.end, u.initial = s.initial, u.fits = s.fits,
           u.state \notin {"none", "connected"}, NEW event
    PROVE  Goes(s, o, Outcome(u, o, event))
BY DEF Goes, Carries, Placed, Outcome

LEMMA ResolvingGoes ==
    ASSUME NEW s, NEW o, Kept(s, o), s.state \notin {"none", "connected"}, NEW t \in Resolving(s, o)
    PROVE  Goes(s, o, t)
<1>. DEFINE r == [s EXCEPT !.end = 0]
<1>1. /\ Kept(r, o) /\ r.state \notin {"none", "connected"} /\ r.end = 0
      /\ r.fd = s.fd /\ r.initial = s.initial /\ r.fits = s.fits
  BY DEF Kept, Fields
<1>2. \/ t \in Fails(r, o)
      \/ t \in ToServer(r, o)
      \/ t \in Reconnects(r, o, "request", "connecting hub", "out")
  BY DEF Resolving
<1>. HIDE DEF r
<1>3. Goes(r, o, t)
  <2>1. CASE t \in Fails(r, o)
    BY <1>1, <2>1, FailsGoes
  <2>2. CASE t \in ToServer(r, o)
    BY <1>1, <2>2, ReconnectsGoes DEF ToServer
  <2>3. CASE t \in Reconnects(r, o, "request", "connecting hub", "out")
    BY <1>1, <2>3, ReconnectsGoes
  <2>. QED
    BY <1>2, <2>1, <2>2, <2>3
<1>4. Placed(s, o) => Placed(r, o)
  BY <1>1 DEF Placed
<1>. QED
  BY <1>1, <1>3, <1>4 DEF Goes, Carries

LEMMA ConnectingHubGoes ==
    ASSUME NEW s, NEW o, Kept(s, o), s.state \notin {"none", "connected"},
           NEW t \in ConnectingHub(s, o)
    PROVE  Goes(s, o, t)
<1>. DEFINE u == [Enters(s, "reading data", "in") EXCEPT !.next = "page"]
<1>1. \/ t \in Fails(s, o)
      \/ t \in ToServer(s, o)
      \/ t = Outcome(u, o, "none")
  BY DEF ConnectingHub
<1>2. CASE t \in Fails(s, o)
  BY <1>2, FailsGoes
<1>3. CASE t \in ToServer(s, o)
  BY <1>3, ReconnectsGoes DEF ToServer
<1>4. CASE t = Outcome(u, o, "none")
  <2>1. /\ u.fd = s.fd /\ u.end = s.end /\ u.initial = s.initial /\ u.fits = s.fits
        /\ u.state = "reading data"
    BY DEF Enters, Kept, Fields
  <2>. HIDE DEF u
  <2>. QED
    BY <1>4, <2>1, SameGoes
<1>. QED
  BY <1>1, <1>2, <1>3, <1>4

LEMMA ReadingDataGoes ==
    ASSUME NEW s, NEW o, Kept(s, o), s.state \notin {"none", "connected"}, NEW t \in ReadingData(s, o)
    PROVE  Goes(s, o, t)
<1>1. t \in Fails(s, o) \/ t \in ToServer(s, o)
  BY DEF ReadingData
<1>2. CASE t \in Fails(s, o)
  BY <1>2, FailsGoes
<1>3. CASE t \in ToServer(s, o)
  BY <1>3, ReconnectsGoes DEF ToServer
<1>. QED
  BY <1>1, <1>2, <1>3

LEMMA ConnectingGGGoes ==
    ASSUME NEW s, NEW o, Kept(s, o), s.state \notin {"none", "connected"},
           NEW t \in ConnectingGG(s, o)
    PROVE  Goes(s, o, t)
<1>. DEFINE u == [Enters(s, "reading key", "in") EXCEPT
                     !.next = IF s.proxy THEN "proxy reply" ELSE @]
<1>1. \/ t \in Fails(s, o)
      \/ t \in Reconnects(s, o, "welcome", "reading key", "in")
      \/ t = Outcome(u, o, "none")
  BY DEF ConnectingGG
<1>2. CASE t \in Fails(s, o)
  BY <1>2, FailsGoes
<1>3. CASE t \in Reconnects(s, o, "welcome", "reading key", "in")
  BY <1>3, ReconnectsGoes
<1>4. CASE t = Outcome(u, o, "none")
  <2>1. /\ u.fd = s.fd /\ u.end = s.end /\ u.initial = s.initial /\ u.fits = s.fits
        /\ u.state = "reading key"
    BY DEF Enters, Kept, Fields
  <2>. HIDE DEF u
  <2>. QED
    BY <1>4, <2>1, SameGoes
<1>. QED
  BY <1>1, <1>2, <1>3, <1>4

LEMMA ReadingKeyGoes ==
    ASSUME NEW s, NEW o, Kept(s, o), s.state = "reading key", NEW t \in ReadingKey(s, o)
    PROVE  Goes(s, o, t)
<1>. DEFINE u == [s EXCEPT !.proxy = FALSE, !.inbox = "empty",
                           !.next = IF s.inbox = "whole" THEN "welcome" ELSE @]
            v == [s EXCEPT !.state = "reading reply", !.inbox = "empty",
                           !.next = "login reply"]
<1>1. t \in Fails(s, o) \/ t = Outcome(u, o, "none") \/ t = Outcome(v, o, "none")
  BY DEF ReadingKey
<1>2. CASE t \in Fails(s, o)
  BY <1>2, FailsGoes
<1>3. CASE t = Outcome(u, o, "none")
  <2>1. /\ u.fd = s.fd /\ u.end = s.end /\ u.initial = s.initial /\ u.fits = s.fits
        /\ u.state = "reading key"
    BY DEF Kept, Fields
  <2>. HIDE DEF u
  <2>. QED
    BY <1>3, <2>1, SameGoes
<1>4. CASE t = Outcome(v, o, "none")
  <2>1. /\ v.fd = s.fd /\ v.end = s.end /\ v.initial = s.initial /\ v.fits = s.fits
        /\ v.state = "reading reply"
    BY DEF Kept, Fields
  <2>. HIDE DEF v
  <2>. QED
    BY <1>4, <2>1, SameGoes
<1>. QED
  BY <1>1, <1>2, <1>3, <1>4

(* The status of the session that is connected now is the one asked for.   *)
LEMMA ReadingReplyGoes ==
    ASSUME NEW s, NEW o, Kept(s, o), s.state \notin {"none", "connected"},
           NEW t \in ReadingReply(s, o)
    PROVE  Goes(s, o, t)
<1>. DEFINE u == [s EXCEPT !.state = "connected", !.inbox = "empty", !.next = "packets",
                           !.status = IF s.initial = "none" THEN "available" ELSE s.initial]
<1>1. t \in Fails(s, o) \/ t = Outcome(u, o, "success")
  BY DEF ReadingReply
<1>2. CASE t \in Fails(s, o)
  BY <1>2, FailsGoes
<1>3. CASE t = Outcome(u, o, "success")
  <2>1. /\ u.fd = s.fd /\ u.end = s.end /\ u.initial = s.initial /\ u.fits = s.fits
        /\ u.state = "connected"
        /\ u.status = IF s.initial = "none" THEN "available" ELSE s.initial
    BY DEF Kept, Fields
  <2>2. t.session = u /\ t.open = o
    BY <1>3 DEF Outcome
  <2>. HIDE DEF u
  <2>. QED
    BY <2>1, <2>2 DEF Goes, Carries, Placed
<1>. QED
  BY <1>1, <1>2, <1>3

LEMMA ConnectedGoes ==
    ASSUME NEW s, NEW o, Kept(s, o), s.state = "connected", NEW t \in Connected(s, o)
    PROVE  Goes(s, o, t)
<1>. DEFINE u == [s EXCEPT !.inbox = "empty"]
<1>1. t.session \in {s, u} /\ t.open = o
  BY DEF Connected, Outcome
<1>2. /\ u.fd = s.fd /\ u.end = s.end /\ u.initial = s.initial /\ u.fits = s.fits
      /\ u.state = "connected" /\ u.status = s.status
  BY DEF Kept, Fields
<1>. HIDE DEF u
<1>. QED
  BY <1>1, <1>2 DEF Goes, Carries, Placed

(* Every call of gg_watch_fd goes on with the login, or fails.             *)
LEMMA WatchFdGoes ==
    ASSUME NEW s, NEW o, Kept(s, o), s.state # "none", NEW t \in WatchFd(s, o)
    PROVE  Goes(s, o, t)
<1>1. CASE s.state = "resolving"
  BY <1>1, ResolvingGoes DEF WatchFd
<1>2. CASE s.state = "connecting hub"
  BY <1>2, ConnectingHubGoes DEF WatchFd
<1>3. CASE s.state = "reading data"
  BY <1>3, ReadingDataGoes DEF WatchFd
<1>4. CASE s.state = "connecting gg"
  BY <1>4, ConnectingGGGoes DEF WatchFd
<1>5. CASE s.state = "reading key"
  BY <1>5, ReadingKeyGoes DEF WatchFd
<1>6. CASE s.state = "reading reply"
  BY <1>6, ReadingReplyGoes DEF WatchFd
<1>7. CASE s.state = "connected"
  BY <1>7, ConnectedGoes DEF WatchFd
<1>8. CASE s.state \notin {"resolving", "connecting hub", "reading data", "connecting gg",
                          "reading key", "reading reply", "connected"}
  <2>1. t = Outcome(s, o, "none")
    BY <1>8 DEF WatchFd
  <2>. QED
    BY <1>8, <2>1, SameGoes
<1>. QED
  BY <1>1, <1>2, <1>3, <1>4, <1>5, <1>6, <1>7, <1>8

-----------------------------------------------------------------------------
(* The plugin: of the state x of a callback, what SourceFits needs, and    *)
(* the status wanted.  prev_check must be what the source polls for.       *)
Fit(x) ==
    x.session.state \notin {"none", "connected"} /\ ~x.disturbed /\ x.session.fits =>
        /\ Placed(x.session, x.open) /\ x.prevCheck = x.session.check
        /\ \E src \in x.sources :
              x.sources = {src} /\ src.fd = x.session.fd /\ src.check = x.session.check

StatusOf(x, want) ==
    /\ x.count \in Nat
    /\ x.session.state # "none" /\ x.count = 0 => x.session.initial = want /\ want # "none"
    /\ x.session.state = "connected" /\ x.session.initial # "none" =>
           x.session.status = x.session.initial

(* The same while src is dispatched, before test_chan looks at the check.  *)
FitFor(x, src) ==
    x.session.state \notin {"none", "connected"} /\ ~x.disturbed /\ x.session.fits =>
        /\ Placed(x.session, x.open) /\ x.sources = {src}
        /\ src.fd = x.session.fd /\ src.check = x.prevCheck

(* No session, or a retry, of which neither is claimed.                    *)
Retried(x) ==
    /\ x.count \in Nat /\ x.session.state # "connected"
    /\ x.session.state # "none" => x.count # 0 /\ ~x.session.fits

LEMMA RetriedFits ==
    ASSUME NEW x, Retried(x), NEW want
    PROVE  Fit(x) /\ StatusOf(x, want)
BY DEF Retried, Fit, StatusOf

(* gg_login takes the lowest free number, and the next for the resolver.   *)
LEMMA LoginPlaced ==
    ASSUME NEW o, NEW status, NEW named, NEW proxy, NEW clean,
           NEW s \in Login(o, status, named, proxy, clean), s.state # "none"
    PROVE  /\ s.initial = status /\ s.state # "connected"
           /\ s.fits => clean /\ s.check = "in" /\ Placed(s, o \cup ({s.fd, s.end} \ {0}))
<1>. DEFINE free == Fds \ o
            r == [NoSession EXCEPT !.initial = status, !.proxy = proxy, !.direct = named,
                                   !.fits = clean /\ (named => proxy)]
<1>1. /\ DOMAIN r = Fields /\ r.initial = status /\ r.end = 0
      /\ r.fits = (clean /\ (named => proxy))
  BY DEF NoSession, Fields
<1>2. \/ named /\ ~proxy /\ \E n \in free : s = Enters(Socket(r, n, "welcome"), "connecting gg", "out")
      \/ \E q \in free \X free :
            /\ Lowest(q[1], free) /\ Lowest(q[2], free \ {q[1]})
            /\ s = [Enters(r, "resolving", "in") EXCEPT
                       !.fd = q[1], !.end = q[2], !.link = "asking"]
  <2>1. s # NoSession
    BY DEF NoSession
  <2>. QED
    BY <2>1 DEF Login
<1>. HIDE DEF r
<1>3. CASE named /\ ~proxy /\ \E n \in free : s = Enters(Socket(r, n, "welcome"), "connecting gg", "out")
  <2>1. PICK n \in free : s = Enters(Socket(r, n, "welcome"), "connecting gg", "out")
    BY <1>3
  <2>2. s.initial = status /\ s.state = "connecting gg" /\ s.fits = r.fits
    BY <1>1, <2>1 DEF Enters, Socket, Fields
  <2>. QED
    BY <1>1, <1>3, <2>2
<1>4. CASE \E q \in free \X free :
               /\ Lowest(q[1], free) /\ Lowest(q[2], free \ {q[1]})
               /\ s = [Enters(r, "resolving", "in") EXCEPT
                          !.fd = q[1], !.end = q[2], !.link = "asking"]
  <2>1. PICK m \in free, n \in free :
            /\ Lowest(m, free) /\ Lowest(n, free \ {m})
            /\ s = [Enters(r, "resolving", "in") EXCEPT !.fd = m, !.end = n, !.link = "asking"]
    BY <1>4
  <2>2. /\ s.fd = m /\ s.end = n /\ s.state = "resolving" /\ s.check = "in"
        /\ s.initial = status /\ s.fits = r.fits
    BY <1>1, <2>1 DEF Enters, Fields
  <2>3. m \in Nat /\ n \in Nat /\ m <= n /\ m # n
    BY <2>1, LoginAssumption DEF Lowest
  <2>4. ASSUME NEW k \in Fds, k < m
        PROVE  k \in o
    <3>1. k \in Nat /\ ~(m <= k)
      BY <2>3, <2>4, LoginAssumption
    <3>. QED
      BY <2>1, <3>1 DEF Lowest
  <2>5. Placed(s, o \cup ({s.fd, s.end} \ {0}))
    BY <2>2, <2>3, <2>4 DEF Placed
  <2>. QED
    BY <1>1, <2>2, <2>5
<1>. QED
  BY <1>2, <1>3, <1>4

(* A new source, with an id that no other has.                             *)
LEMMA WatchingAdds ==
    ASSUME NEW x, Good(x), NEW n, NEW check, NEW y \in Watching(x, n, check)
    PROVE  /\ y.session = x.session /\ y.open = x.open /\ y.count = x.count
           /\ y.prevCheck = x.prevCheck /\ y.disturbed = x.disturbed
           /\ \E src : /\ y.sources = x.sources \cup {src}
                       /\ src \notin x.sources /\ src.fd = n /\ src.check = check
<1>1. PICK id \in FreshId(x) :
          y = [x EXCEPT !.sources = @ \cup {Source(id, n, check)}, !.watch = id]
  BY DEF Watching
<1>2. Source(id, n, check) \notin x.sources
  <2>1. Source(id, n, check).id = id
    BY DEF Source
  <2>2. id \notin {src.id : src \in x.sources}
    BY <1>1 DEF FreshId
  <2>. QED
    BY <2>1, <2>2
<1>3. Source(id, n, check).fd = n /\ Source(id, n, check).check = check
  BY DEF Source
<1>4. /\ y.session = x.session /\ y.open = x.open /\ y.count = x.count
      /\ y.prevCheck = x.prevCheck /\ y.disturbed = x.disturbed
      /\ y.sources = x.sources \cup {Source(id, n, check)}
  BY <1>1 DEF Good, Parts
<1>. QED
  BY <1>2, <1>3, <1>4

LEMMA LogsInFits ==
    ASSUME NEW x, Good(x), NEW status, NEW y \in LogsIn(x, status)
    PROVE  /\ y.count = x.count /\ y.session.state # "connected" /\ Fit(y)
           /\ y.session.state # "none" =>
                 y.session.initial = status /\ (y.session.fits => Clean(x))
<1>. DEFINE z(s) == [x EXCEPT !.session = s, !.open = @ \cup ({s.fd, s.end} \ {0}),
                              !.disturbed = FALSE]
<1>1. PICK s \in Login(x.open, status, x.server, x.proxyOn, Clean(x)) :
          y \in IF s.state = "none" THEN {Disconnected(z(s))} ELSE Watching(z(s), s.fd, "in")
  BY DEF LogsIn
<1>2. /\ z(s).session = s /\ z(s).open = x.open \cup ({s.fd, s.end} \ {0})
      /\ z(s).count = x.count /\ z(s).prevCheck = x.prevCheck /\ z(s).sources = x.sources
  BY DEF Good, Parts
<1>3. Good(z(s))
  <2>1. Kept(s, x.open \cup ({s.fd, s.end} \ {0}))
    BY LoginKeeps DEF Good, Kept
  <2>. QED
    BY <2>1 DEF Good, Parts
<1>. HIDE DEF z
<1>4. CASE s.state = "none"
  <2>1. y = Disconnected(z(s))
    BY <1>1, <1>4
  <2>2. y.count = x.count /\ y.session = NoSession
    BY <1>2, <1>3, <2>1 DEF Disconnected, Good, Parts
  <2>3. NoSession.state = "none"
    BY DEF NoSession
  <2>. QED
    BY <2>2, <2>3 DEF Fit
<1>5. CASE s.state # "none"
  <2>1. y \in Watching(z(s), s.fd, "in")
    BY <1>1, <1>5
  <2>2. PICK src :
            /\ y.session = s /\ y.open = x.open \cup ({s.fd, s.end} \ {0})
            /\ y.count = x.count /\ y.prevCheck = x.prevCheck
            /\ y.sources = x.sources \cup {src} /\ src.fd = s.fd /\ src.check = "in"
    BY <1>2, <1>3, <2>1, WatchingAdds
  <2>3. /\ s.initial = status /\ s.state # "connected"
        /\ s.fits => Clean(x) /\ s.check = "in" /\ Placed(s, x.open \cup ({s.fd, s.end} \ {0}))
    BY <1>5, LoginPlaced
  <2>4. Fit(y)
    BY <2>2, <2>3 DEF Fit, Clean
  <2>. QED
    BY <2>2, <2>3, <2>4
<1>. QED
  BY <1>4, <1>5

(* A retry counts itself.                                                  *)
LEMMA TriesAgainFits ==
    ASSUME NEW x, Good(x), x.count \in Nat, NEW y \in TriesAgain(x)
    PROVE  Retried(y)
<1>. DEFINE d == Disconnected(x)
            u == [d EXCEPT !.count = @ + 1]
            v == [d EXCEPT !.count = 0]
<1>1. Good(d) /\ d.session = NoSession /\ d.count = x.count
  BY DisconnectedKeeps DEF Follows, Disconnected, Good, Parts
<1>2. y \in LogsIn(u, x.session.status) \/ y = v
  BY DEF TriesAgain
<1>. HIDE DEF d
<1>3. /\ Good(u) /\ u.count = x.count + 1
      /\ v.session = NoSession /\ v.count = 0
  BY <1>1 DEF Good, Parts
<1>. HIDE DEF u, v
<1>4. CASE y = v
  BY <1>3, <1>4 DEF Retried, NoSession
<1>5. CASE y \in LogsIn(u, x.session.status)
  BY <1>3, <1>5, LogsInFits DEF Retried, Clean
<1>. QED
  BY <1>2, <1>4, <1>5

(* The end of test_chan puts the source in step with the check again.      *)
LEMMA RewatchedFits ==
    ASSUME NEW x, Good(x), NEW src, NEW y \in Rewatched(x, src)
    PROVE  /\ y.session = x.session /\ y.count = x.count
           /\ FitFor(x, src) => Fit(y)
<1>1. CASE y = x
  <2>1. CASE x.prevCheck = x.session.check \/ x.session.state = "none"
    BY <1>1, <2>1 DEF FitFor, Fit
  <2>2. CASE x.prevCheck # x.session.check /\ x.session.state # "none"
    <3>1. PICK z \in Watching(x, src.fd, x.session.check) :
              y = [z EXCEPT !.prevCheck = x.session.check, !.sources = @ \ {src}]
      BY <2>2 DEF Rewatched
    <3>2. Good(z)
      BY <3>1, WatchingKeeps
    <3>3. y.prevCheck = x.session.check
      BY <3>1, <3>2 DEF Good, Parts
    <3>. QED
      BY <1>1, <2>2, <3>3
  <2>. QED
    BY <2>1, <2>2
<1>2. CASE y # x
  <2>1. PICK z \in Watching(x, src.fd, x.session.check) :
            y = [z EXCEPT !.prevCheck = x.session.check, !.sources = @ \ {src}]
    BY <1>2 DEF Rewatched
  <2>2. Good(z) /\ z.session = x.session /\ z.open = x.open
    BY WatchingKeeps
  <2>3. PICK new :
            /\ z.count = x.count /\ z.disturbed = x.disturbed
            /\ z.sources = x.sources \cup {new} /\ new \notin x.sources
            /\ new.fd = src.fd /\ new.check = x.session.check
    BY <2>1, WatchingAdds
  <2>4. /\ y.session = x.session /\ y.open = x.open /\ y.count = x.count
        /\ y.disturbed = x.disturbed /\ y.prevCheck = x.session.check
        /\ y.sources = (x.sources \cup {new}) \ {src}
    BY <2>1, <2>2, <2>3 DEF Good, Parts
  <2>5. ASSUME x.sources = {src}
        PROVE  y.sources = {new}
    BY <2>3, <2>4, <2>5
  <2>. QED
    BY <2>3, <2>4, <2>5 DEF FitFor, Fit
<1>. QED
  BY <1>1, <1>2

(* Everything test_chan does after gg_watch_fd.                            *)
LEMMA HandledFits ==
    ASSUME IInv, Fit(Present(0)), StatusOf(Present(0), asked), NEW src \in sources,
           session.state # "none", NEW t \in WatchFd(session, open), NEW error,
           NEW y \in Handled(src, t, error)
    PROVE  Fit(y) /\ StatusOf(y, asked)
<1>. DEFINE x == [Present(src.id) EXCEPT !.session = t.session, !.open = t.open]
            u == [x EXCEPT !.server = FALSE]
            v == [x EXCEPT !.server = TRUE]
<1>1. Kept(t.session, t.open) /\ Goes(session, open, t)
  BY WatchFdKeeps, WatchFdGoes DEF IInv, Keeps
<1>2. /\ Good(x) /\ x.session = t.session /\ x.open = t.open /\ x.count = count
      /\ x.sources = sources /\ x.prevCheck = prevCheck /\ x.disturbed = disturbed
  BY <1>1 DEF Present, Good, Parts
<1>3. /\ Good(u) /\ u.session = t.session /\ u.count = count
      /\ Good(v) /\ v.session = t.session /\ v.open = t.open /\ v.count = count
      /\ v.sources = sources /\ v.prevCheck = prevCheck /\ v.disturbed = disturbed
  BY <1>1 DEF Present, Good, Parts
<1>4. \/ \E z \in TriesAgain(x) : y = [z EXCEPT !.sources = @ \ {src}]
      \/ \E z \in TriesAgain(u) : y \in Rewatched(z, src)
      \/ t.event # "failed" /\ (y \in Rewatched(v, src) \/ y \in Rewatched(x, src))
  BY DEF Handled
<1>. HIDE DEF x, u, v
<1>5. /\ count \in Nat
      /\ count = 0 => session.initial = asked /\ asked # "none"
      /\ session.state = "connected" /\ session.initial # "none" =>
             session.status = session.initial
  BY DEF StatusOf, Present
<1>6. ASSUME NEW z \in TriesAgain(x), y = [z EXCEPT !.sources = @ \ {src}]
      PROVE  Retried(y)
  <2>1. Retried(z) /\ Good(z)
    BY <1>2, <1>5, TriesAgainFits, TriesAgainKeeps DEF Follows
  <2>2. y.session = z.session /\ y.count = z.count
    BY <1>6, <2>1 DEF Good, Parts
  <2>. QED
    BY <2>1, <2>2 DEF Retried
<1>7. ASSUME NEW z \in TriesAgain(u), y \in Rewatched(z, src)
      PROVE  Retried(y)
  <2>1. Retried(z) /\ Good(z)
    BY <1>3, <1>5, TriesAgainFits, TriesAgainKeeps DEF Follows
  <2>2. y.session = z.session /\ y.count = z.count
    BY <1>7, <2>1, RewatchedFits
  <2>. QED
    BY <2>1, <2>2 DEF Retried
<1>8. ASSUME NEW w \in {x, v}, t.event # "failed", y \in Rewatched(w, src)
      PROVE  Fit(y) /\ StatusOf(y, asked)
  <2>1. /\ Good(w) /\ w.session = t.session /\ w.open = t.open /\ w.count = count
        /\ w.sources = sources /\ w.prevCheck = prevCheck /\ w.disturbed = disturbed
    BY <1>2, <1>3, <1>8
  <2>2. ASSUME t.session.state \notin {"none", "connected"}, ~disturbed, t.session.fits
        PROVE  /\ Placed(t.session, t.open) /\ sources = {src}
               /\ src.fd = t.session.fd /\ src.check = prevCheck
    <3>1. session.state \notin {"none", "connected"} /\ session.fits
      BY <1>1, <2>2 DEF Goes, Carries
    <3>2. /\ Placed(session, open) /\ prevCheck = session.check
          /\ sources = {src} /\ src.fd = session.fd /\ src.check = session.check
      BY <2>2, <3>1 DEF Fit, Present
    <3>. QED
      BY <1>1, <1>8, <3>2 DEF Goes
  <2>3. FitFor(w, src)
    BY <2>1, <2>2 DEF FitFor
  <2>4. Fit(y) /\ y.session = t.session /\ y.count = count
    BY <1>8, <2>1, <2>3, RewatchedFits
  <2>5. StatusOf(y, asked)
    BY <1>1, <1>5, <2>4 DEF StatusOf, Goes, Carries
  <2>. QED
    BY <2>4, <2>5
<1>. QED
  BY <1>4, <1>6, <1>7, <1>8, RetriedFits

-----------------------------------------------------------------------------
(* The invariant: what is true of the state between two callbacks.         *)
LoginInv == Fit(Present(0)) /\ StatusOf(Present(0), asked)

LEMMA LeavesFits ==
    ASSUME NEW y, Leaves(y), Fit(y), StatusOf(y, asked')
    PROVE  LoginInv'
BY DEF Leaves, LoginInv, Fit, StatusOf, Present

LEMMA LoginStep ==
    ASSUME IInv, LoginInv, [Next]_vars
    PROVE  LoginInv'
<1>1. ASSUME NEW src \in sources, NEW error \in BOOLEAN, Dispatch(src, error)
      PROVE  LoginInv'
  <2>0. PICK t \in WatchFd(session, open) : \E y \in Handled(src, t, error) : Leaves(y)
    BY <1>1 DEF Dispatch
  <2>1. PICK y \in Handled(src, t, error) : Leaves(y)
    BY <2>0
  <2>2. session.state # "none" /\ asked' = asked
    BY <1>1 DEF Dispatch
  <2>3. Fit(y) /\ StatusOf(y, asked)
    BY <2>1, <2>2, HandledFits DEF LoginInv
  <2>. QED
    BY <2>1, <2>2, <2>3, LeavesFits
<1>2. ASSUME NEW y, Leaves(y), Retried(y), asked' = asked
      PROVE  LoginInv'
  BY <1>2, RetriedFits, LeavesFits
<1>3. ASSUME NEW x, Good(x)
      PROVE  Good(Disconnected(x)) /\ Disconnected(x).session = NoSession
             /\ Disconnected(x).count = x.count
  BY <1>3, DisconnectedKeeps DEF Follows, Disconnected, Good, Parts
<1>4. ASSUME NEW src \in sources, NEW error \in BOOLEAN, DispatchStale(src, error)
      PROVE  LoginInv'
  <2>1. CASE UNCHANGED <<session, open, pluginVars, disturbed>>
    BY <1>4, <2>1 DEF DispatchStale, LoginInv, Fit, StatusOf, Present, pluginVars
  <2>2. CASE ~UNCHANGED <<session, open, pluginVars, disturbed>>
    <3>. DEFINE d == Disconnected(Present(src.id))
                y == [d EXCEPT !.count = 0, !.sources = @ \ {src}]
    <3>1. Leaves(y) /\ asked' = asked
      BY <1>4, <2>2 DEF DispatchStale
    <3>2. Good(d) /\ d.session = NoSession
      BY PresentGood, <1>3
    <3>. HIDE DEF d
    <3>3. y.session = NoSession /\ y.count = 0
      BY <3>2 DEF Good, Parts
    <3>. HIDE DEF y
    <3>. QED
      BY <3>1, <3>3, <1>2 DEF Retried, NoSession
  <2>. QED
    BY <2>1, <2>2
<1>5. ASSUME NEW status, NEW proxy, NEW y \in Overwrites(status, proxy)
      PROVE  /\ Good(y) /\ y.count = 0 /\ y.session.state # "connected" /\ Fit(y)
             /\ y.session.state # "none" => y.session.initial = status
  <2>. DEFINE x == [Present(0) EXCEPT !.count = 0, !.proxyOn = @ \/ proxy]
  <2>1. y \in LogsIn(x, status)
    BY <1>5 DEF Overwrites
  <2>2. Good(x) /\ x.count = 0
    BY PresentGood DEF Good, Parts
  <2>. HIDE DEF x
  <2>. QED
    BY <2>1, <2>2, LogsInFits, LogsInKeeps
<1>6. ASSUME NEW status \in Statuses, NEW proxy \in Proxies, Ask(status, proxy)
      PROVE  LoginInv'
  <2>1. PICK y \in Overwrites(status, proxy) : Leaves(y)
    BY <1>6 DEF Ask
  <2>2. asked' = status /\ status # "none"
    BY <1>6, LoginAssumption DEF Ask
  <2>3. Fit(y) /\ StatusOf(y, asked')
    BY <1>5, <2>1, <2>2 DEF StatusOf
  <2>. QED
    BY <2>1, <2>3, LeavesFits
<1>7. ASSUME Leave
      PROVE  LoginInv'
  <2>. DEFINE y == Disconnected(Present(0))
  <2>1. Leaves(y) /\ asked' = asked
    BY <1>7 DEF Leave
  <2>2. y.session = NoSession /\ y.count = count
    BY PresentGood, <1>3 DEF Present
  <2>3. count \in Nat
    BY DEF LoginInv, StatusOf, Present
  <2>. HIDE DEF y
  <2>. QED
    BY <2>1, <2>2, <2>3, <1>2 DEF Retried, NoSession
<1>8. ASSUME NEW proxy \in Proxies, LeaveEarly(proxy)
      PROVE  LoginInv'
  <2>1. PICK x \in Overwrites("none", proxy) : Leaves(Disconnected(x))
    BY <1>8 DEF LeaveEarly
  <2>2. Disconnected(x).session = NoSession /\ Disconnected(x).count = 0 /\ asked' = asked
    BY <1>3, <1>5, <1>8, <2>1 DEF LeaveEarly
  <2>. QED
    BY <2>1, <2>2, <1>2 DEF Retried, NoSession
(* The peers and the kernel.                                               *)
<1>9. ASSUME PeerActs
      PROVE  LoginInv'
  <2>1. CASE ResolverExits
    <3>1. /\ session' = [session EXCEPT !.end = 0] /\ open' = open \ {session.end}
          /\ session.end # 0 /\ UNCHANGED <<sources, prevCheck, count, disturbed, asked>>
      BY <2>1 DEF ResolverExits, pluginVars
    <3>2. /\ session'.fd = session.fd /\ session'.end = 0 /\ session'.state = session.state
          /\ session'.fits = session.fits /\ session'.initial = session.initial
          /\ session'.status = session.status /\ session'.check = session.check
      BY <3>1 DEF IInv, Kept, Fields
    <3>3. ASSUME Placed(session, open)
          PROVE  Placed(session', open')
      <4>1. session.fd < session.end /\ session.fd \in Nat /\ session.end \in Nat
        BY <3>1, <3>3, LoginAssumption DEF Placed, IInv, Kept
      <4>2. ASSUME NEW m \in Fds, m < session.fd
            PROVE  m \in open'
        <5>1. m \in open /\ m \in Nat
          BY <3>3, <4>2, LoginAssumption DEF Placed
        <5>2. m # session.end
          BY <4>1, <4>2, <5>1
        <5>. QED
          BY <3>1, <5>1, <5>2
      <4>. QED
        BY <3>2, <3>3, <4>2 DEF Placed
    <3>4. Fit(Present(0))'
      BY <3>1, <3>2, <3>3 DEF LoginInv, Fit, Present
    <3>5. StatusOf(Present(0), asked)'
      BY <3>1, <3>2 DEF LoginInv, StatusOf, Present
    <3>. QED
      BY <3>4, <3>5 DEF LoginInv
  <2>2. ASSUME NEW s, Peer(s), s.fd = session.fd, s.end = session.end, s.state = session.state,
               s.fits = session.fits, s.initial = session.initial, s.status = session.status,
               s.check = session.check
        PROVE  LoginInv'
    BY <2>2 DEF Peer, LoginInv, Fit, StatusOf, Present, Placed, pluginVars
  <2>3. \/ ResolverExits
        \/ Peer([session EXCEPT !.link = "answered"])
        \/ Peer([session EXCEPT !.link = "closed"])
        \/ \E link : Peer([session EXCEPT !.link = link])
        \/ \E part : Peer([session EXCEPT !.inbox = part])
    BY <1>9 DEF PeerActs, Resolves, Closes, Establishes, Arrives
  <2>. QED
    BY <2>1, <2>2, <2>3 DEF IInv, Kept, Fields
<1>10. ASSUME NEW n \in Fds, OtherOpens(n) \/ OtherCloses(n)
       PROVE  LoginInv'
  <2>1. disturbed' /\ UNCHANGED <<session, count, asked>>
    BY <1>10 DEF OtherOpens, OtherCloses, pluginVars
  <2>. QED
    BY <2>1 DEF LoginInv, Fit, StatusOf, Present
<1>11. CASE UNCHANGED vars
  BY <1>11 DEF vars, pluginVars, LoginInv, Fit, StatusOf, Present, Placed
<1>. QED
  BY <1>1, <1>4, <1>6, <1>7, <1>8, <1>9, <1>10, <1>11 DEF Next, DispatchAny

LEMMA LoginAlways == Spec => []LoginInv
<1>1. Init => LoginInv
  BY DEF Init, LoginInv, Fit, StatusOf, Present, NoSession
<1>2. IInv /\ [Next]_vars => IInv'
  BY NextKeeps DEF StepKeeps
<1>. QED
  BY InitKept, <1>1, <1>2, LoginStep, PTL DEF Spec

(* The plugin waits for what libgadu says: while nobody disturbs the       *)
(* login, its one source polls the descriptor libgadu is at, and for what  *)
(* it is about to do, though test_chan never looks at session->fd.         *)
THEOREM SpecSourceFits == Spec => []SourceFits
<1>1. LoginInv => SourceFits
  BY DEF LoginInv, Fit, SourceFits, Pending, Present
<1>. QED
  BY <1>1, LoginAlways, PTL

(* Who gets through at the first try has the status asked for last.        *)
THEOREM SpecStatusAsAsked == Spec => []StatusAsAsked
<1>1. LoginInv => StatusAsAsked
  BY DEF LoginInv, StatusOf, StatusAsAsked, Present
<1>. QED
  BY <1>1, LoginAlways, PTL

(***************************************************************************)
(* Reading packets: however the network splits the stream, gg_recv_packet  *)
(* returns the packets that were sent.                                     *)
(***************************************************************************)
Bytes == [packet : Nat, place : Nat]

PacketTypes ==
    /\ posted \in Seq(Nat) /\ wire \in Seq(Bytes)
    /\ arrived \in Nat /\ arrived <= Len(wire)
    /\ reading \in {"no", "header", "body"}
    /\ h \in Seq(Bytes) /\ buf \in Seq(Bytes) /\ size \in Nat
    /\ headerBuf \in Seq(Bytes) /\ recvBuf \in Seq(Bytes) /\ recvLeft \in Nat
    /\ handed \in Seq(Seq(Bytes)) /\ dropped \in BOOLEAN

-----------------------------------------------------------------------------
(* The stream: p the lengths of the bodies that were sent, w what is not   *)
(* read, n the packet that is being read and d what is read of it.         *)

Following(p, b) ==
    IF b.place < Header + p[b.packet] THEN Byte(b.packet, b.place + 1) ELSE Byte(b.packet + 1, 1)

(* The byte after d, and the i-th of w; after the last of w comes the      *)
(* first byte of the packet that will be sent next.                        *)
After(p, n, d) == IF d = <<>> THEN Byte(n, 1) ELSE Following(p, Byte(n, Len(d)))
Coming(p, w, i) == IF i <= Len(w) THEN w[i] ELSE Byte(Len(p) + 1, 1)

Sent(p, b) == b.packet \in 1..Len(p) /\ b.place \in 1..(Header + p[b.packet])

Stream(p, w, n, d) ==
    /\ \A i \in 1..Len(d) : d[i] = Byte(n, i)
    /\ d # <<>> => n <= Len(p) /\ Len(d) <= Header + p[n]
    /\ \A i \in 1..Len(w) : Sent(p, w[i])
    /\ Coming(p, w, 1) = After(p, n, d)
    /\ \A i \in 1..Len(w) : Coming(p, w, i + 1) = Following(p, w[i])

(* What is read of the packet after those that were returned, wherever it  *)
(* is kept.                                                                *)
Part ==
    CASE reading = "header" -> h
      [] reading = "body"   -> buf
      [] OTHER              -> IF recvLeft > 0 THEN recvBuf ELSE headerBuf

(* What is left of the body is that of this packet; a header is kept apart *)
(* from a body.                                                            *)
Sizes ==
    /\ reading = "header" => headerBuf = <<>> /\ Len(h) <= Header /\ recvLeft = 0
    /\ reading = "body" => /\ headerBuf = <<>> /\ Len(buf) >= Header
                           /\ Len(buf) + size = Header + posted[Len(handed) + 1]
    /\ reading = "no" /\ recvLeft = 0 => Len(headerBuf) <= Header
    /\ reading = "no" /\ recvLeft > 0 =>
          /\ headerBuf = <<>> /\ Len(recvBuf) >= Header
          /\ Len(recvBuf) + recvLeft = Header + posted[Len(handed) + 1]

PacketIInv ==
    /\ PacketTypes
    /\ PacketsInOrder
    /\ dropped => reading = "no"
    /\ ~dropped => Stream(posted, wire, Len(handed) + 1, Part) /\ Sizes

-----------------------------------------------------------------------------
(* Another packet is sent.                                                 *)
LEMMA StreamPost ==
    ASSUME NEW p \in Seq(Nat), NEW w \in Seq(Bytes), NEW n \in Nat, NEW d \in Seq(Bytes),
           n > 0, Stream(p, w, n, d), NEW m \in Nat
    PROVE  /\ Stream(Append(p, m), w \o [k \in 1..(Header + m) |-> Byte(Len(p) + 1, k)], n, d)
           /\ w \o [k \in 1..(Header + m) |-> Byte(Len(p) + 1, k)] \in Seq(Bytes)
<1> DEFINE x == [k \in 1..(Header + m) |-> Byte(Len(p) + 1, k)]
           q == Append(p, m)
           v == w \o x
<1>1. Header \in Nat /\ Header > 0 /\ Len(p) \in Nat /\ Len(w) \in Nat /\ Len(d) \in Nat
  BY PacketAssumption
<1>2. x \in Seq(Bytes) /\ Len(x) = Header + m
  <2>1. \A k \in 1..(Header + m) : Byte(Len(p) + 1, k) \in Bytes
    BY <1>1 DEF Byte, Bytes
  <2>. QED
    BY <2>1, <1>1
<1> HIDE DEF x
<1>3. /\ v \in Seq(Bytes) /\ Len(v) = Len(w) + Header + m
      /\ \A i \in 1..Len(w) : v[i] = w[i]
      /\ \A i \in (Len(w) + 1)..Len(v) : v[i] = x[i - Len(w)]
  <2>1. v \in Seq(Bytes) /\ Len(v) = Len(w) + Len(x)
    BY <1>2, ConcatProperties
  <2>2. \A i \in 1..(Len(w) + Len(x)) : v[i] = IF i <= Len(w) THEN w[i] ELSE x[i - Len(w)]
    BY <1>2, ConcatProperties
  <2> HIDE DEF v
  <2>. QED
    BY <2>1, <2>2, <1>1, <1>2
<1>4. /\ q \in Seq(Nat) /\ Len(q) = Len(p) + 1 /\ q[Len(p) + 1] = m
      /\ \A i \in 1..Len(p) : q[i] = p[i] /\ p[i] \in Nat
  OBVIOUS
<1>0. \A i \in (Len(w) + 1)..Len(v) : v[i] = Byte(Len(p) + 1, i - Len(w))
  <2>1. \A k \in 1..(Header + m) : x[k] = Byte(Len(p) + 1, k)
    BY DEF x
  <2>2. \A i \in (Len(w) + 1)..Len(v) : i - Len(w) \in 1..(Header + m)
    BY <1>1, <1>3
  <2>. QED
    BY <2>1, <2>2, <1>3
<1> HIDE DEF q, v
<1>5. \A b : Sent(p, b) => Sent(q, b) /\ Following(q, b) = Following(p, b)
  <2>1. SUFFICES ASSUME NEW b, Sent(p, b) PROVE Sent(q, b) /\ Following(q, b) = Following(p, b)
    OBVIOUS
  <2>2. b.packet \in 1..Len(p) /\ q[b.packet] = p[b.packet]
    BY <2>1, <1>4 DEF Sent
  <2>3. b.packet \in 1..Len(q)
    BY <2>2, <1>1, <1>4
  <2>. QED
    BY <2>1, <2>2, <2>3 DEF Sent, Following
<1>6. \A k \in 1..(Header + m) :
          LET b == Byte(Len(p) + 1, k)
          IN  /\ Sent(q, b)
              /\ Following(q, b) = IF k < Header + m THEN Byte(Len(p) + 1, k + 1)
                                   ELSE Byte(Len(p) + 2, 1)
  BY <1>1, <1>4 DEF Sent, Following, Byte
<1>7. \A i \in 1..(Len(w) + 1) : Coming(q, v, i) = Coming(p, w, i)
  <2>1. TAKE i \in 1..(Len(w) + 1)
  <2>2. i <= Len(v)
    BY <1>1, <1>3
  <2>3. CASE i <= Len(w)
    BY <2>2, <2>3, <1>1, <1>3 DEF Coming
  <2>4. CASE i = Len(w) + 1
    <3>1. v[i] = Byte(Len(p) + 1, 1)
      BY <2>4, <1>1, <1>3, <1>0
    <3>. QED
      BY <2>2, <2>4, <3>1, <1>1 DEF Coming
  <2>. QED
    BY <2>3, <2>4, <1>1
<1>8. After(q, n, d) = After(p, n, d)
  <2>1. CASE d = <<>>
    BY <2>1 DEF After
  <2>2. CASE d # <<>>
    <3>1. Sent(p, Byte(n, Len(d)))
      BY <2>2, <1>1, <1>4 DEF Stream, Sent, Byte
    <3>. QED
      BY <2>2, <3>1, <1>5 DEF After
  <2>. QED
    BY <2>1, <2>2
<1>9. \A i \in 1..Len(v) : Sent(q, v[i])
  <2>1. TAKE i \in 1..Len(v)
  <2>2. CASE i <= Len(w)
    BY <2>2, <1>1, <1>3, <1>5 DEF Stream
  <2>3. CASE i > Len(w)
    <3>1. i - Len(w) \in 1..(Header + m) /\ i \in (Len(w) + 1)..Len(v)
      BY <2>3, <1>1, <1>3
    <3>. QED
      BY <3>1, <1>0, <1>6
  <2>. QED
    BY <2>2, <2>3, <1>1
<1>10. \A i \in 1..Len(v) : Coming(q, v, i + 1) = Following(q, v[i])
  <2>1. TAKE i \in 1..Len(v)
  <2>2. CASE i \in 1..Len(w)
    BY <2>2, <1>1, <1>3, <1>0, <1>5, <1>7 DEF Stream
  <2>3. CASE i \in (Len(w) + 1)..Len(v)
    <3>1. i - Len(w) \in 1..(Header + m) /\ v[i] = Byte(Len(p) + 1, i - Len(w))
      BY <2>3, <1>1, <1>3, <1>0
    <3>2. CASE i < Len(v)
      <4>1. v[i + 1] = Byte(Len(p) + 1, i + 1 - Len(w))
        <5>1. i + 1 \in (Len(w) + 1)..Len(v)
          BY <2>3, <3>2, <1>1, <1>3, <1>0
        <5> QED
          BY <5>1, <1>0
      <4>2. i + 1 - Len(w) = i - Len(w) + 1 /\ i - Len(w) < Header + m
        BY <2>3, <3>2, <1>1, <1>3, <1>0
      <4>3. i + 1 <= Len(v)
        BY <3>2, <1>1, <1>3, <1>0
      <4>. QED
        BY <3>1, <4>1, <4>2, <4>3, <1>6 DEF Coming
    <3>3. CASE i = Len(v)
      <4>1. ~(i + 1 <= Len(v)) /\ i - Len(w) = Header + m /\ Len(q) + 1 = Len(p) + 2
        BY <3>3, <1>1, <1>3, <1>0, <1>4
      <4>. QED
        BY <3>1, <4>1, <1>1, <1>6 DEF Coming
    <3>4. i < Len(v) \/ i = Len(v)
      BY <2>3, <1>1, <1>3
    <3>. QED
      BY <3>2, <3>3, <3>4
  <2>4. i \in 1..Len(w) \/ i \in (Len(w) + 1)..Len(v)
    BY <1>1, <1>3
  <2>. QED
    BY <2>2, <2>3, <2>4
<1>11. d # <<>> => n <= Len(q) /\ Len(d) <= Header + q[n]
  BY <1>1, <1>4 DEF Stream
<1>12. Stream(q, v, n, d) /\ v \in Seq(Bytes)
  BY <1>1, <1>3, <1>7, <1>8, <1>9, <1>10, <1>11 DEF Stream
<1>. QED
  BY <1>12 DEF x, q, v

(* The next byte is read, and it is one of this packet.                    *)
LEMMA StreamRead ==
    ASSUME NEW p \in Seq(Nat), NEW w \in Seq(Bytes), NEW n \in Nat, NEW d \in Seq(Bytes),
           n > 0, Stream(p, w, n, d), w # <<>>, d = <<>> \/ Len(d) < Header + p[n]
    PROVE  /\ Stream(p, Tail(w), n, Append(d, w[1]))
           /\ Append(d, w[1]) \in Seq(Bytes) /\ Len(Append(d, w[1])) = Len(d) + 1
<1> DEFINE e == Append(d, w[1])
           v == Tail(w)
<1>1. Header \in Nat /\ Header > 0 /\ Len(p) \in Nat /\ Len(w) \in Nat /\ Len(d) \in Nat
  BY PacketAssumption
<1>2. /\ Len(w) > 0 /\ 1 \in 1..Len(w) /\ v \in Seq(Bytes) /\ Len(v) = Len(w) - 1
      /\ \A i \in 1..Len(v) : v[i] = w[i + 1] /\ i + 1 \in 1..Len(w)
  BY <1>1
<1>3. w[1] = Byte(n, Len(d) + 1)
  <2>1. w[1] = After(p, n, d)
    BY <1>2 DEF Stream, Coming
  <2>2. CASE d = <<>>
    BY <2>1, <2>2 DEF After
  <2>3. CASE d # <<>>
    <3>1. Len(d) < Header + p[n]
      BY <2>3
    <3>. QED
      BY <2>1, <2>3, <3>1 DEF After, Following, Byte
  <2>. QED
    BY <2>2, <2>3
<1>4. n \in 1..Len(p) /\ Len(d) + 1 <= Header + p[n]
  <2>1. Sent(p, w[1])
    BY <1>2 DEF Stream
  <2>. QED
    BY <2>1, <1>1, <1>3 DEF Sent, Byte
<1>5. /\ e \in Seq(Bytes) /\ Len(e) = Len(d) + 1 /\ e # <<>>
      /\ \A i \in 1..Len(e) : e[i] = IF i <= Len(d) THEN d[i] ELSE w[1]
  <2>1. w[1] \in Bytes
    BY <1>2
  <2>2. e \in Seq(Bytes) /\ Len(e) = Len(d) + 1
    BY <2>1, <1>1
  <2>3. \A i \in 1..Len(d) : e[i] = d[i]
    BY <2>1
  <2>4. e[Len(d) + 1] = w[1]
    BY <2>1
  <2> HIDE DEF e
  <2>. QED
    BY <2>2, <2>3, <2>4, <1>1
<1> HIDE DEF e, v
<1>6. \A i \in 1..Len(e) : e[i] = Byte(n, i)
  <2>1. TAKE i \in 1..Len(e)
  <2>2. CASE i <= Len(d)
    <3>1. i \in 1..Len(d) /\ e[i] = d[i]
      BY <2>2, <1>1, <1>5
    <3>. QED
      BY <3>1 DEF Stream
  <2>3. CASE i = Len(d) + 1
    BY <2>3, <1>1, <1>3, <1>5
  <2>. QED
    BY <2>2, <2>3, <1>1, <1>5
<1>7. \A i \in 1..Len(w) : Coming(p, v, i) = Coming(p, w, i + 1)
  <2>1. TAKE i \in 1..Len(w)
  <2>2. CASE i <= Len(v)
    BY <2>2, <1>1, <1>2 DEF Coming
  <2>3. CASE ~(i <= Len(v))
    <3>1. ~(i + 1 <= Len(w))
      BY <2>3, <1>1, <1>2
    <3>. QED
      BY <2>3, <3>1 DEF Coming
  <2>. QED
    BY <2>2, <2>3
<1>8. Coming(p, v, 1) = After(p, n, e)
  BY <1>1, <1>2, <1>3, <1>5, <1>7 DEF Stream, After
<1>9. \A i \in 1..Len(v) : Coming(p, v, i + 1) = Following(p, v[i])
  <2>1. TAKE i \in 1..Len(v)
  <2>2. i + 1 \in 1..Len(w) /\ v[i] = w[i + 1]
    BY <1>2
  <2>. QED
    BY <2>2, <1>7 DEF Stream
<1>10. \A i \in 1..Len(v) : Sent(p, v[i])
  BY <1>2 DEF Stream
<1>11. Stream(p, v, n, e)
  BY <1>1, <1>4, <1>5, <1>6, <1>8, <1>9, <1>10 DEF Stream
<1>. QED
  BY <1>5, <1>11 DEF e, v

(* The packet is read; the next one follows.                               *)
LEMMA StreamDone ==
    ASSUME NEW p \in Seq(Nat), NEW w \in Seq(Bytes), NEW n \in Nat, NEW d \in Seq(Bytes),
           n > 0, Stream(p, w, n, d), Len(d) = Header + p[n], d # <<>>
    PROVE  /\ Stream(p, w, n + 1, <<>>)
           /\ d = [k \in 1..(Header + p[n]) |-> Byte(n, k)] /\ n \in 1..Len(p)
<1>1. Header \in Nat /\ Header > 0 /\ Len(p) \in Nat /\ Len(d) \in Nat
  BY PacketAssumption
<1>2. n \in 1..Len(p) /\ p[n] \in Nat
  BY <1>1 DEF Stream
<1>3. d = [k \in 1..(Header + p[n]) |-> Byte(n, k)]
  <2>1. d = [k \in 1..Len(d) |-> d[k]]
    OBVIOUS
  <2>2. \A k \in 1..Len(d) : d[k] = Byte(n, k)
    BY DEF Stream
  <2>. QED
    BY <2>1, <2>2
<1>4. After(p, n, d) = Byte(n + 1, 1)
  BY <1>1, <1>2 DEF After, Following, Byte
<1>5. Coming(p, w, 1) = After(p, n + 1, <<>>)
  BY <1>4 DEF Stream, After
<1>6. /\ \A i \in 1..Len(w) : Sent(p, w[i])
      /\ \A i \in 1..Len(w) : Coming(p, w, i + 1) = Following(p, w[i])
  BY DEF Stream
<1>7. Len(<<>>) = 0
  OBVIOUS
<1>8. Stream(p, w, n + 1, <<>>)
  BY <1>5, <1>6, <1>7 DEF Stream
<1>. QED
  BY <1>2, <1>3, <1>8

-----------------------------------------------------------------------------
(* Every step keeps the invariant.                                         *)

LEMMA PacketInitial == PacketInit => PacketIInv
<1> SUFFICES ASSUME PacketInit PROVE PacketIInv
  OBVIOUS
<1>1. Header \in Nat /\ Header > 0
  BY PacketAssumption
<1>2. Len(<<>>) = 0 /\ <<>> \in Seq(Bytes) /\ <<>> \in Seq(Nat) /\ <<>> \in Seq(Seq(Bytes))
  OBVIOUS
<1>3. PacketTypes
  <2>1. dropped \in BOOLEAN
    BY DEF PacketInit
  <2>. QED
    BY <1>2, <2>1 DEF PacketInit, PacketTypes
<1>4. PacketsInOrder
  BY <1>2 DEF PacketInit, PacketsInOrder
<1>5. Part = <<>>
  BY DEF PacketInit, Part
<1>6. Stream(posted, wire, Len(handed) + 1, Part)
  BY <1>2, <1>5 DEF PacketInit, Stream, Coming, After
<1>7. Sizes
  BY <1>1, <1>2 DEF PacketInit, Sizes
<1>. QED
  BY <1>3, <1>4, <1>6, <1>7 DEF PacketIInv, PacketInit

(* The packet that is read is one that was sent, if anything of it is read. *)
LEMMA PartIsSent ==
    ASSUME PacketIInv, ~dropped, Part # <<>>
    PROVE  Len(handed) + 1 \in 1..Len(posted)
  BY DEF PacketIInv, PacketTypes, Stream

LEMMA PartTypes == PacketTypes => Part \in Seq(Bytes)
  BY DEF PacketTypes, Part

LEMMA PostKeeps == ASSUME NEW n \in Lengths, PacketIInv, Post(n) PROVE PacketIInv'
<1>1. Header \in Nat /\ Header > 0 /\ n \in Nat
  BY PacketAssumption
<1>2. Len(posted) \in Nat /\ Len(handed) \in Nat
  BY DEF PacketIInv, PacketTypes
<1> DEFINE more == [k \in 1..(Header + n) |-> Byte(Len(posted) + 1, k)]
<1>3. posted' = Append(posted, n) /\ wire' = wire \o more
  BY DEF Post
<1>4. more \in Seq(Bytes)
  <2>1. \A k \in 1..(Header + n) : Byte(Len(posted) + 1, k) \in Bytes
    BY <1>1, <1>2 DEF Byte, Bytes
  <2>. QED
    BY <2>1, <1>1
<1> HIDE DEF more
<1>5. /\ posted' \in Seq(Nat) /\ Len(posted') = Len(posted) + 1
      /\ \A i \in 1..Len(posted) : posted'[i] = posted[i]
  BY <1>1, <1>3 DEF PacketIInv, PacketTypes
<1>6. wire' \in Seq(Bytes) /\ Len(wire') >= Len(wire)
  BY <1>3, <1>4, ConcatProperties DEF PacketIInv, PacketTypes
<1>7. /\ handed' = handed /\ dropped' = dropped /\ reading' = reading /\ h' = h /\ buf' = buf
      /\ size' = size /\ headerBuf' = headerBuf /\ recvBuf' = recvBuf /\ recvLeft' = recvLeft
      /\ arrived' = arrived
  BY DEF Post, localVars, sessionVars
<1>8. PacketTypes'
  BY <1>5, <1>6, <1>7 DEF PacketIInv, PacketTypes
<1>9. PacketsInOrder'
  BY <1>2, <1>5, <1>7 DEF PacketIInv, PacketsInOrder, Whole
<1>10. Part' = Part
  BY <1>7 DEF Part
<1>11. ~dropped => Stream(posted', wire', Len(handed) + 1, Part)
  BY <1>1, <1>2, <1>3, StreamPost, PartTypes DEF PacketIInv, PacketTypes, more
<1>12. ~dropped => Sizes'
  <2>1. SUFFICES ASSUME ~dropped PROVE Sizes'
    OBVIOUS
  <2>2. Part # <<>> => posted'[Len(handed) + 1] = posted[Len(handed) + 1]
    BY <2>1, <1>5, PartIsSent
  <2>3. Sizes
    BY <2>1 DEF PacketIInv
  <2>4. reading = "body" \/ (reading = "no" /\ recvLeft > 0) => Part # <<>>
    BY <2>3, <1>1 DEF Part, Sizes, PacketIInv, PacketTypes
  <2>5. CASE Part # <<>>
    BY <2>2, <2>3, <2>5, <1>7 DEF Sizes
  <2>6. CASE Part = <<>>
    <3>1. reading # "body" /\ ~(reading = "no" /\ recvLeft > 0)
      BY <2>4, <2>6
    <3>. QED
      BY <2>3, <3>1, <1>7 DEF Sizes
  <2>. QED
    BY <2>5, <2>6
<1>. QED
  BY <1>7, <1>8, <1>9, <1>10, <1>11, <1>12 DEF PacketIInv

(* What reads nothing and returns nothing: the stream stays as it is.      *)
LEMMA NothingRead ==
    ASSUME PacketIInv, PacketTypes', UNCHANGED <<posted, wire, handed, dropped>>,
           dropped => reading' = "no", ~dropped => Part' = Part /\ Sizes'
    PROVE  PacketIInv'
  BY DEF PacketIInv, PacketsInOrder, Whole

LEMMA NetworkKeeps == ASSUME PacketIInv, Arrive \/ HangUp PROVE PacketIInv'
<1>1. PacketTypes'
  BY DEF PacketIInv, PacketTypes, Arrive, HangUp, localVars, sessionVars
<1>2. Part' = Part /\ (Sizes => Sizes')
  BY DEF Arrive, HangUp, localVars, sessionVars, Part, Sizes
<1>3. UNCHANGED <<posted, wire, handed, dropped, reading>>
  BY DEF Arrive, HangUp, localVars
<1>. QED
  BY <1>1, <1>2, <1>3, NothingRead DEF PacketIInv

LEMMA ResumeKeeps == ASSUME PacketIInv, Resume PROVE PacketIInv'
<1>1. UNCHANGED <<posted, wire, handed, dropped>>
  BY DEF Resume, networkVars
<1>2. Header \in Nat /\ Header > 0
  BY PacketAssumption
<1>3. ~dropped /\ reading = "no" /\ Sizes
  BY DEF Resume, PacketIInv
<1>4. CASE recvLeft < 1
  <2>1. /\ reading' = "header" /\ h' = headerBuf /\ headerBuf' = <<>> /\ recvLeft = 0
        /\ UNCHANGED <<networkVars, buf, size, recvBuf, recvLeft>>
    BY <1>4 DEF Resume, PacketIInv, PacketTypes
  <2>2. PacketTypes'
    BY <2>1, <1>1 DEF PacketIInv, PacketTypes, networkVars
  <2>3. Part' = Part /\ Sizes'
    BY <2>1, <1>3 DEF Part, Sizes
  <2>. QED
    BY <1>1, <1>3, <2>2, <2>3, NothingRead
<1>5. CASE ~(recvLeft < 1)
  <2>1. /\ reading' = "body" /\ h' = SubSeq(recvBuf, 1, Header) /\ buf' = recvBuf
        /\ size' = recvLeft /\ recvLeft > 0
        /\ UNCHANGED <<networkVars, headerBuf, recvBuf, recvLeft>>
    BY <1>5 DEF Resume, PacketIInv, PacketTypes
  <2>2. h' \in Seq(Bytes)
    <3>1. Len(recvBuf) >= Header /\ recvBuf \in Seq(Bytes)
      BY <1>3, <2>1 DEF Sizes, PacketIInv, PacketTypes
    <3>. QED
      BY <2>1, <3>1, <1>2
  <2>3. PacketTypes'
    BY <2>1, <2>2, <1>1 DEF PacketIInv, PacketTypes, networkVars
  <2>4. Part' = Part /\ Sizes'
    BY <2>1, <1>1, <1>3 DEF Part, Sizes
  <2>. QED
    BY <1>1, <1>3, <2>3, <2>4, NothingRead
<1>. QED
  BY <1>4, <1>5

LEMMA HeaderAgainKeeps == ASSUME PacketIInv, HeaderAgain PROVE PacketIInv'
<1>1. /\ UNCHANGED <<posted, wire, handed, dropped, arrived, recvBuf, recvLeft>>
      /\ reading = "header" /\ reading' = "no" /\ headerBuf' = h
      /\ h' = <<>> /\ buf' = <<>> /\ size' = 0
  BY DEF HeaderAgain, Idle, networkVars
<1>2. PacketTypes'
  BY <1>1 DEF PacketIInv, PacketTypes
<1>3. ~dropped => Part' = Part /\ Sizes'
  BY <1>1 DEF PacketIInv, PacketTypes, Part, Sizes
<1>. QED
  BY <1>1, <1>2, <1>3, NothingRead

LEMMA BodyAgainKeeps == ASSUME PacketIInv, BodyAgain PROVE PacketIInv'
<1>1. /\ UNCHANGED <<posted, wire, handed, dropped, arrived, headerBuf>>
      /\ reading = "body" /\ reading' = "no" /\ recvBuf' = buf /\ recvLeft' = size /\ size > 0
      /\ h' = <<>> /\ buf' = <<>> /\ size' = 0
  BY DEF BodyAgain, Idle, networkVars
<1>2. PacketTypes'
  BY <1>1 DEF PacketIInv, PacketTypes
<1>3. ~dropped => Part' = Part /\ Sizes'
  BY <1>1 DEF PacketIInv, PacketTypes, Part, Sizes
<1>. QED
  BY <1>1, <1>2, <1>3, NothingRead

LEMMA RecvFailsKeeps == ASSUME PacketIInv, RecvFails PROVE PacketIInv'
  BY DEF RecvFails, Idle, networkVars, sessionVars, PacketIInv, PacketTypes, PacketsInOrder, Whole

(* The header tells the length of the packet that is read.                 *)
LEMMA HeaderDoneKeeps == ASSUME PacketIInv, HeaderDone PROVE PacketIInv'
<1>1. /\ UNCHANGED <<posted, wire, handed, dropped, arrived, h, headerBuf, recvBuf, recvLeft>>
      /\ reading = "header" /\ reading' = "body" /\ buf' = h /\ Len(h) = Header
      /\ size' = posted[h[1].packet] /\ ~dropped
  BY DEF HeaderDone, LengthOf, networkVars, sessionVars, PacketIInv
<1>2. Header \in Nat /\ Header > 0
  BY PacketAssumption
<1>3. h[1] = Byte(Len(handed) + 1, 1) /\ Len(handed) + 1 \in 1..Len(posted)
  <2>1. Part = h /\ h # <<>> /\ 1 \in 1..Len(h)
    BY <1>1, <1>2 DEF Part
  <2>. QED
    BY <1>1, <2>1, PartIsSent DEF PacketIInv, Stream
<1>4. size' = posted[Len(handed) + 1] /\ size' \in Nat
  BY <1>1, <1>3 DEF Byte, PacketIInv, PacketTypes
<1>5. PacketTypes'
  BY <1>1, <1>4 DEF PacketIInv, PacketTypes
<1>6. Part' = Part /\ Sizes'
  BY <1>1, <1>2, <1>4 DEF Part, Sizes, PacketIInv
<1>. QED
  BY <1>1, <1>5, <1>6, NothingRead

(* A byte of the packet is read.                                           *)
LEMMA OneRead ==
    ASSUME PacketIInv, ~dropped, Read, UNCHANGED <<posted, handed, dropped>>,
           Part = <<>> \/ Len(Part) < Header + posted[Len(handed) + 1],
           Part' = Append(Part, wire[1])
    PROVE  /\ Stream(posted', wire', Len(handed') + 1, Part')
           /\ Part' \in Seq(Bytes) /\ Len(Part') = Len(Part) + 1
           /\ wire' \in Seq(Bytes) /\ arrived' \in Nat /\ arrived' <= Len(wire')
           /\ PacketsInOrder'
<1>1. PacketTypes /\ PacketsInOrder /\ Stream(posted, wire, Len(handed) + 1, Part)
  BY DEF PacketIInv
<1>2. wire # <<>> /\ wire' = Tail(wire) /\ arrived' = arrived - 1 /\ arrived > 0
  BY <1>1 DEF PacketTypes, Read
<1>3. Len(handed) + 1 \in Nat /\ Len(handed) + 1 > 0
  BY <1>1 DEF PacketTypes
<1>4. /\ Stream(posted, Tail(wire), Len(handed) + 1, Append(Part, wire[1]))
      /\ Append(Part, wire[1]) \in Seq(Bytes)
      /\ Len(Append(Part, wire[1])) = Len(Part) + 1
  BY <1>1, <1>2, <1>3, StreamRead, PartTypes DEF PacketTypes
<1>5. Tail(wire) \in Seq(Bytes) /\ Len(Tail(wire)) = Len(wire) - 1
  BY <1>1, <1>2 DEF PacketTypes
<1>6. PacketsInOrder'
  BY <1>1 DEF PacketsInOrder, Whole
<1>. QED
  BY <1>1, <1>2, <1>4, <1>5, <1>6 DEF PacketTypes

LEMMA ReadHeaderKeeps == ASSUME PacketIInv, ReadHeader PROVE PacketIInv'
<1>1. /\ UNCHANGED <<posted, handed, dropped, reading, buf, size, headerBuf, recvBuf, recvLeft>>
      /\ Read /\ reading = "header" /\ Len(h) < Header /\ h' = Append(h, wire[1]) /\ ~dropped
  BY DEF ReadHeader, sessionVars, PacketIInv
<1>2. Part = h /\ Part' = h' /\ Header \in Nat
  BY <1>1, PacketAssumption DEF Part
<1>3. Part = <<>> \/ Len(Part) < Header + posted[Len(handed) + 1]
  <2>1. CASE Part # <<>>
    <3>1. posted[Len(handed) + 1] \in Nat
      BY <1>1, <2>1, PartIsSent DEF PacketIInv, PacketTypes
    <3>. QED
      BY <1>1, <1>2, <3>1 DEF PacketIInv, PacketTypes
  <2>. QED
    BY <2>1
<1>4. /\ Stream(posted', wire', Len(handed') + 1, Part')
      /\ Part' \in Seq(Bytes) /\ Len(Part') = Len(Part) + 1
      /\ wire' \in Seq(Bytes) /\ arrived' \in Nat /\ arrived' <= Len(wire')
      /\ PacketsInOrder'
  BY <1>1, <1>2, <1>3, OneRead
<1>5. PacketTypes'
  BY <1>1, <1>2, <1>4 DEF PacketIInv, PacketTypes
<1>6. Sizes'
  BY <1>1, <1>2, <1>4 DEF PacketIInv, PacketTypes, Sizes
<1>. QED
  BY <1>1, <1>4, <1>5, <1>6 DEF PacketIInv

LEMMA ReadBodyKeeps == ASSUME PacketIInv, ReadBody PROVE PacketIInv'
<1>1. /\ UNCHANGED <<posted, handed, dropped, reading, h, headerBuf, recvBuf, recvLeft>>
      /\ Read /\ reading = "body" /\ size > 0 /\ buf' = Append(buf, wire[1])
      /\ size' = size - 1 /\ ~dropped
  BY DEF ReadBody, sessionVars, PacketIInv
<1>2. Part = buf /\ Part' = buf' /\ Header \in Nat /\ Header > 0
  BY <1>1, PacketAssumption DEF Part
<1>3. /\ Len(buf) \in Nat /\ Len(buf) >= Header /\ size \in Nat
      /\ Len(buf) + size = Header + posted[Len(handed) + 1]
  BY <1>1 DEF PacketIInv, PacketTypes, Sizes
<1>4. Len(Part) < Header + posted[Len(handed) + 1]
  <2>1. Len(buf) < Len(buf) + size
    BY <1>1, <1>3
  <2>. QED
    BY <1>2, <1>3, <2>1
<1>5. /\ Stream(posted', wire', Len(handed') + 1, Part')
      /\ Part' \in Seq(Bytes) /\ Len(Part') = Len(Part) + 1
      /\ wire' \in Seq(Bytes) /\ arrived' \in Nat /\ arrived' <= Len(wire')
      /\ PacketsInOrder'
  BY <1>1, <1>2, <1>4, OneRead
<1>6. PacketTypes'
  BY <1>1, <1>2, <1>3, <1>5 DEF PacketIInv, PacketTypes
<1>7. Len(buf') + size' = Len(buf) + size
  BY <1>1, <1>2, <1>3, <1>5
<1>8. Sizes'
  BY <1>1, <1>2, <1>3, <1>5, <1>7 DEF PacketIInv, Sizes
<1>. QED
  BY <1>1, <1>5, <1>6, <1>8 DEF PacketIInv

(* A packet is returned.                                                   *)
LEMMA BodyDoneKeeps == ASSUME PacketIInv, BodyDone PROVE PacketIInv'
<1>1. /\ UNCHANGED <<posted, wire, arrived, dropped, headerBuf, recvBuf>>
      /\ reading = "body" /\ size = 0 /\ handed' = Append(handed, buf) /\ recvLeft' = 0
      /\ reading' = "no" /\ h' = <<>> /\ buf' = <<>> /\ size' = 0 /\ ~dropped
  BY DEF BodyDone, Idle, networkVars, PacketIInv
<1>2. Part = buf /\ Header \in Nat /\ Header > 0
  BY <1>1, PacketAssumption DEF Part
<1>3. /\ PacketTypes /\ PacketsInOrder /\ Sizes
      /\ Stream(posted, wire, Len(handed) + 1, buf)
  BY <1>1, <1>2 DEF PacketIInv
<1>4. /\ Len(handed) \in Nat /\ Len(handed) + 1 > 0 /\ buf \in Seq(Bytes)
      /\ Len(buf) = Header + posted[Len(handed) + 1] /\ buf # <<>> /\ headerBuf = <<>>
  BY <1>1, <1>2, <1>3 DEF PacketTypes, Sizes
<1>5. /\ Stream(posted, wire, Len(handed) + 2, <<>>)
      /\ buf = Whole(Len(handed) + 1) /\ Len(handed) + 1 \in 1..Len(posted)
  BY <1>3, <1>4, StreamDone DEF PacketTypes, Whole
<1>6. /\ handed' \in Seq(Seq(Bytes)) /\ Len(handed') = Len(handed) + 1
      /\ handed'[Len(handed) + 1] = buf
      /\ \A n \in 1..Len(handed) : handed'[n] = handed[n]
  BY <1>1, <1>3, <1>4 DEF PacketTypes
<1>7. PacketTypes'
  BY <1>1, <1>3, <1>6 DEF PacketTypes
<1>8. PacketsInOrder'
  <2>1. Len(handed') <= Len(posted)
    BY <1>4, <1>5, <1>6
  <2>2. ASSUME NEW n \in 1..Len(handed') PROVE handed'[n] = Whole(n)
    <3>1. CASE n \in 1..Len(handed)
      BY <3>1, <1>3, <1>6 DEF PacketsInOrder
    <3>2. CASE n = Len(handed) + 1
      BY <3>2, <1>5, <1>6
    <3>. QED
      BY <3>1, <3>2, <1>4, <1>6
  <2>3. \A n : Whole(n)' = Whole(n)
    BY <1>1 DEF Whole
  <2>. QED
    BY <1>1, <2>1, <2>2, <2>3 DEF PacketsInOrder
<1>9. Part' = <<>>
  BY <1>1, <1>4 DEF Part
<1>10. Stream(posted', wire', Len(handed') + 1, Part')
  <2>1. Len(handed') + 1 = Len(handed) + 2
    BY <1>4, <1>6
  <2>. QED
    BY <1>1, <1>5, <1>9, <2>1
<1>11. Sizes'
  BY <1>1, <1>2, <1>4 DEF Sizes
<1>. QED
  BY <1>1, <1>7, <1>8, <1>10, <1>11 DEF PacketIInv

LEMMA PacketStep == ASSUME PacketIInv, PacketNext PROVE PacketIInv'
  BY PostKeeps, NetworkKeeps, ResumeKeeps, ReadHeaderKeeps, HeaderAgainKeeps, HeaderDoneKeeps,
     ReadBodyKeeps, BodyAgainKeeps, BodyDoneKeeps, RecvFailsKeeps DEF PacketNext

LEMMA PacketStutter == ASSUME PacketIInv, UNCHANGED packetVars PROVE PacketIInv'
<1>1. PacketTypes'
  BY DEF packetVars, networkVars, localVars, sessionVars, PacketIInv, PacketTypes
<1>2. Part' = Part /\ (Sizes => Sizes')
  BY DEF packetVars, networkVars, localVars, sessionVars, Part, Sizes
<1>3. UNCHANGED <<posted, wire, handed, dropped, reading>>
  BY DEF packetVars, networkVars, localVars
<1>. QED
  BY <1>1, <1>2, <1>3, NothingRead DEF PacketIInv

(* gg_recv_packet returns the packets the server sent, whole, once each    *)
(* and in order, however the stream is split (libgadu.c:463-600).          *)
THEOREM SpecPacketsInOrder == PacketSpec => []PacketsInOrder
<1>1. PacketInit => PacketIInv
  BY PacketInitial
<1>2. PacketIInv /\ [PacketNext]_packetVars => PacketIInv'
  BY PacketStep, PacketStutter
<1>3. PacketIInv => PacketsInOrder
  BY DEF PacketIInv
<1>. QED
  BY <1>1, <1>2, <1>3, PTL DEF PacketSpec
=============================================================================
