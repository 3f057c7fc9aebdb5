--------------------------- MODULE ServicesProof ----------------------------
(***************************************************************************)
(* Proofs about the Tlen session, for any statuses, any number of sources  *)
(* and any depth of nested calls of test_chan, about auto-away, for any    *)
(* protocols, and about the contacts of Jabber, for any people and any     *)
(* number of requests and stanzas under way.                               *)
(***************************************************************************)
EXTENDS TlenSession, AutoAway, JabberContacts, SequenceTheorems, FiniteSetTheorems, TLAPS

(***************************************************************************)
(* The Tlen session.                                                       *)
(***************************************************************************)
(* The calls of test_chan, and those about to remove their source.         *)
TestCall ==
    [op : {"next", "told", "leaves"}, src : TlenSources]
        \cup [op : {"warns"}, src : TlenSources, failure : Failed]

In(s) == {s[i] : i \in DOMAIN s}

Removes(c) == c.op \in {"warns", "leaves"}

(* The invariant.  A session that was never configured has no sources.     *)
Types ==
    /\ stage \in Stages /\ configured \in BOOLEAN /\ disturbed \in BOOLEAN
    /\ events \in Seq(News) /\ calls \in Seq(TestCall)
    /\ sources \subseteq TlenSources /\ own \subseteq sources /\ tag \in {0} \cup sources

Unconfigured ==
    /\ ~configured => stage \in {"none", "fresh"}
    /\ stage = "fresh" \/ ~configured => sources = {} /\ calls = <<>> /\ tag = 0

(* The call that leaves does not take the source the tag names with it.    *)
TagKept == \A c \in In(calls) : c.op = "leaves" => c.src # tag

(* A session that waits has a source no call is about to remove.           *)
Polled == Waits => \E w \in own : \A c \in In(calls) : Removes(c) => c.src # w

(* Events fit the stage, and those that change it are fetched at once.     *)
Fetching == calls # <<>> /\ Top.op = "next"

EventsFit ==
    /\ stage \in {"none", "fresh"} => events = <<>>
    /\ stage = "login" => events = <<>> \/ (Fetching /\ events = <<"authorized">>)
    /\ stage = "authorized" =>
          events = <<>> \/ (Fetching /\ Head(events) = "end of roster"
                             /\ In(Tail(events)) \subseteq {"message"})
    /\ stage \in {"listed"} \cup Failed => In(events) \subseteq {"message"}

(* Nobody logged in while a failure was announced: then nothing else is    *)
(* polled, and nothing can happen on top of it.                            *)
Calm ==
    /\ sources \subseteq {tag}
    /\ calls # <<>> => \A c \in In(Tail(calls)) : c.op # "warns"
    /\ calls # <<>> /\ Top.op = "warns" => sources \subseteq {Top.src}

PollInv == Types /\ Unconfigured /\ TagKept /\ Polled /\ EventsFit /\ (~disturbed => Calm)

-----------------------------------------------------------------------------
(* Sequences.                                                              *)

LEMMA InEmpty == In(<<>>) = {}
  BY DEF In

LEMMA CallPushed ==
    ASSUME NEW S, NEW s \in Seq(S), NEW c \in S
    PROVE  /\ <<c>> \o s \in Seq(S) /\ <<c>> \o s # <<>>
           /\ Head(<<c>> \o s) = c /\ Tail(<<c>> \o s) = s
           /\ In(<<c>> \o s) = {c} \cup In(s)
<1> DEFINE t == <<c>> \o s
<1>1. t \in Seq(S) /\ Len(t) = Len(s) + 1 /\ t[1] = c /\ \A i \in 1..Len(s) : t[i + 1] = s[i]
  OBVIOUS
<1>2. DOMAIN t = 1..(Len(s) + 1) /\ DOMAIN s = 1..Len(s) /\ Len(s) \in Nat
  BY <1>1
<1>3. In(t) \subseteq {c} \cup In(s)
  <2> SUFFICES ASSUME NEW i \in 1..(Len(s) + 1), i # 1 PROVE t[i] \in In(s)
    BY <1>1, <1>2 DEF In
  <2>1. i - 1 \in 1..Len(s) /\ (i - 1) + 1 = i
    BY <1>2
  <2> QED
    BY <1>1, <1>2, <2>1 DEF In
<1>4. {c} \cup In(s) \subseteq In(t)
  <2>1. 1 \in DOMAIN t /\ \A i \in DOMAIN s : i + 1 \in DOMAIN t
    BY <1>2
  <2> QED
    BY <1>1, <1>2, <2>1 DEF In
<1>5. /\ Head(t) = c /\ Tail(t) = s /\ t # <<>>
  BY <1>1
<1> QED
  BY <1>1, <1>3, <1>4, <1>5

LEMMA Popped ==
    ASSUME NEW S, NEW s \in Seq(S), s # <<>>
    PROVE  /\ Head(s) \in S /\ Tail(s) \in Seq(S) /\ s = <<Head(s)>> \o Tail(s)
           /\ In(s) = {Head(s)} \cup In(Tail(s))
<1>1. Head(s) \in S /\ Tail(s) \in Seq(S) /\ s = <<Head(s)>> \o Tail(s)
  OBVIOUS
<1> QED
  BY <1>1, CallPushed

LEMMA Batches ==
    /\ <<>> \in Seq(News) /\ <<"authorized">> \in Seq(News) /\ <<"message">> \in Seq(News)
    /\ <<"end of roster">> \in Seq(News) /\ <<"end of roster", "message">> \in Seq(News)
    /\ Head(<<"end of roster">>) = "end of roster" /\ Tail(<<"end of roster">>) = <<>>
    /\ Head(<<"end of roster", "message">>) = "end of roster"
    /\ Tail(<<"end of roster", "message">>) = <<"message">>
    /\ Head(<<"authorized">>) = "authorized" /\ Tail(<<"authorized">>) = <<>>
    /\ In(<<"message">>) = {"message"}
<1>1. <<>> \in Seq(News) /\ <<"authorized">> \in Seq(News) /\ <<"message">> \in Seq(News)
  BY DEF News
<1>2. <<"end of roster">> \in Seq(News) /\ <<"end of roster", "message">> \in Seq(News)
  BY DEF News
<1>3. Head(<<"end of roster">>) = "end of roster" /\ Tail(<<"end of roster">>) = <<>>
  OBVIOUS
<1>4. /\ Head(<<"end of roster", "message">>) = "end of roster"
      /\ Tail(<<"end of roster", "message">>) = <<"message">>
  OBVIOUS
<1>5. /\ Head(<<"authorized">>) = "authorized" /\ Tail(<<"authorized">>) = <<>>
      /\ In(<<"message">>) = {"message"}
  BY DEF In
<1> QED
  BY <1>1, <1>2, <1>3, <1>4, <1>5

LEMMA Joined ==
    ASSUME NEW S, NEW s \in Seq(S), NEW t \in Seq(S)
    PROVE  s \o t \in Seq(S) /\ In(s \o t) \subseteq In(s) \cup In(t)
<1>1. s \o t \in Seq(S) /\ DOMAIN (s \o t) = 1..(Len(s) + Len(t))
  OBVIOUS
<1>2. ASSUME NEW i \in 1..(Len(s) + Len(t)) PROVE (s \o t)[i] \in In(s) \cup In(t)
  <2>1. CASE i <= Len(s)
    <3>1. i \in DOMAIN s /\ (s \o t)[i] = s[i]
      BY <2>1
    <3> QED
      BY <3>1 DEF In
  <2>2. CASE ~(i <= Len(s))
    <3>1. i - Len(s) \in DOMAIN t /\ (s \o t)[i] = t[i - Len(s)]
      BY <2>2
    <3> QED
      BY <3>1 DEF In
  <2> QED
    BY <2>1, <2>2
<1> QED
  BY <1>1, <1>2 DEF In

-----------------------------------------------------------------------------
(* updatewatch replaces the source the tag names by one that no call has.  *)
LEMMA Replaced ==
    ASSUME Types, UpdateWatch
    PROVE  \E new \in TlenSources :
              /\ new \notin sources /\ \A c \in In(calls) : c.src # new
              /\ tag' = new /\ sources' = (sources \ {tag}) \cup {new}
              /\ sources' \ sources = {new}
<1>1. ~(tag # 0 /\ tag \notin sources)
  BY DEF Types
<1>2. PICK new \in Unused : tag' = new /\ sources' = (sources \ {tag}) \cup {new}
  BY <1>1 DEF UpdateWatch
<1>3. new \in TlenSources /\ new \notin sources /\ \A c \in In(calls) : c.src # new
  BY DEF Unused, In
<1> QED
  BY <1>2, <1>3

LEMMA LoginStep ==
    ASSUME PollInv, TlenAssumption, ~connected, calls' = calls, configured' = configured,
           NEW m, Login(m)
    PROVE  PollInv'
<1> USE DEF PollInv
<1>0. (disturbed' \in BOOLEAN) /\ (~disturbed' => ~disturbed /\ \A c \in In(calls) : c.op # "warns")
  BY DEF Login, In, Types
<1>1. CASE configured
  <2>1. PICK new \in TlenSources :
              /\ new \notin sources /\ \A c \in In(calls) : c.src # new
              /\ tag' = new /\ sources' = (sources \ {tag}) \cup {new}
              /\ sources' \ sources = {new}
    BY <1>1, Replaced DEF Login
  <2>2. stage' = "login" /\ events' = <<>> /\ own' = {new}
    BY <1>1, <2>1 DEF Login
  <2>3. Types'
    BY <1>0, <2>1, <2>2 DEF Types, Stages
  <2>4. Unconfigured' /\ EventsFit'
    BY <1>1, <2>2 DEF Unconfigured, EventsFit, Failed
  <2>5. TagKept' /\ Polled'
    BY <2>1, <2>2 DEF TagKept, Polled, In
  <2>6. ~disturbed' => Calm'
    <3> SUFFICES ASSUME ~disturbed' PROVE Calm'
      OBVIOUS
    <3>1. sources' = {new}
      BY <1>0, <2>1 DEF Calm
    <3>2. calls # <<>> => In(calls) = {Top} \cup In(Tail(calls))
      BY Popped DEF Types, Top
    <3> QED
      BY <1>0, <2>1, <3>1, <3>2 DEF Calm, Top, In
  <2> QED
    BY <2>3, <2>4, <2>5, <2>6
<1>2. CASE ~configured
  <2>1. stage' = "fresh" /\ events' = <<>> /\ own' = {} /\ sources' = {} /\ tag' = 0 /\ calls = <<>>
    BY <1>2 DEF Login, Unconfigured
  <2> QED
    BY <1>0, <1>2, <2>1, InEmpty
    DEF Types, Stages, Unconfigured, TagKept, Polled, Waits, EventsFit, Calm, Failed
<1> QED
  BY <1>1, <1>2

LEMMA Untouched ==
    ASSUME PollInv, UNCHANGED <<stage, events, polled, disturbed, calls>>,
           configured' = configured \/ configured' = TRUE
    PROVE  PollInv'
<1> USE DEF PollInv
<1>1. UNCHANGED <<stage, events, sources, own, tag, disturbed, calls>>
  BY DEF polled
<1>2. Types' /\ Unconfigured'
  BY <1>1 DEF Types, Unconfigured
<1>3. TagKept' /\ Polled' /\ EventsFit'
  BY <1>1 DEF TagKept, Polled, Waits, EventsFit, Fetching, Top, In
<1>4. ~disturbed' => Calm'
  BY <1>1 DEF Calm, Top, In
<1> QED
  BY <1>2, <1>3, <1>4

LEMMA SourceNumbers ==
    ASSUME TlenAssumption, NEW s \in Seq(TestCall) PROVE \A c \in In(s) : c.src \in TlenSources \ {0}
  BY DEF TlenAssumption, TestCall, In

(* Signals of the user.                                                    *)
LEMMA UserStep ==
    ASSUME PollInv, TlenAssumption,
           \/ \E m \in Moods \cup {"offline"} : ChangeStatus(m)
           \/ AskDescription \/ UpdateConfig
           \/ \E m \in dialogs : AnswerDescription(m)
    PROVE  PollInv'
<1> USE DEF PollInv
<1>1. ASSUME GoesOffline, UNCHANGED <<calls, configured>> PROVE PollInv'
  <2>1. /\ stage' = "none" /\ events' = <<>> /\ tag' = 0 /\ own' = {} /\ sources' = sources \ {tag}
        /\ disturbed' = disturbed
    BY <1>1 DEF GoesOffline, Freed
  <2>2. \A c \in In(calls) : c.src # 0
    BY SourceNumbers DEF Types
  <2>3. Types' /\ Unconfigured'
    BY <1>1, <2>1 DEF Types, Stages, Unconfigured
  <2>4. TagKept' /\ Polled' /\ EventsFit'
    BY <1>1, <2>1, <2>2 DEF TagKept, Polled, Waits, EventsFit, Failed, In
  <2>5. ~disturbed' => Calm'
    BY <1>1, <2>1 DEF Calm, Top, In
  <2> QED
    BY <2>3, <2>4, <2>5
<1>2. ASSUME NEW m \in Moods \cup {"offline"}, ChangeStatus(m) PROVE PollInv'
  <2>1. CASE connected /\ m = "offline"
    BY <1>1, <1>2, <2>1 DEF ChangeStatus
  <2>2. CASE connected /\ m # "offline"
    BY Untouched, <1>2, <2>2 DEF ChangeStatus, SetsMood
  <2>3. CASE ~connected /\ m = "offline"
    BY Untouched, <1>2, <2>3 DEF ChangeStatus, NothingDone, theSession
  <2>4. CASE ~connected /\ m # "offline"
    BY <1>2, <2>4, LoginStep DEF ChangeStatus
  <2> QED
    BY <2>1, <2>2, <2>3, <2>4
<1>3. ASSUME NEW m \in dialogs, AnswerDescription(m) PROVE PollInv'
  <2>1. CASE connected
    BY Untouched, <1>3, <2>1 DEF AnswerDescription, SetsMood
  <2>2. CASE ~connected
    BY <1>3, <2>2, LoginStep DEF AnswerDescription
  <2> QED
    BY <2>1, <2>2
<1>4. ASSUME AskDescription \/ UpdateConfig PROVE PollInv'
  BY Untouched, <1>4 DEF AskDescription, UpdateConfig, theSession
<1> QED
  BY <1>2, <1>3, <1>4

LEMMA FaultStep ==
    ASSUME PollInv, UsesNull PROVE PollInv'
<1>1. UNCHANGED <<stage, events, polled, disturbed, calls, configured>>
  BY DEF UsesNull, theSession, wishes
<1> QED
  BY <1>1, Untouched

(* A source is dispatched.                                                 *)
LEMMA DispatchStep ==
    ASSUME PollInv, NEW src \in sources, Dispatch(src) PROVE PollInv'
<1> USE DEF PollInv
<1>1. CASE stage = "none"
  BY <1>1, FaultStep DEF Dispatch
<1>2. CASE stage # "none"
  <2> DEFINE c == Call("next", src)
  <2>1. /\ UNCHANGED <<stage, sources, own, tag, configured, disturbed>> /\ calls' = <<c>> \o calls
        /\ stage \notin Failed /\ src \notin {d.src : d \in In(calls)} /\ ~Fetching
        /\ \E news \in Progress : events' = events \o news
    BY <1>2 DEF Dispatch, Dispatched, Idle, Fetching, polled, wishes, In
  <2>2. c \in TestCall /\ c.op = "next" /\ c.src = src
    BY DEF Call, TestCall, Types
  <2>3. /\ calls' \in Seq(TestCall) /\ calls' # <<>> /\ Head(calls') = c /\ Tail(calls') = calls
        /\ In(calls') = {c} \cup In(calls)
    BY <2>1, <2>2, CallPushed DEF Types
  <2>4. configured /\ stage \in {"login", "authorized", "listed"}
    BY <1>2, <2>1 DEF Unconfigured, Types, Stages
  <2>5. /\ events' \in Seq(News)
        /\ EventsFit'
    <3>1. Fetching'
      BY <2>2, <2>3 DEF Fetching, Top
    <3>2. \A news \in Seq(News) : <<>> \o news = news
      OBVIOUS
    <3>4. CASE stage = "login"
      <4>1. events = <<>> /\ Progress = {<<>>, <<"authorized">>}
        BY <2>1, <3>4 DEF EventsFit, Progress
      <4>2. <<>> \in Seq(News) /\ <<"authorized">> \in Seq(News)
        BY Batches
      <4>3. events' = <<>> \/ events' = <<"authorized">>
        BY <2>1, <3>2, <4>1, <4>2
      <4> QED
        BY <2>1, <3>1, <3>4, <4>2, <4>3 DEF EventsFit, Failed
    <3>5. CASE stage = "authorized"
      <4>1. events = <<>> /\ Progress = {<<>>, <<"end of roster">>, <<"end of roster", "message">>}
        BY <2>1, <3>5 DEF EventsFit, Progress
      <4>2. /\ <<>> \in Seq(News) /\ <<"end of roster">> \in Seq(News)
            /\ <<"end of roster", "message">> \in Seq(News)
        BY Batches
      <4>3. \/ events' = <<>>
            \/ events' = <<"end of roster">>
            \/ events' = <<"end of roster", "message">>
        BY <2>1, <3>2, <4>1, <4>2
      <4>4. events' # <<>> => /\ Head(events') = "end of roster"
                             /\ In(Tail(events')) \subseteq {"message"}
        BY <4>3, InEmpty, Batches
      <4> QED
        BY <2>1, <3>1, <3>5, <4>2, <4>3, <4>4 DEF EventsFit, Failed
    <3>6. CASE stage = "listed"
      <4>1. PICK news \in {<<>>, <<"message">>} : events' = events \o news
        BY <2>1, <3>6 DEF Progress
      <4>2. news \in Seq(News) /\ In(news) \subseteq {"message"}
        BY InEmpty, Batches
      <4>3. events' \in Seq(News) /\ In(events') \subseteq In(events) \cup In(news)
        BY <4>1, <4>2, Joined DEF Types
      <4> QED
        BY <2>1, <3>6, <4>2, <4>3 DEF EventsFit, Failed
    <3> QED
      BY <2>4, <3>4, <3>5, <3>6
  <2>6. Types' /\ Unconfigured'
    BY <2>1, <2>3, <2>4, <2>5 DEF Types, Unconfigured
  <2>7. TagKept' /\ Polled'
    BY <2>1, <2>2, <2>3 DEF TagKept, Polled, Waits, Removes
  <2>8. ~disturbed' => Calm'
    <3> SUFFICES ASSUME ~disturbed PROVE Calm'
      BY <2>1
    <3>1. calls # <<>> => Top.op # "warns" /\ In(calls) = {Top} \cup In(Tail(calls))
      BY <2>1, Popped DEF Calm, Top, Types
    <3>2. \A d \in In(calls) : d.op # "warns"
      BY <3>1, InEmpty DEF Calm
    <3> QED
      BY <2>1, <2>2, <2>3, <3>2 DEF Calm, Top
  <2> QED
    BY <2>5, <2>6, <2>7, <2>8
<1> QED
  BY <1>1, <1>2

LEMMA FailureStep ==
    ASSUME PollInv, NEW src \in sources, NEW failure \in Failed, DispatchFailure(src, failure)
    PROVE  PollInv'
<1> USE DEF PollInv
<1> DEFINE c == [op |-> "warns", src |-> src, failure |-> failure]
<1>1. /\ UNCHANGED <<events, sources, own, tag, configured, disturbed>> /\ calls' = <<c>> \o calls
      /\ stage' = failure /\ src \notin {d.src : d \in In(calls)} /\ ~Fetching
      /\ stage = "login" \/ stage \in {"authorized", "listed"} \cup Failed
  BY DEF DispatchFailure, Dispatched, Idle, Fetching, polled, wishes, In
<1>2. c \in TestCall /\ c.op = "warns" /\ c.src = src
  BY DEF TestCall, Types
<1>3. /\ calls' \in Seq(TestCall) /\ calls' # <<>> /\ Head(calls') = c /\ Tail(calls') = calls
      /\ In(calls') = {c} \cup In(calls)
  BY <1>1, <1>2, CallPushed DEF Types
<1>4. configured
  BY DEF Unconfigured
<1>5. EventsFit'
  BY <1>1, InEmpty DEF EventsFit, Failed
<1>6. Types' /\ Unconfigured'
  BY <1>1, <1>3, <1>4 DEF Types, Unconfigured, Stages, Failed
<1>7. TagKept' /\ Polled'
  BY <1>1, <1>2, <1>3 DEF TagKept, Polled, Waits, Failed
<1>8. ~disturbed' => Calm'
  <2> SUFFICES ASSUME ~disturbed PROVE Calm'
    BY <1>1
  <2>1. calls # <<>> => Top.op # "warns" /\ In(calls) = {Top} \cup In(Tail(calls))
    <3> SUFFICES ASSUME calls # <<>> PROVE Top.op # "warns" /\ In(calls) = {Top} \cup In(Tail(calls))
      OBVIOUS
    <3>1. In(calls) = {Top} \cup In(Tail(calls))
      BY Popped DEF Top, Types
    <3>2. Top.src # src
      BY <1>1, <3>1
    <3> QED
      BY <3>1, <3>2 DEF Calm
  <2>2. \A d \in In(calls) : d.op # "warns"
    BY <2>1, InEmpty DEF Calm
  <2>3. sources \subseteq {src}
    BY DEF Calm
  <2> QED
    BY <1>1, <1>2, <1>3, <2>2, <2>3 DEF Calm, Top
<1> QED
  BY <1>5, <1>6, <1>7, <1>8

-----------------------------------------------------------------------------
(* A call goes on: the frame on top is replaced, or goes.                  *)
LEMMA OnTop ==
    ASSUME Types, calls # <<>>
    PROVE  /\ Top \in TestCall /\ Tail(calls) \in Seq(TestCall)
           /\ In(calls) = {Top} \cup In(Tail(calls))
  BY Popped DEF Types, Top

(* The events of a call that fetches.                                      *)
LEMMA FetchStep ==
    ASSUME PollInv, Authorized \/ EndOfRoster \/ Message PROVE PollInv'
<1> USE DEF PollInv
<1>1. /\ Top.op \in {"next", "told"} /\ events # <<>> /\ events' = Tail(events) /\ calls # <<>>
      /\ UNCHANGED <<sources, own, tag, configured, disturbed>>
      /\ \E op \in {"next", "told"} : calls' = <<Call(op, Top.src)>> \o Tail(calls)
  BY DEF Authorized, EndOfRoster, Message, Fetches, polled, wishes
<1>2. PICK op \in {"next", "told"} : calls' = <<Call(op, Top.src)>> \o Tail(calls)
  BY <1>1
<1> DEFINE c == Call(op, Top.src)
<1>3. c \in TestCall /\ c.op = op /\ c.src = Top.src
  BY <1>1, OnTop DEF Call, TestCall
<1>4. /\ calls' \in Seq(TestCall) /\ calls' # <<>> /\ Head(calls') = c /\ Tail(calls') = Tail(calls)
      /\ In(calls') = {c} \cup In(Tail(calls)) /\ In(calls) = {Top} \cup In(Tail(calls))
  BY <1>1, <1>2, <1>3, OnTop, CallPushed
<1>5. /\ Tail(events) \in Seq(News) /\ In(events) = {Head(events)} \cup In(Tail(events))
      /\ Head(events) \in News
  BY <1>1, Popped DEF Types
<1>6. configured /\ stage \notin {"none", "fresh"}
  BY <1>1 DEF Unconfigured, EventsFit
<1>7. /\ EventsFit' /\ stage' \in Stages \ {"fresh", "none"}
      /\ Waits' => Waits
  <2>1. CASE Authorized
    <3>1. stage = "login" /\ events = <<"authorized">> /\ stage' = "authorized"
      BY <1>1, <1>5, <1>6, <2>1 DEF Authorized, Fetches, EventsFit, Types, Stages
    <3> QED
      BY <1>1, <3>1, Batches DEF EventsFit, Stages, Failed, Waits
  <2>2. CASE EndOfRoster
    <3>1. stage = "authorized" /\ In(Tail(events)) \subseteq {"message"} /\ stage' = "listed"
      BY <1>1, <1>5, <1>6, <2>2, Batches DEF EndOfRoster, Fetches, EventsFit, Types, Stages, Failed
    <3> QED
      BY <1>1, <3>1 DEF EventsFit, Stages, Failed, Waits
  <2>3. CASE Message
    <3>1. stage \in {"listed"} \cup Failed /\ In(events) \subseteq {"message"} /\ stage' = stage
      BY <1>1, <1>5, <1>6, <2>3, Batches DEF Message, Fetches, EventsFit, Types, Stages, Failed
    <3> QED
      BY <1>1, <1>5, <3>1 DEF EventsFit, Stages, Failed, Waits
  <2> QED
    BY <2>1, <2>2, <2>3
<1>8. Types' /\ Unconfigured'
  BY <1>1, <1>4, <1>5, <1>6, <1>7 DEF Types, Unconfigured
<1>9. TagKept' /\ Polled'
  BY <1>1, <1>3, <1>4, <1>7 DEF TagKept, Polled, Removes
<1>10. ~disturbed' => Calm'
  BY <1>1, <1>3, <1>4 DEF Calm, Top
<1> QED
  BY <1>7, <1>8, <1>9, <1>10

(* The callback returns FALSE: its source goes, unless another was put in  *)
(* its place, and nothing a session waits for does.                        *)
LEMMA RemovedStep ==
    ASSUME TlenAssumption, PollInv, Warned \/ Leaves PROVE PollInv'
<1> USE DEF PollInv
<1>1. /\ calls # <<>> /\ calls' = Tail(calls) /\ Removed(Top.src)
      /\ UNCHANGED <<stage, events, configured, disturbed>>
      /\ (Top.op = "warns" /\ tag' = 0) \/ (Top.op = "leaves" /\ tag' = tag)
  BY DEF Warned, Leaves, theSession, wishes
<1>2. /\ Top \in TestCall /\ Tail(calls) \in Seq(TestCall) /\ In(calls) = {Top} \cup In(Tail(calls))
  BY <1>1, OnTop
<1>3. sources' = sources \ {Top.src} /\ own' = own \ {Top.src}
  BY <1>1 DEF Removed
<1>4. configured /\ stage # "fresh"
  BY <1>1 DEF Unconfigured
<1>5. tag' \in {0} \cup sources'
  BY <1>1, <1>2, <1>3 DEF TagKept, Types
<1>6. Types' /\ Unconfigured'
  BY <1>1, <1>2, <1>3, <1>4, <1>5 DEF Types, Unconfigured
<1>7. ~Fetching
  BY <1>1 DEF Fetching
<1>8. EventsFit'
  BY <1>1, <1>7 DEF EventsFit
<1>9. TagKept'
  <2>1. \A c \in In(Tail(calls)) : c.src # 0
    BY <1>2, SourceNumbers
  <2> QED
    BY <1>1, <1>2, <2>1 DEF TagKept
<1>10. Polled'
  BY <1>1, <1>2, <1>3 DEF Polled, Waits, Removes
<1>11. ~disturbed' => Calm'
  <2> SUFFICES ASSUME ~disturbed PROVE Calm'
    BY <1>1
  <2>1. sources' \subseteq {tag'}
    BY <1>1, <1>3 DEF Calm
  <2>2. \A c \in In(Tail(calls)) : c.op # "warns"
    BY <1>1 DEF Calm
  <2>3. ASSUME Tail(calls) # <<>>
        PROVE  In(Tail(calls)) = {Head(Tail(calls))} \cup In(Tail(Tail(calls)))
    BY <1>2, <2>3, Popped
  <2> QED
    BY <1>1, <2>1, <2>2, <2>3 DEF Calm, Top
<1> QED
  BY <1>6, <1>8, <1>9, <1>10, <1>11

(* A session that failed is freed, after its source has been replaced.     *)
LEMMA FailsStep ==
    ASSUME TlenAssumption, PollInv, Fails PROVE PollInv'
<1> USE DEF PollInv
<1>1. CASE stage = "none"
  BY <1>1, FaultStep DEF Fails
<1>2. CASE stage # "none"
  <2> DEFINE c == Call("leaves", Top.src)
  <2>1. /\ calls # <<>> /\ Top.op = "warns" /\ calls' = <<c>> \o Tail(calls)
        /\ stage' = "none" /\ events' = <<>> /\ own' = {} /\ Rewatch
        /\ UNCHANGED <<configured, disturbed>>
    BY <1>2 DEF Fails, Freed, wishes
  <2>2. configured /\ UpdateWatch
    BY <2>1 DEF Unconfigured, Rewatch
  <2>3. PICK new \in TlenSources :
              /\ new \notin sources /\ \A d \in In(calls) : d.src # new
              /\ tag' = new /\ sources' = (sources \ {tag}) \cup {new}
              /\ sources' \ sources = {new}
    BY <2>2, Replaced
  <2>4. /\ Top \in TestCall /\ Tail(calls) \in Seq(TestCall)
        /\ In(calls) = {Top} \cup In(Tail(calls))
    BY <2>1, OnTop
  <2>5. c \in TestCall /\ c.op = "leaves" /\ c.src = Top.src
    BY <2>4 DEF Call, TestCall
  <2>6. /\ calls' \in Seq(TestCall) /\ calls' # <<>> /\ Head(calls') = c /\ Tail(calls') = Tail(calls)
        /\ In(calls') = {c} \cup In(Tail(calls))
    <3>1. c \in TestCall /\ Tail(calls) \in Seq(TestCall) /\ calls' = <<c>> \o Tail(calls)
      BY <2>1, <2>4, <2>5
    <3> HIDE DEF c
    <3> QED
      BY <3>1, CallPushed
  <2>7. Types' /\ Unconfigured'
    BY <2>1, <2>2, <2>3, <2>6 DEF Types, Unconfigured, Stages
  <2>8. TagKept' /\ Polled' /\ EventsFit'
    <3>1. \A d \in In(calls') : d.src # new
      BY <2>3, <2>4, <2>5, <2>6
    <3>2. TagKept'
      BY <2>3, <3>1 DEF TagKept
    <3> QED
      BY <2>1, <3>2 DEF Polled, Waits, EventsFit, Failed
  <2>9. ~disturbed' => Calm'
    BY <2>1, <2>3, <2>5, <2>6 DEF Calm, Top
  <2> QED
    BY <2>7, <2>8, <2>9
<1> QED
  BY <1>1, <1>2

(* A call returns TRUE, after the session's source has been replaced.      *)
LEMMA ReturnsStep ==
    ASSUME TlenAssumption, PollInv, Returns PROVE PollInv'
<1> USE DEF PollInv
<1>1. CASE stage = "none"
  BY <1>1, FaultStep DEF Returns
<1>2. CASE stage # "none"
  <2>1. /\ calls # <<>> /\ Top.op \in {"next", "told"} /\ calls' = Tail(calls) /\ events = <<>>
        /\ own' = (own \ {tag}) \cup (sources' \ sources) /\ Rewatch
        /\ UNCHANGED <<stage, events, configured, disturbed>>
    BY <1>2 DEF Returns, theSession, wishes
  <2>2. configured /\ stage # "fresh" /\ UpdateWatch
    BY <2>1 DEF Unconfigured, Rewatch
  <2>3. PICK new \in TlenSources :
              /\ new \notin sources /\ \A d \in In(calls) : d.src # new
              /\ tag' = new /\ sources' = (sources \ {tag}) \cup {new}
              /\ sources' \ sources = {new}
    BY <2>2, Replaced
  <2>4. /\ Top \in TestCall /\ Tail(calls) \in Seq(TestCall)
        /\ In(calls) = {Top} \cup In(Tail(calls))
    BY <2>1, OnTop
  <2>5. Types' /\ Unconfigured'
    BY <2>1, <2>2, <2>3, <2>4 DEF Types, Unconfigured
  <2>6. TagKept' /\ EventsFit'
    BY <2>1, <2>3, <2>4, InEmpty DEF TagKept, EventsFit
  <2>7. Polled'
    <3>1. new \in own' /\ \A d \in In(calls') : d.src # new
      BY <2>1, <2>3, <2>4
    <3> QED
      BY <3>1 DEF Polled
  <2>8. ~disturbed' => Calm'
    <3> SUFFICES ASSUME ~disturbed PROVE Calm'
      BY <2>1
    <3>1. sources' \subseteq {tag'}
      BY <2>1, <2>3 DEF Calm
    <3>2. \A d \in In(Tail(calls)) : d.op # "warns"
      BY <2>1 DEF Calm
    <3>3. ASSUME Tail(calls) # <<>>
          PROVE  In(Tail(calls)) = {Head(Tail(calls))} \cup In(Tail(Tail(calls)))
      BY <2>4, <3>3, Popped
    <3> QED
      BY <2>1, <3>1, <3>2, <3>3 DEF Calm, Top
  <2> QED
    BY <2>5, <2>6, <2>7, <2>8
<1> QED
  BY <1>1, <1>2

-----------------------------------------------------------------------------
LEMMA PollStep == TlenAssumption /\ PollInv /\ [TlenNext]_tlenVars => PollInv'
<1> SUFFICES ASSUME TlenAssumption, PollInv, [TlenNext]_tlenVars PROVE PollInv'
  OBVIOUS
<1>1. CASE \/ \E m \in Moods \cup {"offline"} : ChangeStatus(m)
           \/ AskDescription \/ UpdateConfig
           \/ \E m \in dialogs : AnswerDescription(m)
  BY <1>1, UserStep
<1>2. ASSUME NEW src \in sources, Dispatch(src) PROVE PollInv'
  BY <1>2, DispatchStep
<1>3. ASSUME NEW src \in sources, NEW failure \in Failed, DispatchFailure(src, failure) PROVE PollInv'
  BY <1>3, FailureStep
<1>4. CASE Warned \/ Leaves
  BY <1>4, RemovedStep
<1>5. CASE Fails
  BY <1>5, FailsStep
<1>6. CASE Authorized \/ EndOfRoster \/ Message
  BY <1>6, FetchStep
<1>7. CASE Returns
  BY <1>7, ReturnsStep
<1>8. CASE UNCHANGED tlenVars
  <2>1. UNCHANGED <<stage, events, polled, disturbed, calls, configured>>
    BY <1>8 DEF tlenVars, polled
  <2> QED
    BY <2>1, Untouched
<1> QED
  BY <1>1, <1>2, <1>3, <1>4, <1>5, <1>6, <1>7, <1>8 DEF TlenNext

LEMMA PollBegins == TlenInit => PollInv
<1> SUFFICES ASSUME TlenInit PROVE PollInv
  OBVIOUS
<1>1. /\ stage = "none" /\ events = <<>> /\ sources = {} /\ own = {} /\ tag = 0 /\ calls = <<>>
      /\ configured \in BOOLEAN /\ disturbed = FALSE
  BY DEF TlenInit
<1>2. Types /\ Unconfigured
  <2>1. events \in Seq(News) /\ calls \in Seq(TestCall)
    BY <1>1
  <2>2. disturbed \in BOOLEAN /\ configured \in BOOLEAN
    BY <1>1
  <2>3. Types
    BY <1>1, <2>1, <2>2 DEF Types, Stages
  <2> QED
    BY <1>1, <2>3 DEF Unconfigured
<1>3. TagKept /\ Polled /\ EventsFit
  BY <1>1, InEmpty DEF TagKept, Polled, Waits, EventsFit, Failed
<1>4. Calm
  BY <1>1 DEF Calm
<1> QED
  BY <1>2, <1>3, <1>4 DEF PollInv

(* A Tlen session that waits is polled between callbacks, by the source    *)
(* the tag names and no other, however the calls of test_chan, the changes *)
(* of status and the failures nest (updatewatch and test_chan).            *)
THEOREM PolledCorrect == TlenSpec => []SessionPolled
<1>1. ASSUME PollInv PROVE SessionPolled
  <2>1. own \subseteq sources /\ (Waits => own # {})
    BY <1>1 DEF PollInv, Types, Polled
  <2>2. ~disturbed => sources \subseteq {tag}
    BY <1>1 DEF PollInv, Calm
  <2> QED
    BY <2>1, <2>2 DEF SessionPolled
<1> QED
  BY <1>1, PollBegins, PollStep, TlenAssumption, PTL DEF TlenSpec
-----------------------------------------------------------------------------
(***************************************************************************)
(* The status.  While nobody logs in under a warning, who is connected is  *)
(* authorized, and the other way round; until the answer to the roster     *)
(* request the status to come is the one of the login.                     *)
(***************************************************************************)
MoodInv ==
    /\ connected \in BOOLEAN /\ excused \in BOOLEAN
    /\ stage = "login" => ~connected
    /\ ~disturbed /\ stage \in {"authorized", "listed"} => connected
    /\ ~disturbed /\ ~excused /\ stage \in {"login", "authorized"} => loginMood = asked
    /\ ~disturbed /\ ~excused /\ stage = "listed" => mood = asked

LEMMA MoodOfUser ==
    ASSUME PollInv, MoodInv, TlenAssumption,
           \/ \E m \in Moods \cup {"offline"} : ChangeStatus(m)
           \/ AskDescription \/ UpdateConfig
           \/ \E m \in dialogs : AnswerDescription(m)
    PROVE  MoodInv'
<1>1. ASSUME NEW m, Login(m), ~connected, asked' = m, excused' \in BOOLEAN PROVE MoodInv'
  <2>1. /\ connected' = connected
        /\ \/ stage' = "login" /\ loginMood' = m
           \/ stage' = "fresh"
    BY <1>1 DEF Login
  <2> QED
    BY <1>1, <2>1 DEF MoodInv
<1>2. ASSUME NEW m \in Moods \cup {"offline"}, ChangeStatus(m) PROVE MoodInv'
  <2>1. excused' \in BOOLEAN /\ asked' = m
    BY <1>2 DEF ChangeStatus
  <2>2. CASE connected /\ m = "offline"
    BY <1>2, <2>1, <2>2 DEF ChangeStatus, GoesOffline, Freed, MoodInv
  <2>3. CASE connected /\ m # "offline"
    <3>1. mood' = m /\ UNCHANGED <<stage, connected, loginMood, disturbed>>
      BY <1>2, <2>3 DEF ChangeStatus, SetsMood
    <3>2. stage = "authorized" /\ m # loginMood => excused'
      BY <1>2, <2>3 DEF ChangeStatus
    <3> QED
      BY <2>1, <2>3, <3>1, <3>2 DEF MoodInv
  <2>4. CASE ~connected /\ m = "offline"
    <3>1. UNCHANGED <<stage, mood, connected, loginMood, disturbed>>
      BY <1>2, <2>4 DEF ChangeStatus, NothingDone, theSession
    <3>2. stage = "login" => excused'
      BY <1>2, <2>4 DEF ChangeStatus
    <3> QED
      BY <2>1, <2>4, <3>1, <3>2 DEF MoodInv
  <2>5. CASE ~connected /\ m # "offline"
    BY <1>1, <1>2, <2>1, <2>5 DEF ChangeStatus
  <2> QED
    BY <2>2, <2>3, <2>4, <2>5 DEF MoodInv
<1>3. ASSUME NEW m \in dialogs, AnswerDescription(m) PROVE MoodInv'
  <2>1. CASE connected
    <3>1. /\ mood' = m /\ excused' = (excused \/ m # asked)
          /\ UNCHANGED <<stage, connected, loginMood, disturbed, asked>>
      BY <1>3, <2>1 DEF AnswerDescription, SetsMood
    <3> QED
      BY <3>1 DEF MoodInv
  <2>2. CASE ~connected
    BY <1>1, <1>3, <2>2 DEF AnswerDescription
  <2> QED
    BY <2>1, <2>2
<1>4. ASSUME AskDescription \/ UpdateConfig PROVE MoodInv'
  BY <1>4 DEF AskDescription, UpdateConfig, theSession, MoodInv
<1> QED
  BY <1>2, <1>3, <1>4

(* An event that changes the stage is the first one of its kind.           *)
LEMMA StageOfEvent ==
    ASSUME PollInv, events # <<>>
    PROVE  /\ Head(events) = "authorized" => stage = "login"
           /\ Head(events) = "end of roster" => stage = "authorized"
<1>1. events \in Seq(News) /\ stage \in Stages
  BY DEF PollInv, Types
<1>2. Head(events) \in In(events)
  BY <1>1, Popped
<1>3. Head(<<"authorized">>) = "authorized"
  BY Batches
<1> QED
  BY <1>1, <1>2, <1>3 DEF PollInv, EventsFit, Stages, Failed

LEMMA MoodOfEvent ==
    ASSUME PollInv, MoodInv, Authorized \/ EndOfRoster \/ Message
    PROVE  MoodInv'
<1>1. events # <<>>
  BY DEF Authorized, EndOfRoster, Message, Fetches
<1>2. CASE Authorized
  <2>1. stage = "login"
    BY <1>1, <1>2, StageOfEvent DEF Authorized, Fetches
  <2> QED
    BY <1>2, <2>1 DEF Authorized, wishes, MoodInv
<1>3. CASE EndOfRoster
  <2>1. stage = "authorized"
    BY <1>1, <1>3, StageOfEvent DEF EndOfRoster, Fetches
  <2> QED
    BY <1>3, <2>1 DEF EndOfRoster, wishes, MoodInv
<1>4. CASE Message
  BY <1>4 DEF Message, wishes, MoodInv
<1> QED
  BY <1>2, <1>3, <1>4

(* After the warning nothing waits, if nobody logged in meanwhile.         *)
LEMMA MoodOfWarning ==
    ASSUME PollInv, MoodInv, Warned
    PROVE  MoodInv'
<1>1. /\ connected' = FALSE /\ calls # <<>> /\ Top.op = "warns"
      /\ UNCHANGED <<stage, mood, loginMood, asked, excused, disturbed>>
  BY DEF Warned, theSession, wishes
<1>2. ASSUME ~disturbed, Waits PROVE FALSE
  <2>1. PICK w \in own : \A c \in In(calls) : Removes(c) => c.src # w
    BY <1>2 DEF PollInv, Polled
  <2>2. w \in {Top.src}
    BY <1>1, <1>2, <2>1 DEF PollInv, Types, Calm
  <2>3. Top \in In(calls)
    BY <1>1, Popped DEF PollInv, Types, Top
  <2> QED
    BY <1>1, <2>1, <2>2, <2>3 DEF Removes
<1> QED
  BY <1>1, <1>2 DEF MoodInv, Waits

LEMMA MoodStep == TlenAssumption /\ PollInv /\ MoodInv /\ [TlenNext]_tlenVars => MoodInv'
<1> SUFFICES ASSUME TlenAssumption, PollInv, MoodInv, [TlenNext]_tlenVars PROVE MoodInv'
  OBVIOUS
<1>1. CASE \/ \E m \in Moods \cup {"offline"} : ChangeStatus(m)
           \/ AskDescription \/ UpdateConfig
           \/ \E m \in dialogs : AnswerDescription(m)
  BY <1>1, MoodOfUser
<1>2. CASE UNCHANGED <<stage, mood, connected, loginMood, asked, excused, disturbed>>
  BY <1>2 DEF MoodInv
<1>3. CASE UsesNull
  BY <1>2, <1>3 DEF UsesNull, theSession, wishes
<1>4. ASSUME NEW src \in sources, Dispatch(src) PROVE MoodInv'
  BY <1>2, <1>3, <1>4 DEF Dispatch, wishes
<1>5. ASSUME NEW src \in sources, NEW failure \in Failed, DispatchFailure(src, failure) PROVE MoodInv'
  BY <1>5 DEF DispatchFailure, Failed, wishes, MoodInv
<1>6. CASE Warned
  BY <1>6, MoodOfWarning
<1>7. CASE Fails
  BY <1>3, <1>7 DEF Fails, Freed, wishes, MoodInv
<1>8. CASE Leaves
  BY <1>2, <1>8 DEF Leaves, theSession, wishes
<1>9. CASE Authorized \/ EndOfRoster \/ Message
  BY <1>9, MoodOfEvent
<1>10. CASE Returns
  BY <1>2, <1>3, <1>10 DEF Returns, theSession, wishes
<1>11. CASE UNCHANGED tlenVars
  BY <1>2, <1>11 DEF tlenVars
<1> QED
  BY <1>1, <1>4, <1>5, <1>6, <1>7, <1>8, <1>9, <1>10, <1>11 DEF TlenNext

(* The status of a session that is logged in is the one the user asked for *)
(* last, however the changes of status, the answers of the server and the  *)
(* failures nest (ggadu_tlen_login, test_chan, "change status").           *)
THEOREM MoodCorrect == TlenSpec => []MoodAsAsked
<1>1. TlenInit => MoodInv
  BY DEF TlenInit, MoodInv
<1>2. MoodInv => MoodAsAsked
  BY DEF MoodInv, MoodAsAsked
<1> QED
  BY <1>1, <1>2, PollBegins, PollStep, MoodStep, TlenAssumption, PTL DEF TlenSpec

(***************************************************************************)
(* Auto-away.                                                              *)
(***************************************************************************)

AwayTypes ==
    /\ is \in [Protos -> States] /\ chosen \in [Protos -> States] /\ restored \in SUBSET Protos
    /\ walk \in [mode : {"none", "leaving", "back"}, at : DOMAIN Accounts, seen : States \cup {NotAsked, "set"}]

(* It asks and sets as long as the protocol is remembered or not.          *)
OnTheWay ==
    walk.seen # NotAsked => walk.mode # "none" /\ (Here \in aaway <=> walk.mode = "back")

(* Between setting a status and remembering it.                            *)
Halfway(p) == walk.seen = "set" /\ Here = p

FirstOnline(p) == Head(OnlineStatus[p])
FirstAway(p)   == Head(AwayStatus[p])

(* What was chosen, or what it is brought back as.                         *)
Upheld(p) ==
    \/ is[p] \in {chosen[p], "offline"}
    \/ chosen[p] \in Online(p) /\ is[p] = FirstOnline(p) /\ p \in restored

(* What it remembers of a protocol, or was told, is still so.              *)
Relied(p) ==
    /\ p \in aaway => chosen[p] \in Online(p) /\ (is[p] = FirstAway(p) \/ Halfway(p))
    /\ p \notin aaway => Upheld(p) \/ Halfway(p)
    /\ Here = p /\ walk.seen \in States => is[p] = walk.seen
    /\ Halfway(p) =>
          /\ chosen[p] \in Online(p)
          /\ IF walk.mode = "leaving" THEN is[p] = FirstAway(p)
             ELSE is[p] = FirstOnline(p) /\ p \in restored

AwayInv == AwayTypes /\ OnTheWay /\ \A p \in Protos \ lapsed : Relied(p)

LEMMA HereIsOne == ASSUME AwayTypes PROVE Here \in Protos
  BY AwayAssumption DEF AwayTypes, Here, Protos, ToSet

LEMMA Statuses ==
    /\ NotAsked \notin States /\ "set" \notin States /\ NotAsked # "set"
    /\ \A p \in Protos : /\ "offline" \in States /\ "offline" \notin Online(p)
                         /\ StatusList[p] \subseteq States
                         /\ Online(p) \subseteq States
                         /\ FirstOnline(p) \in Online(p) /\ FirstAway(p) \in States
<1>1. /\ NotAsked \notin States /\ "set" \notin States /\ NotAsked # "set"
      /\ \A p \in Protos : "offline" \in States /\ StatusList[p] \subseteq States
  BY AwayAssumption DEF States, NotAsked
<1>2. ASSUME NEW p \in Protos
      PROVE  /\ Online(p) \subseteq States /\ "offline" \notin Online(p)
             /\ FirstOnline(p) \in Online(p) /\ FirstAway(p) \in States
  <2>1. /\ OnlineStatus[p] \in Seq(StatusList[p] \ {"offline"}) /\ OnlineStatus[p] # <<>>
        /\ AwayStatus[p] \in Seq(StatusList[p]) /\ AwayStatus[p] # <<>>
    BY AwayAssumption
  <2>2. Online(p) \subseteq StatusList[p] \ {"offline"}
    BY <2>1, ElementOfSeq DEF Online, ToSet
  <2>3. FirstOnline(p) = OnlineStatus[p][1] /\ 1 \in DOMAIN OnlineStatus[p]
    BY <2>1 DEF FirstOnline
  <2>4. FirstAway(p) \in StatusList[p]
    BY <2>1 DEF FirstAway
  <2> QED
    BY <1>1, <2>2, <2>3, <2>4 DEF Online, ToSet
<1> QED
  BY <1>1, <1>2

(* The walk goes to the next plugin, or ends.                              *)
LEMMA GoesOnward ==
    ASSUME AwayTypes, Onward
    PROVE  /\ walk'.seen = NotAsked
           /\ walk' \in [mode : {"none", "leaving", "back"}, at : DOMAIN Accounts,
                        seen : States \cup {NotAsked, "set"}]
<1>1. CASE walk.at = Len(Accounts)
  <2>1. 1 \in DOMAIN Accounts
    BY AwayAssumption
  <2> QED
    BY <1>1, <2>1 DEF Onward, Resting
<1>2. CASE walk.at # Len(Accounts)
  <2>1. walk.at + 1 \in DOMAIN Accounts
    BY <1>2, AwayAssumption DEF AwayTypes
  <2> QED
    BY <1>2, <2>1 DEF Onward, AwayTypes
<1> QED
  BY <1>1, <1>2

LEMMA AwayBegins == ASSUME AwayInit PROVE AwayInv
<1>1. AwayTypes
  <2>1. 1 \in DOMAIN Accounts
    BY AwayAssumption
  <2> QED
    BY <2>1, Statuses DEF AwayTypes, AwayInit, Resting
<1>2. walk.seen = NotAsked /\ aaway = {} /\ chosen = is
  BY DEF AwayInit, Resting
<1>3. \A p \in Protos : Relied(p)
  BY <1>2, Statuses DEF Relied, Upheld, Halfway
<1> QED
  BY <1>1, <1>2, <1>3 DEF AwayInv, OnTheWay

(* The user or the connection changes the status of one protocol.          *)
LEMMA ChangeRelied ==
    ASSUME AwayInv, NEW p \in Protos, NEW s \in States, is' = [is EXCEPT ![p] = s],
           \/ chosen' = [chosen EXCEPT ![p] = s] /\ restored' = restored \ {p} /\ lapsed' = IF Relies(p) THEN lapsed \cup {p} ELSE lapsed \ {p}
           \/ chosen' = chosen /\ s = "offline" /\ restored' = restored /\ lapsed' = IF Relies(p) THEN lapsed \cup {p} ELSE lapsed,
           UNCHANGED <<aaway, walk>>
    PROVE  AwayInv'
<1>1. AwayTypes'
  BY DEF AwayInv, AwayTypes
<1>2. OnTheWay'
  BY DEF AwayInv, OnTheWay, Here
<1>3. ASSUME NEW q \in Protos \ lapsed' PROVE Relied(q)'
  <2>1. CASE q # p
    <3>1. /\ q \in Protos \ lapsed /\ is'[q] = is[q] /\ chosen'[q] = chosen[q]
          /\ q \in restored' <=> q \in restored
      BY <1>3, <2>1 DEF AwayInv, AwayTypes
    <3> QED
      BY <3>1 DEF AwayInv, Relied, Upheld, Halfway, Here
  <2>2. CASE q = p
    <3>1. ~Relies(p)
      BY <1>3, <2>2
    <3>2. p \notin aaway /\ ~(walk.seen # NotAsked /\ Here = p)
      BY <3>1 DEF Relies
    <3>3. is'[p] = s /\ (chosen'[p] = s \/ s = "offline")
      BY DEF AwayInv, AwayTypes
    <3> QED
      BY <2>2, <3>2, <3>3, Statuses DEF Relied, Upheld, Halfway, Here
  <2> QED
    BY <2>1, <2>2
<1> QED
  BY <1>1, <1>2, <1>3 DEF AwayInv

LEMMA AsksRelied ==
    ASSUME AwayInv, AsksStatus
    PROVE  AwayInv'
<1>1. /\ walk.mode # "none" /\ walk.seen = NotAsked
      /\ UNCHANGED <<is, aaway, chosen, restored, lapsed>>
  BY DEF AsksStatus
<1>2. CASE Concerned /\ walk' = [walk EXCEPT !.seen = is[Here]]
  <2>1. is[Here] \in States
    BY HereIsOne DEF AwayInv, AwayTypes
  <2>2. walk'.seen = is[Here] /\ walk'.mode = walk.mode /\ walk'.at = walk.at
    BY <1>2 DEF AwayInv, AwayTypes
  <2>3. AwayTypes'
    BY <1>1, <1>2, <2>1 DEF AwayInv, AwayTypes
  <2>4. OnTheWay'
    BY <1>1, <1>2, <2>2 DEF OnTheWay, Concerned, Here
  <2>5. ASSUME NEW p \in Protos \ lapsed PROVE Relied(p)'
    BY <1>1, <2>1, <2>2, Statuses DEF AwayInv, Relied, Upheld, Halfway, Here
  <2> QED
    BY <1>1, <2>3, <2>4, <2>5 DEF AwayInv
<1>3. CASE Onward
  <2>1. AwayTypes' /\ walk'.seen = NotAsked
    BY <1>1, <1>3, GoesOnward DEF AwayInv, AwayTypes
  <2>2. \A p \in Protos \ lapsed : Relied(p)'
    BY <1>1, <2>1, Statuses DEF AwayInv, Relied, Upheld, Halfway, Here
  <2> QED
    BY <1>1, <2>1, <2>2 DEF AwayInv, OnTheWay
<1> QED
  BY <1>2, <1>3 DEF AsksStatus

LEMMA SetsRelied ==
    ASSUME AwayInv, Sets
    PROVE  AwayInv'
<1>1. /\ walk.seen \notin {NotAsked, "set"} /\ walk.seen \in States
      /\ walk.mode \in {"leaving", "back"} /\ (Here \in aaway <=> walk.mode = "back")
      /\ UNCHANGED <<aaway, chosen, lapsed>>
  BY DEF Sets, AwayInv, AwayTypes, OnTheWay
<1>2. CASE /\ walk.seen \in Changes(Here) /\ is' = [is EXCEPT ![Here] = NewState(Here)]
           /\ restored' = IF walk.mode = "back" THEN restored \cup {Here} ELSE restored
           /\ walk' = [walk EXCEPT !.seen = "set"]
  <2>1. Here \in Protos /\ Here' = Here
    BY <1>2, HereIsOne DEF AwayInv, AwayTypes, Here
  <2>2. walk'.seen = "set" /\ walk'.mode = walk.mode
    BY <1>2 DEF AwayInv, AwayTypes
  <2>6. NewState(Here) = IF walk.mode = "leaving" THEN FirstAway(Here) ELSE FirstOnline(Here)
    BY DEF NewState, FirstAway, FirstOnline
  <2>3. AwayTypes'
    BY <1>1, <1>2, <2>1, <2>6, Statuses DEF AwayInv, AwayTypes
  <2>4. OnTheWay'
    BY <1>1, <2>1, <2>2 DEF OnTheWay
  <2>5. ASSUME NEW p \in Protos \ lapsed PROVE Relied(p)'
    <3>1. CASE p # Here
      <4>1. is'[p] = is[p] /\ (p \in restored' <=> p \in restored)
        BY <1>2, <2>1, <3>1 DEF AwayInv, AwayTypes
      <4> QED
        BY <1>1, <2>1, <2>2, <3>1, <4>1, <2>5 DEF AwayInv, Relied, Upheld, Halfway
    <3>2. CASE p = Here
      <4>1. /\ is'[p] = IF walk.mode = "leaving" THEN FirstAway(p) ELSE FirstOnline(p)
            /\ walk.mode = "back" => p \in restored'
        BY <1>2, <2>1, <2>6, <3>2 DEF AwayInv, AwayTypes
      <4>2. Relied(p) /\ is[p] = walk.seen
        BY <1>1, <2>5, <3>2 DEF AwayInv, Relied
      <4>3. chosen[p] \in Online(p)
        <5>1. CASE walk.mode = "leaving"
          <6>1. is[p] \in Online(p) /\ is[p] # "offline"
            BY <1>2, <2>1, <3>2, <4>2, <5>1, Statuses DEF Changes, Online
          <6> QED
            BY <1>1, <3>2, <4>2, <5>1, <6>1 DEF Relied, Upheld, Halfway
        <5>2. CASE walk.mode = "back"
          BY <1>1, <3>2, <4>2, <5>2 DEF Relied
        <5> QED
          BY <1>1, <5>1, <5>2
      <4> QED
        BY <1>1, <2>1, <2>2, <3>2, <4>1, <4>3, Statuses DEF Relied, Halfway
    <3> QED
      BY <3>1, <3>2
  <2> QED
    BY <1>1, <2>3, <2>4, <2>5 DEF AwayInv
<1>3. CASE Onward /\ UNCHANGED <<is, restored>>
  <2>1. AwayTypes' /\ walk'.seen = NotAsked
    BY <1>1, <1>3, GoesOnward DEF AwayInv, AwayTypes
  <2>2. \A p \in Protos \ lapsed : Relied(p)'
    BY <1>1, <1>3, <2>1, Statuses DEF AwayInv, Relied, Upheld, Halfway, Here
  <2> QED
    BY <1>1, <2>1, <2>2 DEF AwayInv, OnTheWay
<1> QED
  BY <1>2, <1>3 DEF Sets

LEMMA RemembersRelied ==
    ASSUME AwayInv, Remembers
    PROVE  AwayInv'
<1>1. /\ walk.seen = "set" /\ walk.mode \in {"leaving", "back"} /\ Onward
      /\ aaway' = IF walk.mode = "leaving" THEN aaway \cup {Here} ELSE aaway \ {Here}
      /\ UNCHANGED <<is, chosen, restored, lapsed>>
  BY DEF Remembers, AwayInv, AwayTypes, OnTheWay, NotAsked
<1>2. AwayTypes' /\ walk'.seen = NotAsked
  BY <1>1, GoesOnward DEF AwayInv, AwayTypes
<1>3. ASSUME NEW p \in Protos \ lapsed PROVE Relied(p)'
  <2>1. Relied(p)
    BY <1>3 DEF AwayInv
  <2>2. walk'.seen \notin States /\ ~Halfway(p)'
    BY <1>2, Statuses DEF Halfway
  <2> QED
    BY <1>1, <2>1, <2>2 DEF Relied, Upheld, Halfway
<1> QED
  BY <1>1, <1>2, <1>3 DEF AwayInv, OnTheWay

LEMMA TickRelied ==
    ASSUME AwayInv, Tick
    PROVE  AwayInv'
<1>1. /\ walk.seen = NotAsked /\ walk'.seen = NotAsked
      /\ walk' \in [mode : {"none", "leaving", "back"}, at : DOMAIN Accounts,
                   seen : States \cup {NotAsked, "set"}]
      /\ UNCHANGED <<is, aaway, chosen, restored, lapsed>>
  BY DEF Tick, Resting, AwayInv, AwayTypes
<1>2. \A p \in Protos \ lapsed : Relied(p)'
  BY <1>1, Statuses DEF AwayInv, Relied, Upheld, Halfway, Here
<1> QED
  BY <1>1, <1>2 DEF AwayInv, AwayTypes, OnTheWay

LEMMA AwayStep == AwayInv /\ [AwayNext]_awayVars => AwayInv'
<1> SUFFICES ASSUME AwayInv, [AwayNext]_awayVars PROVE AwayInv'
  OBVIOUS
<1>1. ASSUME NEW p \in Protos, Breaks(p) PROVE AwayInv'
  BY <1>1, ChangeRelied, Statuses DEF Breaks
<1>2. ASSUME NEW p \in Protos, NEW s \in StatusList[p], Chooses(p, s) PROVE AwayInv'
  BY <1>2, ChangeRelied, Statuses DEF Chooses
<1>3. ASSUME UNCHANGED <<is, aaway, walk, chosen, restored, lapsed>> PROVE AwayInv'
  BY <1>3 DEF AwayInv, AwayTypes, OnTheWay, Relied, Upheld, Halfway, Here
<1> QED
  BY <1>1, <1>2, <1>3, TickRelied, AsksRelied, SetsRelied, RemembersRelied
  DEF AwayNext, IdleGrows, Moves, UpdateAwayConfig, awayVars

(* What auto-away does never takes the place of what the user chose, for   *)
(* any protocols with any lists of statuses, except that it brings back    *)
(* the first status of the online list, and where it was told or remembers *)
(* what has changed (check_idle_time).                                     *)
THEOREM ChoiceCorrect == AwaySpec => []ChoiceKept
<1>1. AwayInit => AwayInv
  BY AwayBegins
<1>2. AwayInv /\ [AwayNext]_awayVars => AwayInv'
  BY AwayStep
<1>3. AwayInv => ChoiceKept
  <2> SUFFICES ASSUME AwayInv, NEW p \in Protos \ lapsed
               PROVE  \/ is[p] \in {chosen[p], "offline"}
                      \/ /\ chosen[p] \in Online(p)
                         /\ \/ /\ is[p] = Head(AwayStatus[p])
                               /\ p \in aaway \/ (walk.seen = "set" /\ Here = p)
                            \/ is[p] = Head(OnlineStatus[p]) /\ p \in restored
    BY DEF ChoiceKept
  <2> QED
    BY DEF AwayInv, Relied, Upheld, Halfway, FirstAway, FirstOnline
<1> QED
  BY <1>1, <1>2, <1>3, PTL DEF AwaySpec

(***************************************************************************)
(* The contacts of Jabber.                                                 *)
(***************************************************************************)
LEMMA Concatenated ==
    ASSUME NEW S, NEW s \in Seq(S), NEW t \in Seq(S)
    PROVE  /\ s \o t \in Seq(S) /\ Len(s) \in Nat /\ Len(t) \in Nat
           /\ DOMAIN s = 1..Len(s) /\ DOMAIN t = 1..Len(t)
           /\ DOMAIN (s \o t) = 1..(Len(s) + Len(t))
           /\ Len(s \o t) = Len(s) + Len(t)
           /\ \A i \in 1..Len(s) : (s \o t)[i] = s[i]
           /\ \A i \in 1..Len(t) : (s \o t)[Len(s) + i] = t[i]
<1>1. /\ s \o t \in Seq(S) /\ Len(s \o t) = Len(s) + Len(t) /\ Len(s) \in Nat /\ Len(t) \in Nat
      /\ DOMAIN s = 1..Len(s) /\ DOMAIN t = 1..Len(t)
  BY ConcatProperties, LenProperties
<1>2. DOMAIN (s \o t) = 1..(Len(s) + Len(t))
  BY <1>1, LenProperties
<1>3. \A i \in 1..Len(s) : (s \o t)[i] = s[i]
  BY <1>1
<1>4. \A i \in 1..Len(t) : (s \o t)[Len(s) + i] = t[i]
  BY <1>1
<1> QED
  BY <1>1, <1>2, <1>3, <1>4

(* The places of what has an id move, in their order.                      *)
LEMMA Renumbered ==
    ASSUME NEW entries, NEW s, NEW t, NEW id, Matched(entries, s, id),
           NEW h \in [Places(s, id) -> Places(t, id)],
           \A i, j \in Places(s, id) : i < j => h[i] < h[j],
           \A k \in Places(t, id) : \E i \in Places(s, id) : h[i] = k,
           \A i \in Places(s, id) : s[i].who = t[h[i]].who
    PROVE  Matched(entries, t, id)
<1>1. PICK at \in [Places(entries, id) -> Places(s, id)] :
        /\ \A i, j \in DOMAIN at : i < j => at[i] < at[j]
        /\ \A k \in Places(s, id) : \E i \in DOMAIN at : at[i] = k
        /\ \A i \in DOMAIN at : entries[i].data = s[at[i]].who
  BY DEF Matched
<1>2. PICK new : new = [i \in Places(entries, id) |-> h[at[i]]]
  OBVIOUS
<1>3. new \in [Places(entries, id) -> Places(t, id)]
  BY <1>2
<1>4. \A i, j \in DOMAIN new : i < j => new[i] < new[j]
  BY <1>1, <1>2
<1>5. \A k \in Places(t, id) : \E i \in DOMAIN new : new[i] = k
  BY <1>1, <1>2
<1>6. \A i \in DOMAIN new : entries[i].data = t[new[i]].who
  BY <1>1, <1>2
<1> QED
  BY <1>3, <1>4, <1>5, <1>6 DEF Matched

(* b in the middle makes way for c, and neither has an id.                 *)
Parts(a, b, c) == a \o b \o c

LEMMA PartsAre ==
    ASSUME NEW S, NEW a \in Seq(S), NEW b \in Seq(S), NEW c \in Seq(S)
    PROVE  /\ Parts(a, b, c) \in Seq(S)
           /\ Len(a) \in Nat /\ Len(b) \in Nat /\ Len(c) \in Nat
           /\ DOMAIN a = 1..Len(a) /\ DOMAIN b = 1..Len(b) /\ DOMAIN c = 1..Len(c)
           /\ DOMAIN Parts(a, b, c) = 1..(Len(a) + Len(b) + Len(c))
           /\ \A i \in 1..Len(a) : Parts(a, b, c)[i] = a[i]
           /\ \A i \in 1..Len(b) : Parts(a, b, c)[Len(a) + i] = b[i]
           /\ \A i \in 1..Len(c) : Parts(a, b, c)[Len(a) + Len(b) + i] = c[i]
<1>1. PICK ab : ab = a \o b
  OBVIOUS
<1>2. /\ ab \in Seq(S) /\ Len(a) \in Nat /\ Len(b) \in Nat
      /\ DOMAIN a = 1..Len(a) /\ DOMAIN b = 1..Len(b)
      /\ Len(ab) = Len(a) + Len(b)
      /\ \A i \in 1..Len(a) : ab[i] = a[i]
      /\ \A i \in 1..Len(b) : ab[Len(a) + i] = b[i]
  BY <1>1, Concatenated
<1>3. PICK abc : abc = ab \o c
  OBVIOUS
<1>4. /\ abc \in Seq(S) /\ Len(c) \in Nat /\ DOMAIN c = 1..Len(c)
      /\ DOMAIN abc = 1..(Len(ab) + Len(c))
      /\ \A i \in 1..Len(ab) : abc[i] = ab[i]
      /\ \A i \in 1..Len(c) : abc[Len(ab) + i] = c[i]
  <2>1. ab \in Seq(S)
    BY <1>2
  <2>2. /\ abc \in Seq(S) /\ Len(c) \in Nat /\ DOMAIN c = 1..Len(c)
        /\ DOMAIN abc = 1..(Len(ab) + Len(c))
    BY <1>3, <2>1, Concatenated
  <2>3. /\ \A i \in 1..Len(ab) : abc[i] = ab[i]
        /\ \A i \in 1..Len(c) : abc[Len(ab) + i] = c[i]
    BY <1>3, <2>1, Concatenated
  <2> QED
    BY <2>2, <2>3
<1>5. Parts(a, b, c) = abc
  BY <1>1, <1>3 DEF Parts
<1>6. \A i \in 1..Len(a) : abc[i] = a[i]
  BY <1>2, <1>4
<1>7. \A i \in 1..Len(b) : abc[Len(a) + i] = b[i]
  BY <1>2, <1>4
<1>8. \A i \in 1..Len(c) : abc[Len(a) + Len(b) + i] = c[i]
  BY <1>2, <1>4
<1> QED
  BY <1>2, <1>4, <1>5, <1>6, <1>7, <1>8

LEMMA PlacesOfParts ==
    ASSUME NEW S, NEW a \in Seq(S), NEW b \in Seq(S), NEW c \in Seq(S), NEW id
    PROVE  Places(Parts(a, b, c), id) =
              Places(a, id) \cup {Len(a) + i : i \in Places(b, id)}
                            \cup {Len(a) + Len(b) + i : i \in Places(c, id)}
<1>1. PICK s : s = Parts(a, b, c)
  OBVIOUS
<1>2. /\ Len(a) \in Nat /\ Len(b) \in Nat /\ Len(c) \in Nat
      /\ DOMAIN a = 1..Len(a) /\ DOMAIN b = 1..Len(b) /\ DOMAIN c = 1..Len(c)
      /\ DOMAIN s = 1..(Len(a) + Len(b) + Len(c))
      /\ \A i \in 1..Len(a) : s[i] = a[i]
      /\ \A i \in 1..Len(b) : s[Len(a) + i] = b[i]
      /\ \A i \in 1..Len(c) : s[Len(a) + Len(b) + i] = c[i]
  <2>1. /\ Len(a) \in Nat /\ Len(b) \in Nat /\ Len(c) \in Nat
        /\ DOMAIN a = 1..Len(a) /\ DOMAIN b = 1..Len(b) /\ DOMAIN c = 1..Len(c)
        /\ DOMAIN s = 1..(Len(a) + Len(b) + Len(c))
    BY <1>1, PartsAre
  <2>4. \A i \in 1..Len(a) : Parts(a, b, c)[i] = a[i]
    BY PartsAre
  <2>5. \A i \in 1..Len(b) : Parts(a, b, c)[Len(a) + i] = b[i]
    BY PartsAre
  <2>6. \A i \in 1..Len(c) : Parts(a, b, c)[Len(a) + Len(b) + i] = c[i]
    BY PartsAre
  <2>2. /\ \A i \in 1..Len(a) : s[i] = a[i]
        /\ \A i \in 1..Len(b) : s[Len(a) + i] = b[i]
    BY <1>1, <2>4, <2>5
  <2>3. \A i \in 1..Len(c) : s[Len(a) + Len(b) + i] = c[i]
    BY <1>1, <2>6
  <2> QED
    BY <2>1, <2>2, <2>3
<1>3. ASSUME NEW k \in Places(s, id)
      PROVE  \/ k \in Places(a, id) \/ \E i \in Places(b, id) : k = Len(a) + i
             \/ \E i \in Places(c, id) : k = Len(a) + Len(b) + i
  <2>1. k \in 1..(Len(a) + Len(b) + Len(c)) /\ s[k].id = id
    BY <1>2 DEF Places
  <2>2. CASE k <= Len(a)
    BY <1>2, <2>1, <2>2 DEF Places
  <2>3. CASE k > Len(a) /\ k <= Len(a) + Len(b)
    <3>1. k - Len(a) \in 1..Len(b) /\ k = Len(a) + (k - Len(a))
      BY <1>2, <2>1, <2>3
    <3> QED
      BY <1>2, <2>1, <3>1 DEF Places
  <2>4. CASE k > Len(a) + Len(b)
    <3>1. k - Len(a) - Len(b) \in 1..Len(c) /\ k = Len(a) + Len(b) + (k - Len(a) - Len(b))
      BY <1>2, <2>1, <2>4
    <3> QED
      BY <1>2, <2>1, <3>1 DEF Places
  <2> QED
    BY <1>2, <2>1, <2>2, <2>3, <2>4
<1>4. ASSUME NEW i \in Places(a, id)
      PROVE  i \in Places(s, id)
  BY <1>2 DEF Places
<1>5. ASSUME NEW i \in Places(b, id)
      PROVE  Len(a) + i \in Places(s, id)
  BY <1>2 DEF Places
<1>6. ASSUME NEW i \in Places(c, id)
      PROVE  Len(a) + Len(b) + i \in Places(s, id)
  BY <1>2 DEF Places
<1> QED
  BY <1>1, <1>3, <1>4, <1>5, <1>6

(* b makes way for d, and what has the id in b corresponds to what has it  *)
(* in d.                                                                   *)
LEMMA Swapped ==
    ASSUME NEW S, NEW a \in Seq(S), NEW b \in Seq(S), NEW c \in Seq(S), NEW d \in Seq(S), NEW id,
           NEW entries, Matched(entries, Parts(a, b, c), id),
           NEW one \in [Places(b, id) -> Places(d, id)],
           \A i, j \in Places(b, id) : i < j => one[i] < one[j],
           \A k \in Places(d, id) : \E i \in Places(b, id) : one[i] = k,
           \A i \in Places(b, id) : b[i].who = d[one[i]].who
    PROVE  Matched(entries, Parts(a, d, c), id)
<1>s. PICK s : s = Parts(a, b, c)
  OBVIOUS
<1>t. PICK t : t = Parts(a, d, c)
  OBVIOUS
<1>1. /\ Len(a) \in Nat /\ Len(b) \in Nat /\ Len(c) \in Nat /\ Len(d) \in Nat
      /\ DOMAIN a = 1..Len(a) /\ DOMAIN b = 1..Len(b) /\ DOMAIN c = 1..Len(c) /\ DOMAIN d = 1..Len(d)
  BY LenProperties
<1>2. /\ Places(s, id) = Places(a, id) \cup {Len(a) + i : i \in Places(b, id)}
                            \cup {Len(a) + Len(b) + i : i \in Places(c, id)}
      /\ Places(t, id) = Places(a, id) \cup {Len(a) + i : i \in Places(d, id)}
                            \cup {Len(a) + Len(d) + i : i \in Places(c, id)}
  <2>1. Places(Parts(a, b, c), id) = Places(a, id) \cup {Len(a) + i : i \in Places(b, id)}
                                        \cup {Len(a) + Len(b) + i : i \in Places(c, id)}
    BY PlacesOfParts
  <2>2. Places(Parts(a, d, c), id) = Places(a, id) \cup {Len(a) + i : i \in Places(d, id)}
                                        \cup {Len(a) + Len(d) + i : i \in Places(c, id)}
    BY PlacesOfParts
  <2> QED
    BY <2>1, <2>2, <1>s, <1>t
<1>3. /\ \A i \in 1..Len(a) : s[i] = a[i]
      /\ \A i \in 1..Len(a) : t[i] = a[i]
  <2>1. \A i \in 1..Len(a) : Parts(a, b, c)[i] = a[i]
    BY PartsAre
  <2>2. \A i \in 1..Len(a) : Parts(a, d, c)[i] = a[i]
    BY PartsAre
  <2> QED
    BY <2>1, <2>2, <1>s, <1>t
<1>4. /\ \A i \in 1..Len(b) : s[Len(a) + i] = b[i]
      /\ \A i \in 1..Len(d) : t[Len(a) + i] = d[i]
  <2>1. \A i \in 1..Len(b) : Parts(a, b, c)[Len(a) + i] = b[i]
    BY PartsAre
  <2>2. \A i \in 1..Len(d) : Parts(a, d, c)[Len(a) + i] = d[i]
    BY PartsAre
  <2> QED
    BY <2>1, <2>2, <1>s, <1>t
<1>5. /\ \A i \in 1..Len(c) : s[Len(a) + Len(b) + i] = c[i]
      /\ \A i \in 1..Len(c) : t[Len(a) + Len(d) + i] = c[i]
  <2>1. \A i \in 1..Len(c) : Parts(a, b, c)[Len(a) + Len(b) + i] = c[i]
    BY PartsAre
  <2>2. \A i \in 1..Len(c) : Parts(a, d, c)[Len(a) + Len(d) + i] = c[i]
    BY PartsAre
  <2> QED
    BY <2>1, <2>2, <1>s, <1>t
<1>6. /\ Places(a, id) \subseteq 1..Len(a) /\ Places(b, id) \subseteq 1..Len(b)
      /\ Places(c, id) \subseteq 1..Len(c) /\ Places(d, id) \subseteq 1..Len(d)
  BY <1>1 DEF Places
<1>h. PICK h : h = [k \in Places(s, id) |->
                      IF k <= Len(a) THEN k
                      ELSE IF k <= Len(a) + Len(b) THEN Len(a) + one[k - Len(a)]
                      ELSE k - Len(b) + Len(d)]
  OBVIOUS
<1>7. ASSUME NEW i \in Places(a, id)
      PROVE  i \in Places(s, id) /\ i \in Places(t, id) /\ h[i] = i /\ s[i].who = t[i].who
  BY <1>1, <1>2, <1>3, <1>6, <1>h
<1>8. ASSUME NEW i \in Places(b, id)
      PROVE  /\ Len(a) + i \in Places(s, id) /\ Len(a) + one[i] \in Places(t, id)
             /\ h[Len(a) + i] = Len(a) + one[i] /\ s[Len(a) + i].who = t[Len(a) + one[i]].who
  <2>1. i \in 1..Len(b) /\ one[i] \in Places(d, id) /\ one[i] \in 1..Len(d)
    BY <1>6
  <2>2. Len(a) + i \in Places(s, id) /\ Len(a) + one[i] \in Places(t, id)
    BY <1>2, <2>1
  <2>3. ~(Len(a) + i <= Len(a)) /\ Len(a) + i <= Len(a) + Len(b) /\ Len(a) + i - Len(a) = i
    BY <1>1, <2>1
  <2>4. h[Len(a) + i] = Len(a) + one[i]
    <3>1. PICK k : k = Len(a) + i
      OBVIOUS
    <3>2. h[k] = Len(a) + one[k - Len(a)]
      BY <2>2, <2>3, <3>1, <1>h
    <3>3. k - Len(a) = i
      BY <1>1, <2>1, <3>1
    <3> QED
      BY <3>1, <3>2, <3>3
  <2>5. s[Len(a) + i].who = t[Len(a) + one[i]].who
    BY <1>4, <2>1
  <2> QED
    BY <2>2, <2>4, <2>5
<1>9. ASSUME NEW i \in Places(c, id)
      PROVE  /\ Len(a) + Len(b) + i \in Places(s, id) /\ Len(a) + Len(d) + i \in Places(t, id)
             /\ h[Len(a) + Len(b) + i] = Len(a) + Len(d) + i
             /\ s[Len(a) + Len(b) + i].who = t[Len(a) + Len(d) + i].who
  <2>1. i \in 1..Len(c)
    BY <1>6
  <2>2. Len(a) + Len(b) + i \in Places(s, id) /\ Len(a) + Len(d) + i \in Places(t, id)
    BY <1>2
  <2>3. /\ ~(Len(a) + Len(b) + i <= Len(a)) /\ ~(Len(a) + Len(b) + i <= Len(a) + Len(b))
        /\ Len(a) + Len(b) + i - Len(b) + Len(d) = Len(a) + Len(d) + i
    BY <1>1, <2>1
  <2>4. h[Len(a) + Len(b) + i] = Len(a) + Len(d) + i
    <3>1. PICK k : k = Len(a) + Len(b) + i
      OBVIOUS
    <3>2. h[k] = k - Len(b) + Len(d)
      BY <2>2, <2>3, <3>1, <1>h
    <3> QED
      BY <1>1, <2>1, <3>1, <3>2
  <2>5. s[Len(a) + Len(b) + i].who = t[Len(a) + Len(d) + i].who
    BY <1>5, <2>1
  <2> QED
    BY <2>2, <2>4, <2>5
<1>10. \A k \in Places(s, id) : \/ k \in Places(a, id) \/ \E i \in Places(b, id) : k = Len(a) + i
                                \/ \E i \in Places(c, id) : k = Len(a) + Len(b) + i
  BY <1>2
<1>11. \A k \in Places(t, id) : \/ k \in Places(a, id) \/ \E i \in Places(d, id) : k = Len(a) + i
                                \/ \E i \in Places(c, id) : k = Len(a) + Len(d) + i
  BY <1>2
<1>12. h \in [Places(s, id) -> Places(t, id)]
  <2>1. \A k \in Places(s, id) : h[k] \in Places(t, id)
    BY <1>7, <1>8, <1>9, <1>10
  <2> QED
    BY <2>1, <1>h
<1>13. \A k \in Places(s, id) : s[k].who = t[h[k]].who
  BY <1>7, <1>8, <1>9, <1>10
<1>14. ASSUME NEW k \in Places(t, id)
       PROVE  \E i \in Places(s, id) : h[i] = k
  <2>1. CASE k \in Places(a, id)
    BY <1>7, <2>1
  <2>2. ASSUME NEW m \in Places(d, id), k = Len(a) + m
        PROVE  \E i \in Places(s, id) : h[i] = k
    <3>1. PICK i \in Places(b, id) : one[i] = m
      OBVIOUS
    <3> QED
      BY <1>8, <2>2, <3>1
  <2>3. ASSUME NEW m \in Places(c, id), k = Len(a) + Len(d) + m
        PROVE  \E i \in Places(s, id) : h[i] = k
    BY <1>9, <2>3
  <2> QED
    BY <1>11, <2>1, <2>2, <2>3
<1>15. ASSUME NEW i \in Places(s, id), NEW j \in Places(s, id), i < j
       PROVE  h[i] < h[j]
  <2>1. CASE i \in Places(a, id)
    <3>1. CASE j \in Places(a, id)
      BY <1>15, <1>7, <2>1, <3>1
    <3>2. ASSUME NEW m \in Places(b, id), j = Len(a) + m
          PROVE  h[i] < h[j]
      <4>1. one[m] \in 1..Len(d) /\ i \in 1..Len(a)
        BY <1>6, <2>1
      <4> QED
        BY <1>1, <1>7, <1>8, <2>1, <3>2, <4>1
    <3>3. ASSUME NEW m \in Places(c, id), j = Len(a) + Len(b) + m
          PROVE  h[i] < h[j]
      BY <1>1, <1>6, <1>7, <1>9, <2>1, <3>3
    <3> QED
      BY <1>10, <3>1, <3>2, <3>3
  <2>2. ASSUME NEW l \in Places(b, id), i = Len(a) + l
        PROVE  h[i] < h[j]
    <3>1. ~(j \in Places(a, id))
      BY <1>1, <1>6, <1>15, <2>2
    <3>2. ASSUME NEW m \in Places(b, id), j = Len(a) + m
          PROVE  h[i] < h[j]
      <4>1. /\ l \in 1..Len(b) /\ m \in 1..Len(b) /\ one[l] \in 1..Len(d) /\ one[m] \in 1..Len(d)
        BY <1>6
      <4>2. l < m
        BY <1>1, <1>15, <2>2, <3>2, <4>1
      <4>3. one[l] < one[m]
        BY <4>2
      <4>4. h[i] = Len(a) + one[l] /\ h[j] = Len(a) + one[m]
        BY <1>8, <2>2, <3>2
      <4> QED
        BY <1>1, <4>1, <4>3, <4>4
    <3>3. ASSUME NEW m \in Places(c, id), j = Len(a) + Len(b) + m
          PROVE  h[i] < h[j]
      <4>1. one[l] \in 1..Len(d) /\ m \in 1..Len(c)
        BY <1>6
      <4>2. h[i] = Len(a) + one[l] /\ h[j] = Len(a) + Len(d) + m
        BY <1>8, <1>9, <2>2, <3>3
      <4> QED
        BY <1>1, <4>1, <4>2
    <3> QED
      BY <1>10, <3>1, <3>2, <3>3
  <2>3. ASSUME NEW l \in Places(c, id), i = Len(a) + Len(b) + l
        PROVE  h[i] < h[j]
    <3>1. ~(j \in Places(a, id))
      BY <1>1, <1>6, <1>15, <2>3
    <3>2. ASSUME NEW m \in Places(b, id), j = Len(a) + m
          PROVE  FALSE
      BY <1>1, <1>6, <1>15, <2>3, <3>2
    <3>3. ASSUME NEW m \in Places(c, id), j = Len(a) + Len(b) + m
          PROVE  h[i] < h[j]
      <4>1. h[i] = Len(a) + Len(d) + l /\ h[j] = Len(a) + Len(d) + m
        BY <1>9, <2>3, <3>3
      <4> QED
        BY <1>1, <1>6, <1>15, <2>3, <3>3, <4>1
    <3> QED
      BY <1>10, <3>1, <3>2, <3>3
  <2> QED
    BY <1>10, <2>1, <2>2, <2>3
<1>16. Matched(entries, s, id)
  BY <1>s
<1>17. Matched(entries, t, id)
  BY <1>12, <1>13, <1>14, <1>15, <1>16, Renumbered
<1> QED
  BY <1>t, <1>17

(* What is left of a sequence when entry i is removed.                     *)
LEMMA RemovedEntry ==
    ASSUME NEW S, NEW s \in Seq(S), NEW i \in DOMAIN s
    PROVE  /\ RemoveAt(s, i) \in Seq(S)
           /\ DOMAIN RemoveAt(s, i) = 1..(Len(s) - 1)
           /\ \A j \in 1..(Len(s) - 1) : RemoveAt(s, i)[j] = IF j < i THEN s[j] ELSE s[j + 1]
<1> DEFINE a == SubSeq(s, 1, i - 1)
           b == SubSeq(s, i + 1, Len(s))
<1>1. Len(s) \in Nat /\ i \in 1..Len(s) /\ \A j \in 1..Len(s) : s[j] \in S
  BY LenProperties, ElementOfSeq
<1>2. a \in Seq(S) /\ Len(a) = i - 1 /\ \A j \in 1..(i - 1) : a[j] = s[j]
  BY <1>1, SubSeqProperties
<1>3. b \in Seq(S) /\ Len(b) = Len(s) - i /\ \A j \in 1..(Len(s) - i) : b[j] = s[i + j]
  BY <1>1, SubSeqProperties
<1> HIDE DEF a, b
<1>4. Len(a) + Len(b) = Len(s) - 1
  BY <1>1, <1>2, <1>3
<1>5. /\ a \o b \in Seq(S) /\ Len(a \o b) = Len(s) - 1
      /\ \A j \in 1..(Len(s) - 1) : (a \o b)[j] = IF j <= Len(a) THEN a[j] ELSE b[j - Len(a)]
  <2>1. /\ a \o b \in Seq(S) /\ Len(a \o b) = Len(a) + Len(b)
        /\ \A j \in 1..(Len(a) + Len(b)) : (a \o b)[j] = IF j <= Len(a) THEN a[j] ELSE b[j - Len(a)]
    BY <1>2, <1>3, ConcatProperties
  <2> QED
    BY <1>4, <2>1
<1>6. DOMAIN (a \o b) = 1..(Len(s) - 1)
  BY <1>5, LenProperties
<1>7. ASSUME NEW j \in 1..(Len(s) - 1)
      PROVE  (a \o b)[j] = IF j < i THEN s[j] ELSE s[j + 1]
  <2>1. CASE j < i
    BY <1>1, <1>2, <1>5, <2>1
  <2>2. CASE ~(j < i)
    <3>1. j - (i - 1) \in 1..(Len(s) - i) /\ i + (j - (i - 1)) = j + 1 /\ ~(j <= i - 1)
      BY <1>1, <2>2
    <3>2. (a \o b)[j] = b[j - (i - 1)] /\ b[j - (i - 1)] = s[i + (j - (i - 1))]
      BY <1>2, <1>3, <1>5, <3>1
    <3> QED
      BY <2>2, <3>1, <3>2
  <2> QED
    BY <2>1, <2>2
<1> QED
  BY <1>5, <1>6, <1>7 DEF RemoveAt, a, b

(* A set of natural numbers has a least one.                               *)
LEMMA LeastNatural ==
    ASSUME NEW I \in SUBSET Nat, I # {}
    PROVE  \E n \in I : \A m \in I : n <= m
<1> DEFINE T == {1..n : n \in I}
<1>1. IsWellFoundedOn(StrictSubsetOrdering(Nat), FiniteSubsetsOf(Nat))
  BY FS_StrictSubsetOrderingWellFounded
<1>2. T \subseteq FiniteSubsetsOf(Nat) /\ T # {}
  <2>1. \A n \in I : 1..n \subseteq Nat /\ IsFiniteSet(1..n)
    BY FS_Interval
  <2> QED
    BY <2>1 DEF FiniteSubsetsOf
<1> HIDE DEF T
<1>3. PICK x \in T : \A y \in T : ~(<<y, x>> \in StrictSubsetOrdering(Nat))
  BY <1>1, <1>2, WFMin
<1>4. PICK n \in I : x = 1..n
  BY <1>3 DEF T
<1>5. ASSUME NEW m \in I PROVE n <= m
  <2>1. SUFFICES ASSUME m < n PROVE FALSE
    OBVIOUS
  <2>2. 1..m \subseteq 1..n /\ 1..m # 1..n
    <3>1. n \in 1..n /\ n \notin 1..m
      BY <2>1
    <3>2. \A k \in 1..m : k \in 1..n
      BY <2>1
    <3> QED
      BY <3>1, <3>2
  <2>3. <<1..m, 1..n>> \in StrictSubsetOrdering(Nat)
    BY <2>2 DEF StrictSubsetOrdering
  <2>4. 1..m \in T
    BY DEF T
  <2> QED
    BY <1>3, <1>4, <2>3, <2>4
<1> QED
  BY <1>5

-----------------------------------------------------------------------------
(* What answers are given to.                                              *)

(* iq_cb: the first entry with that id is taken.                           *)
LEMMA TakenFirst ==
    ASSUME NEW S, queue \in Seq(S), NEW id
    PROVE  \/ Taken(id) = 0 /\ Places(queue, id) = {}
           \/ Taken(id) \in Places(queue, id) /\ \A i \in Places(queue, id) : Taken(id) <= i
<1>1. Len(queue) \in Nat /\ DOMAIN queue = 1..Len(queue)
  BY LenProperties
<1>2. PICK I : I = {i \in 1..Len(queue) : queue[i].id = id}
  OBVIOUS
<1>3. I = Places(queue, id)
  BY <1>1, <1>2 DEF Places
<1>4. Taken(id) = IF I # {} THEN Min(I) ELSE 0
  <2>1. SelectInSeq(queue, LAMBDA e : e.id = id) = IF I # {} THEN Min(I) ELSE 0
    BY <1>2 DEF SelectInSeq
  <2> QED
    BY <2>1 DEF Taken
<1>5. CASE I = {}
  BY <1>3, <1>4, <1>5
<1>6. CASE I # {}
  <2>1. \E n \in I : \A m \in I : n <= m
    <3>1. I \in SUBSET Nat
      BY <1>1, <1>2
    <3> QED
      BY <1>6, <3>1, LeastNatural
  <2>2. Min(I) \in I /\ \A m \in I : Min(I) <= m
    BY <2>1 DEF Min
  <2> QED
    BY <1>3, <1>4, <1>6, <2>2
<1> QED
  BY <1>5, <1>6

(* An entry that waits for something else goes.                            *)
LEMMA OtherEntryGone ==
    ASSUME NEW S, NEW q \in Seq(S), NEW n \in DOMAIN q, NEW id, q[n].id # id, NEW s, Matched(q, s, id)
    PROVE  Matched(RemoveAt(q, n), s, id)
<1>1. PICK at \in [Places(q, id) -> Places(s, id)] :
        /\ \A i, j \in DOMAIN at : i < j => at[i] < at[j]
        /\ \A k \in Places(s, id) : \E i \in DOMAIN at : at[i] = k
        /\ \A i \in DOMAIN at : q[i].data = s[at[i]].who
  BY DEF Matched
<1>p. PICK p : p = RemoveAt(q, n)
  OBVIOUS
<1>2. /\ Len(q) \in Nat /\ DOMAIN q = 1..Len(q) /\ n \in 1..Len(q)
      /\ DOMAIN p = 1..(Len(q) - 1)
      /\ \A j \in 1..(Len(q) - 1) : p[j] = IF j < n THEN q[j] ELSE q[j + 1]
  BY <1>p, RemovedEntry, LenProperties
<1>3. PICK g : g = [j \in 1..(Len(q) - 1) |-> IF j < n THEN j ELSE j + 1]
  OBVIOUS
<1>4. \A j \in 1..(Len(q) - 1) : g[j] \in 1..Len(q) /\ g[j] # n /\ p[j] = q[g[j]]
  BY <1>2, <1>3
<1>5. \A i \in 1..Len(q) : i # n => \E j \in 1..(Len(q) - 1) : g[j] = i
  <2>1. ASSUME NEW i \in 1..Len(q), i # n
        PROVE  \E j \in 1..(Len(q) - 1) : g[j] = i
    <3>1. CASE i < n
      <4>1. i \in 1..(Len(q) - 1) /\ g[i] = i
        BY <1>2, <1>3, <3>1
      <4> QED
        BY <4>1
    <3>2. CASE ~(i < n)
      <4>1. i - 1 \in 1..(Len(q) - 1) /\ ~(i - 1 < n)
        BY <1>2, <2>1, <3>2
      <4>2. g[i - 1] = i
        BY <1>2, <1>3, <4>1
      <4> QED
        BY <4>1, <4>2
    <3> QED
      BY <3>1, <3>2
  <2> QED
    BY <2>1
<1>6. \A i, j \in 1..(Len(q) - 1) : i < j => g[i] < g[j]
  BY <1>2, <1>3
<1>7. \A j \in Places(p, id) : j \in 1..(Len(q) - 1) /\ g[j] \in Places(q, id)
  BY <1>2, <1>4 DEF Places
<1>8. \A i \in Places(q, id) : \E j \in Places(p, id) : g[j] = i
  <2>1. ASSUME NEW i \in Places(q, id)
        PROVE  \E j \in Places(p, id) : g[j] = i
    <3>1. i \in 1..Len(q) /\ i # n /\ q[i].id = id
      BY <1>2 DEF Places
    <3>2. PICK j \in 1..(Len(q) - 1) : g[j] = i
      BY <1>5, <3>1
    <3> QED
      BY <1>2, <1>4, <3>1, <3>2 DEF Places
  <2> QED
    BY <2>1
<1>9. PICK new : new = [j \in Places(p, id) |-> at[g[j]]]
  OBVIOUS
<1>10. new \in [Places(p, id) -> Places(s, id)]
  BY <1>7, <1>9
<1>11. \A i, j \in DOMAIN new : i < j => new[i] < new[j]
  BY <1>1, <1>6, <1>7, <1>9
<1>12. \A k \in Places(s, id) : \E i \in DOMAIN new : new[i] = k
  BY <1>1, <1>8, <1>9
<1>13. \A i \in DOMAIN new : p[i].data = s[new[i]].who
  BY <1>1, <1>4, <1>7, <1>9
<1>14. Matched(p, s, id)
  BY <1>10, <1>11, <1>12, <1>13 DEF Matched
<1> QED
  BY <1>p, <1>14

(* The first stanza answers the first entry.                               *)
LEMMA FirstIsFirst ==
    ASSUME NEW S, NEW q \in Seq(S), NEW T, NEW s \in Seq(T), s # <<>>, NEW id, Head(s).id = id,
           NEW n \in Places(q, id), \A i \in Places(q, id) : n <= i, Matched(q, s, id)
    PROVE  q[n].data = Head(s).who /\ Matched(RemoveAt(q, n), Tail(s), id)
<1>1. PICK at \in [Places(q, id) -> Places(s, id)] :
        /\ \A i, j \in DOMAIN at : i < j => at[i] < at[j]
        /\ \A k \in Places(s, id) : \E i \in DOMAIN at : at[i] = k
        /\ \A i \in DOMAIN at : q[i].data = s[at[i]].who
  BY DEF Matched
<1>p. PICK p : p = RemoveAt(q, n)
  OBVIOUS
<1>t. PICK t : t = Tail(s)
  OBVIOUS
<1>2. n \in DOMAIN q
  BY DEF Places
<1>3. /\ Len(q) \in Nat /\ DOMAIN q = 1..Len(q) /\ n \in 1..Len(q)
      /\ DOMAIN p = 1..(Len(q) - 1)
      /\ \A j \in 1..(Len(q) - 1) : p[j] = IF j < n THEN q[j] ELSE q[j + 1]
  BY <1>2, <1>p, RemovedEntry, LenProperties
<1>4. /\ Len(s) \in Nat \ {0} /\ DOMAIN s = 1..Len(s) /\ Head(s) = s[1]
      /\ DOMAIN t = 1..(Len(s) - 1) /\ \A k \in 1..(Len(s) - 1) : t[k] = s[k + 1]
  <2>1. /\ Len(s) \in Nat /\ DOMAIN s = 1..Len(s) /\ Head(s) = s[1] /\ Len(s) # 0
    BY LenProperties, EmptySeq
  <2>2. t \in Seq(T) /\ Len(t) = Len(s) - 1 /\ \A k \in 1..(Len(s) - 1) : t[k] = s[k + 1]
    BY <1>t, HeadTailProperties
  <2>3. DOMAIN t = 1..Len(t)
    BY <2>2, LenProperties
  <2> QED
    BY <2>1, <2>2, <2>3
<1>5. 1 \in Places(s, id) /\ \A k \in Places(s, id) : k \in 1..Len(s)
  BY <1>4 DEF Places
<1>6. at[n] = 1
  <2>1. PICK i \in Places(q, id) : at[i] = 1
    BY <1>1, <1>5
  <2>2. CASE i = n
    BY <2>1, <2>2
  <2>3. CASE i # n
    <3>1. n < i
      BY <1>3, <2>3 DEF Places
    <3>2. at[n] < 1
      BY <1>1, <2>1, <3>1
    <3> QED
      BY <1>4, <1>5, <3>2
  <2> QED
    BY <2>2, <2>3
<1>7. q[n].data = Head(s).who
  BY <1>1, <1>4, <1>6
<1>8. ASSUME NEW j \in Places(p, id)
      PROVE  /\ j \in 1..(Len(q) - 1) /\ n < j + 1 /\ p[j] = q[j + 1] /\ j + 1 \in Places(q, id)
  <2>1. j \in 1..(Len(q) - 1) /\ p[j].id = id
    BY <1>3 DEF Places
  <2>2. CASE j < n
    <3>1. j \in Places(q, id)
      BY <1>3, <2>1, <2>2 DEF Places
    <3> QED
      BY <1>3, <2>1, <2>2, <3>1
  <2>3. CASE ~(j < n)
    BY <1>3, <2>1, <2>3 DEF Places
  <2> QED
    BY <2>2, <2>3
<1>9. PICK new : new = [j \in Places(p, id) |-> at[j + 1] - 1]
  OBVIOUS
<1>10. ASSUME NEW j \in Places(p, id)
       PROVE  /\ at[j + 1] \in 2..Len(s) /\ new[j] = at[j + 1] - 1 /\ new[j] \in 1..(Len(s) - 1)
              /\ t[new[j]] = s[at[j + 1]] /\ new[j] \in Places(t, id)
  <2>1. at[n] < at[j + 1] /\ at[j + 1] \in Places(s, id)
    BY <1>1, <1>8
  <2>2. at[j + 1] \in 2..Len(s)
    BY <1>4, <1>5, <1>6, <2>1
  <2>3. new[j] = at[j + 1] - 1
    BY <1>9
  <2>4. new[j] \in 1..(Len(s) - 1) /\ new[j] + 1 = at[j + 1]
    BY <1>4, <2>2, <2>3
  <2>5. t[new[j]] = s[at[j + 1]]
    BY <1>4, <2>4
  <2>6. new[j] \in Places(t, id)
    BY <1>4, <2>1, <2>4, <2>5 DEF Places
  <2> QED
    BY <2>2, <2>3, <2>4, <2>5, <2>6
<1>11. new \in [Places(p, id) -> Places(t, id)]
  BY <1>9, <1>10
<1>12. ASSUME NEW i \in Places(p, id), NEW j \in Places(p, id), i < j
       PROVE  new[i] < new[j]
  <2>1. i + 1 < j + 1
    BY <1>3, <1>8, <1>12
  <2>2. at[i + 1] < at[j + 1]
    BY <1>1, <1>8, <2>1
  <2> QED
    BY <1>4, <1>10, <2>2
<1>13. ASSUME NEW k \in Places(t, id)
       PROVE  \E j \in Places(p, id) : new[j] = k
  <2>1. k \in 1..(Len(s) - 1) /\ k + 1 \in Places(s, id)
    BY <1>4 DEF Places
  <2>2. PICK i \in Places(q, id) : at[i] = k + 1
    BY <1>1, <2>1
  <2>3. i # n
    BY <1>4, <1>6, <2>1, <2>2
  <2>4. n < i /\ i \in 1..Len(q)
    BY <1>3, <2>3 DEF Places
  <2>5. i - 1 \in 1..(Len(q) - 1) /\ (i - 1) + 1 = i /\ ~(i - 1 < n)
    BY <1>3, <2>4
  <2>6. p[i - 1] = q[i]
    BY <1>3, <2>5
  <2>7. i - 1 \in Places(p, id)
    BY <1>3, <2>5, <2>6 DEF Places
  <2>8. new[i - 1] = k
    BY <1>4, <1>10, <2>1, <2>2, <2>5, <2>7
  <2> QED
    BY <2>7, <2>8
<1>14. \A j \in Places(p, id) : p[j].data = t[new[j]].who
  BY <1>1, <1>8, <1>10
<1>15. Matched(p, t, id)
  BY <1>11, <1>12, <1>13, <1>14 DEF Matched
<1> QED
  BY <1>7, <1>15, <1>p, <1>t

(* As many entries as stanzas are added, and they correspond.              *)
LEMMA BothExtended ==
    ASSUME NEW S, NEW q \in Seq(S), NEW e \in Seq(S),
           NEW T, NEW s \in Seq(T), NEW r \in Seq(T), Len(e) = Len(r), NEW id,
           \A i \in DOMAIN e : (e[i].id = id <=> r[i].id = id) /\ e[i].data = r[i].who,
           Matched(q, s, id)
    PROVE  Matched(q \o e, s \o r, id)
<1>1. PICK at \in [Places(q, id) -> Places(s, id)] :
        /\ \A i, j \in DOMAIN at : i < j => at[i] < at[j]
        /\ \A k \in Places(s, id) : \E i \in DOMAIN at : at[i] = k
        /\ \A i \in DOMAIN at : q[i].data = s[at[i]].who
  BY DEF Matched
<1>p. PICK p : p = q \o e
  OBVIOUS
<1>t. PICK t : t = s \o r
  OBVIOUS
<1>2. /\ Len(q) \in Nat /\ Len(e) \in Nat /\ DOMAIN q = 1..Len(q) /\ DOMAIN e = 1..Len(e)
      /\ DOMAIN p = 1..(Len(q) + Len(e))
      /\ \A i \in 1..Len(q) : p[i] = q[i]
      /\ \A i \in 1..Len(e) : p[Len(q) + i] = e[i]
  <2>1. /\ Len(q) \in Nat /\ Len(e) \in Nat /\ DOMAIN q = 1..Len(q) /\ DOMAIN e = 1..Len(e)
    BY LenProperties
  <2>2. DOMAIN (q \o e) = 1..(Len(q) + Len(e))
    <3>1. q \o e \in Seq(S) /\ Len(q \o e) = Len(q) + Len(e)
      BY ConcatProperties
    <3> QED
      BY <3>1, LenProperties
  <2>3. \A i \in 1..Len(q) : (q \o e)[i] = q[i]
    BY Concatenated
  <2>4. \A i \in 1..Len(e) : (q \o e)[Len(q) + i] = e[i]
    BY Concatenated
  <2> QED
    BY <1>p, <2>1, <2>2, <2>3, <2>4
<1>3. /\ Len(s) \in Nat /\ DOMAIN s = 1..Len(s) /\ DOMAIN r = 1..Len(e)
      /\ DOMAIN t = 1..(Len(s) + Len(e))
      /\ \A i \in 1..Len(s) : t[i] = s[i]
      /\ \A i \in 1..Len(e) : t[Len(s) + i] = r[i]
  BY <1>t, Concatenated
<1>4. \A i \in Places(q, id) : i \in 1..Len(q) /\ i \in Places(p, id) /\ at[i] \in 1..Len(s)
  BY <1>1, <1>2, <1>3 DEF Places
<1>5. \A i \in Places(s, id) : i \in 1..Len(s) /\ i \in Places(t, id) /\ t[i] = s[i]
  BY <1>3 DEF Places
<1>6. \A i \in Places(e, id) : /\ i \in 1..Len(e) /\ Len(q) + i \in Places(p, id)
                               /\ Len(s) + i \in Places(t, id) /\ p[Len(q) + i].data = t[Len(s) + i].who
  BY <1>2, <1>3 DEF Places
<1>7. \A j \in Places(p, id) : j \in Places(q, id) \/ \E i \in Places(e, id) : j = Len(q) + i
  <2>1. ASSUME NEW j \in Places(p, id), ~(j \in Places(q, id))
        PROVE  \E i \in Places(e, id) : j = Len(q) + i
    <3>1. j \in 1..(Len(q) + Len(e)) /\ p[j].id = id /\ ~(j <= Len(q))
      BY <1>2, <2>1 DEF Places
    <3>2. j - Len(q) \in 1..Len(e) /\ j = Len(q) + (j - Len(q))
      BY <1>2, <3>1
    <3>3. p[j] = e[j - Len(q)]
      BY <1>2, <3>2
    <3> QED
      BY <1>2, <3>1, <3>2, <3>3 DEF Places
  <2> QED
    BY <2>1
<1>8. \A k \in Places(t, id) : k \in Places(s, id) \/ \E i \in Places(e, id) : k = Len(s) + i
  <2>1. ASSUME NEW k \in Places(t, id), ~(k \in Places(s, id))
        PROVE  \E i \in Places(e, id) : k = Len(s) + i
    <3>1. k \in 1..(Len(s) + Len(e)) /\ t[k].id = id /\ ~(k <= Len(s))
      BY <1>3, <2>1 DEF Places
    <3>2. k - Len(s) \in 1..Len(e) /\ k = Len(s) + (k - Len(s))
      BY <1>2, <1>3, <3>1
    <3>3. t[k] = r[k - Len(s)]
      BY <1>3, <3>2
    <3> QED
      BY <1>2, <3>1, <3>2, <3>3 DEF Places
  <2> QED
    BY <2>1
<1>9. PICK new : new = [j \in Places(p, id) |-> IF j <= Len(q) THEN at[j] ELSE j - Len(q) + Len(s)]
  OBVIOUS
<1>10. \A j \in Places(q, id) : new[j] = at[j]
  BY <1>2, <1>4, <1>9
<1>11. ASSUME NEW i \in Places(e, id)
       PROVE  new[Len(q) + i] = Len(s) + i
  <2>1. i \in 1..Len(e) /\ Len(q) + i \in Places(p, id)
    BY <1>6
  <2>2. PICK j : j = Len(q) + i
    OBVIOUS
  <2>3. ~(j <= Len(q)) /\ j - Len(q) + Len(s) = Len(s) + i
    BY <1>2, <1>3, <2>1, <2>2
  <2>4. new[j] = j - Len(q) + Len(s)
    BY <1>9, <2>1, <2>2, <2>3
  <2> QED
    BY <2>2, <2>3, <2>4
<1>12. new \in [Places(p, id) -> Places(t, id)]
  <2>1. \A j \in Places(p, id) : new[j] \in Places(t, id)
    BY <1>1, <1>5, <1>6, <1>7, <1>10, <1>11
  <2> QED
    BY <1>9, <2>1
<1>13. ASSUME NEW i \in Places(p, id), NEW j \in Places(p, id), i < j
       PROVE  new[i] < new[j]
  <2>1. CASE j \in Places(q, id)
    <3>1. i \in Places(q, id)
      BY <1>2, <1>4, <1>6, <1>7, <1>13, <2>1
    <3> QED
      BY <1>1, <1>10, <1>13, <2>1, <3>1
  <2>2. ASSUME NEW m \in Places(e, id), j = Len(q) + m
        PROVE  new[i] < new[j]
    <3>1. new[j] = Len(s) + m /\ m \in 1..Len(e)
      BY <1>6, <1>11, <2>2
    <3>2. CASE i \in Places(q, id)
      BY <1>3, <1>4, <1>10, <3>1, <3>2
    <3>3. ASSUME NEW l \in Places(e, id), i = Len(q) + l
          PROVE  new[i] < new[j]
      <4>1. new[i] = Len(s) + l /\ l \in 1..Len(e)
        BY <1>6, <1>11, <3>3
      <4> QED
        BY <1>2, <1>3, <1>13, <2>2, <3>1, <3>3, <4>1
    <3> QED
      BY <1>7, <3>2, <3>3
  <2> QED
    BY <1>7, <2>1, <2>2
<1>14. ASSUME NEW k \in Places(t, id)
       PROVE  \E i \in Places(p, id) : new[i] = k
  <2>1. CASE k \in Places(s, id)
    BY <1>1, <1>4, <1>10, <2>1
  <2>2. ASSUME NEW m \in Places(e, id), k = Len(s) + m
        PROVE  \E i \in Places(p, id) : new[i] = k
    BY <1>6, <1>11, <2>2
  <2> QED
    BY <1>8, <2>1, <2>2
<1>15. ASSUME NEW j \in Places(p, id)
       PROVE  p[j].data = t[new[j]].who
  <2>1. CASE j \in Places(q, id)
    BY <1>1, <1>2, <1>3, <1>4, <1>10, <2>1
  <2>2. ASSUME NEW m \in Places(e, id), j = Len(q) + m
        PROVE  p[j].data = t[new[j]].who
    BY <1>6, <1>11, <2>2
  <2> QED
    BY <1>7, <2>1, <2>2
<1>16. Matched(p, t, id)
  BY <1>12, <1>13, <1>14, <1>15 DEF Matched
<1> QED
  BY <1>p, <1>t, <1>16

(* Nothing has the id in what goes, nor in what comes.                     *)
LEMMA OthersSwapped ==
    ASSUME NEW S, NEW a \in Seq(S), NEW b \in Seq(S), NEW c \in Seq(S), NEW d \in Seq(S), NEW id,
           NEW entries, Matched(entries, Parts(a, b, c), id),
           \A i \in DOMAIN b : b[i].id # id, \A i \in DOMAIN d : d[i].id # id
    PROVE  Matched(entries, Parts(a, d, c), id)
<1>1. Places(b, id) = {} /\ Places(d, id) = {}
  BY DEF Places
<1>2. PICK one : one = [i \in Places(b, id) |-> i]
  OBVIOUS
<1>3. one \in [Places(b, id) -> Places(d, id)]
  BY <1>1, <1>2
<1> QED
  BY <1>1, <1>3, Swapped

(* One stanza with the id goes and one comes, both about the same contact. *)
LEMMA OneSwapped ==
    ASSUME NEW S, NEW a \in Seq(S), NEW b \in Seq(S), NEW c \in Seq(S), NEW d \in Seq(S), NEW id,
           NEW entries, Matched(entries, Parts(a, b, c), id),
           NEW k, Places(b, id) = {k}, NEW l, Places(d, id) = {l}, b[k].who = d[l].who
    PROVE  Matched(entries, Parts(a, d, c), id)
<1>1. PICK one : one = [i \in Places(b, id) |-> l]
  OBVIOUS
<1>2. one \in [Places(b, id) -> Places(d, id)]
  BY <1>1
<1>3. /\ \A i, j \in Places(b, id) : i < j => one[i] < one[j]
      /\ \A m \in Places(d, id) : \E i \in Places(b, id) : one[i] = m
      /\ \A i \in Places(b, id) : b[i].who = d[one[i]].who
  <2>1. k \in Nat
    BY LenProperties DEF Places
  <2> QED
    BY <1>1, <2>1
<1> QED
  BY <1>2, <1>3, Swapped

-----------------------------------------------------------------------------
(* Types                                                                   *)

Entries == [id : Requests, data : People \cup {NoOne}]
Rosters == UNION {[cs -> {"none", "both"}] : cs \in SUBSET People}
Views   == UNION {[cs -> {"on", "off"}] : cs \in SUBSET People}

Asked ==
    [kind : {"request"}, id : {"fetch_roster"}, who : {NoOne}, what : {{}}]
        \cup [kind : {"request"}, id : {"roster_add", "roster_remove", "probe"}, who : People, what : {{}}]
        \cup [kind : {"presence"}, id : {"presence"}, who : {NoOne}, what : SUBSET People]
Told ==
    [kind : {"roster"}, id : {"fetch_roster"}, who : {NoOne}, what : Rosters]
        \cup [kind : {"push"}, id : {"push"}, who : People, what : {"none", "both", "remove"}]
        \cup [kind : {"result"}, id : {"roster_add", "roster_remove"}, who : People, what : {{}}]
        \cup [kind : {"error"}, id : {"roster_remove"}, who : People, what : {{}}]
        \cup [kind : {"presence"}, id : {"presence"}, who : {NoOne}, what : Views]
Stanzas == Asked \cup Told

RosterTypes ==
    /\ queue \in Seq(Entries) /\ removals \in SUBSET SUBSET People
    /\ toServer \in Seq(Asked) /\ toClient \in Seq(Told)
    /\ roster \in Rosters /\ presence \in [People -> {"on", "off"}]

LEMMA Listed ==
    ASSUME NEW S, NEW s \in Seq(S)
    PROVE  /\ \A x \in S : s \o <<x>> \in Seq(S)
           /\ \A x, y \in S : s \o <<x, y>> \in Seq(S)
           /\ s \o <<>> \in Seq(S)
           /\ s # <<>> => Head(s) \in S /\ Tail(s) \in Seq(S)
<1>1. /\ \A x \in S : <<x>> \in Seq(S)
      /\ \A x, y \in S : <<x, y>> \in Seq(S)
      /\ <<>> \in Seq(S)
  OBVIOUS
<1>2. s # <<>> => Head(s) \in S /\ Tail(s) \in Seq(S)
  BY HeadTailProperties
<1>3. \A t \in Seq(S) : s \o t \in Seq(S)
  BY ConcatProperties
<1> QED
  BY <1>1, <1>2, <1>3

LEMMA RostersAre ==
    ASSUME roster \in Rosters
    PROVE  /\ DOMAIN roster \in SUBSET People
           /\ \A c \in People : With(c) \in Rosters /\ Without(c) \in Rosters
           /\ \A c \in DOMAIN roster : /\ [roster EXCEPT ![c] = "both"] \in Rosters
                                       /\ [roster EXCEPT ![c] = "none"] \in Rosters
                                       /\ roster[c] \in {"none", "both"}
<1>1. PICK cs \in SUBSET People : roster \in [cs -> {"none", "both"}]
  BY DEF Rosters
<1>2. DOMAIN roster = cs
  BY <1>1
<1>3. ASSUME NEW c \in People
      PROVE  With(c) \in Rosters /\ Without(c) \in Rosters
  <2>1. With(c) \in [cs \cup {c} -> {"none", "both"}]
    BY <1>1 DEF With
  <2>2. Without(c) \in [cs \ {c} -> {"none", "both"}]
    BY <1>1 DEF Without
  <2>3. cs \cup {c} \in SUBSET People /\ cs \ {c} \in SUBSET People
    OBVIOUS
  <2> QED
    BY <2>1, <2>2, <2>3 DEF Rosters
<1>4. ASSUME NEW c \in DOMAIN roster
      PROVE  /\ [roster EXCEPT ![c] = "both"] \in Rosters
             /\ [roster EXCEPT ![c] = "none"] \in Rosters
             /\ roster[c] \in {"none", "both"}
  <2>1. [roster EXCEPT ![c] = "both"] \in [cs -> {"none", "both"}]
    BY <1>1
  <2>2. [roster EXCEPT ![c] = "none"] \in [cs -> {"none", "both"}]
    BY <1>1
  <2> QED
    BY <1>1, <2>1, <2>2 DEF Rosters
<1> QED
  BY <1>2, <1>3, <1>4

LEMMA ViewsAre ==
    ASSUME NEW cs \in SUBSET People, presence' \in [People -> {"on", "off"}]
    PROVE  Report(cs) \in Told
<1>1. [c \in cs |-> presence'[c]] \in [cs -> {"on", "off"}]
  OBVIOUS
<1>2. [c \in cs |-> presence'[c]] \in Views
  BY <1>1 DEF Views
<1> QED
  BY <1>2 DEF Report, Stanza, Told

LEMMA StanzasAre ==
    /\ \A c \in People : /\ Request("roster_add", c) \in Asked
                         /\ Request("roster_remove", c) \in Asked
                         /\ Probe(c) \in Asked
                         /\ Wait("roster_add", c) \in Entries /\ Wait("roster_remove", c) \in Entries
    /\ Request("fetch_roster", NoOne) \in Asked /\ Wait("fetch_roster", NoOne) \in Entries
    /\ \A cs \in SUBSET People : Announce(cs) \in Asked
    /\ \A c \in People, s \in {"none", "both", "remove"} : Push(c, s) \in Told
    /\ \A request \in Asked :
          /\ request.id \in {"roster_add", "roster_remove"} =>
                request.who \in People /\ Answer("result", request) \in Told
          /\ request.id = "roster_remove" => Answer("error", request) \in Told
          /\ request.id = "fetch_roster" => (roster \in Rosters => RosterOf(request) \in Told)
          /\ request.id = "presence" => request.what \in SUBSET People
          /\ request.id = "probe" => request.who \in People
<1>1. \A c \in People : /\ Request("roster_add", c) \in Asked
                        /\ Request("roster_remove", c) \in Asked
                        /\ Probe(c) \in Asked
  BY DEF Request, Probe, Stanza, Asked
<1>2. \A c \in People : Wait("roster_add", c) \in Entries /\ Wait("roster_remove", c) \in Entries
  BY DEF Wait, Entries, Requests
<1>3. Request("fetch_roster", NoOne) \in Asked /\ Wait("fetch_roster", NoOne) \in Entries
  BY DEF Request, Stanza, Asked, Wait, Entries, Requests
<1>4. \A cs \in SUBSET People : Announce(cs) \in Asked
  BY DEF Announce, Stanza, Asked
<1>5. \A c \in People, s \in {"none", "both", "remove"} : Push(c, s) \in Told
  BY DEF Push, Stanza, Told
<1>6. ASSUME NEW request \in Asked
      PROVE  /\ request.id \in {"roster_add", "roster_remove"} =>
                   request.who \in People /\ Answer("result", request) \in Told
             /\ request.id = "roster_remove" => Answer("error", request) \in Told
  BY DEF Asked, Answer, Stanza, Told
<1>7. ASSUME NEW request \in Asked
      PROVE  /\ request.id = "fetch_roster" => (roster \in Rosters => RosterOf(request) \in Told)
             /\ request.id = "presence" => request.what \in SUBSET People
             /\ request.id = "probe" => request.who \in People
  BY DEF Asked, RosterOf, Stanza, Told
<1> QED
  BY <1>1, <1>2, <1>3, <1>4, <1>5, <1>6, <1>7

(* No entry is taken.                                                      *)
LEMMA NoneRemoved ==
    ASSUME NEW S, NEW q \in Seq(S)
    PROVE  RemoveAt(q, 0) = q
<1>1. SubSeq(q, 1, 0 - 1) = <<>>
  BY SubSeqEmpty
<1>2. SubSeq(q, 0 + 1, Len(q)) = q
  BY SubSeqFull
<1>3. <<>> \o q = q
  BY ConcatEmptySeq
<1> QED
  BY <1>1, <1>2, <1>3 DEF RemoveAt

LEMMA QueueLeft ==
    ASSUME queue \in Seq(Entries), NEW id
    PROVE  RemoveAt(queue, Taken(id)) \in Seq(Entries)
<1>1. CASE Taken(id) = 0
  BY <1>1, NoneRemoved
<1>2. CASE Taken(id) \in Places(queue, id)
  <2>1. Taken(id) \in DOMAIN queue
    BY <1>2 DEF Places
  <2> QED
    BY <2>1, RemovedEntry
<1> QED
  BY <1>1, <1>2, TakenFirst

(* A request for each of some people.                                      *)
LEMMA ForEach ==
    ASSUME NEW cs \in SUBSET People, NEW all \in SetToSeqs(cs)
    PROVE  /\ Len([i \in DOMAIN all |-> Wait("roster_remove", all[i])])
                 = Len([i \in DOMAIN all |-> Request("roster_remove", all[i])])
           /\ [i \in DOMAIN all |-> Wait("roster_remove", all[i])] \in Seq(Entries)
           /\ [i \in DOMAIN all |-> Request("roster_remove", all[i])] \in Seq(Asked)
<1>1. IsFiniteSet(cs)
  BY PeopleAssumption, FS_Subset
<1>2. PICK n \in Nat : n = Cardinality(cs)
  BY <1>1, FS_CardinalityType
<1>3. DOMAIN all = 1..n /\ \A i \in 1..n : all[i] \in People
  BY <1>2 DEF SetToSeqs
<1>4. [i \in 1..n |-> Wait("roster_remove", all[i])] \in Seq(Entries)
  <2>1. \A i \in 1..n : Wait("roster_remove", all[i]) \in Entries
    BY <1>3, StanzasAre
  <2> QED
    BY <2>1, IsASeq
<1>5. [i \in 1..n |-> Request("roster_remove", all[i])] \in Seq(Asked)
  <2>1. \A i \in 1..n : Request("roster_remove", all[i]) \in Asked
    BY <1>3, StanzasAre
  <2> QED
    BY <2>1, IsASeq
<1>6. /\ Len([i \in 1..n |-> Wait("roster_remove", all[i])]) = n
      /\ Len([i \in 1..n |-> Request("roster_remove", all[i])]) = n
  OBVIOUS
<1> QED
  BY <1>3, <1>4, <1>5, <1>6

(* The status is set when the roster has arrived.                          *)
LEMMA Announced ==
    ASSUME RosterTypes, RosterIsHere
    PROVE  \E cs \in SUBSET People : toServer' = toServer \o <<Announce(cs)>>
<1>1. toClient # <<>> /\ Head(toClient).kind = "roster"
  BY DEF RosterIsHere, Arrives
<1>2. Head(toClient) \in Told
  BY <1>1, Listed DEF RosterTypes
<1>3. Head(toClient).what \in Rosters
  BY <1>1, <1>2 DEF Told
<1>4. DOMAIN Head(toClient).what \in SUBSET People
  BY <1>3 DEF Rosters
<1> QED
  BY <1>4 DEF RosterIsHere, Offer

(* The first contact of all is asked for his status.                       *)
LEMMA Probed ==
    ASSUME RosterTypes, Pushed, toServer' # toServer
    PROVE  \E c \in People : toServer' = toServer \o <<Probe(c)>>
<1>1. toClient # <<>> /\ Head(toClient).kind = "push"
  BY DEF Pushed, Arrives
<1>2. Head(toClient) \in Told
  BY <1>1, Listed DEF RosterTypes
<1>3. Head(toClient).who \in People
  BY <1>1, <1>2 DEF Told
<1> QED
  BY <1>3 DEF Pushed, Offer

LEMMA RosterTypesKept ==
    ASSUME RosterTypes, [RosterNext]_rosterVars
    PROVE  RosterTypes'
<1>1. /\ queue \in Seq(Entries) /\ toServer \in Seq(Asked) /\ toClient \in Seq(Told)
      /\ removals \in SUBSET SUBSET People
      /\ roster \in Rosters /\ presence \in [People -> {"on", "off"}]
      /\ <<>> \in Seq(Asked) /\ <<>> \in Seq(Told)
  BY DEF RosterTypes
<1>2. /\ toServer # <<>> => Head(toServer) \in Asked /\ Tail(toServer) \in Seq(Asked)
      /\ \A x \in Asked : toServer \o <<x>> \in Seq(Asked)
  BY <1>1, Listed
<1>3. toClient # <<>> => Head(toClient) \in Told /\ Tail(toClient) \in Seq(Told)
  BY <1>1, Listed
<1>4. /\ \A x \in Told : toClient \o <<x>> \in Seq(Told)
      /\ \A x, y \in Told : toClient \o <<x, y>> \in Seq(Told)
      /\ toClient \o <<>> \in Seq(Told)
  BY <1>1, Listed
<1>5. \A x \in Entries : queue \o <<x>> \in Seq(Entries)
  BY <1>1, Listed
<1>6. \A id : RemoveAt(queue, Taken(id)) \in Seq(Entries)
  BY <1>1, QueueLeft
<1>7. CASE Authenticate
  <2>1. <<Request("fetch_roster", NoOne)>> \in Seq(Asked)
    BY StanzasAre
  <2>2. queue' \in Seq(Entries)
    BY <1>5, <1>7, StanzasAre DEF Authenticate, Enqueue
  <2> QED
    BY <1>1, <1>7, <2>1, <2>2 DEF Authenticate, serverSide, RosterTypes
<1>8. CASE CutOff \/ SignOff
  BY <1>1, <1>8 DEF CutOff, SignOff, Cut, RosterTypes
<1>9. CASE RosterIsHere
  <2>1. toServer' \in Seq(Asked)
    <3>1. \A cs \in SUBSET People : toServer \o <<Announce(cs)>> \in Seq(Asked)
      BY <1>2, StanzasAre
    <3>2. PICK cs \in SUBSET People : toServer' = toServer \o <<Announce(cs)>>
      BY <1>9, Announced
    <3> QED
      BY <3>1, <3>2
  <2>2. queue' \in Seq(Entries)
    BY <1>6, <1>9 DEF RosterIsHere
  <2> QED
    BY <1>1, <1>3, <1>9, <2>1, <2>2 DEF RosterIsHere, Arrives, serverSide, RosterTypes
<1>10. CASE Refused \/ PresenceIsHere
  BY <1>1, <1>3, <1>10 DEF Refused, PresenceIsHere, Arrives, serverSide, RosterTypes
<1>23. CASE Pushed
  <2>1. toServer' \in Seq(Asked)
    <3>1. \A c \in People : toServer \o <<Probe(c)>> \in Seq(Asked)
      BY <1>2, StanzasAre
    <3> QED
      BY <1>1, <1>23, <3>1, Probed
  <2> QED
    BY <1>1, <1>3, <1>23, <2>1 DEF Pushed, Arrives, serverSide, RosterTypes
<1>11. CASE Answered
  <2>1. queue' \in Seq(Entries)
    BY <1>1, <1>6, <1>11 DEF Answered
  <2> QED
    BY <1>1, <1>3, <1>11, <2>1 DEF Answered, Arrives, serverSide, RosterTypes
<1>12. CASE ServesRoster
  <2>1. toClient' \in Seq(Told)
    BY <1>1, <1>2, <1>4, <1>12, StanzasAre DEF ServesRoster, Serves, Deliver
  <2> QED
    BY <1>1, <1>2, <1>12, <2>1 DEF ServesRoster, Serves, serverSide, RosterTypes
<1>13. CASE ServesPresence
  <2>1. toClient' \in Seq(Told)
    <3>1. Granted \in SUBSET People
      BY <1>1, RostersAre DEF Granted
    <3>2. PICK cs \in SUBSET People : Deliver(IF cs = {} THEN <<>> ELSE <<Report(cs)>>)
      BY <1>13, <3>1 DEF ServesPresence
    <3>3. Report(cs) \in Told
      BY <1>1, <1>13, ViewsAre DEF ServesPresence
    <3> QED
      BY <1>4, <3>2, <3>3 DEF Deliver
  <2> QED
    BY <1>1, <1>2, <1>13, <2>1 DEF ServesPresence, Serves, RosterTypes
<1>24. CASE ServesProbe
  <2>1. PICK who \in People : who = Head(toServer).who
    BY <1>2, <1>24, StanzasAre DEF ServesProbe, Serves
  <2>2. Report({who}) \in Told
    BY <1>1, <1>24, ViewsAre DEF ServesProbe
  <2>3. toClient' \in Seq(Told)
    BY <1>1, <1>4, <1>24, <2>1, <2>2 DEF ServesProbe, Deliver
  <2> QED
    BY <1>1, <1>2, <1>24, <2>3 DEF ServesProbe, Serves, RosterTypes
<1>14. CASE ServesAdd
  <2>1. PICK request \in Asked : request = Head(toServer) /\ request.id = "roster_add"
    BY <1>2, <1>14 DEF ServesAdd, Serves
  <2>2. request.who \in People /\ Answer("result", request) \in Told
    BY <2>1, StanzasAre
  <2>3. roster' = IF request.who \in DOMAIN roster THEN roster ELSE With(request.who)
    BY <1>14, <2>1 DEF ServesAdd
  <2>4. roster' \in Rosters
    BY <1>1, <2>2, <2>3, RostersAre
  <2>5. roster'[request.who] \in {"none", "both"}
    <3>1. CASE request.who \in DOMAIN roster
      BY <1>1, <2>3, <3>1, RostersAre
    <3>2. CASE request.who \notin DOMAIN roster
      BY <2>3, <3>2 DEF With
    <3> QED
      BY <3>1, <3>2
  <2>6. Push(request.who, roster'[request.who]) \in Told
    BY <2>2, <2>5, StanzasAre
  <2>7. toClient' \in Seq(Told)
    BY <1>4, <1>14, <2>1, <2>2, <2>6 DEF ServesAdd, Deliver
  <2> QED
    BY <1>1, <1>2, <1>14, <2>4, <2>7 DEF ServesAdd, Serves, RosterTypes
<1>15. CASE ServesRemove
  <2>1. PICK request \in Asked : request = Head(toServer) /\ request.id = "roster_remove"
    BY <1>2, <1>15 DEF ServesRemove, Serves
  <2>2. /\ request.who \in People /\ Answer("result", request) \in Told
        /\ Answer("error", request) \in Told /\ Push(request.who, "remove") \in Told
    BY <2>1, StanzasAre
  <2>3. roster' \in Rosters
    BY <1>1, <1>15, <2>1, <2>2, RostersAre DEF ServesRemove
  <2>4. toClient' \in Seq(Told)
    BY <1>4, <1>15, <2>1, <2>2 DEF ServesRemove, Deliver
  <2> QED
    BY <1>1, <1>2, <1>15, <2>3, <2>4 DEF ServesRemove, Serves, RosterTypes
<1>16. ASSUME NEW c \in People, AddUser(c)
       PROVE  RosterTypes'
  <2>1. queue' \in Seq(Entries) /\ toServer' \in Seq(Asked)
    BY <1>2, <1>5, <1>16, StanzasAre DEF AddUser, Enqueue, Offer
  <2> QED
    BY <1>1, <1>16, <2>1 DEF AddUser, serverSide, RosterTypes
<1>17. ASSUME NEW c \in People, NEW r \in Rosters, NEW pkts, toClient \o pkts \in Seq(Told),
              Elsewhere(c, r, pkts), UNCHANGED presence
       PROVE  RosterTypes'
  BY <1>1, <1>17 DEF Elsewhere, Deliver, RosterTypes
<1>18. ASSUME NEW c \in People, AddedElsewhere(c) \/ RemovedElsewhere(c) \/ Authorizes(c) \/ Withdraws(c)
       PROVE  RosterTypes'
  <2>1. \A s \in {"none", "both", "remove"} : Push(c, s) \in Told
    BY StanzasAre
  <2>2. CASE AddedElsewhere(c)
    <3>1. With(c) \in Rosters /\ toClient \o <<Push(c, "none")>> \in Seq(Told)
      BY <1>1, <1>4, <2>1, RostersAre
    <3>2. Elsewhere(c, With(c), <<Push(c, "none")>>) /\ UNCHANGED presence
      BY <2>2 DEF AddedElsewhere, Elsewhere
    <3> QED
      BY <1>17, <3>1, <3>2
  <2>3. CASE RemovedElsewhere(c)
    <3>1. Without(c) \in Rosters /\ toClient \o <<Push(c, "remove")>> \in Seq(Told)
      BY <1>1, <1>4, <2>1, RostersAre
    <3>2. Elsewhere(c, Without(c), <<Push(c, "remove")>>) /\ UNCHANGED presence
      BY <2>3 DEF RemovedElsewhere, Elsewhere
    <3> QED
      BY <1>17, <3>1, <3>2
  <2>4. CASE Withdraws(c)
    <3>1. c \in DOMAIN roster
      BY <2>4 DEF Withdraws, Granted
    <3>2. [roster EXCEPT ![c] = "none"] \in Rosters /\ toClient \o <<Push(c, "none")>> \in Seq(Told)
      BY <1>1, <1>4, <2>1, <3>1, RostersAre
    <3>3. Elsewhere(c, [roster EXCEPT ![c] = "none"], <<Push(c, "none")>>) /\ UNCHANGED presence
      BY <2>4 DEF Withdraws, Elsewhere
    <3> QED
      BY <1>17, <3>2, <3>3
  <2>5. CASE Authorizes(c)
    <3>1. c \in DOMAIN roster /\ UNCHANGED presence
      BY <2>5 DEF Authorizes
    <3>2. Report({c}) \in Told
      BY <1>1, <3>1, ViewsAre
    <3>3. PICK pkts : /\ Elsewhere(c, [roster EXCEPT ![c] = "both"], pkts)
                      /\ pkts = <<Push(c, "both")>> \/ pkts = <<Push(c, "both"), Report({c})>>
      BY <2>5 DEF Authorizes
    <3>4. toClient \o pkts \in Seq(Told)
      BY <1>4, <2>1, <3>2, <3>3
    <3>5. [roster EXCEPT ![c] = "both"] \in Rosters
      BY <1>1, <3>1, RostersAre
    <3> QED
      BY <1>17, <3>1, <3>3, <3>4, <3>5
  <2> QED
    BY <1>18, <2>2, <2>3, <2>4, <2>5
<1>19. ASSUME NEW c \in People, ComesOrGoes(c)
       PROVE  RosterTypes'
  <2>1. presence' \in [People -> {"on", "off"}]
    BY <1>1, <1>19 DEF ComesOrGoes
  <2>2. Report({c}) \in Told
    BY <2>1, ViewsAre
  <2>3. toClient' \in Seq(Told)
    BY <1>1, <1>4, <1>19, <2>2 DEF ComesOrGoes, Deliver
  <2> QED
    BY <1>1, <1>19, <2>1, <2>3 DEF ComesOrGoes, RosterTypes
<1>20. ASSUME NEW cs \in SUBSET People, AskRemoval(cs)
       PROVE  RosterTypes'
  BY <1>1, <1>20 DEF AskRemoval, serverSide, RosterTypes
<1>21. ASSUME NEW cs \in SUBSET People, NEW ok \in BOOLEAN, AnswerRemoval(cs, ok)
       PROVE  RosterTypes'
  <2>1. queue' \in Seq(Entries) /\ toServer' \in Seq(Asked)
    <3>1. CASE ~(ok /\ linked)
      BY <1>1, <1>21, <3>1 DEF AnswerRemoval
    <3>2. CASE ok /\ linked
      <4>1. PICK all \in SetToSeqs(cs) :
               /\ Offer([i \in DOMAIN all |-> Request("roster_remove", all[i])])
               /\ Enqueue([i \in DOMAIN all |-> Wait("roster_remove", all[i])])
        BY <1>21, <3>2 DEF AnswerRemoval
      <4>2. /\ [i \in DOMAIN all |-> Wait("roster_remove", all[i])] \in Seq(Entries)
            /\ [i \in DOMAIN all |-> Request("roster_remove", all[i])] \in Seq(Asked)
        BY ForEach
      <4> QED
        BY <1>1, <4>1, <4>2, ConcatProperties DEF Offer, Enqueue
    <3> QED
      BY <3>1, <3>2
  <2> QED
    BY <1>1, <1>21, <2>1 DEF AnswerRemoval, serverSide, RosterTypes
<1>22. CASE UNCHANGED rosterVars
  BY <1>1, <1>22 DEF rosterVars, RosterTypes
<1> QED
  BY <1>7, <1>8, <1>9, <1>10, <1>11, <1>12, <1>13, <1>14, <1>15, <1>16, <1>18, <1>19, <1>20, <1>21,
     <1>22, <1>23, <1>24, PeopleAssumption DEF RosterNext

-----------------------------------------------------------------------------
(* AnswersMatch                                                            *)

NothingLost == ~linked => toServer = <<>> /\ toClient = <<>> /\ ~available

AnswersInv == RosterTypes /\ NothingLost /\ AnswersMatch

LEMMA EmptyParts ==
    ASSUME NEW S, NEW a \in Seq(S), NEW b \in Seq(S)
    PROVE  /\ Parts(<<>>, a, b) = a \o b
           /\ Parts(a, <<>>, b) = a \o b
           /\ Parts(a, b, <<>>) = a \o b
<1>1. a \o b \in Seq(S)
  BY ConcatProperties
<1>2. <<>> \o a = a /\ a \o <<>> = a /\ (a \o b) \o <<>> = a \o b
  BY <1>1, ConcatEmptySeq
<1> QED
  BY <1>2 DEF Parts

LEMMA AllInLast ==
    ASSUME NEW S, NEW s \in Seq(S)
    PROVE  Parts(<<>>, <<>>, s) = s
<1>1. <<>> \o s = s /\ <<>> \o <<>> = <<>>
  BY ConcatEmptySeq
<1> QED
  BY <1>1 DEF Parts

LEMMA HeadFirst ==
    ASSUME NEW S, NEW s \in Seq(S), s # <<>>
    PROVE  s = <<Head(s)>> \o Tail(s) /\ <<Head(s)>> \in Seq(S) /\ Tail(s) \in Seq(S)
<1>1. Head(s) \in S /\ Tail(s) \in Seq(S)
  BY HeadTailProperties
<1>2. s = <<Head(s)>> \o Tail(s)
  OBVIOUS
<1> QED
  BY <1>1, <1>2

(* What is under way, as three parts: a stanza that is taken or handled,   *)
(* and what is before and after it.                                        *)
LEMMA UnderwayParts ==
    ASSUME RosterTypes
    PROVE  /\ toClient \in Seq(Stanzas) /\ toServer \in Seq(Stanzas) /\ <<>> \in Seq(Stanzas)
           /\ Underway \in Seq(Stanzas)
           /\ Parts(toClient, <<>>, toServer) = Underway
           /\ Parts(toClient, toServer, <<>>) = Underway
           /\ toClient # <<>> => /\ <<Head(toClient)>> \in Seq(Stanzas) /\ Tail(toClient) \in Seq(Stanzas)
                                 /\ Parts(<<>>, <<Head(toClient)>>, Tail(toClient) \o toServer) = Underway
                                 /\ Head(Underway) = Head(toClient)
                                 /\ Tail(Underway) = Tail(toClient) \o toServer /\ Underway # <<>>
           /\ toServer # <<>> => /\ <<Head(toServer)>> \in Seq(Stanzas) /\ Tail(toServer) \in Seq(Stanzas)
                                 /\ Parts(toClient, <<Head(toServer)>>, Tail(toServer)) = Underway
<1>1. toClient \in Seq(Stanzas) /\ toServer \in Seq(Stanzas) /\ <<>> \in Seq(Stanzas)
  <2>1. toClient \in Seq(Told) /\ toServer \in Seq(Asked)
    BY DEF RosterTypes
  <2> QED
    BY <2>1, SeqMonotonic DEF Stanzas
<1>2. /\ Parts(toClient, <<>>, toServer) = Underway /\ Parts(toClient, toServer, <<>>) = Underway
      /\ Underway \in Seq(Stanzas)
  BY <1>1, EmptyParts, ConcatProperties DEF Underway
<1>3. ASSUME toClient # <<>>
      PROVE  /\ <<Head(toClient)>> \in Seq(Stanzas) /\ Tail(toClient) \in Seq(Stanzas)
             /\ Parts(<<>>, <<Head(toClient)>>, Tail(toClient) \o toServer) = Underway
             /\ Head(Underway) = Head(toClient)
             /\ Tail(Underway) = Tail(toClient) \o toServer /\ Underway # <<>>
  <2>1. /\ toClient = <<Head(toClient)>> \o Tail(toClient)
        /\ <<Head(toClient)>> \in Seq(Stanzas) /\ Tail(toClient) \in Seq(Stanzas)
    BY <1>1, <1>3, HeadFirst
  <2>2. Tail(toClient) \o toServer \in Seq(Stanzas)
    BY <1>1, <2>1, ConcatProperties
  <2>3. Parts(<<>>, <<Head(toClient)>>, Tail(toClient) \o toServer)
           = <<Head(toClient)>> \o (Tail(toClient) \o toServer)
    BY <2>1, <2>2, EmptyParts
  <2>4. <<Head(toClient)>> \o (Tail(toClient) \o toServer) = Underway
    <3>1. (<<Head(toClient)>> \o Tail(toClient)) \o toServer
             = <<Head(toClient)>> \o (Tail(toClient) \o toServer)
      BY <1>1, <2>1, ConcatAssociative
    <3> QED
      BY <2>1, <3>1 DEF Underway
  <2>5. PICK rest \in Seq(Stanzas) : rest = Tail(toClient) \o toServer
    BY <2>2
  <2>6. PICK x : x = Head(toClient)
    OBVIOUS
  <2>7. /\ <<x>> \o rest # <<>> /\ Head(<<x>> \o rest) = x /\ Tail(<<x>> \o rest) = rest
    OBVIOUS
  <2> QED
    BY <2>1, <2>3, <2>4, <2>5, <2>6, <2>7
<1>4. ASSUME toServer # <<>>
      PROVE  /\ <<Head(toServer)>> \in Seq(Stanzas) /\ Tail(toServer) \in Seq(Stanzas)
             /\ Parts(toClient, <<Head(toServer)>>, Tail(toServer)) = Underway
  <2>1. /\ toServer = <<Head(toServer)>> \o Tail(toServer)
        /\ <<Head(toServer)>> \in Seq(Stanzas) /\ Tail(toServer) \in Seq(Stanzas)
    BY <1>1, <1>4, HeadFirst
  <2>2. (toClient \o <<Head(toServer)>>) \o Tail(toServer)
           = toClient \o (<<Head(toServer)>> \o Tail(toServer))
    BY <1>1, <2>1, ConcatAssociative
  <2> QED
    BY <2>1, <2>2 DEF Parts, Underway
<1> QED
  BY <1>1, <1>2, <1>3, <1>4

(* Stanzas arrive behind those that are on their way, and the one that the *)
(* server handles, if any, makes way for them.                             *)
LEMMA Arrived ==
    ASSUME RosterTypes, NEW d \in Seq(Stanzas), toClient' = toClient \o d, NEW id, NEW entries,
           Matched(entries, Underway, id),
           \/ /\ toServer' = toServer /\ \A i \in DOMAIN d : d[i].id # id
           \/ /\ toServer # <<>> /\ toServer' = Tail(toServer) /\ Head(toServer).id # id
              /\ \A i \in DOMAIN d : d[i].id # id
           \/ /\ toServer # <<>> /\ toServer' = Tail(toServer) /\ Head(toServer).id = id
              /\ \E l \in DOMAIN d : /\ d[l].id = id /\ d[l].who = Head(toServer).who
                                     /\ \A i \in DOMAIN d : d[i].id = id => i = l
    PROVE  Matched(entries, Underway', id)
<1>1. Underway' = Parts(toClient, d, toServer')
  BY DEF Underway, Parts
<1>2. toClient \in Seq(Stanzas) /\ toServer \in Seq(Stanzas) /\ <<>> \in Seq(Stanzas)
  BY UnderwayParts
<1>3. CASE toServer' = toServer /\ \A i \in DOMAIN d : d[i].id # id
  <2>1. Matched(entries, Parts(toClient, <<>>, toServer), id)
    BY UnderwayParts
  <2>2. \A i \in DOMAIN <<>> : <<>>[i].id # id
    OBVIOUS
  <2>3. Matched(entries, Parts(toClient, d, toServer), id)
    BY <1>2, <1>3, <2>1, <2>2, OthersSwapped
  <2> QED
    BY <1>1, <1>3, <2>3
<1>4. ASSUME toServer # <<>>, toServer' = Tail(toServer)
      PROVE  /\ <<Head(toServer)>> \in Seq(Stanzas) /\ Tail(toServer) \in Seq(Stanzas)
             /\ Matched(entries, Parts(toClient, <<Head(toServer)>>, Tail(toServer)), id)
  BY <1>4, UnderwayParts
<1>5. CASE /\ toServer # <<>> /\ toServer' = Tail(toServer) /\ Head(toServer).id # id
           /\ \A i \in DOMAIN d : d[i].id # id
  <2>1. PICK x : x = Head(toServer)
    OBVIOUS
  <2>2. \A i \in DOMAIN <<x>> : <<x>>[i].id # id
    BY <1>5, <2>1
  <2>3. Matched(entries, Parts(toClient, d, Tail(toServer)), id)
    BY <1>2, <1>4, <1>5, <2>1, <2>2, OthersSwapped
  <2> QED
    BY <1>1, <1>5, <2>3
<1>6. CASE /\ toServer # <<>> /\ toServer' = Tail(toServer) /\ Head(toServer).id = id
           /\ \E l \in DOMAIN d : /\ d[l].id = id /\ d[l].who = Head(toServer).who
                                  /\ \A i \in DOMAIN d : d[i].id = id => i = l
  <2>1. PICK x : x = Head(toServer)
    OBVIOUS
  <2>2. PICK l \in DOMAIN d : /\ d[l].id = id /\ d[l].who = x.who
                              /\ \A i \in DOMAIN d : d[i].id = id => i = l
    BY <1>6, <2>1
  <2>3. Places(<<x>>, id) = {1} /\ <<x>>[1] = x
    BY <1>6, <2>1 DEF Places
  <2>4. Places(d, id) = {l}
    BY <2>2 DEF Places
  <2>5. PICK b \in Seq(Stanzas), c \in Seq(Stanzas) : b = <<x>> /\ c = Tail(toServer)
    BY <1>4, <1>6, <2>1
  <2>6. Matched(entries, Parts(toClient, b, c), id) /\ Places(b, id) = {1} /\ b[1].who = d[l].who
    BY <1>4, <1>6, <2>1, <2>2, <2>3, <2>5
  <2>7. Matched(entries, Parts(toClient, d, c), id)
    BY <1>2, <2>4, <2>6, OneSwapped
  <2> QED
    BY <1>1, <1>6, <2>5, <2>7
<1> QED
  BY <1>3, <1>5, <1>6

(* The first stanza is taken, and is no answer to a request of that id.    *)
LEMMA OtherTaken ==
    ASSUME RosterTypes, toClient # <<>>, NEW id, Head(toClient).id # id,
           NEW entries, Matched(entries, Underway, id)
    PROVE  Matched(entries, Tail(toClient) \o toServer, id)
<1>1. /\ <<Head(toClient)>> \in Seq(Stanzas) /\ Tail(toClient) \in Seq(Stanzas)
      /\ toServer \in Seq(Stanzas) /\ <<>> \in Seq(Stanzas)
      /\ Parts(<<>>, <<Head(toClient)>>, Tail(toClient) \o toServer) = Underway
  BY UnderwayParts
<1>2. PICK rest \in Seq(Stanzas) : rest = Tail(toClient) \o toServer
  BY <1>1, ConcatProperties
<1>3. PICK x : x = Head(toClient)
  OBVIOUS
<1>4. (\A i \in DOMAIN <<x>> : <<x>>[i].id # id) /\ (\A i \in DOMAIN <<>> : <<>>[i].id # id)
  BY <1>3
<1>5. Matched(entries, Parts(<<>>, <<x>>, rest), id)
  BY <1>1, <1>2, <1>3
<1>6. Matched(entries, Parts(<<>>, <<>>, rest), id)
  BY <1>1, <1>2, <1>3, <1>4, <1>5, OthersSwapped
<1>7. Parts(<<>>, <<>>, rest) = rest
  BY <1>2, AllInLast
<1> QED
  BY <1>2, <1>6, <1>7

(* The first stanza is taken, and so is an entry of its id.                *)
LEMMA AnswerTaken ==
    ASSUME RosterTypes, toClient # <<>>, NEW id,
           Matched(queue, Underway, id), NEW n, n = Taken(Head(toClient).id)
    PROVE  /\ Matched(RemoveAt(queue, n), Tail(toClient) \o toServer, id)
           /\ id = Head(toClient).id => n \in DOMAIN queue /\ queue[n].data = Head(toClient).who
<1>1. queue \in Seq(Entries)
  BY DEF RosterTypes
<1>2. /\ Underway \in Seq(Stanzas) /\ Underway # <<>> /\ Head(Underway) = Head(toClient)
      /\ Tail(Underway) = Tail(toClient) \o toServer
  BY UnderwayParts
<1>3. PICK r : r = Head(toClient).id
  OBVIOUS
<1>4. \/ n = 0 /\ Places(queue, r) = {}
      \/ n \in Places(queue, r) /\ \A i \in Places(queue, r) : n <= i
  BY <1>1, <1>3, TakenFirst
<1>5. CASE id # r
  <2>1. Matched(queue, Tail(toClient) \o toServer, id)
    BY <1>3, <1>5, OtherTaken
  <2>2. CASE n = 0
    BY <1>1, <1>3, <1>5, <2>1, <2>2, NoneRemoved
  <2>3. CASE n \in Places(queue, r)
    <3>1. n \in DOMAIN queue /\ queue[n].id # id
      BY <1>5, <2>3 DEF Places
    <3>2. Matched(RemoveAt(queue, n), Tail(toClient) \o toServer, id)
      BY <1>1, <2>1, <3>1, OtherEntryGone
    <3> QED
      BY <1>3, <1>5, <3>2
  <2> QED
    BY <1>4, <2>2, <2>3
<1>6. CASE id = r
  <2>1. Places(queue, r) # {}
    <3>1. PICK at \in [Places(queue, id) -> Places(Underway, id)] :
             \A k \in Places(Underway, id) : \E i \in DOMAIN at : at[i] = k
      BY DEF Matched
    <3>2. 1 \in Places(Underway, id)
      <4>1. DOMAIN Underway = 1..Len(Underway) /\ Len(Underway) \in Nat /\ Len(Underway) # 0
        BY <1>2, LenProperties, EmptySeq
      <4>2. Underway[1] = Head(Underway)
        BY <1>2
      <4>3. 1 \in DOMAIN Underway
        BY <4>1
      <4>4. Underway[1] = Head(toClient)
        BY <1>2, <4>2
      <4>5. Underway[1].id = id
        BY <1>3, <1>6, <4>4
      <4> QED
        BY <4>3, <4>5 DEF Places
    <3> QED
      BY <1>6, <3>1, <3>2
  <2>2. n \in Places(queue, id) /\ \A i \in Places(queue, id) : n <= i
    BY <1>4, <1>6, <2>1
  <2>3. queue[n].data = Head(Underway).who /\ Matched(RemoveAt(queue, n), Tail(Underway), id)
    <3>1. PICK u \in Seq(Stanzas) : u = Underway
      BY <1>2
    <3>2. u # <<>> /\ Head(u).id = id /\ Matched(queue, u, id)
      BY <1>2, <1>3, <1>6, <3>1
    <3>3. queue[n].data = Head(u).who /\ Matched(RemoveAt(queue, n), Tail(u), id)
      BY <1>1, <2>2, <3>2, FirstIsFirst
    <3> QED
      BY <3>1, <3>3
  <2>4. n \in DOMAIN queue
    BY <2>2 DEF Places
  <2> QED
    BY <1>2, <2>3, <2>4
<1> QED
  BY <1>5, <1>6

(* A request is made for each of some entries.                             *)
LEMMA Requested ==
    ASSUME RosterTypes, NEW e \in Seq(Entries), NEW r \in Seq(Asked), Len(e) = Len(r),
           queue' = queue \o e, toServer' = toServer \o r, toClient' = toClient,
           NEW id, \A i \in DOMAIN e : e[i].id = r[i].id /\ e[i].data = r[i].who,
           Matched(queue, Underway, id)
    PROVE  Matched(queue', Underway', id)
<1>1. queue \in Seq(Entries)
  BY DEF RosterTypes
<1>2. r \in Seq(Stanzas)
  BY SeqMonotonic DEF Stanzas
<1>3. Underway \in Seq(Stanzas) /\ toClient \in Seq(Stanzas) /\ toServer \in Seq(Stanzas)
  BY UnderwayParts
<1>4. Underway' = Underway \o r
  <2>1. \A a, b, c \in Seq(Stanzas) : (a \o b) \o c = a \o (b \o c)
    BY ConcatAssociative
  <2> QED
    BY <1>2, <1>3, <2>1 DEF Underway
<1>5. Matched(queue \o e, Underway \o r, id)
  BY <1>1, <1>2, <1>3, BothExtended
<1> QED
  BY <1>4, <1>5

(* The server handles a request and sends its answer, with other stanzas.  *)
LEMMA Handles ==
    ASSUME AnswersInv, toServer # <<>>, toServer' = Tail(toServer),
           NEW d \in Seq(Stanzas), toClient' = toClient \o d, UNCHANGED <<linked, queue, orphaned>>,
           \/ Head(toServer).id \notin Requests /\ \A i \in DOMAIN d : d[i].id \notin Requests
           \/ \E l \in DOMAIN d : /\ d[l].id = Head(toServer).id /\ d[l].who = Head(toServer).who
                                  /\ \A i \in DOMAIN d : i # l => d[i].id \notin Requests
    PROVE  NothingLost' /\ AnswersMatch'
<1>1. linked
  BY DEF AnswersInv, NothingLost
<1>2. ASSUME NEW id \in Requests, id \notin orphaned
      PROVE  Matched(queue, Underway', id)
  <2>1. Matched(queue, Underway, id) /\ RosterTypes
    BY <1>2 DEF AnswersInv, AnswersMatch
  <2>2. CASE Head(toServer).id # id /\ \A i \in DOMAIN d : d[i].id # id
    BY <2>1, <2>2, Arrived
  <2>3. CASE /\ Head(toServer).id = id
             /\ \E l \in DOMAIN d : /\ d[l].id = id /\ d[l].who = Head(toServer).who
                                    /\ \A i \in DOMAIN d : d[i].id = id => i = l
    BY <2>1, <2>3, Arrived
  <2> QED
    BY <1>2, <2>2, <2>3
<1> QED
  BY <1>1, <1>2 DEF NothingLost, AnswersMatch

(* Something happens, of which the client is told unless it has not asked. *)
LEMMA Happens ==
    ASSUME AnswersInv, UNCHANGED <<linked, queue, orphaned, toServer>>, available' = available,
           \/ toClient' = toClient
           \/ linked /\ \E d \in Seq(Stanzas) : /\ toClient' = toClient \o d
                                               /\ \A i \in DOMAIN d : d[i].id \notin Requests
    PROVE  NothingLost' /\ AnswersMatch'
<1>1. RosterTypes /\ NothingLost
  BY DEF AnswersInv
<1>2. NothingLost'
  BY <1>1 DEF NothingLost
<1>3. ASSUME NEW id \in Requests, id \notin orphaned
      PROVE  Matched(queue, Underway', id)
  <2>1. Matched(queue, Underway, id)
    BY <1>3 DEF AnswersInv, AnswersMatch
  <2>2. CASE toClient' = toClient
    BY <2>1, <2>2 DEF Underway
  <2>3. ASSUME NEW d \in Seq(Stanzas), toClient' = toClient \o d,
               \A i \in DOMAIN d : d[i].id \notin Requests
        PROVE  Matched(queue, Underway', id)
    <3>1. \A i \in DOMAIN d : d[i].id # id
      BY <1>3, <2>3
    <3> QED
      BY <1>1, <2>1, <2>3, <3>1, Arrived
  <2> QED
    BY <2>2, <2>3
<1> QED
  BY <1>2, <1>3 DEF AnswersMatch

LEMMA AnswersKept ==
    ASSUME AnswersInv, [RosterNext]_rosterVars
    PROVE  NothingLost' /\ AnswersMatch'
<1>1. RosterTypes /\ NothingLost
  BY DEF AnswersInv
<1>2. /\ queue \in Seq(Entries) /\ toServer \in Seq(Asked) /\ toClient \in Seq(Told)
      /\ roster \in Rosters /\ presence \in [People -> {"on", "off"}]
  BY <1>1 DEF RosterTypes
<1>3. RosterTypes'
  BY <1>1, RosterTypesKept
<1>4. ASSUME NEW id \in Requests, id \notin orphaned
      PROVE  Matched(queue, Underway, id)
  BY <1>4 DEF AnswersInv, AnswersMatch
<1>5. /\ toServer # <<>> => Head(toServer) \in Asked
      /\ toClient # <<>> => Head(toClient) \in Told
  BY <1>2, Listed
<1> DEFINE Kept == NothingLost' /\ AnswersMatch'
<1>6. CASE Authenticate
  <2>1. linked' /\ orphaned' = orphaned /\ toClient' = toClient
    BY <1>6 DEF Authenticate, histories
  <2>2. toServer = <<>>
    BY <1>1, <1>6 DEF Authenticate, NothingLost
  <2>3. toServer' = toServer \o <<Request("fetch_roster", NoOne)>>
    BY <1>6, <2>2 DEF Authenticate
  <2>4. queue' = queue \o <<Wait("fetch_roster", NoOne)>>
    BY <1>6 DEF Authenticate, Enqueue
  <2>5. ASSUME NEW id \in Requests, id \notin orphaned
        PROVE  Matched(queue', Underway', id)
    <3>1. PICK e, r : e = <<Wait("fetch_roster", NoOne)>> /\ r = <<Request("fetch_roster", NoOne)>>
      OBVIOUS
    <3>3. e \in Seq(Entries) /\ r \in Seq(Asked)
      BY <3>1, StanzasAre
    <3>2. Len(e) = Len(r) /\ \A i \in DOMAIN e : e[i].id = r[i].id /\ e[i].data = r[i].who
      BY <3>1 DEF Wait, Request, Stanza
    <3> QED
      BY <1>1, <1>4, <2>1, <2>3, <2>4, <2>5, <3>1, <3>2, <3>3, Requested
  <2> QED
    BY <2>1, <2>5 DEF NothingLost, AnswersMatch
<1>7. CASE CutOff \/ SignOff
  <2>1. Cut
    BY <1>7 DEF CutOff, SignOff
  <2>2. /\ toServer' = <<>> /\ toClient' = <<>> /\ queue' = queue /\ ~available'
        /\ orphaned' = orphaned \cup {queue[i].id : i \in DOMAIN queue}
    BY <2>1 DEF Cut
  <2>3. ASSUME NEW id \in Requests, id \notin orphaned'
        PROVE  Matched(queue', Underway', id)
    <3>1. Places(queue', id) = {}
      BY <2>2, <2>3 DEF Places
    <3>2. Underway' = <<>>
      BY <2>2 DEF Underway
    <3>3. PICK s : s = Underway'
      OBVIOUS
    <3>4. Places(s, id) = {}
      BY <3>2, <3>3 DEF Places
    <3>5. PICK at : at = [i \in Places(queue', id) |-> 0]
      OBVIOUS
    <3>6. at \in [Places(queue', id) -> Places(s, id)] /\ DOMAIN at = {}
      BY <3>1, <3>5
    <3> QED
      BY <3>3, <3>4, <3>6 DEF Matched
  <2> QED
    BY <2>2, <2>3 DEF NothingLost, AnswersMatch
<1>8. CASE RosterIsHere
  <2>1. linked /\ linked' = linked /\ orphaned' = orphaned
    BY <1>8 DEF RosterIsHere, Arrives
  <2>2. toClient # <<>> /\ Head(toClient).id = "fetch_roster" /\ toClient' = Tail(toClient)
    BY <1>5, <1>8 DEF RosterIsHere, Arrives, Told
  <2>3. queue' = RemoveAt(queue, Taken(Head(toClient).id))
    BY <1>8, <2>2 DEF RosterIsHere
  <2>4. PICK cs \in SUBSET People : toServer' = toServer \o <<Announce(cs)>>
    BY <1>1, <1>8, Announced
  <2>5. ASSUME NEW id \in Requests, id \notin orphaned
        PROVE  Matched(queue', Underway', id)
    <3>1. Matched(queue', Tail(toClient) \o toServer, id)
      BY <1>1, <1>4, <2>2, <2>3, <2>5, AnswerTaken
    <3>2. PICK rest \in Seq(Stanzas) : rest = Tail(toClient) \o toServer
      BY <1>1, <2>2, UnderwayParts, ConcatProperties
    <3>3. PICK d : d = <<Announce(cs)>>
      OBVIOUS
    <3>4. d \in Seq(Stanzas)
      BY <3>3, StanzasAre DEF Stanzas
    <3>10. \A i \in DOMAIN d : d[i].id # id
      BY <2>5, <3>3 DEF Announce, Stanza, Requests
    <3>5. Parts(rest, <<>>, <<>>) = rest /\ Parts(rest, d, <<>>) = rest \o d
      <4>1. rest \o <<>> = rest /\ <<>> \in Seq(Stanzas)
        BY <3>2, ConcatEmptySeq
      <4>2. Parts(rest, <<>>, <<>>) = rest
        BY <4>1 DEF Parts
      <4>3. Parts(rest, d, <<>>) = rest \o d
        BY <3>2, <3>4, EmptyParts
      <4> QED
        BY <4>2, <4>3
    <3>6. \A i \in DOMAIN <<>> : <<>>[i].id # id
      OBVIOUS
    <3>7. Matched(queue', Parts(rest, <<>>, <<>>), id)
      BY <3>1, <3>2, <3>5
    <3>8. Matched(queue', Parts(rest, d, <<>>), id)
      <4>1. <<>> \in Seq(Stanzas)
        OBVIOUS
      <4> QED
        BY <3>2, <3>4, <3>6, <3>7, <3>10, <4>1, OthersSwapped
    <3>9. Underway' = rest \o d
      <4>1. /\ Tail(toClient) \in Seq(Stanzas) /\ toServer \in Seq(Stanzas)
        BY <1>1, <2>2, UnderwayParts
      <4>2. \A a, b, c \in Seq(Stanzas) : (a \o b) \o c = a \o (b \o c)
        BY ConcatAssociative
      <4> QED
        BY <2>2, <2>4, <3>2, <3>3, <3>4, <4>1, <4>2 DEF Underway
    <3> QED
      BY <3>5, <3>8, <3>9
  <2> QED
    BY <2>1, <2>5 DEF NothingLost, AnswersMatch
<1>23. CASE Pushed /\ toServer' # toServer
  <2>1. linked /\ linked' = linked /\ orphaned' = orphaned /\ queue' = queue
    BY <1>23 DEF Pushed, Arrives
  <2>2. toClient # <<>> /\ Head(toClient).id \notin Requests /\ toClient' = Tail(toClient)
    BY <1>5, <1>23 DEF Pushed, Arrives, Told, Requests
  <2>4. PICK who \in People : toServer' = toServer \o <<Probe(who)>>
    BY <1>1, <1>23, Probed
  <2>5. ASSUME NEW id \in Requests, id \notin orphaned
        PROVE  Matched(queue', Underway', id)
    <3>1. Matched(queue', Tail(toClient) \o toServer, id)
      BY <1>1, <1>4, <2>1, <2>2, <2>5, OtherTaken
    <3>2. PICK rest \in Seq(Stanzas) : rest = Tail(toClient) \o toServer
      BY <1>1, <2>2, UnderwayParts, ConcatProperties
    <3>3. PICK d : d = <<Probe(who)>>
      OBVIOUS
    <3>4. d \in Seq(Stanzas)
      BY <3>3, StanzasAre DEF Stanzas
    <3>10. \A i \in DOMAIN d : d[i].id # id
      BY <2>5, <3>3 DEF Probe, Request, Stanza, Requests
    <3>5. Parts(rest, <<>>, <<>>) = rest /\ Parts(rest, d, <<>>) = rest \o d
      <4>1. rest \o <<>> = rest /\ <<>> \in Seq(Stanzas)
        BY <3>2, ConcatEmptySeq
      <4>2. Parts(rest, <<>>, <<>>) = rest
        BY <4>1 DEF Parts
      <4>3. Parts(rest, d, <<>>) = rest \o d
        BY <3>2, <3>4, EmptyParts
      <4> QED
        BY <4>2, <4>3
    <3>6. \A i \in DOMAIN <<>> : <<>>[i].id # id
      OBVIOUS
    <3>7. Matched(queue', Parts(rest, <<>>, <<>>), id)
      BY <3>1, <3>2, <3>5
    <3>8. Matched(queue', Parts(rest, d, <<>>), id)
      <4>1. <<>> \in Seq(Stanzas)
        OBVIOUS
      <4> QED
        BY <3>2, <3>4, <3>6, <3>7, <3>10, <4>1, OthersSwapped
    <3>9. Underway' = rest \o d
      <4>1. /\ Tail(toClient) \in Seq(Stanzas) /\ toServer \in Seq(Stanzas)
        BY <1>1, <2>2, UnderwayParts
      <4>2. \A a, b, c \in Seq(Stanzas) : (a \o b) \o c = a \o (b \o c)
        BY ConcatAssociative
      <4> QED
        BY <2>2, <2>4, <3>2, <3>3, <3>4, <4>1, <4>2 DEF Underway
    <3> QED
      BY <3>5, <3>8, <3>9
  <2> QED
    BY <2>1, <2>5 DEF NothingLost, AnswersMatch
(* What arrives is no answer of the queue's, or an error.                  *)
<1>9. CASE (Pushed /\ toServer' = toServer) \/ Refused \/ PresenceIsHere
  <2>1. /\ linked /\ linked' = linked /\ orphaned \subseteq orphaned' /\ queue' = queue
        /\ toClient # <<>> /\ toClient' = Tail(toClient) /\ toServer' = toServer
    BY <1>9 DEF Pushed, Refused, PresenceIsHere, Arrives
  <2>2. Head(toClient).id \notin Requests \ orphaned'
    BY <1>5, <1>9, <2>1 DEF Pushed, Refused, PresenceIsHere, Arrives, Told, Requests
  <2>3. ASSUME NEW id \in Requests, id \notin orphaned'
        PROVE  Matched(queue', Underway', id)
    <3>1. Matched(queue, Tail(toClient) \o toServer, id)
      BY <1>1, <1>4, <2>1, <2>2, <2>3, OtherTaken
    <3> QED
      BY <2>1, <3>1 DEF Underway
  <2> QED
    BY <2>1, <2>3 DEF NothingLost, AnswersMatch
<1>10. CASE Answered
  <2>1. /\ linked /\ linked' = linked /\ orphaned' = orphaned
        /\ toClient # <<>> /\ toClient' = Tail(toClient) /\ toServer' = toServer
    BY <1>10 DEF Answered, Arrives
  <2>2. queue' = RemoveAt(queue, Taken(Head(toClient).id))
    <3>1. CASE Taken(Head(toClient).id) = 0
      BY <1>2, <1>10, <3>1, NoneRemoved DEF Answered
    <3>2. CASE Taken(Head(toClient).id) # 0
      BY <1>10, <3>2 DEF Answered
    <3> QED
      BY <3>1, <3>2
  <2>3. ASSUME NEW id \in Requests, id \notin orphaned
        PROVE  Matched(queue', Underway', id)
    <3>1. Matched(queue', Tail(toClient) \o toServer, id)
      BY <1>1, <1>4, <2>1, <2>2, <2>3, AnswerTaken
    <3> QED
      BY <2>1, <3>1 DEF Underway
  <2> QED
    BY <2>1, <2>3 DEF NothingLost, AnswersMatch
(* The server handles a request.                                           *)
<1>11. CASE ServesRoster
  <2>1. PICK request : request = Head(toServer)
    OBVIOUS
  <2>2. /\ UNCHANGED <<linked, queue, orphaned>> /\ toServer # <<>> /\ toServer' = Tail(toServer)
        /\ request.id = "fetch_roster" /\ toClient' = toClient \o <<RosterOf(request)>>
    BY <1>11, <2>1 DEF ServesRoster, Serves, Deliver, histories
  <2>3. request \in Asked /\ request.who = NoOne
    BY <1>5, <2>1, <2>2 DEF Asked
  <2>4. PICK d : d = <<RosterOf(request)>>
    OBVIOUS
  <2>5. d \in Seq(Stanzas)
    BY <1>2, <2>2, <2>3, <2>4, StanzasAre DEF Stanzas
  <2>6. 1 \in DOMAIN d /\ DOMAIN d = {1} /\ d[1].id = request.id /\ d[1].who = request.who
    BY <2>3, <2>4 DEF RosterOf, Stanza
  <2> QED
    BY <2>1, <2>2, <2>4, <2>5, <2>6, Handles
<1>12. CASE ServesPresence
  <2>1. PICK request : request = Head(toServer)
    OBVIOUS
  <2>2. /\ UNCHANGED <<linked, queue, orphaned>> /\ toServer # <<>> /\ toServer' = Tail(toServer)
        /\ request.id = "presence" /\ presence' = presence
    BY <1>12, <2>1 DEF ServesPresence, Serves, histories
  <2>3. PICK cs \in SUBSET People : Deliver(IF cs = {} THEN <<>> ELSE <<Report(cs)>>)
    <3>1. Granted \in SUBSET People
      BY <1>2, RostersAre DEF Granted
    <3> QED
      BY <1>12, <3>1 DEF ServesPresence
  <2>4. PICK d : d = IF cs = {} THEN <<>> ELSE <<Report(cs)>>
    OBVIOUS
  <2>5. toClient' = toClient \o d
    BY <2>3, <2>4 DEF Deliver
  <2>6. d \in Seq(Stanzas)
    <3>1. Report(cs) \in Stanzas
      BY <1>2, <2>2, ViewsAre DEF Stanzas
    <3> QED
      BY <2>4, <3>1
  <2>7. \A i \in DOMAIN d : d[i].id \notin Requests
    <3>1. \A i \in DOMAIN <<>> : FALSE
      OBVIOUS
    <3>2. \A i \in DOMAIN <<Report(cs)>> : <<Report(cs)>>[i].id \notin Requests
      BY DEF Report, Stanza, Requests
    <3> QED
      BY <2>4, <3>1, <3>2
  <2>8. request.id \notin Requests
    BY <2>2 DEF Requests
  <2> QED
    BY <2>1, <2>2, <2>5, <2>6, <2>7, <2>8, Handles
<1>24. CASE ServesProbe
  <2>1. PICK request : request = Head(toServer)
    OBVIOUS
  <2>2. /\ UNCHANGED <<linked, queue, orphaned>> /\ toServer # <<>> /\ toServer' = Tail(toServer)
        /\ request.id = "probe" /\ presence' = presence
    BY <1>24, <2>1 DEF ServesProbe, Serves, histories
  <2>3. PICK who \in People : who = request.who
    BY <1>5, <2>1, <2>2, StanzasAre
  <2>4. PICK d : d = IF available /\ who \in Granted THEN <<Report({who})>> ELSE <<>>
    OBVIOUS
  <2>5. toClient' = toClient \o d
    <3>1. toClient \o <<>> = toClient
      BY <1>2, ConcatEmptySeq
    <3> QED
      BY <1>24, <2>1, <2>3, <2>4, <3>1 DEF ServesProbe, Deliver
  <2>6. d \in Seq(Stanzas)
    <3>1. Report({who}) \in Stanzas
      BY <1>2, <2>2, ViewsAre DEF Stanzas
    <3> QED
      BY <2>4, <3>1
  <2>7. \A i \in DOMAIN d : d[i].id \notin Requests
    <3>1. \A i \in DOMAIN <<>> : FALSE
      OBVIOUS
    <3>2. \A i \in DOMAIN <<Report({who})>> : <<Report({who})>>[i].id \notin Requests
      BY DEF Report, Stanza, Requests
    <3> QED
      BY <2>4, <3>1, <3>2
  <2>8. request.id \notin Requests
    BY <2>2 DEF Requests
  <2> QED
    BY <2>1, <2>2, <2>5, <2>6, <2>7, <2>8, Handles
<1>13. CASE ServesAdd
  <2>1. PICK request : request = Head(toServer)
    OBVIOUS
  <2>2. /\ UNCHANGED <<linked, queue, orphaned>> /\ toServer # <<>> /\ toServer' = Tail(toServer)
        /\ request.id = "roster_add"
        /\ toClient' = toClient \o <<Push(request.who, roster'[request.who]), Answer("result", request)>>
    BY <1>13, <2>1 DEF ServesAdd, Serves, Deliver, histories
  <2>3. request \in Asked /\ request.who \in People
    BY <1>5, <2>1, <2>2, StanzasAre
  <2>4. roster'[request.who] \in {"none", "both", "remove"}
    <3>1. roster' = IF request.who \in DOMAIN roster THEN roster ELSE With(request.who)
      BY <1>13, <2>1 DEF ServesAdd
    <3>2. CASE request.who \in DOMAIN roster
      BY <1>2, <3>1, <3>2, RostersAre
    <3>3. CASE request.who \notin DOMAIN roster
      BY <3>1, <3>3 DEF With
    <3> QED
      BY <3>2, <3>3
  <2>5. PICK d : d = <<Push(request.who, roster'[request.who]), Answer("result", request)>>
    OBVIOUS
  <2>6. d \in Seq(Stanzas)
    <3>1. Push(request.who, roster'[request.who]) \in Stanzas
      BY <2>3, <2>4, StanzasAre DEF Stanzas
    <3>2. Answer("result", request) \in Stanzas
      BY <2>2, <2>3, StanzasAre DEF Stanzas
    <3> QED
      BY <2>5, <3>1, <3>2
  <2>7. /\ DOMAIN d = {1, 2} /\ d[2].id = request.id /\ d[2].who = request.who
        /\ d[1].id \notin Requests
    BY <2>5 DEF Push, Answer, Stanza, Requests
  <2> QED
    BY <2>1, <2>2, <2>5, <2>6, <2>7, Handles
<1>14. CASE ServesRemove
  <2>1. PICK request : request = Head(toServer)
    OBVIOUS
  <2>2. /\ UNCHANGED <<linked, queue, orphaned>> /\ toServer # <<>> /\ toServer' = Tail(toServer)
        /\ request.id = "roster_remove"
        /\ \/ toClient' = toClient \o <<Push(request.who, "remove"), Answer("result", request)>>
           \/ toClient' = toClient \o <<Answer("error", request)>>
    BY <1>14, <2>1 DEF ServesRemove, Serves, Deliver, histories
  <2>3. request \in Asked /\ request.who \in People
    BY <1>5, <2>1, <2>2, StanzasAre
  <2>4. /\ Push(request.who, "remove") \in Stanzas /\ Answer("result", request) \in Stanzas
        /\ Answer("error", request) \in Stanzas
    BY <2>2, <2>3, StanzasAre DEF Stanzas
  <2>5. CASE toClient' = toClient \o <<Push(request.who, "remove"), Answer("result", request)>>
    <3>1. PICK d : d = <<Push(request.who, "remove"), Answer("result", request)>>
      OBVIOUS
    <3>2. /\ DOMAIN d = {1, 2} /\ d[2].id = request.id /\ d[2].who = request.who
          /\ d[1].id \notin Requests
      BY <3>1 DEF Push, Answer, Stanza, Requests
    <3>3. d \in Seq(Stanzas)
      BY <2>4, <3>1
    <3> QED
      BY <2>1, <2>2, <2>5, <3>1, <3>2, <3>3, Handles
  <2>6. CASE toClient' = toClient \o <<Answer("error", request)>>
    <3>1. PICK d : d = <<Answer("error", request)>>
      OBVIOUS
    <3>2. DOMAIN d = {1} /\ d[1].id = request.id /\ d[1].who = request.who
      BY <3>1 DEF Answer, Stanza
    <3>3. d \in Seq(Stanzas)
      BY <2>4, <3>1
    <3> QED
      BY <2>1, <2>2, <2>6, <3>1, <3>2, <3>3, Handles
  <2> QED
    BY <2>2, <2>5, <2>6
<1>15. ASSUME NEW c \in People, AddUser(c)
       PROVE  NothingLost' /\ AnswersMatch'
  <2>1. /\ UNCHANGED <<linked, orphaned, toClient>> /\ linked
        /\ queue' = queue \o <<Wait("roster_add", c)>>
        /\ toServer' = toServer \o <<Request("roster_add", c)>>
    BY <1>15 DEF AddUser, Enqueue, Offer, histories
  <2>2. PICK e, r : e = <<Wait("roster_add", c)>> /\ r = <<Request("roster_add", c)>>
    OBVIOUS
  <2>3. e \in Seq(Entries) /\ r \in Seq(Asked)
    BY <2>2, StanzasAre
  <2>4. Len(e) = Len(r) /\ \A i \in DOMAIN e : e[i].id = r[i].id /\ e[i].data = r[i].who
    BY <2>2 DEF Wait, Request, Stanza
  <2>5. ASSUME NEW id \in Requests, id \notin orphaned
        PROVE  Matched(queue', Underway', id)
    BY <1>1, <1>4, <2>1, <2>2, <2>3, <2>4, <2>5, Requested
  <2> QED
    BY <2>1, <2>5 DEF NothingLost, AnswersMatch
<1>16. ASSUME NEW cs \in SUBSET People, AskRemoval(cs)
       PROVE  NothingLost' /\ AnswersMatch'
  BY <1>16, Happens DEF AskRemoval, serverSide, histories
<1>17. ASSUME NEW cs \in SUBSET People, NEW ok \in BOOLEAN, AnswerRemoval(cs, ok)
       PROVE  NothingLost' /\ AnswersMatch'
  <2>1. UNCHANGED <<linked, orphaned, toClient, available>>
    BY <1>17 DEF AnswerRemoval, histories, serverSide
  <2>2. CASE ~(ok /\ linked)
    <3>1. UNCHANGED <<toServer, queue>>
      BY <1>17, <2>2 DEF AnswerRemoval
    <3> QED
      BY <2>1, <3>1, Happens
  <2>3. CASE ok /\ linked
    <3>1. PICK all \in SetToSeqs(cs) :
             /\ Offer([i \in DOMAIN all |-> Request("roster_remove", all[i])])
             /\ Enqueue([i \in DOMAIN all |-> Wait("roster_remove", all[i])])
      BY <1>17, <2>3 DEF AnswerRemoval
    <3>2. PICK e, r : /\ e = [i \in DOMAIN all |-> Wait("roster_remove", all[i])]
                      /\ r = [i \in DOMAIN all |-> Request("roster_remove", all[i])]
      OBVIOUS
    <3>3. e \in Seq(Entries) /\ r \in Seq(Asked) /\ Len(e) = Len(r)
      BY <3>2, ForEach
    <3>4. \A i \in DOMAIN e : e[i].id = r[i].id /\ e[i].data = r[i].who
      BY <3>2 DEF Wait, Request, Stanza
    <3>5. queue' = queue \o e /\ toServer' = toServer \o r
      BY <3>1, <3>2 DEF Offer, Enqueue
    <3>6. ASSUME NEW id \in Requests, id \notin orphaned
          PROVE  Matched(queue', Underway', id)
      BY <1>1, <1>4, <2>1, <3>3, <3>4, <3>5, <3>6, Requested
    <3> QED
      BY <2>1, <2>3, <3>6 DEF NothingLost, AnswersMatch
  <2> QED
    BY <2>2, <2>3
(* What others do.                                                         *)
<1>18. \A c \in People, s \in {"none", "both", "remove"} :
          Push(c, s) \in Stanzas /\ Push(c, s).id \notin Requests
  BY StanzasAre DEF Stanzas, Push, Stanza, Requests
<1>19. ASSUME NEW c \in People, AddedElsewhere(c) \/ RemovedElsewhere(c) \/ Withdraws(c)
       PROVE  NothingLost' /\ AnswersMatch'
  <2>1. PICK s \in {"none", "remove"} : \E r : Elsewhere(c, r, <<Push(c, s)>>)
    BY <1>19 DEF AddedElsewhere, RemovedElsewhere, Withdraws
  <2>2. PICK d : d = <<Push(c, s)>>
    OBVIOUS
  <2>3. d \in Seq(Stanzas) /\ \A i \in DOMAIN d : d[i].id \notin Requests
    BY <1>18, <2>2
  <2>4. /\ UNCHANGED <<linked, queue, orphaned, toServer, available>>
        /\ (toClient' = toClient) \/ (linked /\ toClient' = toClient \o d)
    BY <2>1, <2>2 DEF Elsewhere, Deliver, Interested, histories
  <2> QED
    BY <2>3, <2>4, Happens
<1>20. ASSUME NEW c \in People, Authorizes(c)
       PROVE  NothingLost' /\ AnswersMatch'
  <2>1. presence' = presence
    BY <1>20 DEF Authorizes
  <2>2. PICK d : /\ d = <<Push(c, "both"), Report({c})>> \/ d = <<Push(c, "both")>>
                 /\ Elsewhere(c, [roster EXCEPT ![c] = "both"], d)
    BY <1>20 DEF Authorizes
  <2>3. Report({c}) \in Stanzas /\ Report({c}).id \notin Requests
    BY <1>2, <2>1, ViewsAre DEF Stanzas, Report, Stanza, Requests
  <2>4. d \in Seq(Stanzas) /\ \A i \in DOMAIN d : d[i].id \notin Requests
    <3>1. Push(c, "both") \in Stanzas /\ Push(c, "both").id \notin Requests
      BY <1>18, <1>20, PeopleAssumption
    <3>2. CASE d = <<Push(c, "both")>>
      BY <3>1, <3>2
    <3>3. CASE d = <<Push(c, "both"), Report({c})>>
      <4>1. DOMAIN d = {1, 2} /\ d[1] = Push(c, "both") /\ d[2] = Report({c})
        BY <3>3
      <4>2. \A i \in DOMAIN d : d[i].id \notin Requests
        BY <2>3, <3>1, <4>1
      <4>3. d \in Seq(Stanzas)
        BY <2>3, <3>1, <3>3
      <4> QED
        BY <4>2, <4>3
    <3> QED
      BY <2>2, <3>2, <3>3
  <2>5. /\ UNCHANGED <<linked, queue, orphaned, toServer, available>>
        /\ (toClient' = toClient) \/ (linked /\ toClient' = toClient \o d)
    BY <2>2 DEF Elsewhere, Deliver, Interested, histories
  <2> QED
    BY <2>4, <2>5, Happens
<1>21. ASSUME NEW c \in People, ComesOrGoes(c)
       PROVE  NothingLost' /\ AnswersMatch'
  <2>1. presence' \in [People -> {"on", "off"}]
    BY <1>2, <1>21 DEF ComesOrGoes
  <2>2. Report({c}) \in Stanzas /\ Report({c}).id \notin Requests
    BY <2>1, ViewsAre DEF Stanzas, Report, Stanza, Requests
  <2>3. PICK d : d = <<Report({c})>>
    OBVIOUS
  <2>4. d \in Seq(Stanzas) /\ \A i \in DOMAIN d : d[i].id \notin Requests
    BY <2>2, <2>3
  <2>5. /\ UNCHANGED <<linked, queue, orphaned, toServer, available>>
        /\ (toClient' = toClient) \/ (available /\ toClient' = toClient \o d)
    BY <1>21, <2>3 DEF ComesOrGoes, Deliver, histories
  <2>6. available => linked
    BY <1>1 DEF NothingLost
  <2> QED
    BY <2>4, <2>5, <2>6, Happens
<1>22. CASE UNCHANGED rosterVars
  <2>1. UNCHANGED <<linked, queue, orphaned, toServer, toClient, available>>
    BY <1>22 DEF rosterVars
  <2> QED
    BY <2>1, Happens
<1> QED
  BY <1>6, <1>7, <1>8, <1>9, <1>10, <1>11, <1>12, <1>13, <1>14, <1>15, <1>16, <1>17, <1>19, <1>20,
     <1>21, <1>22, <1>23, <1>24, PeopleAssumption DEF RosterNext

LEMMA AnswersBegin ==
    ASSUME RosterInit
    PROVE  AnswersInv
<1>1. RosterTypes /\ NothingLost
  <2>1. [c \in People |-> "both"] \in [People -> {"none", "both"}]
    OBVIOUS
  <2>2. roster \in Rosters
    BY <2>1 DEF RosterInit, Rosters
  <2> QED
    BY <2>2 DEF RosterInit, RosterTypes, NothingLost
<1>2. Underway = <<>> /\ queue = <<>>
  BY DEF RosterInit, Underway
<1>3. ASSUME NEW id \in Requests
      PROVE  Matched(queue, Underway, id)
  <2>1. PICK s : s = <<>>
    OBVIOUS
  <2>2. Places(s, id) = {}
    BY <2>1 DEF Places
  <2>3. PICK at : at = [i \in Places(s, id) |-> 0]
    OBVIOUS
  <2>4. at \in [Places(s, id) -> Places(s, id)] /\ DOMAIN at = {}
    BY <2>2, <2>3
  <2>5. Matched(s, s, id)
    BY <2>2, <2>4 DEF Matched
  <2> QED
    BY <1>2, <2>1, <2>5
<1> QED
  BY <1>1, <1>3 DEF AnswersInv, AnswersMatch

(* Each answer is given to the request it answers, for any number of       *)
(* requests under way, until one is refused or lost (iq_cb).               *)
THEOREM AnswersCorrect == RosterSpec => []AnswersMatch
<1>1. RosterInit => AnswersInv
  BY AnswersBegin
<1>2. AnswersInv /\ [RosterNext]_rosterVars => AnswersInv'
  BY AnswersKept, RosterTypesKept DEF AnswersInv
<1>3. AnswersInv => AnswersMatch
  BY DEF AnswersInv
<1> QED
  BY <1>1, <1>2, <1>3, PTL DEF RosterSpec

-----------------------------------------------------------------------------
(* RosterShown                                                             *)

(* Stanzas about c: those that list him, those that say that he is gone,   *)
(* those that take him to be listed, those that decide whether he is in    *)
(* the roster, and those that tell his status.                             *)
Listing(c) ==
    {p \in Told : \/ p.kind = "push" /\ p.who = c /\ p.what = "none"
                  \/ p.kind = "roster" /\ c \in DOMAIN p.what}
Removing(c) ==
    {p \in Told : \/ p.kind = "push" /\ p.who = c /\ p.what = "remove"
                  \/ p.kind = "result" /\ p.id = "roster_remove" /\ p.who = c}
Confirming(c) == {p \in Told : p.kind = "push" /\ p.who = c /\ p.what = "both"}
Informing(c)  == {p \in Told : p.kind = "presence" /\ c \in DOMAIN p.what}

Trusting(c) == Confirming(c) \cup Informing(c)
Deciding(c) == Listing(c) \cup Removing(c) \cup Confirming(c) \cup {p \in Told : p.kind = "roster"}
Telling(c)  == Listing(c) \cup Informing(c)

(* None of s is in K; the last one that is in K is in R.                   *)
Free(s, K)    == \A i \in DOMAIN s : s[i] \notin K
Ends(s, K, R) ==
    \A i \in DOMAIN s : s[i] \in K /\ (\A j \in DOMAIN s : i < j => s[j] \notin K) => s[i] \in R

(* What decides about c last agrees with the roster.                       *)
Lists(c)   == {p \in Told : p \in Listing(c) \cup Confirming(c) <=> c \in DOMAIN roster}
Decided(c) ==
    /\ Ends(toClient, Deciding(c), Lists(c))
    /\ Free(toClient, Deciding(c)) => c \in strays \/ (c \in DOMAIN listed <=> c \in DOMAIN roster)

(* After n stanzas c is listed, unless he was taken from the list by       *)
(* mistake.  This is so before each stanza that takes him to be, and in    *)
(* the end if he is in the roster.                                         *)
Known(c) == c \in DOMAIN listed \/ c \in unseen
Begun(s, c, n)   == \E k \in 1..n : s[k] \in Listing(c)
Renewed(s, c, n) == \A j \in 1..n : s[j] \in Removing(c) => \E k \in j..n : s[k] \in Listing(c)
Founded(c, n)    == (Known(c) \/ Begun(toClient, c, n)) /\ Renewed(toClient, c, n)
Enrolled(c) ==
    /\ c \in DOMAIN roster => Founded(c, Len(toClient))
    /\ \A i \in DOMAIN toClient : toClient[i] \in Trusting(c) => Founded(c, i - 1)

(* What tells the status last, tells the one the server knows.             *)
Suits(c, status) ==
    IF roster[c] = "none" THEN status = "noauth"
    ELSE status = presence[c] \/ (status = "noauth" /\ presence[c] = "off")
StatusIn(p, c) ==
    IF p.kind = "push" THEN "noauth" ELSE IF p.kind = "roster" THEN Shown(p.what[c]) ELSE p.what[c]
Fitting(c) == {p \in Telling(c) : Suits(c, StatusIn(p, c))}
Claimed(c) == c \in DOMAIN roster /\ (roster[c] = "both" => available)
Current(c) ==
    Claimed(c) =>
        /\ Ends(toClient, Telling(c), Fitting(c))
        /\ Free(toClient, Telling(c)) => (c \in DOMAIN listed \ unseen => Suits(c, listed[c]))

(* A removal is pushed before it is answered.                              *)
RemovalDone(p, c) == p.kind = "result" /\ p \in Removing(c)
Preceded(c) ==
    \A i \in DOMAIN toClient : RemovalDone(toClient[i], c) =>
        IF i = 1 THEN c \in DOMAIN listed => c \in strays ELSE toClient[i - 1] = Push(c, "remove")

Tracked(c) == Decided(c) /\ Enrolled(c) /\ Current(c) /\ Preceded(c)

(* The roster comes first, then the client's presence, then all others'.   *)
Unsure == \E i \in DOMAIN toClient : toClient[i].kind = "roster"
Ready  == available \/ \E i \in DOMAIN toServer : toServer[i].id = "presence"
Phases ==
    /\ \A i \in DOMAIN toServer : toServer[i].id = "fetch_roster" => i = 1 /\ toClient = <<>> /\ ~Ready
    /\ \A i \in DOMAIN toClient : toClient[i].kind = "roster" => i = 1 /\ ~Ready
    /\ ~Interested \/ Unsure => DOMAIN listed \subseteq strays \cap unseen
Quiet ==
    ~available => /\ \A i \in DOMAIN toClient : toClient[i].kind # "presence"
                  /\ \A c \in DOMAIN listed \ unseen : listed[c] \in {"off", "noauth"}

RosterInv ==
    /\ RosterTypes /\ NothingLost /\ Phases /\ Quiet
    /\ Interested => \A c \in People : Tracked(c)

(* The first of s goes.                                                    *)
LEMMA WithoutFirst ==
    ASSUME NEW S, NEW s \in Seq(S), s # <<>>
    PROVE  /\ Tail(s) \in Seq(S) /\ Len(s) \in Nat /\ Len(s) >= 1
           /\ DOMAIN s = 1..Len(s) /\ DOMAIN Tail(s) = 1..(Len(s) - 1) /\ Len(Tail(s)) = Len(s) - 1
           /\ Head(s) = s[1] /\ \A i \in 1..(Len(s) - 1) : Tail(s)[i] = s[i + 1]
<1>1. Len(s) \in Nat /\ DOMAIN s = 1..Len(s) /\ Len(s) >= 1
  BY EmptySeq, LenProperties
<1>2. Tail(s) \in Seq(S) /\ Len(Tail(s)) = Len(s) - 1 /\ \A i \in 1..(Len(s) - 1) : Tail(s)[i] = s[i + 1]
  BY HeadTailProperties
<1>3. Head(s) = s[1]
  OBVIOUS
<1> QED
  BY <1>1, <1>2, <1>3, LenProperties

LEMMA EndsWithoutFirst ==
    ASSUME NEW S, NEW s \in Seq(S), s # <<>>, NEW K, NEW R, Ends(s, K, R)
    PROVE  /\ Ends(Tail(s), K, R)
           /\ Free(Tail(s), K) => IF Head(s) \in K THEN Head(s) \in R ELSE Free(s, K)
<1>1. PICK n : n = Len(s)
  OBVIOUS
<1>2. PICK t : t = Tail(s)
  OBVIOUS
<1>3. /\ n \in Nat /\ n >= 1 /\ DOMAIN s = 1..n /\ DOMAIN t = 1..(n - 1)
      /\ Head(s) = s[1] /\ \A i \in 1..(n - 1) : t[i] = s[i + 1]
  BY <1>1, <1>2, WithoutFirst
<1>4. ASSUME NEW i \in 1..(n - 1), t[i] \in K, \A j \in 1..(n - 1) : i < j => t[j] \notin K
      PROVE  t[i] \in R
  <2>1. i + 1 \in 1..n /\ s[i + 1] \in K
    BY <1>3, <1>4
  <2>2. ASSUME NEW j \in 1..n, i + 1 < j PROVE s[j] \notin K
    <3>1. j - 1 \in 1..(n - 1) /\ i < j - 1
      BY <1>3, <2>2
    <3>2. t[j - 1] = s[(j - 1) + 1] /\ (j - 1) + 1 = j
      BY <1>3, <3>1
    <3> QED
      BY <1>4, <3>1, <3>2
  <2>3. s[i + 1] \in R
    BY <1>3, <2>1, <2>2 DEF Ends
  <2> QED
    BY <1>3, <2>3
<1>5. Ends(t, K, R)
  BY <1>3, <1>4 DEF Ends
<1>6. ASSUME Free(t, K)
      PROVE  IF Head(s) \in K THEN Head(s) \in R ELSE Free(s, K)
  <2>1. ASSUME NEW j \in 1..n, 1 < j PROVE s[j] \notin K
    <3>1. j - 1 \in 1..(n - 1)
      BY <1>3, <2>1
    <3>2. t[j - 1] = s[(j - 1) + 1] /\ (j - 1) + 1 = j
      BY <1>3, <3>1
    <3> QED
      BY <1>3, <1>6, <3>1, <3>2 DEF Free
  <2>2. 1 \in 1..n /\ \A j \in 1..n : j = 1 \/ 1 < j
    BY <1>3
  <2>3. CASE s[1] \in K
    <3>1. s[1] \in R
      BY <1>3, <2>1, <2>2, <2>3 DEF Ends
    <3> QED
      BY <1>3, <2>3, <3>1
  <2>4. CASE s[1] \notin K
    BY <1>3, <2>1, <2>2, <2>4 DEF Free
  <2> QED
    BY <2>3, <2>4
<1> QED
  BY <1>2, <1>5, <1>6

(* d is added to s.                                                        *)
LEMMA EndsExtended ==
    ASSUME NEW S, NEW s \in Seq(S), NEW d \in Seq(S), NEW K, NEW R,
           Ends(d, K, R), Free(d, K) => Ends(s, K, R)
    PROVE  Ends(s \o d, K, R) /\ (Free(s \o d, K) => Free(s, K) /\ Free(d, K))
<1>1. PICK n, m : n = Len(s) /\ m = Len(d)
  OBVIOUS
<1>2. PICK t : t = s \o d
  OBVIOUS
<1>3. /\ n \in Nat /\ m \in Nat /\ DOMAIN s = 1..n /\ DOMAIN d = 1..m /\ DOMAIN t = 1..(n + m)
      /\ \A i \in 1..n : t[i] = s[i]
  BY <1>1, <1>2, Concatenated
<1>4. \A i \in 1..m : t[n + i] = d[i]
  BY <1>1, <1>2, Concatenated
<1>5. \A i \in 1..n : i \in 1..(n + m)
  BY <1>3
<1>6. \A i \in 1..m : n + i \in 1..(n + m)
  BY <1>3
<1>7. ASSUME NEW i \in 1..(n + m), t[i] \in K, \A j \in 1..(n + m) : i < j => t[j] \notin K
      PROVE  t[i] \in R
  <2>1. CASE i \in 1..n
    <3>1. ASSUME NEW j \in 1..m PROVE d[j] \notin K
      <4>1. i < n + j
        BY <1>3, <2>1
      <4> QED
        BY <1>4, <1>6, <1>7, <4>1
    <3>2. Ends(s, K, R)
      BY <1>3, <3>1 DEF Free
    <3>3. \A j \in 1..n : i < j => s[j] \notin K
      BY <1>3, <1>5, <1>7
    <3>4. s[i] \in R
      BY <1>3, <1>7, <2>1, <3>2, <3>3 DEF Ends
    <3> QED
      BY <1>3, <2>1, <3>4
  <2>2. CASE i \notin 1..n
    <3>1. PICK k \in 1..m : i = n + k
      <4>1. i - n \in 1..m /\ i = n + (i - n)
        BY <1>3, <1>7, <2>2
      <4> QED
        BY <4>1
    <3>2. ASSUME NEW j \in 1..m, k < j PROVE d[j] \notin K
      <4>1. i < n + j
        BY <1>3, <3>1, <3>2
      <4> QED
        BY <1>4, <1>6, <1>7, <4>1
    <3>3. d[k] \in R
      BY <1>3, <1>4, <1>7, <3>1, <3>2 DEF Ends
    <3> QED
      BY <1>4, <3>1, <3>3
  <2> QED
    BY <2>1, <2>2
<1>8. Ends(t, K, R)
  BY <1>3, <1>7 DEF Ends
<1>9. ASSUME Free(t, K) PROVE Free(s, K) /\ Free(d, K)
  <2>1. Free(s, K)
    BY <1>3, <1>5, <1>9 DEF Free
  <2>2. Free(d, K)
    BY <1>3, <1>4, <1>6, <1>9 DEF Free
  <2> QED
    BY <2>1, <2>2
<1> QED
  BY <1>2, <1>8, <1>9

LEMMA NotBoth ==
    ASSUME NEW c, NEW p \in Told
    PROVE  /\ p \in Removing(c) => p \notin Listing(c) \cup Trusting(c) \cup Telling(c)
           /\ p \in Listing(c) => p \notin Trusting(c)
  BY DEF Removing, Listing, Trusting, Confirming, Informing, Telling

(* What was begun, or renewed, is so without the first stanza, and with    *)
(* more behind.                                                            *)
LEMMA FoundedWithoutFirst ==
    ASSUME NEW s \in Seq(Told), s # <<>>, NEW c, NEW n \in 1..Len(s), Renewed(s, c, n)
    PROVE  /\ Renewed(Tail(s), c, n - 1)
           /\ Begun(s, c, n) => Head(s) \in Listing(c) \/ Begun(Tail(s), c, n - 1)
           /\ Head(s) \in Removing(c) => Begun(Tail(s), c, n - 1)
<1>1. PICK t, l : t = Tail(s) /\ l = Len(s)
  OBVIOUS
<1>2. /\ l \in Nat /\ DOMAIN s = 1..l /\ Head(s) = s[1] /\ \A i \in 1..(l - 1) : t[i] = s[i + 1]
  BY <1>1, WithoutFirst
<1>3. n \in 1..l
  BY <1>1
<1>4. ASSUME NEW k \in 1..n, k # 1
      PROVE  k - 1 \in 1..(n - 1) /\ t[k - 1] = s[k]
  <2>1. k - 1 \in 1..(l - 1) /\ (k - 1) + 1 = k /\ k - 1 \in 1..(n - 1)
    BY <1>2, <1>3, <1>4
  <2> QED
    BY <1>2, <2>1
<1>5. ASSUME NEW j \in 1..(n - 1), t[j] \in Removing(c)
      PROVE  \E k \in j..(n - 1) : t[k] \in Listing(c)
  <2>1. j + 1 \in 1..n /\ j \in 1..(l - 1)
    BY <1>2, <1>3
  <2>2. s[j + 1] \in Removing(c)
    BY <1>2, <1>5, <2>1
  <2>3. PICK k \in (j + 1)..n : s[k] \in Listing(c)
    BY <2>1, <2>2 DEF Renewed
  <2>4. k \in 1..n /\ k # 1 /\ k - 1 \in j..(n - 1)
    BY <1>3, <2>3
  <2>5. t[k - 1] = s[k]
    BY <1>4, <2>4
  <2> QED
    BY <2>3, <2>4, <2>5
<1>6. ASSUME NEW k \in 1..n, s[k] \in Listing(c)
      PROVE  s[1] \in Listing(c) \/ Begun(t, c, n - 1)
  BY <1>4, <1>6 DEF Begun
<1>7. ASSUME s[1] \in Removing(c)
      PROVE  Begun(t, c, n - 1)
  <2>1. 1 \in 1..n
    BY <1>2, <1>3
  <2>2. PICK k \in 1..n : s[k] \in Listing(c)
    BY <1>7, <2>1 DEF Renewed
  <2>3. s[1] \notin Listing(c)
    BY <1>7, NotBoth DEF Removing
  <2> QED
    BY <1>6, <2>2, <2>3
<1>8. Renewed(t, c, n - 1)
  BY <1>5 DEF Renewed
<1>9. Begun(s, c, n) => s[1] \in Listing(c) \/ Begun(t, c, n - 1)
  BY <1>6 DEF Begun
<1> QED
  BY <1>1, <1>2, <1>7, <1>8, <1>9

LEMMA FoundedExtended ==
    ASSUME NEW s \in Seq(Told), NEW d \in Seq(Told), NEW c
    PROVE  /\ \A n \in 0..Len(s) : /\ Begun(s, c, n) => Begun(s \o d, c, n)
                                   /\ Renewed(s, c, n) => Renewed(s \o d, c, n)
           /\ Free(d, Removing(c)) =>
                 \A n \in Len(s)..(Len(s) + Len(d)) :
                    /\ Begun(s, c, Len(s)) => Begun(s \o d, c, n)
                    /\ Renewed(s, c, Len(s)) => Renewed(s \o d, c, n)
           /\ Free(d, Removing(c)) /\ (\E k \in DOMAIN d : d[k] \in Listing(c)) =>
                 Begun(s \o d, c, Len(s) + Len(d)) /\ Renewed(s \o d, c, Len(s) + Len(d))
<1>1. PICK l, m, t : l = Len(s) /\ m = Len(d) /\ t = s \o d
  OBVIOUS
<1>2. /\ l \in Nat /\ m \in Nat /\ DOMAIN d = 1..m
      /\ \A i \in 1..l : t[i] = s[i]
  BY <1>1, Concatenated
<1>3. \A i \in 1..m : t[l + i] = d[i]
  BY <1>1, Concatenated
<1>4. ASSUME NEW n \in 0..l
      PROVE  /\ Begun(s, c, n) => Begun(t, c, n)
             /\ Renewed(s, c, n) => Renewed(t, c, n)
  <2>1. \A k \in 1..n : t[k] = s[k]
    BY <1>2
  <2>2. \A j \in 1..n : \A k \in j..n : t[k] = s[k]
    BY <1>2
  <2>3. Begun(s, c, n) => Begun(t, c, n)
    BY <2>1 DEF Begun
  <2>4. Renewed(s, c, n) => Renewed(t, c, n)
    BY <2>1, <2>2 DEF Renewed
  <2> QED
    BY <2>3, <2>4
<1>5. ASSUME Free(d, Removing(c)), NEW n \in l..(l + m), NEW j \in 1..n, t[j] \in Removing(c)
      PROVE  j \in 1..l
  <2>1. CASE j \in 1..l
    BY <2>1
  <2>2. CASE j \notin 1..l
    <3>1. j - l \in 1..m /\ l + (j - l) = j
      BY <1>2, <1>5, <2>2
    <3>2. t[j] = d[j - l]
      BY <1>3, <3>1
    <3> QED
      BY <1>2, <1>5, <3>1, <3>2 DEF Free
  <2> QED
    BY <2>1, <2>2
<1>6. ASSUME Free(d, Removing(c)), NEW n \in l..(l + m)
      PROVE  /\ Begun(s, c, l) => Begun(t, c, n)
             /\ Renewed(s, c, l) => Renewed(t, c, n)
  <2>1. \A k \in 1..l : k \in 1..n /\ t[k] = s[k]
    BY <1>2, <1>6
  <2>2. Begun(s, c, l) => Begun(t, c, n)
    BY <2>1 DEF Begun
  <2>3. \A j \in 1..l : \A k \in j..l : k \in j..n /\ t[k] = s[k]
    BY <1>2, <1>6
  <2>4. ASSUME Renewed(s, c, l), NEW j \in 1..n, t[j] \in Removing(c)
        PROVE  \E k \in j..n : t[k] \in Listing(c)
    <3>1. j \in 1..l
      BY <1>5, <1>6, <2>4
    <3> QED
      BY <2>1, <2>3, <2>4, <3>1 DEF Renewed
  <2> QED
    BY <2>2, <2>4 DEF Renewed
<1>7. ASSUME Free(d, Removing(c)), NEW i \in DOMAIN d, d[i] \in Listing(c)
      PROVE  Begun(t, c, l + m) /\ Renewed(t, c, l + m)
  <2>1. l + i \in 1..(l + m) /\ t[l + i] = d[i]
    BY <1>2, <1>3, <1>7
  <2>2. \A j \in 1..l : l + i \in j..(l + m)
    BY <1>2, <2>1
  <2>3. Begun(t, c, l + m)
    BY <1>7, <2>1 DEF Begun
  <2>4. l + m \in l..(l + m)
    BY <1>2
  <2>5. Renewed(t, c, l + m)
    BY <1>5, <1>7, <2>1, <2>2, <2>4 DEF Renewed
  <2> QED
    BY <2>3, <2>5
<1> QED
  BY <1>1, <1>4, <1>6, <1>7

(* The first stanza arrives: what it has to do to what is shown of c.      *)
LEMMA TrackedWithoutFirst ==
    ASSUME toClient \in Seq(Told), toClient # <<>>, toClient' = Tail(toClient),
           UNCHANGED <<roster, presence, available>>,
           NEW c \in People, Tracked(c),
           Head(toClient) \in Listing(c) => c \in DOMAIN listed',
           Head(toClient) \notin Removing(c) /\ Known(c) => Known(c)',
           Head(toClient) \in Deciding(c) \cap Lists(c) =>
               c \in strays' \/ (c \in DOMAIN listed' <=> c \in DOMAIN roster),
           Head(toClient) \notin Deciding(c) =>
               c \in strays' \/ (UNCHANGED (c \in DOMAIN listed) /\ c \notin strays),
           Head(toClient) \in Fitting(c) /\ Claimed(c) =>
               (c \in DOMAIN listed' \ unseen' => Suits(c, listed'[c])),
           Head(toClient) \notin Telling(c) =>
               (c \in DOMAIN listed' \ unseen' => c \in DOMAIN listed \ unseen /\ listed'[c] = listed[c]),
           Head(toClient) = Push(c, "remove") => (c \in DOMAIN listed' => c \in strays')
    PROVE  Tracked(c)'
<1>1. PICK s, t, l : s = toClient /\ t = Tail(s) /\ l = Len(s)
  OBVIOUS
<1>2. /\ s \in Seq(Told) /\ s # <<>> /\ t \in Seq(Told) /\ l \in Nat /\ l >= 1 /\ Len(t) = l - 1
      /\ DOMAIN s = 1..l /\ DOMAIN t = 1..(l - 1) /\ Head(s) = s[1] /\ Head(s) \in Told
      /\ \A i \in 1..(l - 1) : t[i] = s[i + 1]
  BY <1>1, WithoutFirst, Listed
<1>3. /\ Lists(c)' = Lists(c) /\ Fitting(c)' = Fitting(c) /\ Claimed(c)' = Claimed(c)
      /\ \A status : Suits(c, status)' <=> Suits(c, status)
  BY DEF Lists, Fitting, Claimed, Suits, Telling, Listing, Informing, Confirming
<1>4. Decided(c)'
  <2>1. Ends(s, Deciding(c), Lists(c))
    BY <1>1 DEF Tracked, Decided
  <2>2. /\ Ends(t, Deciding(c), Lists(c))
        /\ Free(t, Deciding(c)) =>
              IF Head(s) \in Deciding(c) THEN Head(s) \in Lists(c) ELSE Free(s, Deciding(c))
    BY <1>1, <1>2, <2>1, EndsWithoutFirst
  <2>3. ASSUME Free(t, Deciding(c))
        PROVE  c \in strays' \/ (c \in DOMAIN listed' <=> c \in DOMAIN roster)
    <3>1. CASE Head(s) \in Deciding(c)
      BY <1>1, <2>2, <2>3, <3>1
    <3>2. CASE Head(s) \notin Deciding(c)
      BY <1>1, <2>2, <2>3, <3>2 DEF Tracked, Decided
    <3> QED
      BY <3>1, <3>2
  <2> QED
    BY <1>1, <1>3, <2>2, <2>3 DEF Decided
<1>5. ASSUME NEW n \in 1..l, Founded(c, n)
      PROVE  Founded(c, n - 1)'
  <2>1. Renewed(s, c, n) /\ (Known(c) \/ Begun(s, c, n))
    BY <1>1, <1>5 DEF Founded
  <2>2. /\ Renewed(t, c, n - 1)
        /\ Begun(s, c, n) => Head(s) \in Listing(c) \/ Begun(t, c, n - 1)
        /\ Head(s) \in Removing(c) => Begun(t, c, n - 1)
    BY <1>1, <1>2, <2>1, FoundedWithoutFirst
  <2>3. Head(s) \in Listing(c) => Known(c)'
    BY <1>1 DEF Known
  <2>4. Known(c)' \/ Begun(t, c, n - 1)
    BY <1>1, <2>1, <2>2, <2>3
  <2> QED
    BY <1>1, <2>2, <2>4 DEF Founded, Begun, Renewed
<1>6. Enrolled(c)'
  <2>1. ASSUME c \in DOMAIN roster
        PROVE  Founded(c, Len(toClient))'
    <3>1. Founded(c, l) /\ l \in 1..l
      BY <1>1, <1>2, <2>1 DEF Tracked, Enrolled
    <3> QED
      BY <1>1, <1>2, <1>5, <3>1 DEF Founded
  <2>2. ASSUME NEW i \in 1..(l - 1), t[i] \in Trusting(c)
        PROVE  Founded(c, i - 1)'
    <3>1. i + 1 \in 1..l /\ i \in 1..l /\ i = (i + 1) - 1 /\ s[i + 1] \in Trusting(c)
      BY <1>2, <2>2
    <3>2. Founded(c, (i + 1) - 1)
      BY <1>1, <1>2, <3>1 DEF Tracked, Enrolled
    <3> QED
      BY <1>5, <3>1, <3>2
  <2> QED
    BY <1>1, <1>2, <2>1, <2>2 DEF Enrolled, Trusting, Confirming, Informing
<1>7. Current(c)'
  <2>1. ASSUME Claimed(c)
        PROVE  /\ Ends(t, Telling(c), Fitting(c))
               /\ Free(t, Telling(c)) => (c \in DOMAIN listed' \ unseen' => Suits(c, listed'[c]))
    <3>1. /\ Ends(s, Telling(c), Fitting(c))
          /\ Free(s, Telling(c)) => (c \in DOMAIN listed \ unseen => Suits(c, listed[c]))
      BY <1>1, <2>1 DEF Tracked, Current
    <3>2. /\ Ends(t, Telling(c), Fitting(c))
          /\ Free(t, Telling(c)) =>
                IF Head(s) \in Telling(c) THEN Head(s) \in Fitting(c) ELSE Free(s, Telling(c))
      BY <1>1, <1>2, <3>1, EndsWithoutFirst
    <3>3. ASSUME Free(t, Telling(c)), c \in DOMAIN listed' \ unseen'
          PROVE  Suits(c, listed'[c])
      <4>1. CASE Head(s) \in Telling(c)
        BY <1>1, <2>1, <3>2, <3>3, <4>1
      <4>2. CASE Head(s) \notin Telling(c)
        BY <1>1, <3>1, <3>2, <3>3, <4>2
      <4> QED
        BY <4>1, <4>2
    <3> QED
      BY <3>2, <3>3
  <2>2. ASSUME Claimed(c)'
        PROVE  Ends(toClient, Telling(c), Fitting(c))'
    <3>1. Ends(t, Telling(c), Fitting(c))
      BY <1>3, <2>1, <2>2
    <3> QED
      BY <1>1, <1>3, <3>1 DEF Ends, Telling, Listing, Informing
  <2>3. ASSUME Claimed(c)', Free(toClient, Telling(c))', (c \in DOMAIN listed \ unseen)'
        PROVE  Suits(c, listed[c])'
    <3>1. Free(t, Telling(c))
      BY <1>1, <2>3 DEF Free, Telling, Listing, Informing
    <3>2. Suits(c, listed'[c])
      BY <1>3, <2>1, <2>3, <3>1
    <3> QED
      BY <3>2 DEF Suits
  <2> QED
    BY <2>2, <2>3 DEF Current
<1>8. Preceded(c)'
  <2>1. ASSUME NEW i \in 1..(l - 1), RemovalDone(t[i], c)
        PROVE  IF i = 1 THEN c \in DOMAIN listed' => c \in strays' ELSE t[i - 1] = Push(c, "remove")
    <3>1. i + 1 \in 1..l /\ i + 1 # 1 /\ (i + 1) - 1 = i /\ t[i] = s[i + 1]
      BY <1>2
    <3>2. s[(i + 1) - 1] = Push(c, "remove")
      BY <1>1, <1>2, <2>1, <3>1 DEF Tracked, Preceded
    <3>3. s[i] = Push(c, "remove")
      BY <3>1, <3>2
    <3>4. CASE i = 1
      BY <1>1, <1>2, <3>3, <3>4
    <3>5. CASE i # 1
      <4>1. i - 1 \in 1..(l - 1) /\ (i - 1) + 1 = i
        BY <1>2, <3>5
      <4> QED
        BY <1>2, <3>3, <3>5, <4>1
    <3> QED
      BY <3>4, <3>5
  <2> QED
    BY <1>1, <1>2, <2>1 DEF Preceded, RemovalDone, Removing
<1> QED
  BY <1>4, <1>6, <1>7, <1>8 DEF Tracked

(* d is sent: what it has to be for what is shown of c.                    *)
LEMMA TrackedExtended ==
    ASSUME toClient \in Seq(Told), NEW d \in Seq(Told), toClient' = toClient \o d,
           UNCHANGED <<listed, strays, unseen>>,
           NEW c \in People, Tracked(c),
           Ends(d, Deciding(c), Lists(c)'),
           Free(d, Deciding(c)) => UNCHANGED (c \in DOMAIN roster),
           c \in DOMAIN roster' =>
               /\ Free(d, Removing(c))
               /\ c \in DOMAIN roster \/ \E k \in DOMAIN d : d[k] \in Listing(c),
           Free(d, Trusting(c)) \/ (c \in DOMAIN roster /\ Free(d, Removing(c))),
           Claimed(c)' =>
               /\ Ends(d, Telling(c), Fitting(c)')
               /\ Free(d, Telling(c)) =>
                     /\ Ends(toClient, Telling(c), Fitting(c)')
                     /\ Free(toClient, Telling(c)) /\ c \in DOMAIN listed \ unseen =>
                           Suits(c, listed[c])',
           \A i \in DOMAIN d : RemovalDone(d[i], c) => i > 1 /\ d[i - 1] = Push(c, "remove")
    PROVE  Tracked(c)'
<1>1. PICK s, t, l, m : s = toClient /\ t = s \o d /\ l = Len(s) /\ m = Len(d)
  OBVIOUS
<1>2. /\ s \in Seq(Told) /\ l \in Nat /\ m \in Nat /\ Len(t) = l + m
      /\ DOMAIN s = 1..l /\ DOMAIN d = 1..m /\ DOMAIN t = 1..(l + m)
      /\ \A i \in 1..l : t[i] = s[i]
  BY <1>1, Concatenated
<1>3. \A i \in 1..m : t[l + i] = d[i]
  BY <1>1, Concatenated
<1>4. Decided(c)'
  <2>1. /\ Ends(s, Deciding(c), Lists(c))
        /\ Free(s, Deciding(c)) => c \in strays \/ (c \in DOMAIN listed <=> c \in DOMAIN roster)
    BY <1>1 DEF Tracked, Decided
  <2>2. Free(d, Deciding(c)) => Lists(c)' = Lists(c)
    BY DEF Lists, Listing, Confirming
  <2>3. /\ Ends(t, Deciding(c), Lists(c)')
        /\ Free(t, Deciding(c)) => Free(s, Deciding(c)) /\ Free(d, Deciding(c))
    BY <1>1, <1>2, <2>1, <2>2, EndsExtended
  <2>4. /\ Free(t, Deciding(c)) => c \in strays \/ (c \in DOMAIN listed <=> c \in DOMAIN roster')
    BY <2>1, <2>3
  <2> QED
    BY <1>1, <2>3, <2>4 DEF Decided, Deciding, Listing, Removing, Confirming, Ends, Free
<1>5. /\ \A n \in 0..l : /\ Begun(s, c, n) => Begun(t, c, n)
                         /\ Renewed(s, c, n) => Renewed(t, c, n)
      /\ Free(d, Removing(c)) =>
            \A n \in l..(l + m) : /\ Begun(s, c, l) => Begun(t, c, n)
                                  /\ Renewed(s, c, l) => Renewed(t, c, n)
      /\ Free(d, Removing(c)) /\ (\E k \in DOMAIN d : d[k] \in Listing(c)) =>
            Begun(t, c, l + m) /\ Renewed(t, c, l + m)
  BY <1>1, <1>2, FoundedExtended
<1>6. Known(c)' <=> Known(c)
  BY DEF Known
<1>7. \A n : Founded(c, n)' <=> (Known(c) \/ Begun(t, c, n)) /\ Renewed(t, c, n)
  BY <1>1, <1>6 DEF Founded, Begun, Renewed
<1>8. \A n : Founded(c, n) <=> (Known(c) \/ Begun(s, c, n)) /\ Renewed(s, c, n)
  BY <1>1 DEF Founded
<1>9. Enrolled(c)'
  <2>1. ASSUME c \in DOMAIN roster, Free(d, Removing(c)), NEW n \in l..(l + m)
        PROVE  Founded(c, n)'
    <3>1. Founded(c, l)
      BY <1>1, <2>1 DEF Tracked, Enrolled
    <3> QED
      BY <1>5, <1>7, <1>8, <2>1, <3>1
  <2>2. ASSUME c \in DOMAIN roster'
        PROVE  Founded(c, l + m)'
    <3>1. l + m \in l..(l + m)
      BY <1>2
    <3>2. CASE c \in DOMAIN roster
      BY <2>1, <2>2, <3>1, <3>2
    <3>3. CASE c \notin DOMAIN roster
      BY <1>5, <1>7, <2>2, <3>3
    <3> QED
      BY <3>2, <3>3
  <2>3. ASSUME NEW i \in 1..(l + m), t[i] \in Trusting(c)
        PROVE  Founded(c, i - 1)'
    <3>1. CASE i \in 1..l
      <4>1. s[i] \in Trusting(c) /\ i - 1 \in 0..l
        BY <1>2, <2>3, <3>1
      <4>2. Founded(c, i - 1)
        BY <1>1, <1>2, <3>1, <4>1 DEF Tracked, Enrolled
      <4> QED
        BY <1>5, <1>7, <1>8, <4>1, <4>2
    <3>2. CASE i \notin 1..l
      <4>1. i - l \in 1..m /\ l + (i - l) = i /\ i - 1 \in l..(l + m)
        BY <1>2, <2>3, <3>2
      <4>2. t[i] = d[i - l]
        BY <1>3, <4>1
      <4>3. ~Free(d, Trusting(c))
        BY <1>2, <2>3, <4>1, <4>2 DEF Free
      <4> QED
        BY <2>1, <4>1, <4>3
    <3> QED
      BY <3>1, <3>2
  <2> QED
    BY <1>1, <1>2, <2>2, <2>3 DEF Enrolled, Trusting, Confirming, Informing
<1>10. Current(c)'
  <2>1. ASSUME Claimed(c)'
        PROVE  /\ Ends(t, Telling(c), Fitting(c)')
               /\ Free(t, Telling(c)) => Free(s, Telling(c)) /\ Free(d, Telling(c))
    BY <1>1, <1>2, <2>1, EndsExtended
  <2>2. ASSUME Claimed(c)'
        PROVE  Ends(toClient, Telling(c), Fitting(c))'
    BY <1>1, <2>1, <2>2 DEF Ends, Telling, Listing, Informing
  <2>3. ASSUME Claimed(c)', Free(toClient, Telling(c))', (c \in DOMAIN listed \ unseen)'
        PROVE  Suits(c, listed[c])'
    <3>1. Free(t, Telling(c))
      BY <1>1, <2>3 DEF Free, Telling, Listing, Informing
    <3> QED
      BY <1>1, <2>1, <2>3, <3>1
  <2> QED
    BY <2>2, <2>3 DEF Current
<1>11. Preceded(c)'
  <2>1. ASSUME NEW i \in 1..(l + m), RemovalDone(t[i], c)
        PROVE  IF i = 1 THEN c \in DOMAIN listed => c \in strays ELSE t[i - 1] = Push(c, "remove")
    <3>1. CASE i \in 1..l
      <4>1. RemovalDone(s[i], c)
        BY <1>2, <2>1, <3>1
      <4>2. IF i = 1 THEN c \in DOMAIN listed => c \in strays ELSE s[i - 1] = Push(c, "remove")
        BY <1>1, <1>2, <3>1, <4>1 DEF Tracked, Preceded
      <4>3. i # 1 => i - 1 \in 1..l
        BY <1>2, <3>1
      <4> QED
        BY <1>2, <4>2, <4>3
    <3>2. CASE i \notin 1..l
      <4>1. i - l \in 1..m /\ l + (i - l) = i
        BY <1>2, <2>1, <3>2
      <4>2. t[i] = d[i - l]
        BY <1>3, <4>1
      <4>3. i - l > 1 /\ d[(i - l) - 1] = Push(c, "remove")
        BY <1>2, <2>1, <4>1, <4>2
      <4>4. (i - l) - 1 \in 1..m /\ l + ((i - l) - 1) = i - 1 /\ i # 1
        BY <1>2, <4>1, <4>3
      <4> QED
        BY <1>3, <4>3, <4>4
    <3> QED
      BY <3>1, <3>2
  <2> QED
    BY <1>1, <1>2, <2>1 DEF Preceded, RemovalDone, Removing
<1> QED
  BY <1>4, <1>9, <1>10, <1>11 DEF Tracked

(* Nothing is sent about c.                                                *)
LEMMA TrackedAside ==
    ASSUME toClient \in Seq(Told), NEW d \in Seq(Told), toClient' = toClient \o d,
           UNCHANGED <<listed, strays, unseen>>,
           NEW c \in People, Tracked(c), UNCHANGED (c \in DOMAIN roster),
           Free(d, Deciding(c)), Free(d, Trusting(c)),
           Claimed(c)' => /\ Claimed(c)
                          /\ roster'[c] = roster[c]
                          /\ roster[c] = "none" \/ presence'[c] = presence[c]
    PROVE  Tracked(c)'
<1>1. /\ \A i \in DOMAIN d : d[i] \notin Deciding(c)
      /\ \A i \in DOMAIN d : d[i] \notin Telling(c)
      /\ \A i \in DOMAIN d : d[i] \notin Removing(c)
  BY DEF Free, Deciding, Telling, Trusting
<1>2. /\ Ends(d, Deciding(c), Lists(c)') /\ Ends(d, Telling(c), Fitting(c)')
      /\ Free(d, Removing(c)) /\ \A i \in DOMAIN d : ~RemovalDone(d[i], c)
  BY <1>1 DEF Ends, Free, RemovalDone
<1>3. ASSUME Claimed(c)'
      PROVE  /\ Ends(toClient, Telling(c), Fitting(c)')
             /\ Free(toClient, Telling(c)) /\ c \in DOMAIN listed \ unseen => Suits(c, listed[c])'
  <2>1. /\ Claimed(c) /\ roster'[c] = roster[c]
        /\ roster[c] = "none" \/ presence'[c] = presence[c]
    BY <1>3
  <2>2. Fitting(c)' = Fitting(c)
    BY <2>1 DEF Fitting, Suits, Telling, Listing, Informing
  <2>3. /\ Ends(toClient, Telling(c), Fitting(c))
        /\ Free(toClient, Telling(c)) /\ c \in DOMAIN listed \ unseen => Suits(c, listed[c])
    BY <2>1 DEF Tracked, Current
  <2>4. Suits(c, listed[c]) => Suits(c, listed[c])'
    BY <2>1 DEF Suits
  <2> QED
    BY <2>2, <2>3, <2>4
<1> QED
  BY <1>2, <1>3, TrackedExtended

(* Each of the callbacks for a stanza.                                     *)
LEMMA TrackedByRoster ==
    ASSUME RosterInv, Interested, RosterIsHere, NEW c \in People
    PROVE  Tracked(c)'
<1>1. /\ toClient \in Seq(Told) /\ toClient # <<>> /\ toClient' = Tail(toClient)
      /\ UNCHANGED <<roster, presence, available, unseen>> /\ Tracked(c)
  BY DEF RosterInv, RosterTypes, RosterIsHere, Arrives, serverSide
<1>2. PICK p : p = Head(toClient)
  OBVIOUS
<1>3. p \in Told /\ p.kind = "roster" /\ 1 \in DOMAIN toClient /\ toClient[1] = p
  BY <1>1, <1>2, WithoutFirst, Listed DEF RosterIsHere, Arrives
<1>4. /\ p \in Listing(c) <=> c \in DOMAIN p.what
      /\ p \in Deciding(c) /\ p \notin Removing(c) /\ p \notin Confirming(c) /\ p \notin Informing(c)
  BY <1>3 DEF Listing, Deciding, Removing, Confirming, Informing
<1>5. DOMAIN listed \subseteq strays \cap unseen
  BY <1>3 DEF RosterInv, Phases, Unsure
<1>6. /\ listed' = Merged(p.what)
      /\ strays' = (strays \cap DOMAIN listed) \ DOMAIN p.what
  BY <1>2 DEF RosterIsHere
<1>7. /\ DOMAIN listed' = DOMAIN listed \cup DOMAIN p.what
      /\ c \in DOMAIN listed \ DOMAIN p.what => listed'[c] = listed[c]
      /\ c \in DOMAIN p.what \ DOMAIN listed => listed'[c] = Shown(p.what[c])
  BY <1>6 DEF Merged
<1>8. p \in Listing(c) => c \in DOMAIN listed'
  BY <1>4, <1>7
<1>9. Known(c) => Known(c)'
  BY <1>1, <1>7 DEF Known
<1>10. p \in Lists(c) => c \in strays' \/ (c \in DOMAIN listed' <=> c \in DOMAIN roster)
  BY <1>4, <1>5, <1>6, <1>7 DEF Lists
<1>11. p \in Fitting(c) => (c \in DOMAIN listed' \ unseen' => Suits(c, listed'[c]))
  <2>1. ASSUME p \in Fitting(c), c \in DOMAIN listed' \ unseen'
        PROVE  Suits(c, listed'[c])
    <3>1. c \in DOMAIN p.what /\ c \notin DOMAIN listed
      BY <1>1, <1>4, <1>5, <2>1 DEF Fitting, Telling
    <3>2. Suits(c, Shown(p.what[c]))
      BY <1>3, <2>1 DEF Fitting, StatusIn
    <3> QED
      BY <1>7, <3>1, <3>2
  <2> QED
    BY <2>1
<1>12. p \notin Telling(c) =>
          (c \in DOMAIN listed' \ unseen' => c \in DOMAIN listed \ unseen /\ listed'[c] = listed[c])
  BY <1>1, <1>4, <1>7 DEF Telling
<1>13. p # Push(c, "remove")
  BY <1>3 DEF Push, Stanza
<1> QED
  BY <1>1, <1>2, <1>4, <1>8, <1>9, <1>10, <1>11, <1>12, <1>13, TrackedWithoutFirst

LEMMA TrackedByPush ==
    ASSUME RosterInv, Interested, Pushed, NEW c \in People
    PROVE  Tracked(c)'
<1>1. /\ toClient \in Seq(Told) /\ toClient # <<>> /\ toClient' = Tail(toClient)
      /\ UNCHANGED <<roster, presence, available, unseen>> /\ Tracked(c)
  BY DEF RosterInv, RosterTypes, Pushed, Arrives, serverSide
<1>2. PICK p : p = Head(toClient)
  OBVIOUS
<1>3. p \in Told /\ p.kind = "push" /\ 1 \in DOMAIN toClient /\ toClient[1] = p
  BY <1>1, <1>2, WithoutFirst, Listed DEF Pushed, Arrives
<1>4. p.what \in {"none", "both", "remove"} /\ p.who \in People
  BY <1>3 DEF Told
<1>5. /\ p \in Listing(c) <=> p.who = c /\ p.what = "none"
      /\ p \in Removing(c) <=> p.who = c /\ p.what = "remove"
      /\ p \in Confirming(c) <=> p.who = c /\ p.what = "both"
      /\ p \notin Informing(c)
  BY <1>3 DEF Listing, Removing, Confirming, Informing
<1>6. p \in Deciding(c) <=> p.who = c
  BY <1>3, <1>4, <1>5 DEF Deciding
<1>7. CASE p.what = "remove"
  <2>1. UNCHANGED listed /\ strays' = strays \cup ({p.who} \cap DOMAIN listed)
    BY <1>2, <1>7 DEF Pushed
  <2>2. Known(c) => Known(c)'
    BY <1>1, <2>1 DEF Known
  <2>3. p \notin Telling(c)
    BY <1>5, <1>7 DEF Telling
  <2>4. p \in Deciding(c) \cap Lists(c) => c \in strays' \/ (c \in DOMAIN listed' <=> c \in DOMAIN roster)
    BY <1>5, <1>6, <1>7, <2>1 DEF Lists
  <2>5. p = Push(c, "remove") => (c \in DOMAIN listed' => c \in strays')
    BY <2>1 DEF Push, Stanza
  <2>6. p \notin Listing(c) /\ p \notin Fitting(c)
    BY <1>5, <1>7, <2>3 DEF Fitting
  <2> QED
    BY <1>1, <1>2, <2>1, <2>2, <2>3, <2>4, <2>5, <2>6, TrackedWithoutFirst
<1>8. CASE p.what # "remove"
  <2>1. listed' = Merged([d \in {p.who} |-> p.what]) /\ strays' = strays \ {p.who}
    BY <1>2, <1>8 DEF Pushed
  <2>2. /\ DOMAIN listed' = DOMAIN listed \cup {p.who}
        /\ c \in DOMAIN listed /\ (p.who # c \/ p.what # "none") => listed'[c] = listed[c]
        /\ c = p.who /\ p.what = "none" => listed'[c] = "noauth"
    BY <2>1 DEF Merged, Shown
  <2>3. Known(c) => Known(c)'
    BY <1>1, <2>2 DEF Known
  <2>4. p \in Deciding(c) \cap Lists(c) => c \in strays' \/ (c \in DOMAIN listed' <=> c \in DOMAIN roster)
    BY <1>4, <1>5, <1>6, <1>8, <2>2 DEF Lists
  <2>5. p \notin Deciding(c) => c \in strays' \/ (UNCHANGED (c \in DOMAIN listed) /\ c \notin strays)
    BY <1>6, <2>1, <2>2
  <2>6. p \in Fitting(c) => (c \in DOMAIN listed' \ unseen' => Suits(c, listed'[c]))
    BY <1>3, <1>5, <2>2 DEF Fitting, Telling, StatusIn
  <2>7. ASSUME p \notin Telling(c), c \in DOMAIN listed' \ unseen'
        PROVE  c \in DOMAIN listed \ unseen /\ listed'[c] = listed[c]
    <3>1. p.who # c \/ p.what # "none"
      BY <1>5, <2>7 DEF Telling
    <3>2. CASE c \in DOMAIN listed
      BY <1>1, <2>2, <2>7, <3>1, <3>2
    <3>3. CASE c \notin DOMAIN listed
      <4>1. p \in Trusting(c)
        BY <1>4, <1>5, <1>8, <2>2, <2>7, <3>1, <3>3 DEF Trusting
      <4>2. Founded(c, 1 - 1)
        BY <1>1, <1>3, <4>1 DEF Tracked, Enrolled
      <4>3. ~\E k \in 1..(1 - 1) : toClient[k] \in Listing(c)
        OBVIOUS
      <4> QED
        BY <1>1, <2>7, <3>3, <4>2, <4>3 DEF Founded, Begun, Known
    <3> QED
      BY <3>2, <3>3
  <2>8. p # Push(c, "remove") /\ (p \in Listing(c) => c \in DOMAIN listed')
    BY <1>5, <1>8, <2>2 DEF Push, Stanza
  <2> QED
    BY <1>1, <1>2, <2>3, <2>4, <2>5, <2>6, <2>7, <2>8, TrackedWithoutFirst
<1> QED
  BY <1>7, <1>8

LEMMA TrackedByAnswer ==
    ASSUME RosterInv, Interested, Answered, NEW c \in People
    PROVE  Tracked(c)'
<1>1. /\ toClient \in Seq(Told) /\ toClient # <<>> /\ toClient' = Tail(toClient)
      /\ UNCHANGED <<roster, presence, available>> /\ Tracked(c)
  BY DEF RosterInv, RosterTypes, Answered, Arrives, serverSide
<1>2. PICK p, at, e : p = Head(toClient) /\ at = Taken(p.id) /\ e = queue[at].data
  OBVIOUS
<1>3. p \in Told /\ p.kind = "result" /\ 1 \in DOMAIN toClient /\ toClient[1] = p
  BY <1>1, <1>2, WithoutFirst, Listed DEF Answered, Arrives
<1>4. /\ p \in Removing(c) <=> p.id = "roster_remove" /\ p.who = c
      /\ p \notin Listing(c) /\ p \notin Confirming(c) /\ p \notin Informing(c)
  BY <1>3 DEF Listing, Removing, Confirming, Informing
<1>5. p \in Deciding(c) <=> p \in Removing(c)
  BY <1>3, <1>4 DEF Deciding
<1>6. p \notin Telling(c) /\ p \notin Fitting(c) /\ p # Push(c, "remove")
  BY <1>3, <1>4 DEF Telling, Fitting, Push, Stanza
<1>7. p \in Deciding(c) \cap Lists(c) => c \notin DOMAIN roster
  BY <1>4, <1>5 DEF Lists
<1>8. p \in Removing(c) => (c \in DOMAIN listed => c \in strays)
  BY <1>1, <1>3 DEF Tracked, Preceded, RemovalDone
<1>9. CASE at = 0 \/ p.id # "roster_remove"
  <2>1. UNCHANGED <<listed, strays, unseen>>
    BY <1>2, <1>9 DEF Answered
  <2>2. Known(c) => Known(c)'
    BY <2>1 DEF Known
  <2>3. p \in Deciding(c) \cap Lists(c) => c \in strays' \/ (c \in DOMAIN listed' <=> c \in DOMAIN roster)
    BY <1>5, <1>7, <1>8, <2>1
  <2>4. p \notin Deciding(c) => c \in strays' \/ (UNCHANGED (c \in DOMAIN listed) /\ c \notin strays)
    BY <2>1
  <2>5. c \in DOMAIN listed' \ unseen' => c \in DOMAIN listed \ unseen /\ listed'[c] = listed[c]
    BY <2>1
  <2> QED
    BY <1>1, <1>2, <1>4, <1>6, <2>2, <2>3, <2>4, <2>5, TrackedWithoutFirst
<1>10. CASE ~(at = 0) /\ p.id = "roster_remove"
  <2>1. /\ listed' = [d \in DOMAIN listed \ {e} |-> listed[d]]
        /\ IF e = p.who THEN strays' = strays \ {e} /\ UNCHANGED unseen
           ELSE strays' = strays \cup {e, p.who} /\ unseen' = unseen \cup {e}
    BY <1>2, <1>10 DEF Answered
  <2>2. /\ c \in DOMAIN listed' <=> c \in DOMAIN listed /\ c # e
        /\ c \in DOMAIN listed' => listed'[c] = listed[c]
        /\ c \in unseen => c \in unseen'
    BY <2>1
  <2>3. p \notin Removing(c) /\ Known(c) => Known(c)'
    BY <1>4, <1>10, <2>1, <2>2 DEF Known
  <2>4. p \in Deciding(c) \cap Lists(c) => c \in strays' \/ (c \in DOMAIN listed' <=> c \in DOMAIN roster)
    BY <1>4, <1>5, <1>7, <2>1, <2>2
  <2>5. p \notin Deciding(c) => c \in strays' \/ (UNCHANGED (c \in DOMAIN listed) /\ c \notin strays)
    BY <1>4, <1>5, <1>10, <2>1, <2>2
  <2>6. c \in DOMAIN listed' \ unseen' => c \in DOMAIN listed \ unseen /\ listed'[c] = listed[c]
    BY <2>2
  <2> QED
    BY <1>1, <1>2, <1>4, <1>6, <2>3, <2>4, <2>5, <2>6, TrackedWithoutFirst
<1> QED
  BY <1>9, <1>10

LEMMA TrackedByError ==
    ASSUME RosterInv, Interested, Refused, NEW c \in People
    PROVE  Tracked(c)'
<1>1. /\ toClient \in Seq(Told) /\ toClient # <<>> /\ toClient' = Tail(toClient)
      /\ UNCHANGED <<roster, presence, available, listed, strays, unseen>> /\ Tracked(c)
  BY DEF RosterInv, RosterTypes, Refused, Arrives, serverSide
<1>2. PICK p : p = Head(toClient)
  OBVIOUS
<1>3. p \in Told /\ p.kind = "error"
  BY <1>1, <1>2, Listed DEF Refused, Arrives
<1>4. p \notin Listing(c) /\ p \notin Removing(c) /\ p \notin Confirming(c) /\ p \notin Informing(c)
  BY <1>3 DEF Listing, Removing, Confirming, Informing
<1>5. p \notin Deciding(c) /\ p \notin Telling(c) /\ p \notin Fitting(c) /\ p # Push(c, "remove")
  BY <1>3, <1>4 DEF Deciding, Telling, Fitting, Push, Stanza
<1> QED
  BY <1>1, <1>2, <1>4, <1>5, TrackedWithoutFirst DEF Known

LEMMA TrackedByPresence ==
    ASSUME RosterInv, Interested, PresenceIsHere, NEW c \in People
    PROVE  Tracked(c)'
<1>1. /\ toClient \in Seq(Told) /\ toClient # <<>> /\ toClient' = Tail(toClient)
      /\ UNCHANGED <<roster, presence, available, strays>> /\ Tracked(c)
  BY DEF RosterInv, RosterTypes, PresenceIsHere, Arrives, serverSide
<1>2. PICK p : p = Head(toClient)
  OBVIOUS
<1>3. p \in Told /\ p.kind = "presence"
  BY <1>1, <1>2, Listed DEF PresenceIsHere, Arrives
<1>4. /\ p \notin Listing(c) /\ p \notin Removing(c) /\ p \notin Confirming(c)
      /\ p \in Informing(c) <=> c \in DOMAIN p.what
  BY <1>3 DEF Listing, Removing, Confirming, Informing
<1>5. p \notin Deciding(c) /\ p # Push(c, "remove") /\ (p \in Telling(c) <=> c \in DOMAIN p.what)
  BY <1>3, <1>4 DEF Deciding, Telling, Push, Stanza
<1>6. /\ listed' = [d \in DOMAIN listed |-> IF d \in DOMAIN p.what THEN p.what[d] ELSE listed[d]]
      /\ unseen' = unseen \ (DOMAIN p.what \cap DOMAIN listed)
  BY <1>2 DEF PresenceIsHere
<1>7. /\ DOMAIN listed' = DOMAIN listed
      /\ c \in DOMAIN listed => listed'[c] = IF c \in DOMAIN p.what THEN p.what[c] ELSE listed[c]
  BY <1>6
<1>8. Known(c) => Known(c)'
  BY <1>6, <1>7 DEF Known
<1>9. p \in Fitting(c) => (c \in DOMAIN listed' \ unseen' => Suits(c, listed'[c]))
  BY <1>3, <1>5, <1>7 DEF Fitting, StatusIn
<1>10. p \notin Telling(c) =>
          (c \in DOMAIN listed' \ unseen' => c \in DOMAIN listed \ unseen /\ listed'[c] = listed[c])
  BY <1>5, <1>6, <1>7
<1> QED
  BY <1>1, <1>2, <1>4, <1>5, <1>7, <1>8, <1>9, <1>10, TrackedWithoutFirst

-----------------------------------------------------------------------------
(* What the server sends, and what it has to do with c.                    *)
LEMMA OfNobodyElse ==
    ASSUME NEW c \in People
    PROVE  /\ \A d \in People : \A sub :
                 LET p == Push(d, sub)
                 IN  p \in Told =>
                        /\ p \in Listing(c) <=> d = c /\ sub = "none"
                        /\ p \in Removing(c) <=> d = c /\ sub = "remove"
                        /\ p \in Confirming(c) <=> d = c /\ sub = "both"
                        /\ p \notin Informing(c)
                        /\ p \in Deciding(c) => d = c
                        /\ ~RemovalDone(p, c)
           /\ \A p \in Told : p.kind = "error" \/ (p.kind = "result" /\ (p.id = "roster_add" \/ p.who # c)) =>
                 p \notin Deciding(c) /\ p \notin Trusting(c) /\ p \notin Telling(c)
           /\ \A p \in Told : p.kind = "presence" =>
                 /\ p \notin Deciding(c) /\ (p \in Telling(c) <=> c \in DOMAIN p.what)
                 /\ p \in Trusting(c) <=> c \in DOMAIN p.what
<1>1. ASSUME NEW d \in People, NEW sub, Push(d, sub) \in Told
      PROVE  /\ Push(d, sub) \in Listing(c) <=> d = c /\ sub = "none"
             /\ Push(d, sub) \in Removing(c) <=> d = c /\ sub = "remove"
             /\ Push(d, sub) \in Confirming(c) <=> d = c /\ sub = "both"
             /\ Push(d, sub) \notin Informing(c)
             /\ Push(d, sub).kind = "push"
  BY <1>1 DEF Push, Stanza, Listing, Removing, Confirming, Informing
<1>2. ASSUME NEW d \in People, NEW sub, Push(d, sub) \in Told
      PROVE  (Push(d, sub) \in Deciding(c) => d = c) /\ ~RemovalDone(Push(d, sub), c)
  BY <1>1, <1>2 DEF Deciding, RemovalDone
<1>3. ASSUME NEW p \in Told,
             p.kind = "error" \/ (p.kind = "result" /\ (p.id = "roster_add" \/ p.who # c))
      PROVE  p \notin Deciding(c) /\ p \notin Trusting(c) /\ p \notin Telling(c)
  <2>1. p \notin Listing(c) /\ p \notin Removing(c) /\ p \notin Confirming(c) /\ p \notin Informing(c)
    BY <1>3 DEF Listing, Removing, Confirming, Informing
  <2> QED
    BY <1>3, <2>1 DEF Deciding, Trusting, Telling
<1>4. ASSUME NEW p \in Told, p.kind = "presence"
      PROVE  /\ p \notin Deciding(c) /\ (p \in Telling(c) <=> c \in DOMAIN p.what)
             /\ p \in Trusting(c) <=> c \in DOMAIN p.what
  <2>1. /\ p \notin Listing(c) /\ p \notin Removing(c) /\ p \notin Confirming(c)
        /\ p \in Informing(c) <=> c \in DOMAIN p.what
    BY <1>4 DEF Listing, Removing, Confirming, Informing
  <2> QED
    BY <1>4, <2>1 DEF Deciding, Trusting, Telling
<1> QED
  BY <1>1, <1>2, <1>3, <1>4

(* A change of one contact is pushed, and what follows is about nobody.    *)
LEMMA TrackedByChange ==
    ASSUME toClient \in Seq(Told), NEW d \in Seq(Told), toClient' = toClient \o d,
           UNCHANGED <<listed, strays, unseen, presence, available>>,
           NEW who \in People, NEW sub \in {"none", "both", "remove"},
           d # <<>>, d[1] = Push(who, sub),
           \A i \in DOMAIN d : i # 1 => d[i].kind = "result" /\ d[i].id = "roster_add",
           \A c \in People \ {who} : /\ UNCHANGED (c \in DOMAIN roster)
                                     /\ c \in DOMAIN roster => roster'[c] = roster[c],
           sub = "none" => who \in DOMAIN roster' /\ roster'[who] = "none",
           sub = "both" => who \in DOMAIN roster /\ roster' = roster /\ roster[who] = "both",
           sub = "remove" => who \notin DOMAIN roster',
           NEW c \in People, Tracked(c)
    PROVE  Tracked(c)'
<1>1. PICK n : n = Len(d)
  OBVIOUS
<1>2. n \in Nat /\ n >= 1 /\ DOMAIN d = 1..n /\ (\A i \in 1..n : d[i] \in Told) /\ 1 \in 1..n
  BY <1>1, WithoutFirst
<1>3. /\ d[1] \in Told /\ d[1] = Push(who, sub)
      /\ d[1] \in Listing(c) <=> who = c /\ sub = "none"
      /\ d[1] \in Removing(c) <=> who = c /\ sub = "remove"
      /\ d[1] \in Confirming(c) <=> who = c /\ sub = "both"
      /\ d[1] \notin Informing(c) /\ (d[1] \in Deciding(c) => who = c) /\ ~RemovalDone(d[1], c)
  BY <1>2, OfNobodyElse
<1>4. \A i \in 1..n : i # 1 => d[i] \notin Deciding(c) /\ d[i] \notin Trusting(c) /\ d[i] \notin Telling(c)
  BY <1>2, OfNobodyElse
<1>5. CASE who # c
  <2>1. \A i \in 1..n : d[i] \notin Deciding(c) /\ d[i] \notin Trusting(c)
    BY <1>3, <1>4, <1>5 DEF Trusting
  <2>2. Free(d, Deciding(c)) /\ Free(d, Trusting(c))
    BY <1>2, <2>1 DEF Free
  <2>3. Claimed(c)' => Claimed(c) /\ roster'[c] = roster[c]
    BY <1>5 DEF Claimed
  <2> QED
    BY <1>5, <2>2, <2>3, TrackedAside
<1>6. CASE who = c
  <2>1. d[1] \in Deciding(c) /\ (d[1] \in Telling(c) <=> sub = "none") /\ (d[1] \in Trusting(c) <=> sub = "both")
    BY <1>3, <1>6 DEF Deciding, Telling, Trusting
  <2>2. d[1] \in Lists(c)'
    BY <1>3, <1>6 DEF Lists, Listing, Confirming
  <2>3. Ends(d, Deciding(c), Lists(c)') /\ ~Free(d, Deciding(c))
    BY <1>2, <1>4, <2>1, <2>2 DEF Ends, Free
  <2>4. \A i \in 1..n : i # 1 => d[i] \notin Removing(c)
    BY <1>4 DEF Deciding
  <2>5. sub # "remove" => Free(d, Removing(c))
    BY <1>2, <1>3, <2>4 DEF Free
  <2>6. \A i \in DOMAIN d : ~RemovalDone(d[i], c)
    BY <1>2, <1>3, <2>4 DEF RemovalDone
  <2>7. sub # "both" => Free(d, Trusting(c))
    BY <1>2, <1>4, <2>1 DEF Free
  <2>8. CASE sub = "none"
    <3>1. d[1] \in Fitting(c)'
      <4>1. d[1] \in Telling(c) /\ StatusIn(d[1], c) = "noauth"
        BY <1>3, <2>1, <2>8 DEF StatusIn, Push, Stanza
      <4> QED
        BY <1>6, <2>8, <4>1 DEF Fitting, Suits, Telling, Listing, Informing, StatusIn
    <3>2. Ends(d, Telling(c), Fitting(c)') /\ ~Free(d, Telling(c))
      BY <1>2, <1>4, <2>1, <2>8, <3>1 DEF Ends, Free
    <3>3. \E k \in DOMAIN d : d[k] \in Listing(c)
      BY <1>2, <1>3, <1>6, <2>8
    <3> QED
      BY <2>3, <2>5, <2>6, <2>7, <2>8, <3>2, <3>3, TrackedExtended
  <2>9. CASE sub = "both"
    <3>1. Ends(d, Telling(c), Fitting(c)')
      BY <1>2, <1>4, <2>1, <2>9 DEF Ends
    <3>2. Fitting(c)' = Fitting(c) /\ (Claimed(c)' => Claimed(c)) /\ (Suits(c, listed[c]) => Suits(c, listed[c])')
      BY <2>9 DEF Fitting, Suits, Claimed, Telling, Listing, Informing
    <3>3. Claimed(c)' => /\ Ends(toClient, Telling(c), Fitting(c)')
                         /\ Free(toClient, Telling(c)) /\ c \in DOMAIN listed \ unseen => Suits(c, listed[c])'
      BY <3>2 DEF Tracked, Current
    <3>4. c \in DOMAIN roster /\ Free(d, Removing(c))
      BY <1>6, <2>5, <2>9
    <3> QED
      BY <2>3, <2>6, <3>1, <3>3, <3>4, TrackedExtended
  <2>10. CASE sub = "remove"
    <3>1. c \notin DOMAIN roster' /\ ~Claimed(c)'
      BY <1>6, <2>10 DEF Claimed
    <3>2. Free(d, Trusting(c))
      BY <2>7, <2>10
    <3> QED
      BY <2>3, <2>6, <3>1, <3>2, TrackedExtended
  <2> QED
    BY <2>8, <2>9, <2>10
<1> QED
  BY <1>5, <1>6

LEMMA TrackedFromRoster ==
    ASSUME RosterInv, ServesRoster, NEW c \in People
    PROVE  Tracked(c)'
<1>1. /\ toServer \in Seq(Asked) /\ toServer # <<>> /\ Head(toServer).id = "fetch_roster"
      /\ UNCHANGED <<roster, presence, available, listed, strays, unseen>>
      /\ toClient' = toClient \o <<RosterOf(Head(toServer))>>
  BY DEF RosterInv, RosterTypes, ServesRoster, Serves, Deliver, serverSide, histories
<1>2. PICK p : p = RosterOf(Head(toServer))
  OBVIOUS
<1>3. 1 \in DOMAIN toServer /\ toServer[1] = Head(toServer) /\ Head(toServer) \in Asked
  BY <1>1, WithoutFirst
<1>4. toClient = <<>> /\ ~available
  BY <1>1, <1>3 DEF RosterInv, Phases, Ready
<1>5. p \in Told /\ p.kind = "roster" /\ p.what = roster
  <2>1. p.kind = "roster" /\ p.what = roster
    BY <1>2 DEF RosterOf, Stanza
  <2>2. p \in Told
    BY <1>1, <1>2, <1>3, StanzasAre DEF RosterInv, RosterTypes
  <2> QED
    BY <2>1, <2>2
<1>6. toClient' = <<p>> /\ DOMAIN toClient' = {1} /\ toClient'[1] = p /\ Len(toClient') = 1
  BY <1>1, <1>2, <1>4
<1>7. /\ p \in Listing(c) <=> c \in DOMAIN roster
      /\ p \in Deciding(c) /\ p \notin Removing(c) /\ p \notin Confirming(c) /\ p \notin Informing(c)
  BY <1>5 DEF Listing, Deciding, Removing, Confirming, Informing
<1>8. Decided(c)'
  <2>1. p \in Lists(c)'
    BY <1>1, <1>5, <1>7 DEF Lists, Listing, Confirming
  <2>2. Ends(<<p>>, Deciding(c), Lists(c)') /\ ~Free(<<p>>, Deciding(c))
    BY <1>7, <2>1 DEF Ends, Free
  <2> QED
    BY <1>6, <2>2 DEF Decided, Ends, Free, Deciding, Listing, Removing, Confirming
<1>9. Enrolled(c)'
  <2>1. ASSUME c \in DOMAIN roster
        PROVE  Founded(c, 1)'
    <3>1. Begun(<<p>>, c, 1) /\ Renewed(<<p>>, c, 1)
      BY <1>7, <2>1 DEF Begun, Renewed
    <3> QED
      BY <1>6, <3>1 DEF Founded, Begun, Renewed
  <2>2. \A i \in DOMAIN toClient' : toClient'[i] \notin Trusting(c)
    BY <1>6, <1>7 DEF Trusting
  <2> QED
    BY <1>1, <1>6, <2>1, <2>2 DEF Enrolled, Founded, Trusting, Confirming, Informing
<1>10. Current(c)'
  <2>1. ASSUME Claimed(c)'
        PROVE  Ends(<<p>>, Telling(c), Fitting(c)') /\ ~Free(<<p>>, Telling(c))
    <3>1. c \in DOMAIN roster /\ roster[c] = "none"
      <4>1. roster[c] \in {"none", "both"} \/ c \notin DOMAIN roster
        BY RostersAre DEF RosterInv, RosterTypes
      <4> QED
        BY <1>1, <1>4, <2>1, <4>1 DEF Claimed
    <3>2. p \in Telling(c)
      BY <1>7, <3>1 DEF Telling
    <3>3. StatusIn(p, c) = "noauth"
      BY <1>5, <3>1 DEF StatusIn, Shown
    <3>4. p \in Fitting(c)'
      BY <1>1, <3>1, <3>2, <3>3 DEF Fitting, Suits, Telling, Listing, Informing, StatusIn
    <3> QED
      BY <3>2, <3>4 DEF Ends, Free
  <2> QED
    BY <1>6, <2>1 DEF Current, Ends, Free, Telling, Listing, Informing
<1>11. Preceded(c)'
  BY <1>5, <1>6 DEF Preceded, RemovalDone
<1> QED
  BY <1>8, <1>9, <1>10, <1>11 DEF Tracked

LEMMA TrackedFromPresence ==
    ASSUME RosterInv, RosterTypes', Interested, ServesPresence, NEW c \in People
    PROVE  Tracked(c)'
<1>1. /\ toClient \in Seq(Told) /\ toServer \in Seq(Asked) /\ toServer # <<>>
      /\ Head(toServer).id = "presence" /\ Tracked(c)
      /\ UNCHANGED <<roster, presence, listed, strays, unseen>> /\ available'
  BY DEF RosterInv, RosterTypes, ServesPresence, Serves, histories
<1>2. PICK cs \in SUBSET Granted : /\ {d \in Granted : presence[d] = "on"} \subseteq cs
                                   /\ Deliver(IF cs = {} THEN <<>> ELSE <<Report(cs)>>)
  BY DEF ServesPresence
<1>3. Report(cs) \in Told
  <2>1. cs \in SUBSET People
    BY <1>2, RostersAre DEF RosterInv, RosterTypes, Granted
  <2> QED
    BY <2>1, ViewsAre DEF RosterTypes
<1>4. PICK d : d = IF cs = {} THEN <<>> ELSE <<Report(cs)>>
  OBVIOUS
<1>5. d \in Seq(Told) /\ toClient' = toClient \o d
  BY <1>2, <1>3, <1>4 DEF Deliver
<1>6. PICK p : p = Report(cs)
  OBVIOUS
<1>7. p \in Told /\ p.kind = "presence" /\ DOMAIN p.what = cs /\ \A b \in cs : p.what[b] = presence'[b]
  BY <1>3, <1>6 DEF Report, Stanza
<1>8. /\ p \notin Deciding(c) /\ ~RemovalDone(p, c)
      /\ p \in Telling(c) <=> c \in cs
      /\ p \in Trusting(c) <=> c \in cs
  BY <1>7, OfNobodyElse DEF RemovalDone
<1>9. (d = <<>> /\ cs = {}) \/ (d = <<p>> /\ cs # {})
  BY <1>4, <1>6
<1>10. /\ Free(d, Deciding(c)) /\ Free(d, Removing(c)) /\ Ends(d, Deciding(c), Lists(c)')
       /\ \A i \in DOMAIN d : ~RemovalDone(d[i], c)
  BY <1>8, <1>9 DEF Free, Ends, Deciding
<1>11. CASE c \in cs
  <2>1. d = <<p>> /\ c \in DOMAIN roster /\ roster[c] = "both"
    BY <1>2, <1>9, <1>11 DEF Granted
  <2>2. p \in Fitting(c)'
    <3>1. p \in Telling(c) /\ StatusIn(p, c) = presence'[c]
      BY <1>7, <1>8, <1>11 DEF StatusIn
    <3> QED
      BY <1>1, <2>1, <3>1 DEF Fitting, Suits, Telling, Listing, Informing, StatusIn
  <2>3. Ends(d, Telling(c), Fitting(c)') /\ ~Free(d, Telling(c))
    BY <1>8, <1>11, <2>1, <2>2 DEF Ends, Free
  <2> QED
    BY <1>1, <1>5, <1>10, <2>1, <2>3, TrackedExtended
<1>12. CASE c \notin cs
  <2>1. Free(d, Telling(c)) /\ Free(d, Trusting(c))
    BY <1>8, <1>9, <1>12 DEF Free
  <2>2. CASE Claimed(c)' => Claimed(c)
    BY <1>1, <1>5, <1>10, <2>1, <2>2, TrackedAside
  <2>3. CASE Claimed(c)' /\ ~Claimed(c)
    <3>1. c \in Granted /\ ~available /\ roster[c] = "both"
      BY <1>1, <2>3 DEF Claimed, Granted
    <3>2. presence[c] = "off"
      BY <1>2, <1>12, <3>1 DEF RosterInv, RosterTypes
    <3>3. 1 \in DOMAIN toServer /\ toServer[1].id = "presence"
      BY <1>1, WithoutFirst
    <3>4. \A i \in DOMAIN toClient : toClient[i].kind \notin {"presence", "roster"}
      BY <3>1, <3>3 DEF RosterInv, Phases, Ready, Quiet
    <3>5. \A status : status \in {"off", "noauth"} => Suits(c, status)'
      BY <1>1, <3>1, <3>2 DEF Suits
    <3>6. ASSUME NEW i \in DOMAIN toClient, toClient[i] \in Telling(c)
          PROVE  toClient[i] \in Fitting(c)'
      <4>1. toClient[i].kind = "push"
        BY <3>4, <3>6 DEF Telling, Listing, Informing
      <4>2. StatusIn(toClient[i], c) = "noauth"
        BY <4>1 DEF StatusIn
      <4> QED
        BY <1>1, <3>1, <3>2, <3>6, <4>2 DEF Fitting, Suits, Telling, Listing, Informing, StatusIn
    <3>7. Ends(toClient, Telling(c), Fitting(c)')
      BY <3>6 DEF Ends
    <3>8. c \in DOMAIN listed \ unseen => Suits(c, listed[c])'
      BY <1>1, <3>1, <3>2 DEF RosterInv, Quiet, Suits
    <3>9. Ends(d, Telling(c), Fitting(c)')
      BY <2>1 DEF Ends, Free
    <3> QED
      BY <1>1, <1>5, <1>10, <2>1, <3>1, <3>7, <3>8, <3>9, TrackedExtended DEF Granted
  <2> QED
    BY <2>2, <2>3
<1> QED
  BY <1>11, <1>12 DEF RosterInv

LEMMA TrackedFromRequests ==
    ASSUME RosterInv, RosterTypes', Interested, ServesAdd \/ ServesRemove, NEW c \in People
    PROVE  Tracked(c)'
<1>1. /\ toClient \in Seq(Told) /\ toServer \in Seq(Asked) /\ toServer # <<>> /\ roster \in Rosters
      /\ UNCHANGED <<presence, available, listed, strays, unseen>> /\ Tracked(c)
  BY DEF RosterInv, RosterTypes, ServesAdd, ServesRemove, Serves, histories
<1>2. PICK request \in Asked : request = Head(toServer)
  BY <1>1, WithoutFirst, Listed
<1>3. \A p, q \in Told : <<p>> \in Seq(Told) /\ <<p, q>> \in Seq(Told)
  OBVIOUS
<1>4. CASE ServesAdd
  <2>1. request.id = "roster_add" /\ request.who \in People /\ Answer("result", request) \in Told
    BY <1>2, <1>4, StanzasAre DEF ServesAdd, Serves
  <2>2. PICK who \in People : who = request.who
    BY <2>1
  <2>3. /\ roster' = IF who \in DOMAIN roster THEN roster ELSE With(who)
        /\ toClient' = toClient \o <<Push(who, roster'[who]), Answer("result", request)>>
    BY <1>2, <1>4, <2>2 DEF ServesAdd, Deliver
  <2>4. /\ who \in DOMAIN roster' /\ roster'[who] \in {"none", "both"}
        /\ \A b \in People \ {who} : /\ UNCHANGED (b \in DOMAIN roster)
                                     /\ b \in DOMAIN roster => roster'[b] = roster[b]
    <3>1. CASE who \in DOMAIN roster
      BY <1>1, <2>3, <3>1, RostersAre
    <3>2. CASE who \notin DOMAIN roster
      BY <2>3, <3>2 DEF With
    <3> QED
      BY <3>1, <3>2
  <2>5. PICK sub \in {"none", "both"} : sub = roster'[who]
    BY <2>4
  <2>6. Push(who, sub) \in Told
    BY StanzasAre
  <2>7. PICK d : d = <<Push(who, sub), Answer("result", request)>>
    OBVIOUS
  <2>8. d \in Seq(Told) /\ toClient' = toClient \o d
    BY <1>3, <2>1, <2>3, <2>5, <2>6, <2>7
  <2>9. d # <<>> /\ d[1] = Push(who, sub) /\ DOMAIN d = {1, 2} /\ d[2] = Answer("result", request)
    BY <2>7
  <2>10. \A i \in DOMAIN d : i # 1 => d[i].kind = "result" /\ d[i].id = "roster_add"
    BY <2>1, <2>9 DEF Answer, Stanza
  <2>11. sub = "both" => who \in DOMAIN roster /\ roster' = roster /\ roster[who] = "both"
    BY <2>3, <2>5 DEF With
  <2> QED
    BY <1>1, <2>4, <2>5, <2>8, <2>9, <2>10, <2>11, TrackedByChange
<1>5. CASE ServesRemove
  <2>1. /\ request.id = "roster_remove" /\ request.who \in People
        /\ Answer("result", request) \in Told /\ Answer("error", request) \in Told
    BY <1>2, <1>5, StanzasAre DEF ServesRemove, Serves
  <2>2. PICK who \in People : who = request.who
    BY <2>1
  <2>3. CASE who \notin DOMAIN roster
    <3>1. PICK d : d = <<Answer("error", request)>>
      OBVIOUS
    <3>2. d \in Seq(Told) /\ toClient' = toClient \o d /\ roster' = roster
      BY <1>2, <1>3, <1>5, <2>1, <2>2, <2>3, <3>1 DEF ServesRemove, Deliver
    <3>3. DOMAIN d = {1} /\ d[1] \in Told /\ d[1].kind = "error"
      BY <2>1, <3>1 DEF Answer, Stanza
    <3>4. Free(d, Deciding(c)) /\ Free(d, Trusting(c))
      BY <3>3, OfNobodyElse DEF Free
    <3>5. Claimed(c)' => Claimed(c)
      BY <1>1, <3>2 DEF Claimed
    <3> QED
      BY <1>1, <3>2, <3>4, <3>5, TrackedAside
  <2>4. CASE who \in DOMAIN roster
    <3>1. PICK d : d = <<Push(who, "remove"), Answer("result", request)>>
      OBVIOUS
    <3>2. /\ toClient' = toClient \o d /\ roster' = Without(who)
      BY <1>2, <1>5, <2>2, <2>4, <3>1 DEF ServesRemove, Deliver
    <3>3. /\ d \in Seq(Told) /\ DOMAIN d = {1, 2} /\ d[1] = Push(who, "remove")
          /\ d[1] \in Told /\ d[2] \in Told
          /\ d[2].kind = "result" /\ d[2].id = "roster_remove" /\ d[2].who = who
      BY <1>3, <2>1, <2>2, <3>1, StanzasAre DEF Answer, Stanza
    <3>4. /\ who \notin DOMAIN roster'
          /\ c # who => /\ UNCHANGED (c \in DOMAIN roster)
                        /\ c \in DOMAIN roster => roster'[c] = roster[c]
      BY <3>2 DEF Without
    <3>5. /\ d[1] \notin Listing(c) /\ d[1] \notin Confirming(c) /\ d[1] \notin Informing(c)
          /\ d[1] \in Removing(c) <=> who = c
          /\ d[1] \in Deciding(c) => who = c
          /\ ~RemovalDone(d[1], c)
      BY <3>3, OfNobodyElse
    <3>6. /\ d[2] \notin Listing(c) /\ d[2] \notin Confirming(c) /\ d[2] \notin Informing(c)
          /\ d[2] \in Removing(c) <=> who = c
          /\ d[2] \in Deciding(c) => who = c
      BY <3>3 DEF Listing, Confirming, Informing, Removing, Deciding
    <3>7. Free(d, Trusting(c)) /\ Free(d, Telling(c))
      BY <3>3, <3>5, <3>6 DEF Free, Trusting, Telling
    <3>8. CASE who # c
      <4>1. Free(d, Deciding(c))
        BY <3>3, <3>5, <3>6, <3>8 DEF Free
      <4>2. Claimed(c)' => Claimed(c)
        BY <1>1, <3>4, <3>8 DEF Claimed
      <4>3. Claimed(c)' => roster'[c] = roster[c]
        BY <3>4, <3>8 DEF Claimed
      <4> QED
        BY <1>1, <3>2, <3>3, <3>4, <3>7, <3>8, <4>1, <4>2, <4>3, TrackedAside
    <3>9. CASE who = c
      <4>1. c \notin DOMAIN roster' /\ ~Claimed(c)'
        BY <3>4, <3>9 DEF Claimed
      <4>2. d[1] \in Lists(c)' /\ d[2] \in Lists(c)'
        BY <3>3, <3>5, <3>6, <4>1 DEF Lists, Listing, Confirming
      <4>3. d[1] \in Deciding(c)
        BY <3>5, <3>9 DEF Deciding
      <4>4. Ends(d, Deciding(c), Lists(c)') /\ ~Free(d, Deciding(c))
        BY <3>3, <4>2, <4>3 DEF Ends, Free
      <4>5. \A i \in DOMAIN d : RemovalDone(d[i], c) => i > 1 /\ d[i - 1] = Push(c, "remove")
        BY <3>3, <3>5, <3>9
      <4> QED
        BY <1>1, <3>2, <3>3, <3>7, <4>1, <4>4, <4>5, TrackedExtended
    <3> QED
      BY <3>8, <3>9
  <2> QED
    BY <2>3, <2>4
<1> QED
  BY <1>4, <1>5

LEMMA TrackedElsewhere ==
    ASSUME RosterInv, RosterTypes', Interested, NEW who \in People,
           AddedElsewhere(who) \/ RemovedElsewhere(who) \/ Withdraws(who), NEW c \in People
    PROVE  Tracked(c)'
<1>1. /\ toClient \in Seq(Told) /\ roster \in Rosters /\ Tracked(c)
      /\ UNCHANGED <<presence, available, listed, strays, unseen>>
  BY DEF RosterInv, RosterTypes, AddedElsewhere, RemovedElsewhere, Withdraws, Elsewhere, histories
<1>2. PICK sub \in {"none", "remove"} :
         /\ toClient' = toClient \o <<Push(who, sub)>>
         /\ sub = "remove" => roster' = Without(who)
         /\ sub = "none" => \/ roster' = With(who)
                            \/ who \in DOMAIN roster /\ roster' = [roster EXCEPT ![who] = "none"]
  BY DEF AddedElsewhere, RemovedElsewhere, Withdraws, Elsewhere, Deliver, Granted
<1>3. PICK d : d = <<Push(who, sub)>>
  OBVIOUS
<1>4. Push(who, sub) \in Told
  BY StanzasAre
<1>5. d \in Seq(Told) /\ d # <<>> /\ d[1] = Push(who, sub) /\ \A i \in DOMAIN d : i = 1
  BY <1>3, <1>4
<1>6. sub = "remove" => who \notin DOMAIN roster'
  BY <1>2 DEF Without
<1>7. sub = "none" => who \in DOMAIN roster' /\ roster'[who] = "none"
  <2>1. CASE roster' = With(who)
    BY <2>1 DEF With
  <2>2. CASE who \in DOMAIN roster /\ roster' = [roster EXCEPT ![who] = "none"]
    BY <1>1, <2>2 DEF Rosters
  <2> QED
    BY <1>2, <2>1, <2>2
<1>8. ASSUME NEW b \in People \ {who}
      PROVE  UNCHANGED (b \in DOMAIN roster) /\ (b \in DOMAIN roster => roster'[b] = roster[b])
  <2>1. CASE roster' = With(who)
    BY <1>8, <2>1 DEF With
  <2>2. CASE roster' = Without(who)
    BY <1>8, <2>2 DEF Without
  <2>3. CASE roster' = [roster EXCEPT ![who] = "none"]
    BY <1>1, <1>8, <2>3 DEF Rosters
  <2> QED
    BY <1>2, <2>1, <2>2, <2>3
<1>9. \A b \in People \ {who} : /\ UNCHANGED (b \in DOMAIN roster)
                                /\ b \in DOMAIN roster => roster'[b] = roster[b]
  BY <1>8
<1> QED
  BY <1>1, <1>2, <1>3, <1>5, <1>6, <1>7, <1>9, TrackedByChange

LEMMA TrackedByAuthorization ==
    ASSUME RosterInv, RosterTypes', Interested, NEW who \in People, Authorizes(who), NEW c \in People
    PROVE  Tracked(c)'
<1>1. /\ toClient \in Seq(Told) /\ roster \in Rosters /\ Tracked(c)
      /\ UNCHANGED <<presence, available, listed, strays, unseen>>
      /\ presence \in [People -> {"on", "off"}]
  BY DEF RosterInv, RosterTypes, Authorizes, Elsewhere, histories
<1>2. who \in DOMAIN roster /\ roster[who] = "none"
  BY <1>1, RostersAre DEF Authorizes, Granted
<1>3. roster' = [roster EXCEPT ![who] = "both"]
  BY DEF Authorizes, Elsewhere
<1>4. /\ DOMAIN roster' = DOMAIN roster /\ roster'[who] = "both"
      /\ \A b \in DOMAIN roster \ {who} : roster'[b] = roster[b]
  BY <1>1, <1>2, <1>3 DEF Rosters
<1>5. PICK p, q : p = Push(who, "both") /\ q = Report({who})
  OBVIOUS
<1>6. p \in Told /\ q \in Told /\ q.kind = "presence" /\ DOMAIN q.what = {who} /\ q.what[who] = presence'[who]
  <2>1. q \in Told
    BY <1>1, <1>5, ViewsAre
  <2>2. q.kind = "presence" /\ q.what = [b \in {who} |-> presence'[b]]
    BY <1>5 DEF Report, Stanza
  <2> QED
    BY <1>5, <2>1, <2>2, StanzasAre
<1>7. PICK d : d = IF available /\ presence[who] = "on" THEN <<p, q>> ELSE <<p>>
  OBVIOUS
<1>8. d \in Seq(Told) /\ toClient' = toClient \o d
  <2>1. <<p>> \in Seq(Told) /\ <<p, q>> \in Seq(Told)
    BY <1>6
  <2>2. Deliver(d)
    BY <1>5, <1>7 DEF Authorizes, Elsewhere
  <2> QED
    BY <1>7, <2>1, <2>2 DEF Deliver
<1>9. /\ p \notin Listing(c) /\ p \notin Removing(c) /\ p \notin Informing(c) /\ ~RemovalDone(p, c)
      /\ p \in Confirming(c) <=> who = c
      /\ p \in Deciding(c) => who = c
  BY <1>5, <1>6, OfNobodyElse
<1>10. /\ q \notin Deciding(c) /\ (q \in Telling(c) <=> c = who) /\ (q \in Trusting(c) <=> c = who)
  BY <1>6, OfNobodyElse
<1>11. p \notin Telling(c) /\ ~RemovalDone(q, c) /\ q \notin Removing(c)
  BY <1>9, <1>10 DEF Telling, RemovalDone, Deciding
<1>12. \/ DOMAIN d = {1} /\ d[1] = p /\ ~(available /\ presence[who] = "on")
       \/ DOMAIN d = {1, 2} /\ d[1] = p /\ d[2] = q /\ available /\ presence[who] = "on"
  BY <1>7
<1>13. CASE who # c
  <2>1. p \notin Trusting(c)
    BY <1>9, <1>13 DEF Trusting
  <2>2. Free(d, Deciding(c)) /\ Free(d, Trusting(c))
    BY <1>9, <1>10, <1>12, <1>13, <2>1 DEF Free
  <2>3. Claimed(c)' => Claimed(c) /\ roster'[c] = roster[c]
    BY <1>1, <1>4, <1>13 DEF Claimed
  <2> QED
    BY <1>1, <1>4, <1>8, <2>2, <2>3, TrackedAside
<1>14. CASE who = c
  <2>1. p \in Deciding(c) /\ p \in Lists(c)'
    BY <1>2, <1>4, <1>6, <1>9, <1>14 DEF Deciding, Lists, Confirming, Listing
  <2>2. Ends(d, Deciding(c), Lists(c)') /\ ~Free(d, Deciding(c))
    BY <1>10, <1>12, <2>1 DEF Ends, Free
  <2>3. Free(d, Removing(c)) /\ \A i \in DOMAIN d : ~RemovalDone(d[i], c)
    BY <1>9, <1>11, <1>12 DEF Free
  <2>4. ASSUME available, presence[c] = "on"
        PROVE  Ends(d, Telling(c), Fitting(c)') /\ ~Free(d, Telling(c))
    <3>1. q \in Telling(c) /\ StatusIn(q, c) = presence'[c]
      BY <1>6, <1>10, <1>14 DEF StatusIn
    <3>2. q \in Fitting(c)'
      BY <1>4, <1>14, <3>1 DEF Fitting, Suits, Telling, Listing, Informing, StatusIn
    <3> QED
      BY <1>11, <1>12, <1>14, <2>4, <3>1, <3>2 DEF Ends, Free
  <2>5. ASSUME ~(available /\ presence[c] = "on"), Claimed(c)'
        PROVE  /\ Ends(d, Telling(c), Fitting(c)')
               /\ Ends(toClient, Telling(c), Fitting(c)')
               /\ Free(toClient, Telling(c)) /\ c \in DOMAIN listed \ unseen => Suits(c, listed[c])'
    <3>1. presence[c] = "off"
      BY <1>1, <1>4, <1>14, <2>5 DEF Claimed
    <3>2. \A status : status = "noauth" => Suits(c, status)'
      BY <1>1, <1>4, <1>14, <3>1 DEF Suits
    <3>3. Claimed(c)
      BY <1>2, <1>14 DEF Claimed
    <3>4. /\ Ends(toClient, Telling(c), Fitting(c))
          /\ Free(toClient, Telling(c)) => (c \in DOMAIN listed \ unseen => Suits(c, listed[c]))
      BY <1>1, <3>3 DEF Tracked, Current
    <3>5. \A r \in Fitting(c) : r \in Fitting(c)'
      BY <1>1, <1>2, <1>4, <1>14, <3>1 DEF Fitting, Suits, Telling, Listing, Informing, StatusIn
    <3>6. Ends(toClient, Telling(c), Fitting(c)')
      BY <3>4, <3>5 DEF Ends
    <3>7. Suits(c, listed[c]) => Suits(c, listed[c])'
      BY <1>1, <1>2, <1>4, <1>14, <3>1 DEF Suits
    <3>8. Ends(d, Telling(c), Fitting(c)')
      BY <1>11, <1>12, <1>14, <2>5 DEF Ends
    <3> QED
      BY <3>4, <3>6, <3>7, <3>8
  <2> QED
    BY <1>1, <1>2, <1>8, <1>14, <2>2, <2>3, <2>4, <2>5, TrackedExtended
<1> QED
  BY <1>13, <1>14

LEMMA TrackedByComing ==
    ASSUME RosterInv, RosterTypes', NEW who \in People, ComesOrGoes(who), NEW c \in People, Tracked(c)
    PROVE  Tracked(c)'
<1>1. /\ toClient \in Seq(Told) /\ roster \in Rosters
      /\ UNCHANGED <<roster, available, listed, strays, unseen>>
      /\ \A b \in People \ {who} : presence'[b] = presence[b]
  BY DEF RosterInv, RosterTypes, ComesOrGoes, histories
<1>2. CASE ~(available /\ who \in Granted)
  <2>1. <<>> \in Seq(Told) /\ toClient' = toClient \o <<>>
    BY <1>1, <1>2 DEF ComesOrGoes
  <2>2. Free(<<>>, Deciding(c)) /\ Free(<<>>, Trusting(c))
    BY DEF Free
  <2>3. Claimed(c)' => /\ Claimed(c)
                       /\ roster'[c] = roster[c]
                       /\ roster[c] = "none" \/ presence'[c] = presence[c]
    <3>1. Claimed(c)' => Claimed(c) /\ roster'[c] = roster[c]
      BY <1>1 DEF Claimed
    <3>2. CASE c = who
      <4>1. Claimed(c) => roster[c] = "none"
        BY <1>1, <1>2, <3>2, RostersAre DEF Claimed, Granted
      <4> QED
        BY <3>1, <4>1
    <3>3. CASE c # who
      BY <1>1, <3>1, <3>3
    <3> QED
      BY <3>2, <3>3
  <2> QED
    BY <1>1, <2>1, <2>2, <2>3, TrackedAside
<1>3. CASE available /\ who \in Granted
  <2>1. PICK q : q = Report({who})
    OBVIOUS
  <2>2. q \in Told /\ q.kind = "presence" /\ DOMAIN q.what = {who} /\ q.what[who] = presence'[who]
    <3>1. q \in Told
      BY <2>1, ViewsAre DEF RosterTypes
    <3>2. q.kind = "presence" /\ q.what = [b \in {who} |-> presence'[b]]
      BY <2>1 DEF Report, Stanza
    <3> QED
      BY <3>1, <3>2
  <2>3. PICK d : d = <<q>>
    OBVIOUS
  <2>4. d \in Seq(Told) /\ DOMAIN d = {1} /\ d[1] = q /\ toClient' = toClient \o d
    BY <1>3, <2>1, <2>2, <2>3 DEF ComesOrGoes, Deliver
  <2>5. /\ q \notin Deciding(c) /\ (q \in Telling(c) <=> c = who) /\ (q \in Trusting(c) <=> c = who)
        /\ q \notin Removing(c) /\ ~RemovalDone(q, c)
    BY <2>2, OfNobodyElse DEF Deciding, RemovalDone
  <2>6. Free(d, Deciding(c)) /\ Ends(d, Deciding(c), Lists(c)') /\ Free(d, Removing(c))
    BY <2>4, <2>5 DEF Free, Ends
  <2>7. CASE c = who
    <3>1. c \in DOMAIN roster /\ roster[c] = "both"
      BY <1>3, <2>7 DEF Granted
    <3>2. q \in Telling(c) /\ StatusIn(q, c) = presence'[c]
      BY <2>2, <2>5, <2>7 DEF StatusIn
    <3>3. q \in Fitting(c)'
      BY <1>1, <3>1, <3>2 DEF Fitting, Suits, Telling, Listing, Informing, StatusIn
    <3>4. Ends(d, Telling(c), Fitting(c)') /\ ~Free(d, Telling(c))
      BY <2>4, <3>2, <3>3 DEF Ends, Free
    <3> QED
      BY <1>1, <2>4, <2>5, <2>6, <3>1, <3>4, TrackedExtended
  <2>8. CASE c # who
    <3>1. Free(d, Trusting(c))
      BY <2>4, <2>5, <2>8 DEF Free
    <3>2. Claimed(c)' => Claimed(c) /\ roster'[c] = roster[c]
      BY <1>1 DEF Claimed
    <3> QED
      BY <1>1, <2>4, <2>6, <2>8, <3>1, <3>2, TrackedAside
  <2> QED
    BY <2>7, <2>8
<1> QED
  BY <1>2, <1>3

LEMMA TrackedFromProbe ==
    ASSUME RosterInv, Interested, ServesProbe, NEW c \in People
    PROVE  Tracked(c)'
<1>1. /\ toClient \in Seq(Told) /\ toServer \in Seq(Asked) /\ toServer # <<>> /\ Head(toServer).id = "probe"
      /\ presence \in [People -> {"on", "off"}]
      /\ UNCHANGED <<roster, presence, available, listed, strays, unseen>> /\ Tracked(c)
  BY DEF RosterInv, RosterTypes, ServesProbe, Serves, histories
<1>2. PICK who \in People : who = Head(toServer).who
  BY <1>1, Listed, StanzasAre
<1>3. Claimed(c)' => Claimed(c) /\ roster'[c] = roster[c] /\ presence'[c] = presence[c]
  BY <1>1 DEF Claimed
<1>4. CASE ~(available /\ who \in Granted)
  <2>1. <<>> \in Seq(Told) /\ toClient' = toClient \o <<>>
    BY <1>1, <1>2, <1>4 DEF ServesProbe
  <2>2. Free(<<>>, Deciding(c)) /\ Free(<<>>, Trusting(c))
    BY DEF Free
  <2> QED
    BY <1>1, <1>3, <2>1, <2>2, TrackedAside
<1>5. CASE available /\ who \in Granted
  <2>1. PICK q : q = Report({who})
    OBVIOUS
  <2>2. q \in Told /\ q.kind = "presence" /\ DOMAIN q.what = {who} /\ q.what[who] = presence'[who]
    <3>1. q \in Told
      BY <1>1, <2>1, ViewsAre
    <3>2. q.kind = "presence" /\ q.what = [b \in {who} |-> presence'[b]]
      BY <2>1 DEF Report, Stanza
    <3> QED
      BY <3>1, <3>2
  <2>3. PICK d : d = <<q>>
    OBVIOUS
  <2>4. d \in Seq(Told) /\ DOMAIN d = {1} /\ d[1] = q /\ toClient' = toClient \o d
    BY <1>2, <1>5, <2>1, <2>2, <2>3 DEF ServesProbe, Deliver
  <2>5. /\ q \notin Deciding(c) /\ (q \in Telling(c) <=> c = who) /\ (q \in Trusting(c) <=> c = who)
        /\ q \notin Removing(c) /\ ~RemovalDone(q, c)
    BY <2>2, OfNobodyElse DEF Deciding, RemovalDone
  <2>6. Free(d, Deciding(c)) /\ Ends(d, Deciding(c), Lists(c)') /\ Free(d, Removing(c))
    BY <2>4, <2>5 DEF Free, Ends
  <2>7. CASE c = who
    <3>1. c \in DOMAIN roster /\ roster[c] = "both"
      BY <1>5, <2>7 DEF Granted
    <3>2. q \in Telling(c) /\ StatusIn(q, c) = presence'[c]
      BY <2>2, <2>5, <2>7 DEF StatusIn
    <3>3. q \in Fitting(c)'
      BY <1>1, <3>1, <3>2 DEF Fitting, Suits, Telling, Listing, Informing, StatusIn
    <3>4. Ends(d, Telling(c), Fitting(c)') /\ ~Free(d, Telling(c))
      BY <2>4, <3>2, <3>3 DEF Ends, Free
    <3> QED
      BY <1>1, <2>4, <2>5, <2>6, <3>1, <3>4, TrackedExtended
  <2>8. CASE c # who
    <3>1. Free(d, Trusting(c))
      BY <2>4, <2>5, <2>8 DEF Free
    <3> QED
      BY <1>1, <1>3, <2>4, <2>6, <3>1, TrackedAside
  <2> QED
    BY <2>7, <2>8
<1> QED
  BY <1>4, <1>5

-----------------------------------------------------------------------------
(* The order of the beginning.                                             *)
LEMMA PhasesArrived ==
    ASSUME RosterInv, linked, toClient # <<>>, toClient' = Tail(toClient), UNCHANGED <<linked, available>>,
           \A i \in DOMAIN toServer' :
              toServer'[i].id = "fetch_roster" => \E j \in DOMAIN toServer : toServer[j].id = "fetch_roster"
    PROVE  /\ Interested /\ Interested' /\ Phases'
           /\ \A i \in DOMAIN toClient' : \E j \in DOMAIN toClient : toClient'[i] = toClient[j]
           /\ Head(toClient).kind # "roster" => ~Unsure
<1>1. toClient \in Seq(Told)
  BY DEF RosterInv, RosterTypes
<1>2. PICK n : n = Len(toClient)
  OBVIOUS
<1>3. /\ n \in Nat /\ n >= 1 /\ DOMAIN toClient = 1..n /\ DOMAIN toClient' = 1..(n - 1)
      /\ Head(toClient) = toClient[1] /\ \A i \in 1..(n - 1) : toClient'[i] = toClient[i + 1]
  BY <1>1, <1>2, WithoutFirst
<1>4. \A j \in DOMAIN toServer : toServer[j].id # "fetch_roster"
  BY DEF RosterInv, Phases
<1>5. Interested /\ Interested'
  BY <1>4 DEF Interested
<1>6. \A i \in 1..(n - 1) : i + 1 \in 1..n /\ i + 1 # 1
  BY <1>3
<1>7. \A i \in 1..n : toClient[i].kind = "roster" => i = 1
  BY <1>3 DEF RosterInv, Phases
<1>8. \A i \in 1..(n - 1) : toClient'[i].kind # "roster"
  BY <1>3, <1>6, <1>7
<1>9. ~Unsure'
  BY <1>3, <1>8 DEF Unsure
<1>10. \A i \in DOMAIN toServer' : toServer'[i].id # "fetch_roster"
  BY <1>4
<1>11. Phases'
  BY <1>3, <1>5, <1>8, <1>9, <1>10 DEF Phases
<1>12. Head(toClient).kind # "roster" => ~Unsure
  BY <1>3, <1>7 DEF Unsure
<1>13. \A i \in 1..(n - 1) : \E j \in 1..n : toClient'[i] = toClient[j]
  BY <1>3, <1>6
<1> QED
  BY <1>3, <1>5, <1>11, <1>12, <1>13

LEMMA PhasesExtended ==
    ASSUME RosterInv, NEW d \in Seq(Told), toClient' = toClient \o d,
           UNCHANGED <<linked, listed, strays, unseen>>,
           \A i \in DOMAIN d : d[i].kind # "roster" /\ (d[i].kind = "presence" => available'),
           \A i \in DOMAIN toServer' : toServer'[i].id = "fetch_roster" =>
              i = 1 /\ d = <<>> /\ 1 \in DOMAIN toServer /\ toServer[1].id = "fetch_roster",
           Ready' => Ready, available => available'
    PROVE  Phases' /\ Quiet' /\ (Interested => Interested')
<1>1. toClient \in Seq(Told)
  BY DEF RosterInv, RosterTypes
<1>2. PICK n, m : n = Len(toClient) /\ m = Len(d)
  OBVIOUS
<1>3. /\ n \in Nat /\ m \in Nat /\ DOMAIN toClient = 1..n /\ DOMAIN d = 1..m /\ DOMAIN toClient' = 1..(n + m)
      /\ \A i \in 1..n : toClient'[i] = toClient[i]
  BY <1>1, <1>2, Concatenated
<1>4. \A i \in 1..m : toClient'[n + i] = d[i]
  BY <1>1, <1>2, Concatenated
<1>5. ASSUME NEW i \in 1..(n + m)
      PROVE  \/ i \in 1..n /\ toClient'[i] = toClient[i]
             \/ toClient'[i].kind # "roster" /\ (toClient'[i].kind = "presence" => available')
  <2>1. CASE i \in 1..n
    BY <1>3, <2>1
  <2>2. CASE i \notin 1..n
    <3>1. i - n \in 1..m /\ n + (i - n) = i
      BY <1>3, <1>5, <2>2
    <3>2. toClient'[i] = d[i - n]
      BY <1>4, <3>1
    <3> QED
      BY <1>3, <3>1, <3>2
  <2> QED
    BY <2>1, <2>2
<1>6. Interested => Interested'
  BY DEF Interested
<1>7. Unsure' => Unsure
  BY <1>3, <1>5 DEF Unsure
<1>8. \A i \in DOMAIN toServer' : toServer'[i].id = "fetch_roster" => i = 1 /\ toClient' = <<>> /\ ~Ready'
  <2>1. ASSUME NEW i \in DOMAIN toServer', toServer'[i].id = "fetch_roster"
        PROVE  i = 1 /\ toClient' = <<>> /\ ~Ready'
    <3>1. toClient = <<>> /\ ~Ready
      BY <2>1 DEF RosterInv, Phases
    <3>2. toClient' = <<>> \o <<>>
      BY <2>1, <3>1
    <3> QED
      BY <2>1, <3>1, <3>2
  <2> QED
    BY <2>1
<1>9. \A i \in DOMAIN toClient' : toClient'[i].kind = "roster" => i = 1 /\ ~Ready'
  BY <1>3, <1>5 DEF RosterInv, Phases
<1>10. Phases'
  BY <1>6, <1>7, <1>8, <1>9 DEF RosterInv, Phases
<1>11. Quiet'
  <2>1. ASSUME ~available'
        PROVE  /\ \A i \in DOMAIN toClient' : toClient'[i].kind # "presence"
               /\ \A c \in DOMAIN listed' \ unseen' : listed'[c] \in {"off", "noauth"}
    <3>1. /\ \A i \in DOMAIN toClient : toClient[i].kind # "presence"
          /\ \A c \in DOMAIN listed \ unseen : listed[c] \in {"off", "noauth"}
      BY <2>1 DEF RosterInv, Quiet
    <3>2. \A i \in DOMAIN toClient' : toClient'[i].kind # "presence"
      BY <1>3, <1>5, <2>1, <3>1
    <3> QED
      BY <3>1, <3>2
  <2> QED
    BY <2>1 DEF Quiet
<1> QED
  BY <1>6, <1>10, <1>11

(* Callbacks for stanzas, about the statuses before the client's own.      *)
LEMMA QuietArrived ==
    ASSUME RosterInv, RosterTypes', RosterIsHere \/ Pushed \/ Answered \/ Refused \/ PresenceIsHere
    PROVE  Phases' /\ Quiet' /\ Interested /\ Interested'
<1>1. /\ toClient \in Seq(Told) /\ toServer \in Seq(Asked)
      /\ linked /\ toClient # <<>> /\ toClient' = Tail(toClient) /\ UNCHANGED <<linked, available>>
  BY DEF RosterInv, RosterTypes, RosterIsHere, Pushed, Answered, Refused, PresenceIsHere, Arrives, serverSide
<1>2. \A i \in DOMAIN toServer' :
         toServer'[i].id = "fetch_roster" => \E j \in DOMAIN toServer : toServer[j].id = "fetch_roster"
  <2>1. CASE RosterIsHere
    <3>1. PICK cs \in SUBSET People : toServer' = toServer \o <<Announce(cs)>>
      BY <2>1, Announced DEF RosterInv
    <3>2. PICK a, n, t : a = Announce(cs) /\ n = Len(toServer) /\ t = toServer \o <<a>>
      OBVIOUS
    <3>3. a \in Asked /\ a.id = "presence"
      BY <3>2, StanzasAre DEF Announce, Stanza
    <3>4. <<a>> \in Seq(Asked) /\ Len(<<a>>) = 1 /\ <<a>>[1] = a
      BY <3>3
    <3>5. n \in Nat /\ DOMAIN toServer = 1..n /\ DOMAIN t = 1..(n + 1) /\ \A i \in 1..n : t[i] = toServer[i]
      BY <1>1, <3>2, <3>4, Concatenated
    <3>6. t[n + 1] = a
      BY <1>1, <3>2, <3>4, Concatenated
    <3> QED
      BY <3>1, <3>2, <3>3, <3>5, <3>6
  <2>2. CASE (Pushed /\ toServer' = toServer) \/ Answered \/ Refused \/ PresenceIsHere
    BY <2>2 DEF Answered, Refused, PresenceIsHere
  <2>3. CASE Pushed /\ toServer' # toServer
    <3>1. PICK who \in People : toServer' = toServer \o <<Probe(who)>>
      BY <2>3, Probed DEF RosterInv
    <3>2. PICK a, n, t : a = Probe(who) /\ n = Len(toServer) /\ t = toServer \o <<a>>
      OBVIOUS
    <3>3. a \in Asked /\ a.id = "probe"
      BY <3>2, StanzasAre DEF Probe, Request, Stanza
    <3>4. <<a>> \in Seq(Asked) /\ Len(<<a>>) = 1 /\ <<a>>[1] = a
      BY <3>3
    <3>5. n \in Nat /\ DOMAIN toServer = 1..n /\ DOMAIN t = 1..(n + 1) /\ \A i \in 1..n : t[i] = toServer[i]
      BY <1>1, <3>2, <3>4, Concatenated
    <3>6. t[n + 1] = a
      BY <1>1, <3>2, <3>4, Concatenated
    <3> QED
      BY <3>1, <3>2, <3>3, <3>5, <3>6
  <2> QED
    BY <2>1, <2>2, <2>3
<1>3. /\ Interested /\ Interested' /\ Phases'
      /\ \A i \in DOMAIN toClient' : \E j \in DOMAIN toClient : toClient'[i] = toClient[j]
      /\ Head(toClient).kind # "roster" => ~Unsure
  BY <1>1, <1>2, PhasesArrived
<1>4. ASSUME ~available
      PROVE  /\ \A i \in DOMAIN toClient : toClient[i].kind # "presence"
             /\ \A c \in DOMAIN listed \ unseen : listed[c] \in {"off", "noauth"}
  BY <1>4 DEF RosterInv, Quiet
<1>5. ~available => \A i \in DOMAIN toClient' : toClient'[i].kind # "presence"
  BY <1>3, <1>4
<1>6. 1 \in DOMAIN toClient /\ toClient[1] = Head(toClient) /\ Head(toClient) \in Told
  BY <1>1, WithoutFirst
<1>7. ASSUME NEW items, listed' = Merged(items), UNCHANGED unseen, NEW c \in DOMAIN listed' \ unseen',
             ~available
      PROVE  listed'[c] \in {"off", "noauth"}
  <2>1. listed'[c] = Shown(items[c]) \/ (c \in DOMAIN listed /\ listed'[c] = listed[c])
    BY <1>7 DEF Merged
  <2> QED
    BY <1>4, <1>7, <2>1 DEF Shown
<1>8. ~available => \A c \in DOMAIN listed' \ unseen' : listed'[c] \in {"off", "noauth"}
  <2>1. CASE RosterIsHere
    BY <1>7, <2>1 DEF RosterIsHere
  <2>2. CASE Pushed
    <3>1. UNCHANGED listed \/ \E items : listed' = Merged(items)
      BY <2>2 DEF Pushed
    <3> QED
      BY <1>4, <1>7, <2>2, <3>1 DEF Pushed
  <2>3. CASE Answered
    <3>1. \/ UNCHANGED <<listed, unseen>>
          \/ /\ \E e : listed' = [b \in DOMAIN listed \ {e} |-> listed[b]]
             /\ unseen \subseteq unseen'
      BY <2>3 DEF Answered
    <3> QED
      BY <1>4, <3>1
  <2>4. CASE Refused
    BY <1>4, <2>4 DEF Refused
  <2>5. CASE PresenceIsHere
    BY <1>4, <1>6, <2>5 DEF PresenceIsHere, Arrives
  <2> QED
    BY <2>1, <2>2, <2>3, <2>4, <2>5
<1> QED
  BY <1>1, <1>3, <1>5, <1>8 DEF Quiet

(* Every step of it.                                                       *)
LEMMA Arriving ==
    ASSUME RosterInv, RosterTypes', NothingLost',
           RosterIsHere \/ Pushed \/ Answered \/ Refused \/ PresenceIsHere
    PROVE  RosterInv'
<1>1. Phases' /\ Quiet' /\ Interested
  BY QuietArrived
<1>2. ASSUME NEW c \in People
      PROVE  Tracked(c)'
  BY <1>1, TrackedByRoster, TrackedByPush, TrackedByAnswer, TrackedByError, TrackedByPresence
<1> QED
  BY <1>1, <1>2 DEF RosterInv

(* What the program or its user asks for.                                  *)
LEMMA Asking ==
    ASSUME RosterInv, RosterTypes', NothingLost',
           UNCHANGED <<linked, listed, roster, presence, available, toClient, strays, unseen>>,
           NEW more \in Seq(Asked), toServer' = toServer \o more,
           \A i \in DOMAIN more : more[i].id \notin {"fetch_roster", "presence"}
    PROVE  RosterInv'
<1>1. toServer \in Seq(Asked) /\ toClient \in Seq(Told)
  BY DEF RosterInv, RosterTypes
<1>2. PICK n, m : n = Len(toServer) /\ m = Len(more)
  OBVIOUS
<1>3. /\ n \in Nat /\ m \in Nat /\ DOMAIN toServer = 1..n /\ DOMAIN more = 1..m /\ DOMAIN toServer' = 1..(n + m)
      /\ \A i \in 1..n : toServer'[i] = toServer[i]
  BY <1>1, <1>2, Concatenated
<1>4. \A i \in 1..m : toServer'[n + i] = more[i]
  BY <1>1, <1>2, Concatenated
<1>5. ASSUME NEW i \in 1..(n + m)
      PROVE  \/ i \in 1..n /\ toServer'[i] = toServer[i]
             \/ toServer'[i].id \notin {"fetch_roster", "presence"}
  <2>1. CASE i \in 1..n
    BY <1>3, <2>1
  <2>2. CASE i \notin 1..n
    <3>1. i - n \in 1..m /\ n + (i - n) = i
      BY <1>3, <1>5, <2>2
    <3>2. toServer'[i] = more[i - n]
      BY <1>4, <3>1
    <3> QED
      BY <1>3, <3>1, <3>2
  <2> QED
    BY <2>1, <2>2
<1>6. Interested' => Interested
  <2>1. \A i \in 1..n : i \in 1..(n + m)
    BY <1>3
  <2> QED
    BY <1>3, <2>1 DEF Interested
<1>7. PICK d : d = <<>>
  OBVIOUS
<1>8. d \in Seq(Told) /\ DOMAIN d = {} /\ toClient' = toClient \o d
  BY <1>1, <1>7
<1>9. Ready' => Ready
  BY <1>3, <1>5 DEF Ready
<1>10. \A i \in DOMAIN toServer' : toServer'[i].id = "fetch_roster" =>
          i = 1 /\ 1 \in DOMAIN toServer /\ toServer[1].id = "fetch_roster"
  BY <1>3, <1>5 DEF RosterInv, Phases
<1>11. Phases' /\ Quiet'
  BY <1>7, <1>8, <1>9, <1>10, PhasesExtended
<1>12. ASSUME Interested, NEW c \in People
       PROVE  Tracked(c)'
  <2>1. Free(d, Deciding(c)) /\ Free(d, Trusting(c)) /\ Tracked(c)
    BY <1>8, <1>12 DEF Free, RosterInv
  <2>2. Claimed(c)' => Claimed(c)
    BY DEF Claimed
  <2> QED
    BY <1>1, <1>8, <2>1, <2>2, TrackedAside
<1> QED
  BY <1>6, <1>11, <1>12 DEF RosterInv

(* The first thing asked for is served.                                    *)
LEMMA Serving ==
    ASSUME RosterInv, toServer # <<>>, toServer' = Tail(toServer)
    PROVE  /\ linked
           /\ \A i \in DOMAIN toServer' : toServer'[i].id # "fetch_roster"
                                          /\ \E j \in DOMAIN toServer : toServer'[i] = toServer[j]
           /\ Head(toServer).id = "fetch_roster" => ~Ready /\ toClient = <<>> /\ ~Interested
           /\ Head(toServer).id # "fetch_roster" => Interested
           /\ \E j \in DOMAIN toServer : toServer[j] = Head(toServer)
<1>1. toServer \in Seq(Asked)
  BY DEF RosterInv, RosterTypes
<1>2. PICK n : n = Len(toServer)
  OBVIOUS
<1>3. /\ n \in Nat /\ n >= 1 /\ DOMAIN toServer = 1..n /\ DOMAIN toServer' = 1..(n - 1)
      /\ Head(toServer) = toServer[1] /\ \A i \in 1..(n - 1) : toServer'[i] = toServer[i + 1]
  BY <1>1, <1>2, WithoutFirst
<1>4. linked
  BY DEF RosterInv, NothingLost
<1>5. \A i \in 1..n : toServer[i].id = "fetch_roster" => i = 1 /\ toClient = <<>> /\ ~Ready
  BY <1>3 DEF RosterInv, Phases
<1>6. \A i \in 1..(n - 1) : i + 1 \in 1..n /\ i + 1 # 1
  BY <1>3
<1>7. \A i \in 1..(n - 1) : toServer'[i].id # "fetch_roster"
  BY <1>3, <1>5, <1>6
<1>8. \A i \in 1..(n - 1) : \E j \in 1..n : toServer'[i] = toServer[j]
  BY <1>3, <1>6
<1>9. 1 \in 1..n
  BY <1>3
<1>10. Head(toServer).id = "fetch_roster" => ~Ready /\ toClient = <<>> /\ ~Interested
  BY <1>3, <1>5, <1>9 DEF Interested
<1>11. Head(toServer).id # "fetch_roster" => Interested
  BY <1>3, <1>4, <1>5 DEF Interested
<1> QED
  BY <1>3, <1>4, <1>7, <1>8, <1>9, <1>10, <1>11

LEMMA ServingRoster ==
    ASSUME RosterInv, RosterTypes', NothingLost', ServesRoster
    PROVE  RosterInv'
<1>1. /\ toServer # <<>> /\ toServer' = Tail(toServer) /\ Head(toServer).id = "fetch_roster"
      /\ UNCHANGED <<linked, available, listed, strays, unseen>>
      /\ toClient' = toClient \o <<RosterOf(Head(toServer))>>
  BY DEF ServesRoster, Serves, Deliver, serverSide, histories
<1>2. /\ linked /\ ~Ready /\ toClient = <<>> /\ ~Interested
      /\ \A i \in DOMAIN toServer' : toServer'[i].id # "fetch_roster"
                                     /\ \E j \in DOMAIN toServer : toServer'[i] = toServer[j]
  BY <1>1, Serving
<1>3. Interested' /\ ~Ready'
  BY <1>1, <1>2 DEF Interested, Ready
<1>4. DOMAIN toClient' = {1} /\ toClient'[1].kind = "roster"
  <2>1. toClient' = <<RosterOf(Head(toServer))>>
    BY <1>1, <1>2
  <2> QED
    BY <2>1 DEF RosterOf, Stanza
<1>5. DOMAIN listed \subseteq strays \cap unseen
  BY <1>2 DEF RosterInv, Phases
<1>6. Phases'
  BY <1>1, <1>2, <1>3, <1>4, <1>5 DEF Phases
<1>7. Quiet'
  BY <1>1, <1>4, <1>5 DEF Quiet
<1> QED
  BY <1>6, <1>7, TrackedFromRoster DEF RosterInv

LEMMA ServingPresence ==
    ASSUME RosterInv, RosterTypes', NothingLost', ServesPresence
    PROVE  RosterInv'
<1>1. /\ toServer # <<>> /\ toServer' = Tail(toServer) /\ Head(toServer).id = "presence"
      /\ UNCHANGED <<linked, roster, presence, listed, strays, unseen>> /\ available'
  BY DEF ServesPresence, Serves, histories
<1>2. /\ linked /\ Interested
      /\ \A i \in DOMAIN toServer' : toServer'[i].id # "fetch_roster"
      /\ \E j \in DOMAIN toServer : toServer[j] = Head(toServer)
  BY <1>1, Serving
<1>3. Ready
  BY <1>1, <1>2 DEF Ready
<1>4. PICK cs \in SUBSET Granted : Deliver(IF cs = {} THEN <<>> ELSE <<Report(cs)>>)
  BY DEF ServesPresence
<1>5. Report(cs) \in Told
  <2>1. cs \in SUBSET People
    BY <1>4, RostersAre DEF RosterInv, RosterTypes, Granted
  <2> QED
    BY <2>1, ViewsAre DEF RosterTypes
<1>6. PICK d : d = IF cs = {} THEN <<>> ELSE <<Report(cs)>>
  OBVIOUS
<1>7. d \in Seq(Told) /\ toClient' = toClient \o d
  <2>1. <<>> \in Seq(Told) /\ <<Report(cs)>> \in Seq(Told)
    BY <1>5
  <2> QED
    BY <1>4, <1>6, <2>1 DEF Deliver
<1>8. \A i \in DOMAIN d : d[i].kind = "presence"
  BY <1>6 DEF Report, Stanza
<1>9. Phases' /\ Quiet'
  BY <1>1, <1>2, <1>3, <1>7, <1>8, PhasesExtended
<1> QED
  BY <1>2, <1>9, TrackedFromPresence DEF RosterInv

LEMMA ServingProbe ==
    ASSUME RosterInv, RosterTypes', NothingLost', ServesProbe
    PROVE  RosterInv'
<1>1. /\ toServer # <<>> /\ toServer' = Tail(toServer) /\ Head(toServer).id = "probe"
      /\ UNCHANGED <<linked, roster, presence, available, listed, strays, unseen>>
      /\ toClient \in Seq(Told) /\ toServer \in Seq(Asked)
  BY DEF RosterInv, RosterTypes, ServesProbe, Serves, histories
<1>2. /\ linked /\ Interested
      /\ \A i \in DOMAIN toServer' : toServer'[i].id # "fetch_roster"
                                     /\ \E j \in DOMAIN toServer : toServer'[i] = toServer[j]
  BY <1>1, Serving
<1>3. Ready' => Ready
  BY <1>1, <1>2 DEF Ready
<1>4. PICK who \in People : who = Head(toServer).who
  BY <1>1, Listed, StanzasAre
<1>5. Report({who}) \in Told
  BY <1>1, ViewsAre DEF RosterTypes
<1>6. PICK d : d = IF available /\ who \in Granted THEN <<Report({who})>> ELSE <<>>
  OBVIOUS
<1>7. d \in Seq(Told) /\ toClient' = toClient \o d
  <2>1. <<>> \in Seq(Told) /\ <<Report({who})>> \in Seq(Told) /\ toClient \o <<>> = toClient
    BY <1>1, <1>5
  <2> QED
    BY <1>4, <1>6, <2>1 DEF ServesProbe, Deliver
<1>8. \A i \in DOMAIN d : d[i].kind = "presence" /\ available
  BY <1>6 DEF Report, Stanza
<1>9. Phases' /\ Quiet'
  BY <1>1, <1>2, <1>3, <1>7, <1>8, PhasesExtended
<1> QED
  BY <1>2, <1>9, TrackedFromProbe DEF RosterInv

LEMMA ServingRequests ==
    ASSUME RosterInv, RosterTypes', NothingLost', ServesAdd \/ ServesRemove
    PROVE  RosterInv'
<1>1. /\ toServer # <<>> /\ toServer' = Tail(toServer) /\ Head(toServer).id \in {"roster_add", "roster_remove"}
      /\ UNCHANGED <<linked, available, presence, listed, strays, unseen>>
  BY DEF ServesAdd, ServesRemove, Serves, histories
<1>2. /\ linked /\ Interested
      /\ \A i \in DOMAIN toServer' : toServer'[i].id # "fetch_roster"
                                     /\ \E j \in DOMAIN toServer : toServer'[i] = toServer[j]
  BY <1>1, Serving
<1>3. Ready' => Ready
  BY <1>1, <1>2 DEF Ready
<1>4. toServer \in Seq(Asked) /\ roster \in Rosters
  BY DEF RosterInv, RosterTypes
<1>5. PICK request \in Asked : request = Head(toServer)
  BY <1>1, <1>4, WithoutFirst, Listed
<1>6. /\ request.who \in People /\ Answer("result", request) \in Told
      /\ request.id = "roster_remove" => Answer("error", request) \in Told
  BY <1>1, <1>5, StanzasAre
<1>7. PICK who \in People : who = request.who
  BY <1>6
<1>8. Push(who, "none") \in Told /\ Push(who, "both") \in Told /\ Push(who, "remove") \in Told
  BY StanzasAre
<1>9. PICK d \in Seq(Told) : toClient' = toClient \o d /\ \A i \in DOMAIN d : d[i].kind \notin {"roster", "presence"}
  <2>1. CASE ServesAdd
    <3>1. roster'[who] \in {"none", "both"}
      <4>1. CASE who \in DOMAIN roster
        BY <1>4, <1>5, <1>7, <2>1, <4>1, RostersAre DEF ServesAdd
      <4>2. CASE who \notin DOMAIN roster
        BY <1>5, <1>7, <2>1, <4>2 DEF ServesAdd, With
      <4> QED
        BY <4>1, <4>2
    <3>2. PICK e : e = <<Push(who, roster'[who]), Answer("result", request)>>
      OBVIOUS
    <3>3. e \in Seq(Told) /\ DOMAIN e = {1, 2}
      BY <1>6, <1>8, <3>1, <3>2
    <3>4. e[1].kind = "push" /\ e[2].kind = "result"
      BY <3>2 DEF Push, Answer, Stanza
    <3>5. toClient' = toClient \o e
      BY <1>5, <1>7, <2>1, <3>2 DEF ServesAdd, Deliver
    <3> QED
      BY <3>3, <3>4, <3>5
  <2>2. CASE ServesRemove /\ who \in DOMAIN roster
    <3>1. PICK e : e = <<Push(who, "remove"), Answer("result", request)>>
      OBVIOUS
    <3>2. e \in Seq(Told) /\ DOMAIN e = {1, 2}
      BY <1>6, <1>8, <3>1
    <3>3. e[1].kind = "push" /\ e[2].kind = "result"
      BY <3>1 DEF Push, Answer, Stanza
    <3>4. toClient' = toClient \o e
      BY <1>5, <1>7, <2>2, <3>1 DEF ServesRemove, Deliver
    <3> QED
      BY <3>2, <3>3, <3>4
  <2>3. CASE ServesRemove /\ who \notin DOMAIN roster
    <3>1. PICK e : e = <<Answer("error", request)>>
      OBVIOUS
    <3>2. e \in Seq(Told) /\ DOMAIN e = {1}
      BY <1>5, <1>6, <2>3, <3>1 DEF ServesRemove, Serves
    <3>3. e[1].kind = "error"
      BY <3>1 DEF Answer, Stanza
    <3>4. toClient' = toClient \o e
      BY <1>5, <1>7, <2>3, <3>1 DEF ServesRemove, Deliver
    <3> QED
      BY <3>2, <3>3, <3>4
  <2> QED
    BY <2>1, <2>2, <2>3
<1>10. Phases' /\ Quiet'
  BY <1>1, <1>2, <1>3, <1>9, PhasesExtended
<1> QED
  BY <1>2, <1>10, TrackedFromRequests DEF RosterInv

(* What others do.                                                         *)
LEMMA Happening ==
    ASSUME RosterInv, RosterTypes', NothingLost', NEW who \in People,
           \/ AddedElsewhere(who) \/ RemovedElsewhere(who) \/ Withdraws(who)
           \/ Authorizes(who) \/ ComesOrGoes(who)
    PROVE  RosterInv'
<1>1. UNCHANGED <<linked, available, toServer, listed, strays, unseen>>
  BY DEF AddedElsewhere, RemovedElsewhere, Withdraws, Authorizes, Elsewhere, ComesOrGoes, histories
<1>2. (Interested' <=> Interested) /\ (Ready' <=> Ready)
  BY <1>1 DEF Interested, Ready
<1>3. toClient \in Seq(Told) /\ presence' \in [People -> {"on", "off"}]
  BY DEF RosterInv, RosterTypes
<1>4. available => Ready
  BY DEF Ready
<1>5. Ready => Interested
  <2>1. Ready => linked
    BY DEF Ready, RosterInv, NothingLost
  <2>2. Ready => \A i \in DOMAIN toServer : toServer[i].id # "fetch_roster"
    BY DEF RosterInv, Phases
  <2> QED
    BY <2>1, <2>2 DEF Interested
<1>6. Report({who}) \in Told
  BY <1>3, ViewsAre
<1>7. Push(who, "none") \in Told /\ Push(who, "both") \in Told /\ Push(who, "remove") \in Told
  BY StanzasAre
<1>8. PICK d \in Seq(Told) :
         /\ toClient' = toClient \o d /\ (~Interested => d = <<>>)
         /\ \A i \in DOMAIN d : d[i].kind # "roster" /\ (d[i].kind = "presence" => available)
  <2>1. \A x : x \in {Push(who, "none"), Push(who, "both"), Push(who, "remove")} =>
           x.kind = "push" /\ x \in Told
    BY <1>7 DEF Push, Stanza
  <2>2. PICK r : r = Report({who})
    OBVIOUS
  <2>3. r \in Told /\ r.kind = "presence"
    BY <1>6, <2>2 DEF Report, Stanza
  <2>4. CASE toClient' = toClient
    <3>1. <<>> \in Seq(Told) /\ toClient' = toClient \o <<>> /\ DOMAIN <<>> = {}
      BY <1>3, <2>4
    <3> QED
      BY <3>1
  <2>5. CASE Interested /\ \E x \in {Push(who, "none"), Push(who, "both"), Push(who, "remove")} :
                              toClient' = toClient \o <<x>>
    <3>1. PICK x \in {Push(who, "none"), Push(who, "both"), Push(who, "remove")} : toClient' = toClient \o <<x>>
      BY <2>5
    <3>2. <<x>> \in Seq(Told) /\ \A i \in DOMAIN <<x>> : <<x>>[i].kind = "push"
      BY <2>1, <3>1
    <3> QED
      BY <2>5, <3>1, <3>2
  <2>6. CASE Interested /\ available /\ toClient' = toClient \o <<Push(who, "both"), r>>
    <3>1. PICK x : x = Push(who, "both")
      OBVIOUS
    <3>2. x \in Told /\ x.kind = "push"
      BY <2>1, <3>1
    <3>3. <<x, r>> \in Seq(Told) /\ \A i \in DOMAIN <<x, r>> : <<x, r>>[i].kind \in {"push", "presence"}
      BY <2>3, <3>2
    <3> QED
      BY <2>6, <3>1, <3>3
  <2>7. CASE available /\ toClient' = toClient \o <<r>>
    <3>1. <<r>> \in Seq(Told) /\ Interested
      BY <1>4, <1>5, <2>3, <2>7
    <3>2. \A i \in DOMAIN <<r>> : <<r>>[i].kind = "presence"
      BY <2>3
    <3> QED
      BY <2>7, <3>1, <3>2
  <2>8. CASE AddedElsewhere(who) \/ RemovedElsewhere(who) \/ Withdraws(who)
    <3>1. \/ toClient' = toClient
          \/ /\ Interested
             /\ \E x \in {Push(who, "none"), Push(who, "both"), Push(who, "remove")} :
                   toClient' = toClient \o <<x>>
      BY <2>8 DEF AddedElsewhere, RemovedElsewhere, Withdraws, Elsewhere, Deliver
    <3> QED
      BY <2>4, <2>5, <3>1
  <2>9. CASE Authorizes(who)
    <3>1. \/ toClient' = toClient
          \/ Interested /\ toClient' = toClient \o <<Push(who, "both")>>
          \/ Interested /\ available /\ toClient' = toClient \o <<Push(who, "both"), r>>
      BY <2>2, <2>9 DEF Authorizes, Elsewhere, Deliver
    <3> QED
      BY <2>4, <2>5, <2>6, <3>1
  <2>10. CASE ComesOrGoes(who)
    <3>1. toClient' = toClient \/ (available /\ toClient' = toClient \o <<r>>)
      BY <2>2, <2>10 DEF ComesOrGoes, Deliver
    <3> QED
      BY <2>4, <2>7, <3>1
  <2> QED
    BY <2>8, <2>9, <2>10
<1>9. \A i \in DOMAIN toServer' : toServer'[i].id = "fetch_roster" =>
         i = 1 /\ d = <<>> /\ 1 \in DOMAIN toServer /\ toServer[1].id = "fetch_roster"
  <2>1. \A i \in DOMAIN toServer : toServer[i].id = "fetch_roster" => i = 1 /\ ~Interested
    BY DEF RosterInv, Phases, Interested
  <2> QED
    BY <1>1, <1>8, <2>1
<1>10. Phases' /\ Quiet'
  BY <1>1, <1>2, <1>8, <1>9, PhasesExtended
<1>11. ASSUME Interested, NEW c \in People
       PROVE  Tracked(c)'
  <2>1. Tracked(c)
    BY <1>11 DEF RosterInv
  <2> QED
    BY <1>11, <2>1, TrackedElsewhere, TrackedByAuthorization, TrackedByComing
<1> QED
  BY <1>2, <1>10, <1>11 DEF RosterInv

LEMMA Connecting ==
    ASSUME RosterInv, RosterTypes', NothingLost', Authenticate \/ CutOff \/ SignOff
    PROVE  RosterInv'
<1>1. CASE Authenticate
  <2>1. /\ linked' /\ toServer' = <<Request("fetch_roster", NoOne)>> /\ toClient = <<>> /\ ~available
        /\ UNCHANGED <<toClient, available, listed, strays, unseen>> /\ ~Interested
    BY <1>1 DEF Authenticate, serverSide, histories, Interested, RosterInv, NothingLost
  <2>2. DOMAIN toServer' = {1} /\ toServer'[1].id = "fetch_roster"
    BY <2>1 DEF Request, Stanza
  <2>3. ~Interested' /\ ~Ready' /\ ~Unsure'
    BY <2>1, <2>2 DEF Interested, Ready, Unsure
  <2>4. DOMAIN listed \subseteq strays \cap unseen
    BY <2>1 DEF RosterInv, Phases
  <2>5. Phases' /\ Quiet'
    BY <2>1, <2>2, <2>3, <2>4 DEF Phases, Quiet
  <2> QED
    BY <2>3, <2>5 DEF RosterInv
<1>2. CASE CutOff \/ SignOff
  <2>1. ~linked' /\ toServer' = <<>> /\ toClient' = <<>> /\ ~available'
    BY <1>2 DEF CutOff, SignOff, Cut
  <2>2. ~Interested'
    BY <2>1 DEF Interested
  <2>3. DOMAIN listed' \subseteq strays' \cap unseen'
    BY <1>2 DEF CutOff, SignOff
  <2>4. Phases'
    BY <2>1, <2>3 DEF Phases
  <2>5. Quiet'
    BY <2>1, <2>3 DEF Quiet
  <2> QED
    BY <2>2, <2>4, <2>5 DEF RosterInv
<1> QED
  BY <1>1, <1>2

LEMMA UserAsking ==
    ASSUME RosterInv, RosterTypes', NothingLost',
           \/ \E c \in People : AddUser(c)
           \/ \E cs \in SUBSET People : AskRemoval(cs) \/ \E ok \in BOOLEAN : AnswerRemoval(cs, ok)
           \/ UNCHANGED rosterVars
    PROVE  RosterInv'
<1>1. UNCHANGED <<linked, listed, roster, presence, available, toClient, strays, unseen>>
  BY DEF AddUser, AskRemoval, AnswerRemoval, serverSide, histories, rosterVars
<1>2. toServer \in Seq(Asked)
  BY DEF RosterInv, RosterTypes
<1>3. PICK more \in Seq(Asked) : /\ toServer' = toServer \o more
                                 /\ \A i \in DOMAIN more : more[i].id \notin {"fetch_roster", "presence"}
  <2>1. CASE UNCHANGED toServer
    <3>1. <<>> \in Seq(Asked) /\ toServer' = toServer \o <<>> /\ DOMAIN <<>> = {}
      BY <1>2, <2>1
    <3> QED
      BY <3>1
  <2>2. ASSUME NEW c \in People, AddUser(c)
        PROVE  \E m \in Seq(Asked) : /\ toServer' = toServer \o m
                                     /\ \A i \in DOMAIN m : m[i].id \notin {"fetch_roster", "presence"}
    <3>1. PICK x : x = Request("roster_add", c)
      OBVIOUS
    <3>2. x \in Asked /\ x.id = "roster_add"
      BY <3>1, StanzasAre DEF Request, Stanza
    <3>3. <<x>> \in Seq(Asked) /\ \A i \in DOMAIN <<x>> : <<x>>[i].id = "roster_add"
      BY <3>2
    <3>4. toServer' = toServer \o <<x>>
      BY <2>2, <3>1 DEF AddUser, Offer
    <3> QED
      BY <3>3, <3>4
  <2>3. ASSUME NEW cs \in SUBSET People, NEW ok \in BOOLEAN, AnswerRemoval(cs, ok), toServer' # toServer
        PROVE  \E m \in Seq(Asked) : /\ toServer' = toServer \o m
                                     /\ \A i \in DOMAIN m : m[i].id \notin {"fetch_roster", "presence"}
    <3>1. PICK all \in SetToSeqs(cs) : Offer([i \in DOMAIN all |-> Request("roster_remove", all[i])])
      BY <2>3 DEF AnswerRemoval
    <3>2. PICK m : m = [i \in DOMAIN all |-> Request("roster_remove", all[i])]
      OBVIOUS
    <3>3. m \in Seq(Asked) /\ toServer' = toServer \o m
      BY <3>1, <3>2, ForEach DEF Offer
    <3>4. \A i \in DOMAIN m : m[i].id = "roster_remove"
      BY <3>2 DEF Request, Stanza
    <3> QED
      BY <3>3, <3>4
  <2>4. CASE \E cs \in SUBSET People : AskRemoval(cs)
    BY <2>1, <2>4 DEF AskRemoval
  <2>5. CASE UNCHANGED rosterVars
    BY <2>1, <2>5 DEF rosterVars
  <2> QED
    BY <2>1, <2>2, <2>3, <2>4, <2>5
<1> QED
  BY <1>1, <1>3, Asking

LEMMA RosterStep ==
    ASSUME AnswersInv, RosterInv, [RosterNext]_rosterVars
    PROVE  RosterInv'
<1>1. RosterTypes' /\ NothingLost'
  BY AnswersKept, RosterTypesKept DEF AnswersInv
<1>2. CASE Authenticate \/ CutOff \/ SignOff
  BY <1>1, <1>2, Connecting
<1>3. CASE RosterIsHere \/ Pushed \/ Answered \/ Refused \/ PresenceIsHere
  BY <1>1, <1>3, Arriving
<1>4. CASE ServesRoster \/ ServesPresence \/ ServesProbe \/ ServesAdd \/ ServesRemove
  BY <1>1, <1>4, ServingRoster, ServingPresence, ServingProbe, ServingRequests
<1>5. ASSUME NEW c \in People, \/ AddedElsewhere(c) \/ RemovedElsewhere(c) \/ Withdraws(c)
                               \/ Authorizes(c) \/ ComesOrGoes(c)
      PROVE  RosterInv'
  BY <1>1, <1>5, Happening
<1>6. CASE \/ \E c \in People : AddUser(c)
           \/ \E cs \in SUBSET People : AskRemoval(cs) \/ \E ok \in BOOLEAN : AnswerRemoval(cs, ok)
           \/ UNCHANGED rosterVars
  BY <1>1, <1>6, UserAsking
<1> QED
  BY <1>2, <1>3, <1>4, <1>5, <1>6, PeopleAssumption DEF RosterNext

LEMMA RosterBegins ==
    ASSUME RosterInit
    PROVE  RosterInv
<1>1. RosterTypes /\ NothingLost
  BY AnswersBegin DEF AnswersInv
<1>2. /\ ~linked /\ ~available /\ listed = <<>> /\ toServer = <<>> /\ toClient = <<>>
      /\ DOMAIN listed = {} /\ DOMAIN toServer = {} /\ DOMAIN toClient = {}
  BY DEF RosterInit
<1>3. ~Interested
  BY <1>2 DEF Interested
<1>4. Phases
  BY <1>2 DEF Phases
<1>5. Quiet
  BY <1>2 DEF Quiet
<1> QED
  BY <1>1, <1>3, <1>4, <1>5 DEF RosterInv

LEMMA RosterSettles ==
    ASSUME RosterInv, Settled
    PROVE  \A c \in People \ strays :
              /\ c \in DOMAIN listed <=> c \in DOMAIN roster
              /\ c \in (Granted \cap DOMAIN listed) \ unseen =>
                    \/ listed[c] = presence[c]
                    \/ listed[c] = "noauth" /\ presence[c] = "off"
<1>1. Interested /\ available /\ DOMAIN toClient = {}
  BY DEF Settled, Interested
<1>2. ASSUME NEW c \in People \ strays
      PROVE  /\ c \in DOMAIN listed <=> c \in DOMAIN roster
             /\ c \in (Granted \cap DOMAIN listed) \ unseen =>
                   \/ listed[c] = presence[c]
                   \/ listed[c] = "noauth" /\ presence[c] = "off"
  <2>1. Decided(c) /\ Current(c)
    BY <1>1 DEF RosterInv, Tracked
  <2>2. Free(toClient, Deciding(c)) /\ Free(toClient, Telling(c))
    BY <1>1 DEF Free
  <2>3. c \in DOMAIN listed <=> c \in DOMAIN roster
    BY <1>2, <2>1, <2>2 DEF Decided
  <2>4. ASSUME c \in (Granted \cap DOMAIN listed) \ unseen
        PROVE  listed[c] = presence[c] \/ (listed[c] = "noauth" /\ presence[c] = "off")
    <3>1. Claimed(c) /\ roster[c] = "both"
      BY <1>1, <2>4 DEF Claimed, Granted
    <3> QED
      BY <2>1, <2>2, <2>4, <3>1 DEF Current, Suits
  <2> QED
    BY <2>3, <2>4
<1> QED
  BY <1>2

(* When nothing is under way the contacts shown are those of the server,   *)
(* and their statuses those it knows, for any number of contacts and of    *)
(* stanzas under way (iq_roster_cb, presence_cb).                          *)
THEOREM RosterCorrect == RosterSpec => []RosterShown
<1>1. RosterInit => AnswersInv /\ RosterInv
  BY AnswersBegin, RosterBegins
<1>2. AnswersInv /\ RosterInv /\ [RosterNext]_rosterVars => (AnswersInv /\ RosterInv)'
  BY AnswersKept, RosterTypesKept, RosterStep DEF AnswersInv
<1>3. AnswersInv /\ RosterInv => RosterShown
  BY RosterSettles DEF RosterShown
<1> QED
  BY <1>1, <1>2, <1>3, PTL DEF RosterSpec
=============================================================================
