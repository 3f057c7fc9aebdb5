----------------------------- MODULE GaduProof ------------------------------
(***************************************************************************)
(* Proofs about the Gadu-Gadu plugin: its connection, for any number of    *)
(* GLib sources and ping timers and any depth of nested main loops; and    *)
(* its contacts, for any number of them, any sizes of the packets and any  *)
(* number of packets under way.                                            *)
(***************************************************************************)
EXTENDS GaduSession, GaduContacts, SequenceTheorems, FiniteSetTheorems, TLAPS

-----------------------------------------------------------------------------
(* The connection (GaduSession)                                            *)

(* ConnectedFlag and PingsWhileConnected are inductive together once the   *)
(* number of timers is known to be a number.                               *)
FlagInv == pings \in Nat /\ ConnectedFlag /\ PingsWhileConnected

LEMMA FlagStep == FlagInv /\ [Next]_vars => FlagInv'
<1> SUFFICES ASSUME FlagInv, [Next]_vars PROVE FlagInv'
  OBVIOUS
<1> USE DEF FlagInv, ConnectedFlag, PingsWhileConnected, watchVars, sessionVars
(* The steps that set or clear the flag, a session or a timer.             *)
<1>1. CASE Disconnect
  BY <1>1 DEF Disconnect
<1>2. CASE LoginWhenConnected
  BY <1>2 DEF LoginWhenConnected
<1>3. CASE LoginBegins
  BY <1>3 DEF LoginBegins
<1>4. ASSUME NEW w \in WatchIds, ConnSuccess(w) PROVE FlagInv'
  BY <1>4 DEF ConnSuccess
<1>5. CASE Ping
  BY <1>5 DEF Ping
<1>6. CASE Sighup
  BY <1>6 DEF Sighup
(* All others leave the three variables alone.                             *)
<1>7. CASE UNCHANGED <<session, connected, pings>>
  BY <1>7
<1>8. CASE \/ LoginFails \/ LoginWithoutPassword \/ Reconnect \/ GiveUp
           \/ SuccessEnds \/ Rewatch \/ Drop \/ EndDrain \/ Online \/ Offline
  BY <1>7, <1>8 DEF LoginFails, LoginWithoutPassword, Reconnect, GiveUp,
     SuccessEnds, Rewatch, Drop, EndDrain, Online, Offline
<1>9. ASSUME NEW w \in WatchIds,
             ConnectionLost(w) \/ Progress(w) \/ ConnFailed(w) \/ ServerEvent(w)
      PROVE  FlagInv'
  BY <1>7, <1>9 DEF ConnectionLost, Progress, ConnFailed, ServerEvent
<1>10. CASE UNCHANGED vars
  BY <1>7, <1>10 DEF vars
<1> QED
  BY <1>1, <1>2, <1>3, <1>4, <1>5, <1>6, <1>8, <1>9, <1>10 DEF Next

LEMMA FlagAlways == Spec => []FlagInv
<1>1. Init => FlagInv
  BY DEF Init, FlagInv, ConnectedFlag, PingsWhileConnected
<1> QED
  BY <1>1, FlagStep, PTL DEF Spec

(* The flag "connected" and the session agree in every nesting of events,  *)
(* callbacks and reconnections, and whenever SIGHUP arrives: the code that *)
(* looks at the flag before it uses the session finds it connected, or     *)
(* NULL.                                                                   *)
THEOREM FlagCorrect == Spec => []ConnectedFlag
<1>1. FlagInv => ConnectedFlag
  BY DEF FlagInv
<1> QED
  BY <1>1, FlagAlways, PTL

(* A connected plugin has a timer that keeps the connection alive.         *)
THEOREM PingsCorrect == Spec => []PingsWhileConnected
<1>1. FlagInv => PingsWhileConnected
  BY DEF FlagInv
<1> QED
  BY <1>1, FlagAlways, PTL

-----------------------------------------------------------------------------
(***************************************************************************)
(* Who waits for the server is told.  A session always has a source on its *)
(* own channel, and that source is alive.  Only the callback that returns  *)
(* FALSE could take it away ("drop"), and it has still to disconnect       *)
(* before it gets there, which ends the session.                           *)
(***************************************************************************)
Kinds == {"login", "disconnect", "reconnect", "give up", "succeed", "rewatch", "drop", "drain"}
Task == [do : Kinds, source : WatchIds \cup {0}]
Ends == {"reconnect", "disconnect"}

Covered ==
    \A i \in DOMAIN stack :
        stack[i].do = "drop" /\ stack[i].source \in own =>
            \E j \in DOMAIN stack : i < j /\ stack[j].do \in Ends

WatchedInv ==
    /\ stack \in Seq(Task)
    /\ own \subseteq watches
    /\ session # "none" => own # {}
    /\ Covered

LEMMA DoTask == \A what \in Kinds : Do(what) \in Task /\ Do(what).do = what
BY DEF Do, Task

(* What is done later: not a source to drop, or one that is dropped only   *)
(* after a disconnection.                                                  *)
LEMMA Tasks ==
    ASSUME NEW what \in Kinds, NEW w \in WatchIds
    PROVE  /\ Do(what) \in Task /\ DoFor(w, what) \in Task
           /\ Do(what).do = what /\ DoFor(w, what).do = what /\ DoFor(w, what).source = w
BY DEF Do, DoFor, Task

LEMMA Ending ==
    ASSUME NEW s \in Seq(Task), s # <<>>
    PROVE  /\ Len(s) \in Nat /\ Len(s) - 1 \in Nat /\ DOMAIN s = 1..Len(s)
           /\ Len(s) \in DOMAIN s /\ \A j \in DOMAIN s : ~(Len(s) < j)
<1>1. Len(s) \in Nat \ {0} /\ DOMAIN s = 1..Len(s)
  BY EmptySeq, LenProperties
<1> QED
  BY <1>1

(* The elements of Front(s) and of a list put after it.                    *)
LEMMA FrontOf ==
    ASSUME NEW s \in Seq(Task), s # <<>>
    PROVE  /\ Front(s) \in Seq(Task) /\ Len(Front(s)) = Len(s) - 1
           /\ \A i \in 1..(Len(s) - 1) : Front(s)[i] = s[i]
<1>1. Len(s) - 1 \in Nat
  BY Ending
<1>2. \A i \in 1..(Len(s) - 1) : s[i] \in Task
  BY <1>1, LenProperties, ElementOfSeq
<1> QED
  <2> DEFINE n == Len(s) - 1
  <2>1. n \in Nat /\ \A i \in 1..n : s[i] \in Task
    BY <1>1, <1>2
  <2> HIDE DEF n
  <2>2. SubSeq(s, 1, n) \in Seq(Task)
    BY <2>1, SubSeqProperties
  <2>3. Len(SubSeq(s, 1, n)) = n
    BY <2>1, SubSeqProperties
  <2>4. \A i \in 1..n : SubSeq(s, 1, n)[i] = s[i]
    BY <2>1, SubSeqProperties
  <2> QED
    BY <2>2, <2>3, <2>4 DEF Front, n

LEMMA After ==
    ASSUME NEW s \in Seq(Task), NEW todo \in Seq(Task), NEW new, new = s \o todo
    PROVE  /\ new \in Seq(Task) /\ Len(s) \in Nat /\ Len(todo) \in Nat
           /\ DOMAIN s = 1..Len(s) /\ DOMAIN todo = 1..Len(todo)
           /\ DOMAIN new = 1..(Len(s) + Len(todo))
           /\ \A i \in 1..Len(s) : new[i] = s[i]
           /\ \A k \in 1..Len(todo) : new[Len(s) + k] = todo[k]
<1>1. new \in Seq(Task) /\ Len(new) = Len(s) + Len(todo)
  BY ConcatProperties
<1>2. /\ Len(s) \in Nat /\ Len(todo) \in Nat
      /\ DOMAIN s = 1..Len(s) /\ DOMAIN todo = 1..Len(todo) /\ DOMAIN new = 1..Len(new)
  BY <1>1, LenProperties
<1>3. \A i \in 1..(Len(s) + Len(todo)) : new[i] = IF i <= Len(s) THEN s[i] ELSE todo[i - Len(s)]
  BY ConcatProperties
<1>4. ASSUME NEW i \in 1..Len(s) PROVE new[i] = s[i]
  BY <1>2, <1>3
<1>5. ASSUME NEW k \in 1..Len(todo) PROVE new[Len(s) + k] = todo[k]
  <2>1. Len(s) + k \in 1..(Len(s) + Len(todo)) /\ ~(Len(s) + k <= Len(s)) /\ (Len(s) + k) - Len(s) = k
    BY <1>2
  <2> QED
    BY <1>3, <2>1
<1> QED
  BY <1>1, <1>2, <1>4, <1>5

(* Replacing what is on top: what is below keeps its place.  Nothing is    *)
(* uncovered if only fresh sources become the session's own, and a task    *)
(* that ends the session is replaced by one that does.                     *)
LEMMA ThenCovers ==
    ASSUME WatchedInv, stack # <<>>, NEW todo \in Seq(Task), Then(todo),
           \A k \in DOMAIN todo : todo[k].do # "drop",
           \A i \in DOMAIN stack : stack[i].source \in own' => stack[i].source \in own,
           Top.do \in Ends /\ own' # {} => \E k \in DOMAIN todo : todo[k].do \in Ends
    PROVE  stack' \in Seq(Task) /\ Covered'
<1> DEFINE n == Len(stack) - 1
<1>1. /\ n \in Nat /\ Len(stack) = n + 1 /\ DOMAIN stack = 1..(n + 1)
      /\ Front(stack) \in Seq(Task) /\ Len(Front(stack)) = n
      /\ \A i \in 1..n : Front(stack)[i] = stack[i]
      /\ Top = stack[n + 1]
  <2>1. stack \in Seq(Task)
    BY DEF WatchedInv
  <2>2. n \in Nat /\ Len(stack) = n + 1 /\ DOMAIN stack = 1..(n + 1)
    BY <2>1, Ending
  <2>3. Top = stack[n + 1]
    BY <2>2 DEF Top, Last
  <2> QED
    BY <2>1, <2>2, <2>3, FrontOf
<1>2. /\ stack' \in Seq(Task) /\ Len(todo) \in Nat
      /\ DOMAIN stack' = 1..(n + Len(todo)) /\ DOMAIN todo = 1..Len(todo)
      /\ \A i \in 1..n : stack'[i] = stack[i]
      /\ \A k \in 1..Len(todo) : stack'[n + k] = todo[k]
  <2>1. stack' = Front(stack) \o todo
    BY DEF Then
  <2> HIDE DEF n
  <2>2. /\ stack' \in Seq(Task) /\ Len(todo) \in Nat
        /\ DOMAIN stack' = 1..(n + Len(todo)) /\ DOMAIN todo = 1..Len(todo)
        /\ \A i \in 1..n : stack'[i] = Front(stack)[i]
        /\ \A k \in 1..Len(todo) : stack'[n + k] = todo[k]
    <3>1. Front(stack) \in Seq(Task) /\ Len(Front(stack)) = n
      BY <1>1
    <3> QED
      BY <2>1, <3>1, After
  <2> QED
    BY <1>1, <2>2
<1> HIDE DEF n
<1>3. ASSUME NEW i \in DOMAIN stack', stack'[i].do = "drop", stack'[i].source \in own'
      PROVE  \E j \in DOMAIN stack' : i < j /\ stack'[j].do \in Ends
  <2>1. i \in 1..n
    <3> SUFFICES ASSUME i \notin 1..n PROVE FALSE
      OBVIOUS
    <3>1. i - n \in 1..Len(todo) /\ n + (i - n) = i
      BY <1>1, <1>2
    <3> QED
      BY <1>2, <1>3, <3>1
  <2>2. PICK j \in DOMAIN stack : i < j /\ stack[j].do \in Ends
    <3>1. i \in DOMAIN stack /\ stack'[i] = stack[i]
      BY <1>1, <1>2, <2>1
    <3>2. stack[i].do = "drop" /\ stack[i].source \in own
      BY <1>3, <3>1
    <3> QED
      BY <3>1, <3>2 DEF WatchedInv, Covered
  <2>3. CASE j \in 1..n
    <3>1. j \in DOMAIN stack' /\ stack'[j] = stack[j]
      BY <1>1, <1>2, <2>3
    <3> QED
      BY <2>2, <3>1
  <2>4. CASE j = n + 1
    <3>1. PICK k \in 1..Len(todo) : todo[k].do \in Ends
      BY <1>1, <1>2, <1>3, <2>2, <2>4
    <3>2. n + k \in DOMAIN stack' /\ i < n + k /\ stack'[n + k].do \in Ends
      BY <1>1, <1>2, <2>1, <3>1
    <3> QED
      BY <3>2
  <2> QED
    BY <1>1, <2>2, <2>3, <2>4
<1> QED
  BY <1>2, <1>3 DEF Covered

(* Doing something before that: a source to drop is on the stack only with *)
(* a task above it that ends the session.                                  *)
LEMMA PushCovers ==
    ASSUME WatchedInv, NEW todo \in Seq(Task), stack' = stack \o todo, own' = own,
           \A k \in DOMAIN todo : todo[k].do = "drop" =>
               \E m \in DOMAIN todo : k < m /\ todo[m].do \in Ends
    PROVE  stack' \in Seq(Task) /\ Covered'
<1> DEFINE n == Len(stack)
<1>1. /\ n \in Nat /\ Len(todo) \in Nat /\ stack' \in Seq(Task)
      /\ DOMAIN stack = 1..n /\ DOMAIN todo = 1..Len(todo) /\ DOMAIN stack' = 1..(n + Len(todo))
      /\ \A i \in 1..n : stack'[i] = stack[i]
      /\ \A k \in 1..Len(todo) : stack'[n + k] = todo[k]
  <2>1. stack \in Seq(Task)
    BY DEF WatchedInv
  <2> QED
    BY <2>1, After
<1> HIDE DEF n
<1>2. ASSUME NEW i \in DOMAIN stack', stack'[i].do = "drop", stack'[i].source \in own'
      PROVE  \E j \in DOMAIN stack' : i < j /\ stack'[j].do \in Ends
  <2>1. CASE i \in 1..n
    BY <1>1, <1>2, <2>1 DEF WatchedInv, Covered
  <2>2. CASE i \notin 1..n
    <3>1. i - n \in 1..Len(todo) /\ n + (i - n) = i
      BY <1>1, <2>2
    <3>2. PICK m \in 1..Len(todo) : i - n < m /\ todo[m].do \in Ends
      BY <1>1, <1>2, <3>1
    <3>3. n + m \in DOMAIN stack' /\ i < n + m /\ stack'[n + m].do \in Ends
      BY <1>1, <3>1, <3>2
    <3> QED
      BY <3>3
  <2> QED
    BY <2>1, <2>2
<1> QED
  BY <1>1, <1>2 DEF Covered

(* The lists of tasks that occur.                                          *)
LEMMA Single ==
    ASSUME NEW a \in Task, NEW t, t = <<a>>
    PROVE  t \in Seq(Task) /\ DOMAIN t = {1} /\ t[1] = a
OBVIOUS

LEMMA Pair ==
    ASSUME NEW a \in Task, NEW b \in Task, NEW t, t = <<a, b>>
    PROVE  t \in Seq(Task) /\ DOMAIN t = {1, 2} /\ t[1] = a /\ t[2] = b
OBVIOUS

LEMMA DoPair ==
    ASSUME NEW a \in Kinds, NEW b \in Kinds
    PROVE  /\ <<Do(a), Do(b)>> \in Seq(Task) /\ DOMAIN <<Do(a), Do(b)>> = {1, 2}
           /\ <<Do(a), Do(b)>>[1].do = a /\ <<Do(a), Do(b)>>[2].do = b
BY DoTask, Pair

LEMMA Triple ==
    ASSUME NEW a \in Task, NEW b \in Task, NEW c \in Task, NEW t, t = <<a, b, c>>
    PROVE  /\ t \in Seq(Task) /\ DOMAIN t = {1, 2, 3}
           /\ t[1] = a /\ t[2] = b /\ t[3] = c
OBVIOUS

LEMMA DoTriple ==
    ASSUME NEW a \in Kinds, NEW b \in Kinds, NEW c \in Kinds
    PROVE  /\ <<Do(a), Do(b), Do(c)>> \in Seq(Task) /\ DOMAIN <<Do(a), Do(b), Do(c)>> = {1, 2, 3}
           /\ <<Do(a), Do(b), Do(c)>>[1].do = a /\ <<Do(a), Do(b), Do(c)>>[2].do = b
           /\ <<Do(a), Do(b), Do(c)>>[3].do = c
BY DoTask, Triple

LEMMA Empty == <<>> \in Seq(Task) /\ DOMAIN <<>> = {}
OBVIOUS

LEMMA Appended == ASSUME NEW s \in Seq(Task), NEW x \in Task PROVE Append(s, x) = s \o <<x>>
OBVIOUS

LEMMA Joined ==
    ASSUME NEW a \in Task, NEW b \in Task, NEW c \in Task
    PROVE  <<a>> \o <<b, c>> = <<a, b, c>>
<1> DEFINE s == <<a>> \o <<b, c>>
           t == <<a, b, c>>
<1>1. s \in Seq(Task) /\ Len(s) = 3 /\ s[1] = a /\ s[2] = b /\ s[3] = c
  OBVIOUS
<1>2. t \in Seq(Task) /\ Len(t) = 3 /\ t[1] = a /\ t[2] = b /\ t[3] = c
  OBVIOUS
<1> HIDE DEF s, t
<1>3. \A i \in 1..Len(s) : s[i] = t[i]
  BY <1>1, <1>2
<1>4. s = t
  BY <1>1, <1>2, <1>3, SeqEqual
<1> QED
  BY <1>4 DEF s, t

(* A source that is polled is dispatched: the task it leaves for the end   *)
(* drops it only if the connection is lost, after a reconnection.          *)
LEMMA DispatchCovers ==
    ASSUME WatchedInv, NEW w \in WatchIds,
           NEW todo \in {"lost", "failed", "success", "event", "none"},
           Dispatch(w, todo), own' = own
    PROVE  stack' \in Seq(Task) /\ Covered'
<1>1. /\ Do("reconnect") \in Task /\ Do("drain") \in Task /\ Do("succeed") \in Task
      /\ DoFor(w, "drop") \in Task /\ DoFor(w, "rewatch") \in Task
      /\ Do("reconnect").do = "reconnect" /\ Do("drain").do = "drain"
      /\ Do("succeed").do = "succeed" /\ DoFor(w, "rewatch").do = "rewatch"
  BY DEF Do, DoFor, Task, Kinds
<1>2. PICK t \in Seq(Task) :
          /\ stack' = stack \o t
          /\ \A k \in DOMAIN t : t[k].do = "drop" => \E m \in DOMAIN t : k < m /\ t[m].do \in Ends
  <2>1. CASE todo = "lost"
    <3> DEFINE t == <<DoFor(w, "drop"), Do("reconnect")>>
    <3>1. stack' = stack \o t
      BY <2>1 DEF Dispatch, WatchedInv
    <3>2. t \in Seq(Task) /\ DOMAIN t = {1, 2} /\ t[2].do = "reconnect"
      BY <1>1, Pair
    <3> HIDE DEF t
    <3> QED
      <4>1. /\ t \in Seq(Task) /\ 1 \in DOMAIN t /\ 2 \in DOMAIN t
            /\ t[2].do \in Ends /\ t[2].do # "drop" /\ \A k \in DOMAIN t : k < 2 \/ k = 2
        BY <3>2 DEF Ends
      <4> QED
        BY <3>1, <4>1
  <2>2. CASE todo = "failed"
    <3> DEFINE t == <<DoFor(w, "rewatch"), Do("reconnect")>>
    <3>1. stack' = stack \o t
      BY <2>2 DEF Dispatch, WatchedInv
    <3>2. t \in Seq(Task) /\ DOMAIN t = {1, 2} /\ t[1].do = "rewatch" /\ t[2].do = "reconnect"
      BY <1>1, Pair
    <3> HIDE DEF t
    <3> QED
      BY <3>1, <3>2
  <2>3. CASE todo = "success"
    <3> DEFINE t == <<DoFor(w, "rewatch"), Do("succeed"), Do("drain")>>
    <3>1. stack' = stack \o t
      BY <2>3 DEF Dispatch, WatchedInv
    <3>2. /\ t \in Seq(Task) /\ DOMAIN t = {1, 2, 3}
          /\ t[1].do = "rewatch" /\ t[2].do = "succeed" /\ t[3].do = "drain"
      BY <1>1, Triple
    <3> HIDE DEF t
    <3> QED
      BY <3>1, <3>2
  <2>4. CASE todo = "event"
    <3> DEFINE t == <<DoFor(w, "rewatch"), Do("drain")>>
    <3>1. stack' = stack \o t
      BY <2>4 DEF Dispatch, WatchedInv
    <3>2. t \in Seq(Task) /\ DOMAIN t = {1, 2} /\ t[1].do = "rewatch" /\ t[2].do = "drain"
      BY <1>1, Pair
    <3> HIDE DEF t
    <3> QED
      BY <3>1, <3>2
  <2>5. CASE todo = "none"
    <3> DEFINE t == <<DoFor(w, "rewatch")>>
    <3>1. stack' = stack \o t
      BY <2>5 DEF Dispatch, WatchedInv
    <3>2. t \in Seq(Task) /\ DOMAIN t = {1} /\ t[1].do = "rewatch"
      BY <1>1, Single
    <3> HIDE DEF t
    <3> QED
      BY <3>1, <3>2
  <2> QED
    BY <2>1, <2>2, <2>3, <2>4, <2>5
<1> QED
  BY <1>2, PushCovers

LEMMA WatchedStep == WatchedInv /\ [Next]_vars => WatchedInv'
<1> SUFFICES ASSUME WatchedInv, [Next]_vars PROVE WatchedInv'
  OBVIOUS
<1>0. /\ \A what \in {"drain", "login", "disconnect", "give up"} :
            Do(what) \in Task /\ Do(what).do = what
      /\ stack \in Seq(Task) /\ <<>> \in Seq(Task) /\ DOMAIN <<>> = {}
  <2>1. \A what \in {"drain", "login", "disconnect", "give up"} :
            Do(what) \in Task /\ Do(what).do = what
    BY DoTask DEF Kinds
  <2>2. stack \in Seq(Task)
    BY DEF WatchedInv
  <2> QED
    BY <2>1, <2>2, Empty
<1>K. {"drain", "login", "disconnect", "give up"} \subseteq Kinds
  BY DEF Kinds
<1> USE DEF watchVars, sessionVars
(* Nothing that the invariant is about.                                    *)
<1>1. ASSUME UNCHANGED <<watches, own, stack>>, session' \in {session, "none"} PROVE WatchedInv'
  BY <1>1 DEF WatchedInv, Covered
(* The top of the stack replaced, with no session or the same sources.     *)
<1>2. ASSUME stack # <<>>, NEW todo \in Seq(Task), Then(todo), own' \in {own, {}},
             own' \subseteq watches', session' # "none" => own' # {},
             \A k \in DOMAIN todo : todo[k].do # "drop",
             Top.do \in Ends /\ own' # {} => \E k \in DOMAIN todo : todo[k].do \in Ends
      PROVE  WatchedInv'
  BY <1>2, ThenCovers DEF WatchedInv
(* The callbacks, by what is on top.                                       *)
<1>3. CASE Disconnect
  <2>1. CASE channel = "released"
    BY <1>1, <1>3, <2>1 DEF Disconnect
  <2>2. CASE channel # "released"
    <3> DEFINE t == <<Do("drain")>>
    <3>1. t \in Seq(Task) /\ DOMAIN t = {1} /\ t[1].do = "drain"
      BY <1>0, Single
    <3>2. Then(t) /\ stack # <<>> /\ own' = {} /\ session' = "none"
      BY <1>3, <2>2 DEF Disconnect, Running, TopIs
    <3> HIDE DEF t
    <3> QED
      BY <1>2, <3>1, <3>2
  <2> QED
    BY <2>1, <2>2
<1>4. CASE LoginWhenConnected
  <2>1. Then(<<>>) /\ stack # <<>> /\ own' = {} /\ session' = "none"
    BY <1>4 DEF LoginWhenConnected, Running, TopIs
  <2> QED
    BY <1>0, <1>2, <2>1
<1>5. CASE LoginBegins
  <2>1. PICK w \in WatchIds :
            /\ w \notin Dispatched /\ own' = {w} /\ watches' = watches \cup {w}
            /\ Then(<<>>) /\ stack # <<>> /\ Top.do = "login"
    BY <1>5 DEF LoginBegins, FreshWatch, Running, TopIs
  <2>2. \A i \in DOMAIN stack : stack[i].source \notin own'
    BY <2>1 DEF Dispatched
  <2>3. stack' \in Seq(Task) /\ Covered'
    BY <1>0, <2>1, <2>2, ThenCovers DEF Ends
  <2> QED
    BY <2>1, <2>3 DEF WatchedInv
<1>6. CASE LoginFails
  <2> DEFINE t == <<Do("drain"), Do("disconnect")>>
  <2>1. t \in Seq(Task) /\ DOMAIN t = {1, 2} /\ t[1].do = "drain" /\ t[2].do = "disconnect"
    BY <1>K, DoPair
  <2>2. Then(t) /\ stack # <<>> /\ Top.do = "login" /\ UNCHANGED <<own, watches, session>>
    BY <1>6 DEF LoginFails, Running, TopIs, DisconnectMsg
  <2> HIDE DEF t
  <2> QED
    BY <1>2, <2>1, <2>2 DEF WatchedInv, Ends
<1>7. CASE LoginWithoutPassword
  <2> DEFINE t == <<Do("disconnect"), Do("drain")>>
  <2>1. t \in Seq(Task) /\ DOMAIN t = {1, 2} /\ t[1].do = "disconnect" /\ t[2].do = "drain"
    BY <1>K, DoPair
  <2>2. Then(t) /\ stack # <<>> /\ Top.do = "login" /\ UNCHANGED <<own, watches, session>>
    BY <1>7 DEF LoginWithoutPassword, Running, TopIs
  <2> HIDE DEF t
  <2> QED
    BY <1>2, <2>1, <2>2 DEF WatchedInv, Ends
<1>8. CASE Reconnect
  <2>1. stack # <<>> /\ UNCHANGED <<own, watches, session>>
    BY <1>8 DEF Reconnect, Running, TopIs
  <2>2. CASE UNCHANGED stack
    BY <1>1, <2>1, <2>2
  <2>3. CASE Then(<<Do("login"), Do("disconnect")>>)
    <3> DEFINE t == <<Do("login"), Do("disconnect")>>
    <3>1. t \in Seq(Task) /\ DOMAIN t = {1, 2} /\ t[1].do = "login" /\ t[2].do = "disconnect"
      BY <1>K, DoPair
    <3>2. Then(t)
      BY <2>3
    <3> HIDE DEF t
    <3> QED
      BY <1>2, <2>1, <3>1, <3>2 DEF WatchedInv, Ends
  <2>4. CASE Then(<<Do("give up")>> \o DisconnectMsg)
    <3> DEFINE t == <<Do("give up"), Do("drain"), Do("disconnect")>>
    <3>1. /\ t \in Seq(Task) /\ DOMAIN t = {1, 2, 3}
          /\ t[1].do = "give up" /\ t[2].do = "drain" /\ t[3].do = "disconnect"
      BY <1>K, DoTriple
    <3>2. <<Do("give up")>> \o DisconnectMsg = t
      BY <1>0, Joined DEF DisconnectMsg
    <3>3. Then(t)
      BY <2>4, <3>2
    <3> HIDE DEF t
    <3> QED
      BY <1>2, <2>1, <3>1, <3>3 DEF WatchedInv, Ends
  <2> QED
    BY <1>8, <2>2, <2>3, <2>4 DEF Reconnect
<1>9. CASE GiveUp \/ EndDrain \/ SuccessEnds
  <2>1. UNCHANGED <<own, watches, session>> /\ stack # <<>> /\ Top.do \notin Ends
    BY <1>9 DEF GiveUp, EndDrain, SuccessEnds, Running, TopIs, Ends
  <2>2. CASE UNCHANGED stack
    BY <1>1, <2>1, <2>2
  <2>3. CASE Then(<<>>)
    BY <1>0, <1>2, <2>1, <2>3 DEF WatchedInv
  <2> QED
    BY <1>9, <2>2, <2>3 DEF GiveUp, EndDrain, SuccessEnds
(* The end of test_chan.                                                   *)
<1>10. CASE Rewatch
  <2>0. UNCHANGED session /\ Then(<<>>) /\ stack # <<>> /\ Top.do = "rewatch"
    BY <1>10 DEF Rewatch, Running, TopIs
  <2>1. CASE UNCHANGED <<own, watches>>
    BY <1>0, <1>2, <2>0, <2>1 DEF WatchedInv, Ends
  <2>2. CASE ~UNCHANGED <<own, watches>>
    <3>1. PICK w \in WatchIds :
            /\ w \notin Dispatched
            /\ watches' = (watches \ {Top.source}) \cup {w}
            /\ own' = IF Top.source \in own THEN (own \ {Top.source}) \cup {w} ELSE own
      BY <1>10, <2>2 DEF Rewatch, FreshWatch
    <3>2. \A i \in DOMAIN stack : stack[i].source \in own' => stack[i].source \in own
      BY <3>1 DEF Dispatched
    <3>3. stack' \in Seq(Task) /\ Covered'
      BY <1>0, <2>0, <3>2, ThenCovers DEF Ends
    <3>4. own' \subseteq watches' /\ (session' # "none" => own' # {})
      BY <2>0, <3>1 DEF WatchedInv
    <3> QED
      BY <3>3, <3>4 DEF WatchedInv
  <2> QED
    BY <2>1, <2>2
(* Nothing above a task to drop a source ends the session: the source is   *)
(* not its own any more.                                                   *)
<1>11. CASE Drop
  <2>1. /\ UNCHANGED session /\ Then(<<>>) /\ stack # <<>> /\ Top.do = "drop"
        /\ watches' = watches \ {Top.source} /\ own' = own \ {Top.source}
    BY <1>11 DEF Drop, Running, TopIs
  <2>2. /\ Len(stack) \in DOMAIN stack /\ Top = stack[Len(stack)]
        /\ \A j \in DOMAIN stack : ~(Len(stack) < j)
    <3>1. stack \in Seq(Task) /\ stack # <<>>
      BY <1>0, <2>1
    <3> QED
      BY <3>1, Ending DEF Top, Last
  <2>3. Top.source \notin own
    BY <2>1, <2>2 DEF WatchedInv, Covered
  <2>4. own' = own /\ own' \subseteq watches'
    BY <2>1, <2>3 DEF WatchedInv
  <2> QED
    BY <1>0, <1>2, <2>1, <2>4 DEF WatchedInv, Ends
(* GLib dispatches a source.                                               *)
<1>12. ASSUME NEW w \in WatchIds, NEW todo \in {"lost", "failed", "success", "event", "none"},
              Dispatch(w, todo), UNCHANGED <<own, watches>>, session' # "none" => session # "none"
       PROVE  WatchedInv'
  BY <1>12, DispatchCovers DEF WatchedInv
<1>13. ASSUME NEW w \in WatchIds,
              ConnectionLost(w) \/ Progress(w) \/ ConnSuccess(w) \/ ConnFailed(w) \/ ServerEvent(w)
       PROVE  WatchedInv'
  BY <1>12, <1>13 DEF ConnectionLost, Progress, ConnSuccess, ConnFailed, ServerEvent
(* The user.                                                               *)
<1>14. ASSUME NEW todo \in Seq(Task), stack' = stack \o todo, UNCHANGED <<own, watches, session>>,
              \A k \in DOMAIN todo : todo[k].do # "drop"
       PROVE  WatchedInv'
  BY <1>14, PushCovers DEF WatchedInv
<1>15. CASE Online
  <2>1. PICK what \in {"drain", "login"} : stack' = stack \o <<Do(what)>>
    <3>1. stack' = Append(stack, Do("drain")) \/ stack' = Append(stack, Do("login"))
      BY <1>15 DEF Online
    <3> QED
      BY <1>0, <3>1, Appended
  <2> DEFINE t == <<Do(what)>>
  <2>2. t \in Seq(Task) /\ DOMAIN t = {1} /\ t[1].do = what
    <3>1. Do(what) \in Task /\ Do(what).do = what
      BY <1>0
    <3> QED
      BY <3>1, Single
  <2>3. stack' = stack \o t /\ UNCHANGED <<own, watches, session>>
    BY <1>15, <2>1 DEF Online
  <2> HIDE DEF t
  <2> QED
    BY <1>14, <2>2, <2>3
<1>16. CASE Offline
  <2>1. PICK what \in {"drain", "login"} : stack' = stack \o <<Do("disconnect"), Do(what)>>
    BY <1>16 DEF Offline
  <2> DEFINE t == <<Do("disconnect"), Do(what)>>
  <2>2. t \in Seq(Task) /\ DOMAIN t = {1, 2} /\ t[1].do = "disconnect" /\ t[2].do = what
    <3>1. /\ Do(what) \in Task /\ Do(what).do = what
          /\ Do("disconnect") \in Task /\ Do("disconnect").do = "disconnect"
      BY <1>0
    <3> QED
      BY <3>1, Pair
  <2>3. stack' = stack \o t /\ UNCHANGED <<own, watches, session>>
    BY <1>16, <2>1 DEF Offline
  <2> HIDE DEF t
  <2> QED
    BY <1>14, <2>2, <2>3
<1>17. CASE Ping
  BY <1>1, <1>17 DEF Ping
<1>18. CASE Sighup
  BY <1>18 DEF Sighup, WatchedInv, Covered
<1>19. CASE UNCHANGED vars
  BY <1>1, <1>19 DEF vars
<1> QED
  BY <1>3, <1>4, <1>5, <1>6, <1>7, <1>8, <1>9, <1>10, <1>11, <1>13, <1>15, <1>16, <1>17, <1>18,
     <1>19 DEF Next

(* Whoever waits for the server is told, whatever happens inside the       *)
(* emissions of test_chan, of a disconnection and of a reconnection: the   *)
(* callback that returns FALSE never takes the source of the session that  *)
(* a reconnection, or a user inside one, has begun meanwhile.              *)
THEOREM WatchedCorrect == Spec => []SessionWatched
<1>1. Init => WatchedInv
  <2>1. ASSUME Init PROVE stack \in Seq(Task) /\ \A i \in DOMAIN stack : stack[i].do # "drop"
    <3>1. Do("login") \in Task /\ Do("login").do = "login"
      BY DoTask DEF Kinds
    <3>2. CASE stack = <<>>
      BY <3>2
    <3>3. CASE stack = <<Do("login")>>
      <4>1. stack \in Seq(Task) /\ DOMAIN stack = {1} /\ stack[1] = Do("login")
        BY <3>1, <3>3, Single
      <4> QED
        BY <3>1, <4>1
    <3> QED
      BY <2>1, <3>2, <3>3 DEF Init
  <2> QED
    BY <2>1 DEF Init, WatchedInv, Covered
<1>2. WatchedInv => SessionWatched
  BY DEF WatchedInv, SessionWatched
<1> QED
  BY <1>1, <1>2, WatchedStep, PTL DEF Spec

-----------------------------------------------------------------------------
(* The contacts (GaduContacts)                                             *)

(* The packet p is of one of the kinds, and about c.                       *)
About(p, c, kinds) == p.is \in kinds /\ c \in p.of

(* The last packet of q about c is one of yes; if none is, from is one.    *)
ComesTo(q, c, kinds, yes, from) ==
    \/ \E i \in DOMAIN q : /\ About(q[i], c, kinds) /\ q[i].is \in yes
                           /\ \A j \in DOMAIN q : j > i => ~About(q[j], c, kinds)
    \/ from \in yes /\ \A j \in DOMAIN q : ~About(q[j], c, kinds)

LEMMA Concatenated ==
    ASSUME NEW S, NEW s \in Seq(S), NEW t \in Seq(S)
    PROVE  /\ s \o t \in Seq(S) /\ Len(s) \in Nat /\ Len(t) \in Nat
           /\ DOMAIN s = 1..Len(s) /\ DOMAIN t = 1..Len(t)
           /\ DOMAIN (s \o t) = 1..(Len(s) + Len(t))
           /\ \A i \in DOMAIN s : (s \o t)[i] = s[i]
           /\ \A i \in DOMAIN t : (s \o t)[Len(s) + i] = t[i]
<1>1. /\ Len(s) \in Nat /\ DOMAIN s = 1..Len(s) /\ Len(t) \in Nat /\ DOMAIN t = 1..Len(t)
  BY LenProperties
<1>2. /\ s \o t \in Seq(S) /\ Len(s \o t) = Len(s) + Len(t)
      /\ \A i \in 1..(Len(s) + Len(t)) : (s \o t)[i] = IF i <= Len(s) THEN s[i] ELSE t[i - Len(s)]
  BY ConcatProperties
<1>3. DOMAIN (s \o t) = 1..(Len(s) + Len(t))
  BY <1>2, LenProperties
<1>4. \A i \in DOMAIN s : (s \o t)[i] = s[i]
  BY <1>1, <1>2
<1>5. \A i \in DOMAIN t : (s \o t)[Len(s) + i] = t[i]
  BY <1>1, <1>2
<1> QED
  BY <1>1, <1>2, <1>3, <1>4, <1>5

(* More packets, none of them about c.                                     *)
LEMMA Silent ==
    ASSUME NEW S, NEW s \in Seq(S), NEW t \in Seq(S),
           NEW c, NEW kinds, NEW yes, NEW from,
           \A i \in DOMAIN t : ~About(t[i], c, kinds)
    PROVE  ComesTo(s \o t, c, kinds, yes, from) <=> ComesTo(s, c, kinds, yes, from)
<1>u. PICK u : u = s \o t
  OBVIOUS
<1>1. /\ Len(s) \in Nat /\ Len(t) \in Nat
      /\ DOMAIN s = 1..Len(s) /\ DOMAIN t = 1..Len(t)
      /\ DOMAIN u = 1..(Len(s) + Len(t))
      /\ \A i \in DOMAIN s : u[i] = s[i]
      /\ \A i \in DOMAIN t : u[Len(s) + i] = t[i]
  BY <1>u, Concatenated
<1>2. \A j \in DOMAIN u : About(u[j], c, kinds) => j \in DOMAIN s
  <2> SUFFICES ASSUME NEW j \in DOMAIN u, j \notin DOMAIN s
               PROVE  ~About(u[j], c, kinds)
    OBVIOUS
  <2>1. j - Len(s) \in DOMAIN t /\ Len(s) + (j - Len(s)) = j
    BY <1>1
  <2>2. u[j] = t[j - Len(s)]
    BY <1>1, <2>1
  <2> QED
    BY <2>1, <2>2
<1>3. DOMAIN s \subseteq DOMAIN u
  BY <1>1
<1>4. ComesTo(u, c, kinds, yes, from) <=> ComesTo(s, c, kinds, yes, from)
  BY <1>1, <1>2, <1>3 DEF ComesTo
<1> QED
  BY <1>u, <1>4

(* More packets, the last one of which about c is t[i].                    *)
LEMMA Settles ==
    ASSUME NEW S, NEW s \in Seq(S), NEW t \in Seq(S),
           NEW c, NEW kinds, NEW yes, NEW from, NEW i \in DOMAIN t,
           About(t[i], c, kinds),
           \A j \in DOMAIN t : j > i => ~About(t[j], c, kinds)
    PROVE  ComesTo(s \o t, c, kinds, yes, from) <=> t[i].is \in yes
<1>u. PICK u : u = s \o t
  OBVIOUS
<1>1. /\ Len(s) \in Nat /\ Len(t) \in Nat
      /\ DOMAIN s = 1..Len(s) /\ DOMAIN t = 1..Len(t)
      /\ DOMAIN u = 1..(Len(s) + Len(t))
      /\ \A j \in DOMAIN s : u[j] = s[j]
      /\ \A j \in DOMAIN t : u[Len(s) + j] = t[j]
  BY <1>u, Concatenated
<1>2. Len(s) + i \in DOMAIN u /\ u[Len(s) + i] = t[i]
  BY <1>1
<1>3. ASSUME NEW j \in DOMAIN u, j > Len(s) + i
      PROVE  ~About(u[j], c, kinds)
  <2>1. j - Len(s) \in DOMAIN t /\ Len(s) + (j - Len(s)) = j /\ j - Len(s) > i
    BY <1>1, <1>3
  <2>2. u[j] = t[j - Len(s)]
    BY <1>1, <2>1
  <2> QED
    BY <2>1, <2>2
<1>4. ASSUME NEW j \in DOMAIN u, About(u[j], c, kinds),
             \A k \in DOMAIN u : k > j => ~About(u[k], c, kinds)
      PROVE  j = Len(s) + i
  <2>1. ~(Len(s) + i > j)
    BY <1>2, <1>4
  <2> QED
    BY <1>1, <1>3, <1>4, <2>1
<1>5. ComesTo(u, c, kinds, yes, from) <=> t[i].is \in yes
  BY <1>2, <1>3, <1>4 DEF ComesTo
<1> QED
  BY <1>u, <1>5

(* The first packet is taken.                                              *)
LEMMA Taken ==
    ASSUME NEW S, NEW s \in Seq(S), s # <<>>,
           NEW c, NEW kinds, NEW yes, NEW from, NEW then,
           IF About(Head(s), c, kinds) THEN then \in yes <=> Head(s).is \in yes
                                       ELSE then \in yes <=> from \in yes
    PROVE  ComesTo(Tail(s), c, kinds, yes, then) <=> ComesTo(s, c, kinds, yes, from)
<1>u. PICK u : u = Tail(s)
  OBVIOUS
<1>1. /\ Len(s) \in Nat \ {0} /\ DOMAIN s = 1..Len(s) /\ DOMAIN u = 1..(Len(s) - 1)
      /\ \A i \in DOMAIN u : u[i] = s[i + 1]
      /\ Head(s) = s[1]
  <2>1. Len(s) \in Nat \ {0} /\ DOMAIN s = 1..Len(s)
    BY EmptySeq, LenProperties
  <2>2. u \in Seq(S) /\ Len(u) = Len(s) - 1 /\ \A i \in 1..Len(u) : u[i] = s[i + 1]
    BY <1>u, HeadTailProperties
  <2> QED
    BY <2>1, <2>2, LenProperties
<1>2. \A j \in DOMAIN s : j # 1 => j - 1 \in DOMAIN u /\ u[j - 1] = s[j]
  BY <1>1
<1>3. \A i \in DOMAIN u : i + 1 \in DOMAIN s /\ i + 1 > 1
  BY <1>1
<1>4. 1 \in DOMAIN s
  BY <1>1
<1>5. ASSUME ComesTo(u, c, kinds, yes, then)
      PROVE  ComesTo(s, c, kinds, yes, from)
  <2>1. ASSUME NEW i \in DOMAIN u, About(u[i], c, kinds), u[i].is \in yes,
               \A j \in DOMAIN u : j > i => ~About(u[j], c, kinds)
        PROVE  ComesTo(s, c, kinds, yes, from)
    <3>1. ASSUME NEW j \in DOMAIN s, j > i + 1
          PROVE  ~About(s[j], c, kinds)
      <4>1. j # 1 /\ j - 1 > i
        BY <1>1, <3>1
      <4> QED
        BY <4>1, <1>2, <2>1
    <3> QED
      BY <3>1, <2>1, <1>1, <1>3 DEF ComesTo
  <2>2. ASSUME then \in yes, \A j \in DOMAIN u : ~About(u[j], c, kinds)
        PROVE  ComesTo(s, c, kinds, yes, from)
    <3>1. \A j \in DOMAIN s : j # 1 => ~About(s[j], c, kinds)
      BY <1>2, <2>2
    <3>2. CASE About(s[1], c, kinds)
      <4>1. s[1].is \in yes
        BY <3>2, <2>2, <1>1
      <4>2. \A j \in DOMAIN s : j > 1 => ~About(s[j], c, kinds)
        BY <3>1, <1>1
      <4> QED
        BY <4>1, <4>2, <3>2, <1>4 DEF ComesTo
    <3>3. CASE ~About(s[1], c, kinds)
      <4>1. from \in yes
        BY <3>3, <2>2, <1>1
      <4> QED
        BY <4>1, <3>1, <3>3 DEF ComesTo
    <3> QED
      BY <3>2, <3>3
  <2> QED
    BY <1>5, <2>1, <2>2 DEF ComesTo
<1>6. ASSUME ComesTo(s, c, kinds, yes, from)
      PROVE  ComesTo(u, c, kinds, yes, then)
  <2>1. ASSUME NEW i \in DOMAIN s, About(s[i], c, kinds), s[i].is \in yes,
               \A j \in DOMAIN s : j > i => ~About(s[j], c, kinds)
        PROVE  ComesTo(u, c, kinds, yes, then)
    <3>1. CASE i = 1
      <4>1. ASSUME NEW j \in DOMAIN u PROVE ~About(u[j], c, kinds)
        BY <1>1, <1>3, <2>1, <3>1
      <4>2. then \in yes
        BY <1>1, <2>1, <3>1
      <4> QED
        BY <4>1, <4>2 DEF ComesTo
    <3>2. CASE i # 1
      <4>1. i - 1 \in DOMAIN u /\ u[i - 1] = s[i]
        BY <1>2, <3>2
      <4>2. ASSUME NEW j \in DOMAIN u, j > i - 1 PROVE ~About(u[j], c, kinds)
        <5>1. j + 1 > i /\ j + 1 \in DOMAIN s /\ u[j] = s[j + 1]
          BY <1>1, <4>2
        <5> QED
          BY <5>1, <2>1
      <4> QED
        BY <4>1, <4>2, <2>1 DEF ComesTo
    <3> QED
      BY <3>1, <3>2
  <2>2. ASSUME from \in yes, \A j \in DOMAIN s : ~About(s[j], c, kinds)
        PROVE  ComesTo(u, c, kinds, yes, then)
    <3>1. then \in yes
      BY <2>2, <1>1, <1>4
    <3>2. \A j \in DOMAIN u : ~About(u[j], c, kinds)
      BY <2>2, <1>1, <1>3
    <3> QED
      BY <3>1, <3>2 DEF ComesTo
  <2> QED
    BY <1>6, <2>1, <2>2 DEF ComesTo
<1> QED
  BY <1>u, <1>5, <1>6

(* Nothing is under way.                                                   *)
LEMMA Nothing ==
    ASSUME NEW c, NEW kinds, NEW yes, NEW from
    PROVE  ComesTo(<<>>, c, kinds, yes, from) <=> from \in yes
  BY DEF ComesTo
-----------------------------------------------------------------------------

PacketKinds == {"notify_first", "notify_last", "list_empty", "add", "remove", "avail", "not_avail",
          "put", "put_more", "put_reply", "put_more_reply",
          "get", "get_more_reply", "get_reply"}
Packets  == [is : PacketKinds, of : SUBSET Contacts]
Pointers == [contact : Contacts, own : BOOLEAN, freed : BOOLEAN]
Tells    == {"avail", "not_avail"}

ContactTypes ==
    /\ contacts \in SUBSET Contacts /\ status \in [Contacts -> Tells]
    /\ toServer \in Seq(Packets) /\ toClient \in Seq(Packets)
    /\ watched \in SUBSET Contacts /\ presence \in [Contacts -> Tells]
    /\ stored \in SUBSET Contacts /\ reply \in SUBSET Contacts
    /\ adding \in Seq(Pointers) /\ dialogs \in Seq(Pointers)
    /\ strays \in SUBSET Contacts /\ late \in SUBSET Contacts

(* The parts of a set of contacts hold each of them once.                  *)
LEMMA Divided ==
    ASSUME NEW cs \in SUBSET Contacts, NEW n, NEW parts \in Parts(cs, n)
    PROVE  /\ parts \in Seq(SUBSET cs) /\ Len(parts) \in Nat /\ DOMAIN parts = 1..Len(parts)
           /\ \A c \in cs : \E i \in DOMAIN parts : c \in parts[i]
           /\ \A i \in DOMAIN parts : \A j \in 1..(i - 1) : parts[i] \cap parts[j] = {}
<1>1. IsFiniteSet(cs) /\ Cardinality(cs) \in Nat
  BY ContactAssumption, FS_Subset, FS_CardinalityType
<1>2. PICK k \in 0..Cardinality(cs) :
         /\ parts \in [1..k -> SUBSET cs]
         /\ UNION {parts[i] : i \in 1..k} = cs
         /\ \A i \in 1..k : \A j \in 1..(i - 1) : parts[i] \cap parts[j] = {}
  BY DEF Parts
<1>3. k \in Nat
  BY <1>1, <1>2
<1>4. parts \in Seq(SUBSET cs)
  BY <1>2, <1>3, SeqDef
<1>5. Len(parts) = k /\ DOMAIN parts = 1..k
  <2>1. DOMAIN parts = 1..k
    BY <1>2
  <2> QED
    BY <2>1, <1>3, <1>4, LenProperties
<1> QED
  BY <1>2, <1>3, <1>4, <1>5

LEMMA OnePart ==
    ASSUME NEW cs \in SUBSET Contacts, NEW n, NEW parts \in Parts(cs, n), NEW c \in cs
    PROVE  \E i \in DOMAIN parts :
              c \in parts[i] /\ \A j \in DOMAIN parts : c \in parts[j] => j = i
<1>1. Len(parts) \in Nat /\ DOMAIN parts = 1..Len(parts)
  BY Divided
<1>2. PICK i \in DOMAIN parts : c \in parts[i]
  BY Divided
<1>3. ASSUME NEW j \in DOMAIN parts, c \in parts[j] PROVE j = i
  <2>1. \A k \in DOMAIN parts : \A l \in 1..(k - 1) : parts[k] \cap parts[l] = {}
    BY Divided
  <2>2. ~(j \in 1..(i - 1)) /\ ~(i \in 1..(j - 1))
    BY <1>2, <1>3, <2>1
  <2> QED
    BY <2>2, <1>1
<1> QED
  BY <1>2, <1>3

(* Packets of one kind, a part in each.                                    *)
LEMMA Packed ==
    ASSUME NEW cs \in SUBSET Contacts, NEW parts \in Seq(SUBSET cs),
           NEW kind, kind \in [DOMAIN parts -> PacketKinds]
    PROVE  [i \in DOMAIN parts |-> Packet(kind[i], parts[i])] \in Seq(Packets)
<1>1. DOMAIN parts = 1..Len(parts) /\ Len(parts) \in Nat /\ \A i \in DOMAIN parts : parts[i] \in SUBSET cs
  BY LenProperties, ElementOfSeq
<1>2. \A i \in DOMAIN parts : Packet(kind[i], parts[i]) \in Packets
  BY <1>1 DEF Packet, Packets
<1>3. [i \in DOMAIN parts |-> Packet(kind[i], parts[i])] \in [1..Len(parts) -> Packets]
  BY <1>1, <1>2
<1> QED
  BY <1>1, <1>3, SeqDef

LEMMA OnePacket ==
    ASSUME NEW S, NEW p \in S
    PROVE  <<p>> \in Seq(S) /\ DOMAIN <<p>> = 1..1 /\ Len(<<p>>) = 1 /\ <<p>>[1] = p
  OBVIOUS

(* gg_notify tells the server of each contact, the last part last.         *)
LEMMA Notified ==
    ASSUME NEW cs \in SUBSET Contacts, NEW t \in Notify(cs)
    PROVE  /\ t \in Seq(Packets)
           /\ \A i \in DOMAIN t : /\ t[i].is \in {"notify_first", "notify_last", "list_empty"}
                                  /\ t[i].of \subseteq cs
           /\ \A c \in cs : \E i \in DOMAIN t :
                 /\ t[i].is \in {"notify_first", "notify_last"} /\ c \in t[i].of
                 /\ \A j \in DOMAIN t : c \in t[j].of => j = i
           /\ \A i \in DOMAIN t : t[i].is = "notify_first" =>
                 \E j \in DOMAIN t : j > i /\ t[j].is = "notify_last"
<1>1. CASE cs = {}
  <2>1. t = <<Packet("list_empty", {})>>
    BY <1>1 DEF Notify
  <2>2. Packet("list_empty", {}) \in Packets
    BY DEF Packet, Packets, PacketKinds
  <2>3. t \in Seq(Packets) /\ DOMAIN t = 1..1 /\ t[1] = Packet("list_empty", {})
    BY <2>1, <2>2, OnePacket
  <2>4. t[1].is = "list_empty" /\ t[1].of = {}
    BY <2>3 DEF Packet
  <2> QED
    BY <1>1, <2>3, <2>4
<1>2. CASE cs # {}
  <2>1. PICK parts \in Parts(cs, NotifyPart) :
           t = [i \in DOMAIN parts |->
                   Packet(IF i < Len(parts) THEN "notify_first" ELSE "notify_last", parts[i])]
    BY <1>2 DEF Notify
  <2>2. /\ parts \in Seq(SUBSET cs) /\ Len(parts) \in Nat \ {0} /\ DOMAIN parts = 1..Len(parts)
        /\ \A c \in cs : \E i \in DOMAIN parts :
                 c \in parts[i] /\ \A j \in DOMAIN parts : c \in parts[j] => j = i
    <3>1. parts \in Seq(SUBSET cs) /\ Len(parts) \in Nat /\ DOMAIN parts = 1..Len(parts)
      BY Divided
    <3>2. \A c \in cs : \E i \in DOMAIN parts :
                 c \in parts[i] /\ \A j \in DOMAIN parts : c \in parts[j] => j = i
      BY OnePart
    <3>3. Len(parts) # 0
      BY <3>1, <3>2, <1>2
    <3> QED
      BY <3>1, <3>2, <3>3
  <2>3. PICK kind : kind = [i \in DOMAIN parts |->
                               IF i < Len(parts) THEN "notify_first" ELSE "notify_last"]
    OBVIOUS
  <2>4. kind \in [DOMAIN parts -> PacketKinds]
    BY <2>3 DEF PacketKinds
  <2>5. t = [i \in DOMAIN parts |-> Packet(kind[i], parts[i])]
    BY <2>1, <2>3
  <2>6. t \in Seq(Packets)
    BY <2>2, <2>4, <2>5, Packed
  <2>7. /\ DOMAIN t = 1..Len(parts)
        /\ \A i \in DOMAIN t : /\ t[i].is = IF i < Len(parts) THEN "notify_first" ELSE "notify_last"
                               /\ t[i].of = parts[i]
    BY <2>1, <2>2 DEF Packet
  <2>8. \A i \in DOMAIN t : t[i].of \subseteq cs
    BY <2>2, <2>7, ElementOfSeq
  <2>9. Len(parts) \in DOMAIN t /\ t[Len(parts)].is = "notify_last"
    BY <2>2, <2>7
  <2>10. \A i \in DOMAIN t : t[i].is = "notify_first" => Len(parts) > i
    BY <2>2, <2>7
  <2> QED
    BY <2>2, <2>6, <2>7, <2>8, <2>9, <2>10
<1> QED
  BY <1>1, <1>2

(* gg_add_notify for each contact of cs.                                   *)
LEMMA AddsSent ==
    ASSUME NEW cs \in SUBSET Contacts, NEW n, NEW parts \in Parts(cs, n)
    PROVE  /\ Notices(parts) \in Seq(Packets)
           /\ \A i \in DOMAIN Notices(parts) :
                 Notices(parts)[i].is = "add" /\ Notices(parts)[i].of \subseteq cs
<1>1. parts \in Seq(SUBSET cs) /\ Len(parts) \in Nat /\ DOMAIN parts = 1..Len(parts)
  BY Divided
<1>t. PICK t : t = Notices(parts)
  OBVIOUS
<1>2. PICK kind : kind = [i \in DOMAIN parts |-> "add"]
  OBVIOUS
<1>3. kind \in [DOMAIN parts -> PacketKinds] /\ t = [i \in DOMAIN parts |-> Packet(kind[i], parts[i])]
  BY <1>t, <1>2 DEF PacketKinds, Notices
<1>4. t \in Seq(Packets)
  BY <1>1, <1>3, Packed
<1>5. /\ DOMAIN t = DOMAIN parts
      /\ \A i \in DOMAIN t : t[i].is = "add" /\ t[i].of = parts[i]
  BY <1>t DEF Packet, Notices
<1>6. \A i \in DOMAIN t : t[i].of \subseteq cs
  BY <1>1, <1>5, ElementOfSeq
<1> QED
  BY <1>t, <1>4, <1>5, <1>6

LEMMA AddSent ==
    ASSUME NEW cs \in SUBSET Contacts, NEW n, NEW parts \in Parts(cs, n), NEW c \in cs
    PROVE  \E i \in DOMAIN Notices(parts) :
              /\ c \in Notices(parts)[i].of
              /\ \A j \in DOMAIN Notices(parts) : c \in Notices(parts)[j].of => j = i
<1>1. PICK i \in DOMAIN parts : c \in parts[i] /\ \A j \in DOMAIN parts : c \in parts[j] => j = i
  BY OnePart
<1>2. /\ DOMAIN Notices(parts) = DOMAIN parts
      /\ \A j \in DOMAIN parts : Notices(parts)[j].of = parts[j]
  BY DEF Packet, Notices
<1> QED
  BY <1>1, <1>2

LEMMA Sheeted ==
    ASSUME NEW cs \in SUBSET Contacts, NEW parts \in Sheets(cs)
    PROVE  /\ parts \in Seq(SUBSET cs) /\ Len(parts) \in Nat \ {0} /\ DOMAIN parts = 1..Len(parts)
           /\ \A c \in cs : \E i \in DOMAIN parts : c \in parts[i]
<1>1. CASE cs = {}
  <2>1. parts = <<{}>> /\ {} \in SUBSET cs
    BY <1>1 DEF Sheets
  <2>2. parts \in Seq(SUBSET cs) /\ DOMAIN parts = 1..1 /\ Len(parts) = 1
    BY <2>1, OnePacket
  <2> QED
    BY <1>1, <2>2
<1>2. CASE cs # {}
  <2>1. parts \in Parts(cs, ListPart)
    BY <1>2 DEF Sheets
  <2>2. /\ parts \in Seq(SUBSET cs) /\ Len(parts) \in Nat /\ DOMAIN parts = 1..Len(parts)
        /\ \A c \in cs : \E i \in DOMAIN parts : c \in parts[i]
    BY <2>1, Divided
  <2>3. Len(parts) # 0
    BY <1>2, <2>2
  <2> QED
    BY <2>2, <2>3
<1> QED
  BY <1>1, <1>2

LEMMA PutSent ==
    ASSUME NEW cs \in SUBSET Contacts, NEW t \in Put(cs)
    PROVE  t \in Seq(Packets) /\ \A i \in DOMAIN t : t[i].is \in {"put", "put_more"}
<1>1. PICK parts \in Sheets(cs) :
         t = [i \in DOMAIN parts |-> Packet(IF i = 1 THEN "put" ELSE "put_more", parts[i])]
  BY DEF Put
<1>2. parts \in Seq(SUBSET cs)
  BY Sheeted
<1>3. PICK kind : kind = [i \in DOMAIN parts |-> IF i = 1 THEN "put" ELSE "put_more"]
  OBVIOUS
<1>4. kind \in [DOMAIN parts -> PacketKinds] /\ t = [i \in DOMAIN parts |-> Packet(kind[i], parts[i])]
  BY <1>1, <1>3 DEF PacketKinds
<1>5. t \in Seq(Packets)
  BY <1>2, <1>4, Packed
<1>6. \A i \in DOMAIN t : t[i].is \in {"put", "put_more"}
  BY <1>1 DEF Packet
<1> QED
  BY <1>5, <1>6

(* The server's list is sent whole, and its last part last.                *)
LEMMA ListSent ==
    ASSUME stored \in SUBSET Contacts, NEW t \in Stored
    PROVE  /\ t \in Seq(Packets) /\ Len(t) \in Nat \ {0} /\ DOMAIN t = 1..Len(t)
           /\ \A i \in DOMAIN t :
                 /\ t[i].is = IF i < Len(t) THEN "get_more_reply" ELSE "get_reply"
                 /\ t[i].of \subseteq stored
           /\ \A c \in stored : \E i \in DOMAIN t : c \in t[i].of
<1>1. PICK parts \in Sheets(stored) :
         t = [i \in DOMAIN parts |->
                 Packet(IF i < Len(parts) THEN "get_more_reply" ELSE "get_reply", parts[i])]
  BY DEF Stored
<1>2. /\ parts \in Seq(SUBSET stored) /\ Len(parts) \in Nat \ {0} /\ DOMAIN parts = 1..Len(parts)
      /\ \A c \in stored : \E i \in DOMAIN parts : c \in parts[i]
  BY Sheeted
<1>3. PICK kind : kind = [i \in DOMAIN parts |->
                             IF i < Len(parts) THEN "get_more_reply" ELSE "get_reply"]
  OBVIOUS
<1>4. kind \in [DOMAIN parts -> PacketKinds] /\ t = [i \in DOMAIN parts |-> Packet(kind[i], parts[i])]
  BY <1>1, <1>3 DEF PacketKinds
<1>5. t \in Seq(Packets)
  BY <1>2, <1>4, Packed
<1>6. /\ DOMAIN t = DOMAIN parts
      /\ \A i \in DOMAIN t : /\ t[i].is = IF i < Len(parts) THEN "get_more_reply" ELSE "get_reply"
                             /\ t[i].of = parts[i]
  BY <1>1 DEF Packet
<1>7. Len(t) = Len(parts)
  <2>1. Len(t) \in Nat /\ DOMAIN t = 1..Len(t)
    BY <1>5, LenProperties
  <2>2. Len(t) \in 1..Len(parts) /\ Len(parts) \in 1..Len(t)
    BY <2>1, <1>2, <1>6
  <2>3. Len(parts) \in Nat
    BY <1>2
  <2>4. \A a, b \in Nat : a \in 1..b /\ b \in 1..a => a = b
    OBVIOUS
  <2> QED
    BY <2>1, <2>2, <2>3, <2>4
<1>8. \A i \in DOMAIN t : t[i].of \subseteq stored
  BY <1>2, <1>6, ElementOfSeq
<1> QED
  BY <1>2, <1>5, <1>6, <1>7, <1>8

LEMMA Reported ==
    ASSUME NEW is \in PacketKinds, NEW cs \in SUBSET Contacts
    PROVE  /\ Reports(is, cs) \in Seq(Packets)
           /\ \A i \in DOMAIN Reports(is, cs) :
                 Reports(is, cs)[i].is = is /\ Reports(is, cs)[i].of = cs
           /\ cs # {} => DOMAIN Reports(is, cs) = 1..1
<1>1. Packet(is, cs) \in Packets /\ Packet(is, cs).is = is /\ Packet(is, cs).of = cs
  BY DEF Packet, Packets
<1>2. CASE cs = {}
  BY <1>2 DEF Reports
<1>3. CASE cs # {}
  <2>1. Reports(is, cs) = <<Packet(is, cs)>>
    BY <1>3 DEF Reports
  <2>2. /\ Reports(is, cs) \in Seq(Packets) /\ DOMAIN Reports(is, cs) = 1..1
        /\ Reports(is, cs)[1] = Packet(is, cs)
    BY <1>1, <2>1, OnePacket
  <2> QED
    BY <1>1, <2>2
<1> QED
  BY <1>2, <1>3

LEMMA Answered ==
    ASSUME ContactTypes, NEW p \in Packets, NEW t \in Answers(p)
    PROVE  t \in Seq(Packets)
<1>1. CASE p.is = "notify_last"
  <2>1. t = Reports("avail", Available(watched \cup p.of))
    BY <1>1 DEF Answers
  <2>2. Available(watched \cup p.of) \in SUBSET Contacts /\ "avail" \in PacketKinds
    BY DEF ContactTypes, Packets, Available, PacketKinds
  <2> QED
    BY <2>1, <2>2, Reported
<1>2. CASE p.is = "add"
  <2>1. t = Reports("avail", Available(p.of))
    BY <1>2 DEF Answers
  <2>2. Available(p.of) \in SUBSET Contacts /\ "avail" \in PacketKinds
    BY DEF ContactTypes, Packets, Available, PacketKinds
  <2> QED
    BY <2>1, <2>2, Reported
<1>3. CASE p.is = "get"
  <2>1. t \in Stored
    BY <1>3 DEF Answers
  <2> QED
    BY <2>1, ListSent DEF ContactTypes
<1>4. CASE p.is = "put"
  <2>1. t = <<Packet("put_reply", {})>>
    BY <1>4 DEF Answers
  <2>2. Packet("put_reply", {}) \in Packets
    BY DEF Packet, Packets, PacketKinds
  <2> QED
    BY <2>1, <2>2, OnePacket
<1>5. CASE p.is = "put_more"
  <2>1. t = <<Packet("put_more_reply", {})>>
    BY <1>5 DEF Answers
  <2>2. Packet("put_more_reply", {}) \in Packets
    BY DEF Packet, Packets, PacketKinds
  <2> QED
    BY <2>1, <2>2, OnePacket
<1>6. CASE ~(p.is \in {"notify_last", "add", "get", "put", "put_more"})
  <2>1. t = <<>>
    BY <1>6 DEF Answers
  <2> QED
    BY <2>1
<1> QED
  BY <1>1, <1>2, <1>3, <1>4, <1>5, <1>6

LEMMA RemovedEntry ==
    ASSUME NEW S, NEW s \in Seq(S), NEW i \in DOMAIN s
    PROVE  /\ RemoveAt(s, i) \in Seq(S)
           /\ DOMAIN RemoveAt(s, i) = 1..(Len(s) - 1)
           /\ \A j \in 1..(Len(s) - 1) : RemoveAt(s, i)[j] = IF j < i THEN s[j] ELSE s[j + 1]
<1> DEFINE a == SubSeq(s, 1, i - 1)
           b == SubSeq(s, i + 1, Len(s))
<1>1. Len(s) \in Nat /\ i \in 1..Len(s) /\ \A j \in 1..Len(s) : s[j] \in S
  BY LenProperties, ElementOfSeq
<1>2. a \in Seq(S) /\ Len(a) = i - 1 /\ \A j \in 1..(i - 1) : a[j] = s[j]
  BY <1>1, SubSeqProperties
<1>3. b \in Seq(S) /\ Len(b) = Len(s) - i /\ \A j \in 1..(Len(s) - i) : b[j] = s[i + j]
  BY <1>1, SubSeqProperties
<1> HIDE DEF a, b
<1>4. Len(a) + Len(b) = Len(s) - 1
  BY <1>1, <1>2, <1>3
<1>5. /\ a \o b \in Seq(S) /\ Len(a \o b) = Len(s) - 1
      /\ \A j \in 1..(Len(s) - 1) : (a \o b)[j] = IF j <= Len(a) THEN a[j] ELSE b[j - Len(a)]
  <2>1. /\ a \o b \in Seq(S) /\ Len(a \o b) = Len(a) + Len(b)
        /\ \A j \in 1..(Len(a) + Len(b)) : (a \o b)[j] = IF j <= Len(a) THEN a[j] ELSE b[j - Len(a)]
    BY <1>2, <1>3, ConcatProperties
  <2> QED
    BY <1>4, <2>1
<1>6. DOMAIN (a \o b) = 1..(Len(s) - 1)
  BY <1>5, LenProperties
<1>7. ASSUME NEW j \in 1..(Len(s) - 1)
      PROVE  (a \o b)[j] = IF j < i THEN s[j] ELSE s[j + 1]
  <2>1. CASE j < i
    BY <1>1, <1>2, <1>5, <2>1
  <2>2. CASE ~(j < i)
    <3>1. j - (i - 1) \in 1..(Len(s) - i) /\ i + (j - (i - 1)) = j + 1 /\ ~(j <= i - 1)
      BY <1>1, <2>2
    <3>2. (a \o b)[j] = b[j - (i - 1)] /\ b[j - (i - 1)] = s[i + (j - (i - 1))]
      BY <1>2, <1>3, <1>5, <3>1
    <3> QED
      BY <2>2, <3>1, <3>2
  <2> QED
    BY <2>1, <2>2
<1> QED
  BY <1>5, <1>6, <1>7 DEF RemoveAt, a, b

LEMMA Popped ==
    ASSUME NEW S, NEW s \in Seq(S), s # <<>>
    PROVE  /\ Front(s) \in Seq(S) /\ Len(Front(s)) = Len(s) - 1
           /\ Len(s) \in Nat \ {0} /\ Last(s) = s[Len(s)] /\ Last(s) \in S
           /\ DOMAIN s = 1..Len(s) /\ DOMAIN Front(s) = 1..(Len(s) - 1)
           /\ \A i \in DOMAIN Front(s) : Front(s)[i] = s[i]
<1>1. Len(s) \in Nat /\ DOMAIN s = 1..Len(s) /\ Len(s) # 0 /\ \A i \in DOMAIN s : s[i] \in S
  BY LenProperties, EmptySeq, ElementOfSeq
<1>2. /\ Front(s) \in Seq(S) /\ Len(Front(s)) = Len(s) - 1
      /\ \A i \in 1..(Len(s) - 1) : Front(s)[i] = s[i]
  BY <1>1, SubSeqProperties DEF Front
<1>3. DOMAIN Front(s) = 1..(Len(s) - 1)
  BY <1>2, LenProperties
<1>4. Len(s) \in DOMAIN s /\ Last(s) = s[Len(s)]
  BY <1>1 DEF Last
<1> QED
  BY <1>1, <1>2, <1>3, <1>4

LEMMA AddSendTypes ==
    ASSUME ContactTypes, NEW cs \in SUBSET Contacts, SendsAdd(cs)
    PROVE  toServer' \in Seq(Packets)
<1>1. PICK parts \in Parts(cs, 1) : Sends(Notices(parts))
  BY DEF SendsAdd
<1>2. Notices(parts) \in Seq(Packets)
  BY AddsSent
<1>3. toServer \o Notices(parts) \in Seq(Packets)
  BY <1>2, ConcatProperties DEF ContactTypes
<1> QED
  BY <1>1, <1>3 DEF Sends, ContactTypes

LEMMA PacketTypes ==
    ASSUME NEW c \in Contacts
    PROVE  /\ Packet("remove", {c}) \in Packets /\ Packet("get", {}) \in Packets
           /\ \A s \in Tells : Packet(s, {c}) \in Packets
           /\ \A mine \in BOOLEAN : Pointer(c, mine) \in Pointers
  BY DEF Packet, Packets, PacketKinds, Tells, Pointer, Pointers

LEMMA FreedTypes ==
    ASSUME NEW pointers \in Seq(Pointers), NEW c
    PROVE  /\ Freed(pointers, c) \in Seq(Pointers)
           /\ DOMAIN Freed(pointers, c) = DOMAIN pointers
           /\ \A i \in DOMAIN pointers :
                 /\ Freed(pointers, c)[i].contact = pointers[i].contact
                 /\ pointers[i].contact # c => Freed(pointers, c)[i].freed = pointers[i].freed
<1>1. /\ Len(pointers) \in Nat /\ DOMAIN pointers = 1..Len(pointers)
      /\ \A i \in DOMAIN pointers : pointers[i] \in Pointers
  BY LenProperties, ElementOfSeq
<1>2. ASSUME NEW p \in Pointers, NEW b \in BOOLEAN
      PROVE  [p EXCEPT !.freed = b] \in Pointers
  BY <1>2 DEF Pointers
<1>3. Freed(pointers, c) \in [1..Len(pointers) -> Pointers]
  <2>1. \A i \in DOMAIN pointers :
           [pointers[i] EXCEPT !.freed = @ \/ (pointers[i].contact = c /\ pointers[i].own)] \in Pointers
    BY <1>1 DEF Pointers
  <2> QED
    BY <1>1, <2>1 DEF Freed
<1>4. \A i \in DOMAIN pointers :
         /\ Freed(pointers, c)[i].contact = pointers[i].contact
         /\ pointers[i].contact # c => Freed(pointers, c)[i].freed = pointers[i].freed
  BY <1>1 DEF Freed, Pointers
<1> QED
  BY <1>1, <1>3, <1>4, SeqDef

LEMMA AddTypes ==
    ASSUME ContactTypes, NEW cs \in SUBSET Contacts, Adds(cs)
    PROVE  contacts' \in SUBSET Contacts /\ status' \in [Contacts -> Tells] /\ late' \in SUBSET Contacts
  BY DEF Adds, ContactTypes, Tells

LEMMA HeadTypes ==
    ASSUME NEW q \in Seq(Packets), q # <<>>
    PROVE  /\ Head(q) \in Packets /\ Head(q).is \in PacketKinds /\ Head(q).of \in SUBSET Contacts
           /\ Tail(q) \in Seq(Packets)
<1>1. Head(q) \in Packets /\ Tail(q) \in Seq(Packets)
  BY HeadTailProperties
<1> QED
  BY <1>1 DEF Packets

(* An import adds contacts of the list: all of them, or as many as it      *)
(* looks at.                                                               *)
LEMMA ImportedOf ==
    ASSUME NEW whole, NEW list \in Imported(whole)
    PROVE  list \subseteq whole /\ (list = whole \/ Cardinality(list) = ImportLines)
  BY DEF Imported

LEMMA ContactTypesStep == ContactTypes /\ [ContactsNext]_contactVars => ContactTypes'
<1> SUFFICES ASSUME ContactTypes, [ContactsNext]_contactVars PROVE ContactTypes'
  OBVIOUS
<1> USE DEF linkVars, listVars, serverVars, historyVars
<1>1. CASE Connects
  <2>1. toServer' \in Seq(Packets)
    BY <1>1, Notified DEF Connects, ContactTypes
  <2> QED
    BY <1>1, <2>1 DEF Connects, ContactTypes
<1>2. CASE Disconnects \/ Vanishes
  <2>1. <<>> \in Seq(Packets)
    BY EmptySeq
  <2>2. status' \in [Contacts -> Tells]
    BY <1>2 DEF Disconnects, Vanishes, Tells, ContactTypes
  <2>3. SessionOver
    BY <1>2 DEF Disconnects, Vanishes
  <2> QED
    BY <2>1, <2>2, <2>3 DEF SessionOver, ContactTypes
<1>3. ASSUME NEW c \in Contacts, AddUser(c) PROVE ContactTypes'
  <2>1. Adds({c}) /\ SendsAdd({c}) /\ {c} \in SUBSET Contacts
    BY <1>3 DEF AddUser
  <2>2. contacts' \in SUBSET Contacts /\ status' \in [Contacts -> Tells] /\ late' \in SUBSET Contacts
    BY <2>1, AddTypes
  <2>3. toServer' \in Seq(Packets)
    BY <2>1, AddSendTypes
  <2> QED
    BY <1>3, <2>2, <2>3 DEF AddUser, ContactTypes
<1>4. ASSUME NEW c \in Contacts, AddFound(c) PROVE ContactTypes'
  <2>1. Adds({c}) /\ {c} \in SUBSET Contacts
    BY <1>4 DEF AddFound
  <2>2. contacts' \in SUBSET Contacts /\ status' \in [Contacts -> Tells] /\ late' \in SUBSET Contacts
    BY <2>1, AddTypes
  <2>3. adding' \in Seq(Pointers)
    BY <1>4, PacketTypes, AppendProperties DEF AddFound, ContactTypes
  <2> QED
    BY <1>4, <2>2, <2>3 DEF AddFound, ContactTypes
<1>5. ASSUME NEW c \in Contacts, AskRemove(c) PROVE ContactTypes'
  <2>1. dialogs' \in Seq(Pointers)
    BY <1>5, PacketTypes, AppendProperties DEF AskRemove, ContactTypes
  <2> QED
    BY <1>5, <2>1 DEF AskRemove, ContactTypes
<1>6. CASE FoundAdded
  <2>1. adding' \in Seq(Pointers) /\ Last(adding) \in Pointers
    BY <1>6, Popped DEF FoundAdded, ContactTypes
  <2>2. Last(adding).contact \in Contacts
    BY <2>1 DEF Pointers
  <2>3. toServer' \in Seq(Packets) /\ strays' \in SUBSET Contacts
    <3>1. CASE Last(adding).freed
      BY <1>6, <3>1 DEF FoundAdded, ContactTypes
    <3>2. CASE ~Last(adding).freed
      <4>1. SendsAdd({Last(adding).contact}) /\ {Last(adding).contact} \in SUBSET Contacts
        BY <1>6, <2>2, <3>2 DEF FoundAdded
      <4>2. toServer' \in Seq(Packets)
        BY <4>1, AddSendTypes
      <4>3. strays' \in SUBSET Contacts
        BY <1>6, <2>2, <3>2 DEF FoundAdded, ContactTypes
      <4> QED
        BY <4>2, <4>3
    <3> QED
      BY <3>1, <3>2
  <2> QED
    BY <1>6, <2>1, <2>3 DEF FoundAdded, ContactTypes
<1>7. ASSUME NEW i \in DOMAIN dialogs, NEW yes \in BOOLEAN, AnswerRemove(i, yes)
      PROVE  ContactTypes'
  <2>1. RemoveAt(dialogs, i) \in Seq(Pointers) /\ dialogs[i] \in Pointers
    <3>1. dialogs \in Seq(Pointers) /\ DOMAIN dialogs = 1..Len(dialogs)
      BY LenProperties DEF ContactTypes
    <3> QED
      BY <3>1, RemovedEntry, ElementOfSeq
  <2>2. dialogs[i].contact \in Contacts
    BY <2>1 DEF Pointers
  <2>3. CASE ~yes
    BY <1>7, <2>1, <2>3 DEF AnswerRemove, ContactTypes
  <2>4. CASE yes /\ dialogs[i].freed
    BY <1>7, <2>4 DEF AnswerRemove, ContactTypes
  <2>5. CASE yes /\ ~dialogs[i].freed
    <3>1. Removes(dialogs[i].contact, RemoveAt(dialogs, i))
      BY <1>7, <2>5 DEF AnswerRemove
    <3>2. adding' \in Seq(Pointers) /\ dialogs' \in Seq(Pointers)
      BY <3>1, <2>1, FreedTypes DEF Removes, ContactTypes
    <3>3. toServer' \in Seq(Packets)
      <4>1. <<Packet("remove", {dialogs[i].contact})>> \in Seq(Packets)
        BY <2>2, PacketTypes, OnePacket
      <4>2. toServer \o <<Packet("remove", {dialogs[i].contact})>> \in Seq(Packets)
        BY <4>1, ConcatProperties DEF ContactTypes
      <4> QED
        BY <3>1, <4>2 DEF Removes, SendsRemove, Sends, ContactTypes
    <3>4. contacts' \in SUBSET Contacts /\ status' \in [Contacts -> Tells]
      BY <3>1 DEF Removes, ContactTypes, Tells
    <3> QED
      BY <1>7, <3>2, <3>3, <3>4 DEF AnswerRemove, ContactTypes
  <2> QED
    BY <2>3, <2>4, <2>5
<1>8. ASSUME NEW cs \in SUBSET Contacts, Export(cs) PROVE ContactTypes'
  <2>1. PICK t \in Put(cs) : toServer' = toServer \o t
    BY <1>8 DEF Export
  <2>2. toServer' \in Seq(Packets)
    BY <2>1, PutSent, ConcatProperties DEF ContactTypes
  <2> QED
    BY <1>8, <2>2 DEF Export, ContactTypes
<1>9. CASE Import
  <2>1. Packet("get", {}) \in Packets
    BY DEF Packet, Packets, PacketKinds
  <2>2. toServer' \in Seq(Packets)
    BY <1>9, <2>1, AppendProperties DEF Import, ContactTypes
  <2> QED
    BY <1>9, <2>2 DEF Import, ContactTypes
<1>10. CASE ServerHandles
  <2>1. Head(toServer) \in Packets /\ Head(toServer).of \in SUBSET Contacts /\ toServer' \in Seq(Packets)
    BY <1>10, HeadTypes DEF ServerHandles, ContactTypes
  <2>2. toClient' \in Seq(Packets)
    <3>1. PICK t \in Answers(Head(toServer)) : toClient' = toClient \o t
      BY <1>10 DEF ServerHandles
    <3>2. t \in Seq(Packets)
      BY <2>1, Answered
    <3> QED
      BY <3>1, <3>2, ConcatProperties DEF ContactTypes
  <2>3. watched' \in SUBSET Contacts /\ stored' \in SUBSET Contacts
    <3>1. /\ watched' \in {watched, watched \cup Head(toServer).of, watched \ Head(toServer).of}
          /\ stored' \in {stored, stored \cup Head(toServer).of, Head(toServer).of}
      BY <1>10 DEF ServerHandles
    <3> QED
      BY <2>1, <3>1 DEF ContactTypes
  <2> QED
    BY <1>10, <2>1, <2>2, <2>3 DEF ServerHandles, ContactTypes
<1>11. ASSUME NEW c \in Contacts, NEW s \in Tells, ServerReports(c, s) PROVE ContactTypes'
  <2>1. presence' \in [Contacts -> Tells]
    BY <1>11 DEF ServerReports, ContactTypes
  <2>2. Append(toClient, Packet(s, {c})) \in Seq(Packets)
    BY PacketTypes, AppendProperties DEF ContactTypes
  <2>3. toClient' \in Seq(Packets)
    BY <1>11, <2>2 DEF ServerReports, ContactTypes
  <2> QED
    BY <1>11, <2>1, <2>3 DEF ServerReports, ContactTypes
<1>12. CASE \/ StatusArrives \/ PutReplyArrives \/ ListPartArrives \/ ListArrives
  <2>1. /\ Head(toClient) \in Packets /\ Head(toClient).of \in SUBSET Contacts
        /\ toClient' \in Seq(Packets)
    BY <1>12, HeadTypes DEF StatusArrives, PutReplyArrives, ListPartArrives, ListArrives,
       ComesIn, ContactTypes
  <2>2. CASE StatusArrives
    <3>1. Head(toClient).is \in Tells
      BY <2>2 DEF StatusArrives, ComesIn, Tells
    <3>2. status' \in [Contacts -> Tells]
      BY <2>2, <3>1 DEF StatusArrives, ContactTypes
    <3> QED
      BY <2>1, <2>2, <3>2 DEF StatusArrives, ContactTypes
  <2>3. CASE PutReplyArrives
    <3>1. reply' \in SUBSET Contacts
      BY <2>3 DEF PutReplyArrives, ContactTypes
    <3> QED
      BY <2>1, <2>3, <3>1 DEF PutReplyArrives, ContactTypes
  <2>4. CASE ListPartArrives
    <3>1. reply' \in SUBSET Contacts
      BY <2>1, <2>4 DEF ListPartArrives, ContactTypes
    <3> QED
      BY <2>1, <2>4, <3>1 DEF ListPartArrives, ContactTypes
  <2>5. CASE ListArrives
    <3>1. PICK list \in Imported(reply \cup Head(toClient).of) :
             Adds(list) /\ SendsAdd(list \ contacts)
      BY <2>5 DEF ListArrives
    <3>2. list \in SUBSET Contacts /\ list \ contacts \in SUBSET Contacts
      BY <2>1, <3>1, ImportedOf DEF ContactTypes
    <3>3. Adds(list) /\ SendsAdd(list \ contacts)
      BY <3>1
    <3>4. contacts' \in SUBSET Contacts /\ status' \in [Contacts -> Tells] /\ late' \in SUBSET Contacts
      BY <3>2, <3>3, AddTypes
    <3>5. toServer' \in Seq(Packets)
      BY <3>2, <3>3, AddSendTypes
    <3> QED
      BY <2>1, <2>5, <3>4, <3>5 DEF ListArrives, ContactTypes
  <2> QED
    BY <1>12, <2>2, <2>3, <2>4, <2>5
<1>13. CASE UNCHANGED contactVars
  BY <1>13 DEF contactVars, ContactTypes
<1> QED
  <2>1. contacts \in SUBSET Contacts /\ {} \in SUBSET Contacts
    BY DEF ContactTypes
  <2> QED
    BY <2>1, <1>1, <1>2, <1>3, <1>4, <1>5, <1>6, <1>7, <1>8, <1>9, <1>10, <1>11, <1>12, <1>13
       DEF ContactsNext, Tells

-----------------------------------------------------------------------------

Gains == {"notify_first", "notify_last", "add"}
Turns == {"notify_first", "notify_last", "add", "remove"}

(* The server watches c once it has handled what is under way.             *)
WillWatch(c) == ComesTo(toServer, c, Turns, Gains, IF c \in watched THEN "add" ELSE "remove")

(* An addition of c whose emission has not returned.                       *)
ToCome(c) == \E i \in DOMAIN adding : adding[i].contact = c /\ ~adding[i].freed

Down == ~up => toServer = <<>> /\ toClient = <<>> /\ watched = {}

Agrees(c) ==
    /\ c \in contacts => WillWatch(c) \/ ToCome(c)
    /\ WillWatch(c) => c \in contacts \cup strays

NotifyInv == Down /\ (up /\ Works => \A c \in Contacts : Agrees(c))

(* gg_add_notify is called for each contact of cs.                         *)
LEMMA GainsSent ==
    ASSUME ContactTypes, up, NEW cs \in SUBSET Contacts, SendsAdd(cs), watched' = watched,
           NEW c \in Contacts
    PROVE  WillWatch(c)' <=> c \in cs \/ WillWatch(c)
<1>1. PICK parts \in Parts(cs, 1) : Sends(Notices(parts))
  BY DEF SendsAdd
<1>2. PICK t : t = Notices(parts)
  OBVIOUS
<1>3. t \in Seq(Packets) /\ \A i \in DOMAIN t : t[i].is = "add" /\ t[i].of \subseteq cs
  <2>1. /\ Notices(parts) \in Seq(Packets)
        /\ \A i \in DOMAIN Notices(parts) :
              Notices(parts)[i].is = "add" /\ Notices(parts)[i].of \subseteq cs
    BY AddsSent
  <2> QED
    BY <1>2, <2>1
<1>4. toServer' = toServer \o t /\ toServer \in Seq(Packets)
  BY <1>1, <1>2 DEF Sends, ContactTypes
<1>5. CASE c \in cs
  <2>1. PICK i \in DOMAIN t : c \in t[i].of /\ \A j \in DOMAIN t : c \in t[j].of => j = i
    <3>1. \E i \in DOMAIN Notices(parts) :
             /\ c \in Notices(parts)[i].of
             /\ \A j \in DOMAIN Notices(parts) : c \in Notices(parts)[j].of => j = i
      BY <1>5, AddSent
    <3> QED
      BY <1>2, <3>1
  <2>2. About(t[i], c, Turns) /\ t[i].is \in Gains
    BY <1>3, <2>1 DEF About, Turns, Gains
  <2>3. \A j \in DOMAIN t : j > i => ~About(t[j], c, Turns)
    <3>1. i \in Nat
      BY <1>3, LenProperties
    <3> QED
      BY <2>1, <3>1 DEF About
  <2>4. WillWatch(c)'
    BY <1>3, <1>4, <2>2, <2>3, Settles DEF WillWatch
  <2> QED
    BY <1>5, <2>4
<1>6. CASE c \notin cs
  <2>1. \A i \in DOMAIN t : ~About(t[i], c, Turns)
    BY <1>3, <1>6 DEF About
  <2>2. WillWatch(c)' <=> WillWatch(c)
    BY <1>3, <1>4, <2>1, Silent DEF WillWatch
  <2> QED
    BY <1>6, <2>2
<1> QED
  BY <1>5, <1>6

(* Packets that are no part of it.                                         *)
LEMMA OthersSent ==
    ASSUME ContactTypes, NEW t \in Seq(Packets), toServer' = toServer \o t, watched' = watched,
           NEW c, \A i \in DOMAIN t : ~About(t[i], c, Turns)
    PROVE  WillWatch(c)' <=> WillWatch(c)
  BY Silent DEF WillWatch, ContactTypes

LEMMA StillToCome ==
    ASSUME ContactTypes, NEW c, adding' = adding
    PROVE  ToCome(c)' <=> ToCome(c)
  BY DEF ToCome

(* The server handles the first packet.                                    *)
LEMMA GainsHandled ==
    ASSUME ContactTypes, ServerHandles, NEW c
    PROVE  WillWatch(c)' <=> WillWatch(c)
<1>1. PICK p : p = Head(toServer)
  OBVIOUS
<1>2. /\ toServer' = Tail(toServer) /\ toServer # <<>> /\ toServer \in Seq(Packets)
      /\ watched' = CASE p.is \in {"notify_first", "notify_last", "add"} -> watched \cup p.of
                      [] p.is = "remove" -> watched \ p.of
                      [] OTHER -> watched
  BY <1>1 DEF ServerHandles, ContactTypes
<1>3. PICK from : from = IF c \in watched THEN "add" ELSE "remove"
  OBVIOUS
<1>4. PICK then : then = IF c \in watched' THEN "add" ELSE "remove"
  OBVIOUS
<1>5. IF About(p, c, Turns) THEN then \in Gains <=> p.is \in Gains
                            ELSE then \in Gains <=> from \in Gains
  <2>1. CASE p.is \in {"notify_first", "notify_last", "add"}
    BY <1>2, <1>3, <1>4, <2>1 DEF About, Turns, Gains
  <2>2. CASE p.is = "remove"
    BY <1>2, <1>3, <1>4, <2>2 DEF About, Turns, Gains
  <2>3. CASE p.is \notin {"notify_first", "notify_last", "add", "remove"}
    BY <1>2, <1>3, <1>4, <2>3 DEF About, Turns, Gains
  <2> QED
    BY <2>1, <2>2, <2>3
<1> QED
  BY <1>1, <1>2, <1>3, <1>4, <1>5, Taken DEF WillWatch

LEMMA DownStep == ContactTypes /\ Down /\ [ContactsNext]_contactVars => Down'
<1> SUFFICES ASSUME ContactTypes, Down, [ContactsNext]_contactVars, ~up' PROVE Down'
  BY DEF Down
<1> USE DEF linkVars, listVars, serverVars, historyVars, Down
<1>1. CASE Disconnects \/ Vanishes
  BY <1>1 DEF Disconnects, Vanishes, SessionOver
<1>2. CASE up' = up /\ toServer' = toServer /\ toClient' = toClient /\ watched' = watched
  BY <1>2
<1>3. ASSUME NEW c \in Contacts, AddUser(c) \/ AddFound(c) \/ AskRemove(c) PROVE Down'
  BY <1>2, <1>3 DEF AddUser, AddFound, AskRemove, SendsAdd, Sends
<1>4. CASE FoundAdded
  BY <1>2, <1>4 DEF FoundAdded, SendsAdd, Sends
<1>5. ASSUME NEW i \in DOMAIN dialogs, NEW yes \in BOOLEAN, AnswerRemove(i, yes) PROVE Down'
  BY <1>2, <1>5 DEF AnswerRemove, Removes, SendsRemove, Sends
<1>6. ASSUME NEW c \in Contacts, NEW s \in {"avail", "not_avail"}, ServerReports(c, s) PROVE Down'
  BY <1>2, <1>6 DEF ServerReports
<1>7. CASE UNCHANGED contactVars
  BY <1>2, <1>7 DEF contactVars
(* The others need a connection, or a packet under way.                    *)
<1>8. CASE Connects \/ Import \/ ServerHandles
  BY <1>8 DEF Connects, Import, ServerHandles
<1>9. ASSUME NEW cs, Export(cs) PROVE Down'
  BY <1>9 DEF Export
<1>10. CASE StatusArrives \/ PutReplyArrives \/ ListPartArrives \/ ListArrives
  BY <1>10 DEF StatusArrives, PutReplyArrives, ListPartArrives, ListArrives, ComesIn
<1> QED
  BY <1>1, <1>3, <1>4, <1>5, <1>6, <1>7, <1>8, <1>9, <1>10 DEF ContactsNext

(* The packets that are sent when the connection is there.                 *)
LEMMA FirstSent ==
    ASSUME ContactTypes, Down, Connects, NEW c \in Contacts
    PROVE  WillWatch(c)' <=> c \in contacts
<1>1. toServer' \in Notify(contacts) /\ watched' = {} /\ contacts \in SUBSET Contacts
  BY DEF Connects, Down, ContactTypes, serverVars
<1>2. PICK t : t = toServer'
  OBVIOUS
<1>3. /\ t \in Seq(Packets) /\ DOMAIN t = 1..Len(t)
      /\ \A i \in DOMAIN t : /\ t[i].is \in {"notify_first", "notify_last", "list_empty"}
                             /\ t[i].of \subseteq contacts
  <2>1. t \in Notify(contacts)
    BY <1>1, <1>2
  <2>2. t \in Seq(Packets)
    BY <1>1, <2>1, Notified
  <2>3. \A i \in DOMAIN t : /\ t[i].is \in {"notify_first", "notify_last", "list_empty"}
                            /\ t[i].of \subseteq contacts
    BY <1>1, <2>1, Notified
  <2> QED
    BY <2>2, <2>3, LenProperties
<1>4. CASE c \in contacts
  <2>1. PICK i \in DOMAIN t : /\ t[i].is \in {"notify_first", "notify_last"} /\ c \in t[i].of
                              /\ \A j \in DOMAIN t : c \in t[j].of => j = i
    BY <1>1, <1>2, <1>4, Notified
  <2>2. About(t[i], c, Turns) /\ t[i].is \in Gains
    BY <2>1 DEF About, Turns, Gains
  <2>3. \A j \in DOMAIN t : j > i => ~About(t[j], c, Turns)
    <3>1. i \in Nat
      BY <1>3
    <3> QED
      BY <2>1, <3>1 DEF About
  <2> QED
    BY <1>2, <1>4, <2>2, <2>3 DEF WillWatch, ComesTo
<1>5. CASE c \notin contacts
  <2>1. \A i \in DOMAIN t : ~About(t[i], c, Turns)
    BY <1>3, <1>5 DEF About
  <2>2. "remove" \notin Gains
    BY DEF Gains
  <2> QED
    BY <1>1, <1>2, <1>5, <2>1, <2>2 DEF WillWatch, ComesTo
<1> QED
  BY <1>4, <1>5

(* The repository's contact d is freed.                                    *)
LEMMA RemovalSent ==
    ASSUME ContactTypes, up, NEW d \in Contacts, NEW others, Removes(d, others), watched' = watched,
           NEW c \in Contacts
    PROVE  /\ WillWatch(c)' <=> c # d /\ WillWatch(c)
           /\ c # d => (ToCome(c)' <=> ToCome(c))
<1>1. PICK p : p = Packet("remove", {d})
  OBVIOUS
<1>2. p \in Packets /\ p.is = "remove" /\ p.of = {d}
  BY <1>1, PacketTypes DEF Packet
<1>3. <<p>> \in Seq(Packets) /\ DOMAIN <<p>> = 1..1 /\ <<p>>[1] = p
  BY <1>2, OnePacket
<1>4. toServer' = toServer \o <<p>> /\ toServer \in Seq(Packets)
  BY <1>1 DEF Removes, SendsRemove, Sends, ContactTypes
<1>5. CASE c = d
  <2>1. /\ About(<<p>>[1], c, Turns) /\ <<p>>[1].is \notin Gains /\ 1 \in DOMAIN <<p>>
        /\ \A j \in DOMAIN <<p>> : j > 1 => ~About(<<p>>[j], c, Turns)
    BY <1>2, <1>3, <1>5 DEF About, Turns, Gains
  <2>2. ~WillWatch(c)'
    BY <1>3, <1>4, <2>1, Settles DEF WillWatch
  <2> QED
    BY <1>5, <2>2
<1>6. CASE c # d
  <2>1. \A j \in DOMAIN <<p>> : ~About(<<p>>[j], c, Turns)
    BY <1>2, <1>3, <1>6 DEF About
  <2>2. WillWatch(c)' <=> WillWatch(c)
    BY <1>3, <1>4, <2>1, OthersSent
  <2>3. /\ adding' = Freed(adding, d) /\ DOMAIN adding' = DOMAIN adding
        /\ \A i \in DOMAIN adding :
              /\ adding'[i].contact = adding[i].contact
              /\ adding[i].contact # d => adding'[i].freed = adding[i].freed
    BY FreedTypes DEF Removes, ContactTypes
  <2>4. ToCome(c)' <=> ToCome(c)
    BY <1>6, <2>3 DEF ToCome
  <2> QED
    BY <1>6, <2>2, <2>4
<1> QED
  BY <1>5, <1>6

LEMMA NotifyStep ==
    ContactTypes /\ NotifyInv /\ [ContactsNext]_contactVars => NotifyInv'
<1> SUFFICES ASSUME ContactTypes, NotifyInv, [ContactsNext]_contactVars PROVE NotifyInv'
  OBVIOUS
<1>1. Down'
  BY DownStep DEF NotifyInv
<1>2. Down /\ (up /\ Works => \A c \in Contacts : Agrees(c))
  BY DEF NotifyInv
<1> SUFFICES ASSUME up', Works', NEW c \in Contacts PROVE Agrees(c)'
  BY <1>1 DEF NotifyInv
<1> USE DEF linkVars, listVars, serverVars, historyVars
<1>3. CASE Connects
  BY <1>2, <1>3, FirstSent DEF Connects, Agrees
<1>4. CASE Disconnects \/ Vanishes
  BY <1>4 DEF Disconnects, Vanishes, SessionOver
(* Nothing that the invariant is about.                                    *)
<1>5. ASSUME WillWatch(c)' <=> WillWatch(c), ToCome(c)' <=> ToCome(c),
             contacts' = contacts, strays' = strays, up, Works
      PROVE  Agrees(c)'
  BY <1>2, <1>5 DEF Agrees
<1>6. ASSUME NEW d \in Contacts, AddUser(d) PROVE Agrees(c)'
  <2>1. up /\ Works /\ {d} \in SUBSET Contacts
    BY <1>6 DEF AddUser
  <2>2. WillWatch(c)' <=> c \in {d} \/ WillWatch(c)
    BY <1>6, <2>1, GainsSent DEF AddUser
  <2>3. ToCome(c)' <=> ToCome(c)
    BY <1>6, StillToCome DEF AddUser
  <2>4. contacts' = contacts \cup {d} /\ strays' = strays
    BY <1>6 DEF AddUser, Adds
  <2> QED
    BY <1>2, <2>1, <2>2, <2>3, <2>4 DEF Agrees
<1>7. ASSUME NEW d \in Contacts, AddFound(d) PROVE Agrees(c)'
  <2>1. up /\ Works /\ contacts' = contacts \cup {d} /\ strays' = strays
    BY <1>7 DEF AddFound, Adds, Works
  <2>2. WillWatch(c)' <=> WillWatch(c)
    BY <1>7 DEF AddFound, WillWatch
  <2>3. PICK p : p = Pointer(d, d \notin contacts)
    OBVIOUS
  <2>4. adding' = Append(adding, p) /\ p \in Pointers /\ p.contact = d /\ p.freed = FALSE
    <3>1. p.contact = d /\ p.freed = FALSE
      BY <2>3 DEF Pointer
    <3>2. p \in Pointers
      BY <2>3, PacketTypes
    <3> QED
      BY <1>7, <2>3, <3>1, <3>2 DEF AddFound
  <2>5. /\ DOMAIN adding = 1..Len(adding) /\ Len(adding) \in Nat
        /\ DOMAIN adding' = 1..(Len(adding) + 1) /\ adding'[Len(adding) + 1] = p
        /\ \A i \in DOMAIN adding : adding'[i] = adding[i]
    <3>1. adding \in Seq(Pointers)
      BY DEF ContactTypes
    <3>2. /\ adding' \in Seq(Pointers) /\ Len(adding') = Len(adding) + 1
          /\ adding'[Len(adding) + 1] = p /\ \A i \in 1..Len(adding) : adding'[i] = adding[i]
      BY <2>4, <3>1, AppendProperties
    <3> QED
      BY <3>1, <3>2, LenProperties
  <2>6. ToCome(c)' <=> c = d \/ ToCome(c)
    <3>1. ASSUME ToCome(c) PROVE ToCome(c)'
      BY <2>5, <3>1 DEF ToCome
    <3>2. ASSUME c = d PROVE ToCome(c)'
      <4>1. Len(adding) + 1 \in DOMAIN adding'
        BY <2>5
      <4> QED
        BY <2>4, <2>5, <3>2, <4>1 DEF ToCome
    <3>3. ASSUME ToCome(c)', c # d PROVE ToCome(c)
      <4>1. PICK i \in DOMAIN adding' : adding'[i].contact = c /\ ~adding'[i].freed
        BY <3>3 DEF ToCome
      <4>2. i # Len(adding) + 1
        BY <2>4, <2>5, <3>3, <4>1
      <4>3. i \in DOMAIN adding
        BY <2>5, <4>2
      <4> QED
        BY <2>5, <4>1, <4>3 DEF ToCome
    <3> QED
      BY <3>1, <3>2, <3>3
  <2> QED
    BY <1>2, <2>1, <2>2, <2>6 DEF Agrees
<1>8. ASSUME NEW d \in Contacts, AskRemove(d) PROVE Agrees(c)'
  BY <1>5, <1>8 DEF AskRemove, WillWatch, ToCome, Works
<1>9. CASE FoundAdded
  <2>1. up /\ Works /\ adding # <<>> /\ adding' = Front(adding) /\ contacts' = contacts
    BY <1>9 DEF FoundAdded
  <2>2. ~Last(adding).freed
    BY <1>9, <2>1 DEF FoundAdded, Works
  <2>3. PICK d : d = Last(adding).contact
    OBVIOUS
  <2>4. Last(adding) \in Pointers /\ d \in Contacts
    <3>1. Last(adding) \in Pointers
      BY <2>1, Popped DEF ContactTypes
    <3> QED
      BY <2>3, <3>1 DEF Pointers
  <2>5. /\ SendsAdd({d}) /\ watched' = watched
        /\ strays' = IF d \notin contacts THEN strays \cup {d} ELSE strays
    BY <1>9, <2>1, <2>2, <2>3 DEF FoundAdded
  <2>6. WillWatch(c)' <=> c \in {d} \/ WillWatch(c)
    BY <2>1, <2>4, <2>5, GainsSent
  <2>7. c # d => (ToCome(c)' <=> ToCome(c))
    <3>1. /\ DOMAIN adding = 1..Len(adding) /\ Len(adding) \in Nat \ {0}
          /\ DOMAIN adding' = 1..(Len(adding) - 1) /\ Last(adding) = adding[Len(adding)]
          /\ \A i \in DOMAIN adding' : adding'[i] = adding[i]
      BY <2>1, Popped DEF ContactTypes
    <3>2. ASSUME c # d, NEW i \in DOMAIN adding, adding[i].contact = c PROVE i \in DOMAIN adding'
      <4>1. i # Len(adding)
        BY <2>3, <3>1, <3>2
      <4> QED
        BY <3>1, <4>1
    <3>3. \A i \in DOMAIN adding' : i \in DOMAIN adding
      BY <3>1
    <3> QED
      BY <3>1, <3>2, <3>3 DEF ToCome
  <2> QED
    BY <1>2, <2>1, <2>5, <2>6, <2>7 DEF Agrees
<1>10. ASSUME NEW i \in DOMAIN dialogs, NEW yes \in BOOLEAN, AnswerRemove(i, yes)
      PROVE  Agrees(c)'
  <2>1. up /\ Works /\ strays' = strays /\ watched' = watched
    BY <1>10 DEF AnswerRemove
  <2>2. CASE ~yes
    BY <1>5, <1>10, <2>1, <2>2 DEF AnswerRemove, WillWatch, ToCome
  <2>3. CASE yes /\ dialogs[i].freed
    BY <1>10, <2>3 DEF AnswerRemove, Works
  <2>4. CASE yes /\ ~dialogs[i].freed
    <3>1. PICK d : d = dialogs[i].contact
      OBVIOUS
    <3>2. d \in Contacts
      <4>1. dialogs \in Seq(Pointers) /\ DOMAIN dialogs = 1..Len(dialogs)
        BY LenProperties DEF ContactTypes
      <4>2. dialogs[i] \in Pointers
        BY <4>1, ElementOfSeq
      <4> QED
        BY <3>1, <4>2 DEF Pointers
    <3>3. Removes(d, RemoveAt(dialogs, i))
      BY <1>10, <2>4, <3>1 DEF AnswerRemove
    <3>4. /\ WillWatch(c)' <=> c # d /\ WillWatch(c)
          /\ c # d => (ToCome(c)' <=> ToCome(c))
      BY <2>1, <3>2, <3>3, RemovalSent
    <3>5. contacts' = contacts \ {d}
      BY <3>3 DEF Removes
    <3> QED
      BY <1>2, <2>1, <3>4, <3>5 DEF Agrees
  <2> QED
    BY <2>2, <2>3, <2>4
<1>11. ASSUME NEW cs \in SUBSET Contacts, Export(cs) PROVE Agrees(c)'
  <2>1. PICK t \in Put(cs) : toServer' = toServer \o t
    BY <1>11 DEF Export
  <2>2. t \in Seq(Packets) /\ \A i \in DOMAIN t : t[i].is \in {"put", "put_more"}
    BY <2>1, PutSent
  <2>3. \A i \in DOMAIN t : ~About(t[i], c, Turns)
    BY <2>2 DEF About, Turns
  <2>4. WillWatch(c)' <=> WillWatch(c)
    BY <1>11, <2>1, <2>2, <2>3, OthersSent DEF Export
  <2> QED
    BY <1>5, <1>11, <2>4 DEF Export, ToCome, Works
<1>12. CASE Import
  <2>1. PICK p : p = Packet("get", {})
    OBVIOUS
  <2>2. p \in Packets /\ p.is = "get"
    BY <2>1 DEF Packet, Packets, PacketKinds
  <2>3. <<p>> \in Seq(Packets) /\ DOMAIN <<p>> = 1..1 /\ <<p>>[1] = p
    BY <2>2, OnePacket
  <2>4. toServer' = toServer \o <<p>>
    BY <1>12, <2>1, <2>2, AppendIsConcat DEF Import, ContactTypes
  <2>5. \A i \in DOMAIN <<p>> : ~About(<<p>>[i], c, Turns)
    BY <2>2, <2>3 DEF About, Turns
  <2>6. WillWatch(c)' <=> WillWatch(c)
    BY <1>12, <2>3, <2>4, <2>5, OthersSent DEF Import
  <2> QED
    BY <1>5, <1>12, <2>6 DEF Import, ToCome, Works
<1>13. CASE ServerHandles
  <2>1. WillWatch(c)' <=> WillWatch(c)
    BY <1>13, GainsHandled
  <2> QED
    BY <1>5, <1>13, <2>1 DEF ServerHandles, ToCome, Works
<1>14. ASSUME NEW d \in Contacts, NEW s \in Tells, ServerReports(d, s) PROVE Agrees(c)'
  BY <1>5, <1>14 DEF ServerReports, WillWatch, ToCome, Works
<1>15. CASE StatusArrives \/ PutReplyArrives \/ ListPartArrives
  BY <1>5, <1>15 DEF StatusArrives, PutReplyArrives, ListPartArrives, ComesIn,
     WillWatch, ToCome, Works
<1>16. CASE ListArrives
  <2>1. PICK list \in Imported(reply \cup Head(toClient).of) :
           Adds(list) /\ SendsAdd(list \ contacts)
    BY <1>16 DEF ListArrives
  <2>2. up /\ Works /\ Adds(list) /\ SendsAdd(list \ contacts) /\ watched' = watched
        /\ strays' = strays /\ adding' = adding /\ toClient # <<>>
    BY <1>16, <2>1 DEF ListArrives, ComesIn
  <2>3. list \in SUBSET Contacts
    <3>1. Head(toClient).of \in SUBSET Contacts
      BY <2>2, HeadTypes DEF ContactTypes
    <3> QED
      BY <2>1, <3>1, ImportedOf DEF ContactTypes
  <2>4. WillWatch(c)' <=> c \in list \ contacts \/ WillWatch(c)
    <3>1. list \ contacts \in SUBSET Contacts
      BY <2>3
    <3> QED
      BY <2>2, <3>1, GainsSent
  <2>5. ToCome(c)' <=> ToCome(c)
    BY <2>2, StillToCome
  <2>6. contacts' = contacts \cup list
    BY <2>2 DEF Adds
  <2> QED
    BY <1>2, <2>2, <2>4, <2>5, <2>6 DEF Agrees
<1>17. CASE UNCHANGED contactVars
  BY <1>5, <1>17 DEF contactVars, WillWatch, ToCome, Works
<1> QED
  <2>1. contacts \in SUBSET Contacts /\ {} \in SUBSET Contacts
    BY DEF ContactTypes
  <2> QED
    BY <2>1, <1>3, <1>4, <1>6, <1>7, <1>8, <1>9, <1>10, <1>11, <1>12, <1>13, <1>14, <1>15, <1>16,
       <1>17 DEF ContactsNext, Tells

LEMMA NotifyAlways == ContactsSpec => [](ContactTypes /\ NotifyInv)
<1>1. ContactsInit => ContactTypes /\ NotifyInv
  <2> SUFFICES ASSUME ContactsInit PROVE ContactTypes /\ NotifyInv
    OBVIOUS
  <2>1. <<>> \in Seq(Packets) /\ <<>> \in Seq(Pointers)
    BY EmptySeq
  <2>2. ContactTypes
    BY <2>1 DEF ContactsInit, ContactTypes, Tells
  <2>3. NotifyInv
    BY DEF ContactsInit, NotifyInv, Down
  <2> QED
    BY <2>2, <2>3
<1> QED
  BY <1>1, ContactTypesStep, NotifyStep, PTL DEF ContactsSpec

LEMMA NotifyHolds == ContactTypes /\ NotifyInv => NotifyAgrees
<1> SUFFICES ASSUME ContactTypes, NotifyInv, Works, up, toServer = <<>>, adding = <<>>
             PROVE  /\ contacts \subseteq watched
                    /\ watched \subseteq contacts \cup strays
  BY DEF NotifyAgrees, Settled
<1>1. \A c \in Contacts : Agrees(c)
  BY DEF NotifyInv
<1>2. ASSUME NEW c \in Contacts PROVE WillWatch(c) <=> c \in watched
  BY Nothing DEF WillWatch, Gains
<1>3. \A c \in Contacts : ~ToCome(c)
  BY DEF ToCome
<1> QED
  BY <1>1, <1>2, <1>3 DEF Agrees, ContactTypes

(* The server watches the contacts of the list, and nobody else but those  *)
(* that were removed while the same number was added again, once it has    *)
(* handled what was sent: for any number of contacts, of packets under     *)
(* way, of questions and of additions within each other.                   *)
THEOREM NotifyCorrect == ContactsSpec => []NotifyAgrees
  BY NotifyAlways, NotifyHolds, PTL

-----------------------------------------------------------------------------

(* What the server has said of each contact since the connection began:    *)
(* a status kept from another one is none of it.                           *)
Heard == [c \in Contacts |-> IF c \in kept THEN "not_avail" ELSE status[c]]

(* The repository will have c as available, once what is under way from    *)
(* the server has arrived.                                                 *)
HeardAvail(c) == ComesTo(toClient, c, Tells, {"avail"}, Heard[c])

(* Every part of a list of contacts is followed by the last part.          *)
Followed == \A i \in DOMAIN toServer :
               toServer[i].is = "notify_first" =>
                  \E j \in DOMAIN toServer : j > i /\ toServer[j].is = "notify_last"

(* A list ends that the server has not handled.                            *)
Listed == \E i \in DOMAIN toServer : toServer[i].is = "notify_last"

(* A removal of c under way is an old one: the server does not watch c,    *)
(* and was not told to do so before.                                       *)
Ordered(c) == \A i \in DOMAIN toServer :
                 About(toServer[i], c, {"remove"}) =>
                    c \notin watched /\ \A j \in 1..(i - 1) : ~About(toServer[j], c, Gains)

Fresh(c) ==
    /\ HeardAvail(c) => c \in watched /\ presence[c] = "avail"
    /\ c \in watched /\ presence[c] = "avail" => HeardAvail(c) \/ Listed
    /\ Ordered(c)

StatusInv ==
    /\ ~up => \A c \in contacts : Heard[c] = "not_avail"
    /\ Followed
    /\ \A c \in contacts \ late : Fresh(c)

(* t is s and more packets, none of which removes c or begins a list.      *)
Continues(s, t, c) ==
    /\ \A i \in DOMAIN s : i \in DOMAIN t /\ t[i] = s[i]
    /\ \A i \in DOMAIN t :
          About(t[i], c, {"remove"}) \/ t[i].is = "notify_first" => i \in DOMAIN s

LEMMA MoreContinues ==
    ASSUME NEW S, NEW s \in Seq(S), NEW t \in Seq(S), NEW c,
           \A i \in DOMAIN t : ~About(t[i], c, {"remove"}) /\ t[i].is # "notify_first"
    PROVE  Continues(s, s \o t, c)
<1>u. PICK u : u = s \o t
  OBVIOUS
<1>1. /\ Len(s) \in Nat /\ Len(t) \in Nat
      /\ DOMAIN s = 1..Len(s) /\ DOMAIN t = 1..Len(t)
      /\ DOMAIN u = 1..(Len(s) + Len(t))
      /\ \A i \in DOMAIN s : u[i] = s[i]
      /\ \A i \in DOMAIN t : u[Len(s) + i] = t[i]
  BY <1>u, Concatenated
<1>2. ASSUME NEW i \in DOMAIN u, i \notin DOMAIN s
      PROVE  ~About(u[i], c, {"remove"}) /\ u[i].is # "notify_first"
  <2>1. i - Len(s) \in DOMAIN t /\ Len(s) + (i - Len(s)) = i
    BY <1>1, <1>2
  <2>2. u[i] = t[i - Len(s)]
    BY <1>1, <2>1
  <2> QED
    BY <2>1, <2>2
<1>3. \A i \in DOMAIN s : i \in DOMAIN u
  BY <1>1
<1> QED
  BY <1>u, <1>1, <1>2, <1>3 DEF Continues

LEMMA AddsContinue ==
    ASSUME ContactTypes, NEW cs \in SUBSET Contacts, SendsAdd(cs), NEW c
    PROVE  Continues(toServer, toServer', c)
<1>1. PICK parts \in Parts(cs, 1) : Sends(Notices(parts))
  BY DEF SendsAdd
<1>2. /\ Notices(parts) \in Seq(Packets)
      /\ \A i \in DOMAIN Notices(parts) : Notices(parts)[i].is = "add"
  <2>1. /\ Notices(parts) \in Seq(Packets)
        /\ \A i \in DOMAIN Notices(parts) :
              Notices(parts)[i].is = "add" /\ Notices(parts)[i].of \subseteq cs
    BY AddsSent
  <2> QED
    BY <2>1
<1>3. \A i \in DOMAIN Notices(parts) : /\ ~About(Notices(parts)[i], c, {"remove"})
                                       /\ Notices(parts)[i].is # "notify_first"
  BY <1>2 DEF About
<1>4. Continues(toServer, toServer \o Notices(parts), c)
  BY <1>2, <1>3, MoreContinues DEF ContactTypes
<1>5. Continues(toServer, toServer, c)
  BY DEF Continues
<1> QED
  BY <1>1, <1>4, <1>5 DEF Sends

LEMMA ContinuesKeep ==
    ASSUME ContactTypes, NEW c, Continues(toServer, toServer', c), watched' = watched
    PROVE  /\ Followed => Followed'
           /\ Listed => Listed'
           /\ Ordered(c) => Ordered(c)'
<1>1. DOMAIN toServer = 1..Len(toServer) /\ Len(toServer) \in Nat
  BY LenProperties DEF ContactTypes
<1>2. Followed => Followed'
  BY DEF Followed, Continues
<1>3. Listed => Listed'
  BY DEF Listed, Continues
<1>4. ASSUME Ordered(c), NEW i \in DOMAIN toServer', About(toServer'[i], c, {"remove"})
      PROVE  c \notin watched /\ \A j \in 1..(i - 1) : ~About(toServer'[j], c, Gains)
  <2>1. i \in DOMAIN toServer /\ toServer'[i] = toServer[i]
    BY <1>4 DEF Continues
  <2>2. c \notin watched /\ \A j \in 1..(i - 1) : ~About(toServer[j], c, Gains)
    BY <1>4, <2>1 DEF Ordered
  <2>3. \A j \in 1..(i - 1) : j \in DOMAIN toServer
    BY <1>1, <2>1
  <2> QED
    BY <2>2, <2>3 DEF Continues
<1>5. Ordered(c) => Ordered(c)'
  BY <1>4 DEF Ordered
<1> QED
  BY <1>2, <1>3, <1>5

(* A contact that was there before.                                        *)
LEMMA FreshKept ==
    ASSUME NEW c, Fresh(c), watched' = watched, presence' = presence, toClient' = toClient,
           Heard'[c] = Heard[c], Listed => Listed', Ordered(c) => Ordered(c)'
    PROVE  Fresh(c)'
<1>1. HeardAvail(c)' <=> HeardAvail(c)
  BY DEF HeardAvail
<1> QED
  BY <1>1 DEF Fresh

(* A contact that was not there, and of which the server knows nothing.    *)
LEMMA FreshAdded ==
    ASSUME ContactTypes, NEW cs \in SUBSET Contacts, Adds(cs), NEW c \in cs \ contacts, c \notin late',
           watched' = watched, Continues(toServer, toServer', c),
           toClient' = toClient \/ (toClient # <<>> /\ toClient' = Tail(toClient))
    PROVE  Fresh(c)'
<1>1. ~Known(c) /\ Heard'[c] = "not_avail" /\ c \in Contacts
  BY DEF Adds, Heard
<1>2. /\ DOMAIN toServer = 1..Len(toServer) /\ DOMAIN toClient = 1..Len(toClient)
      /\ Len(toServer) \in Nat /\ Len(toClient) \in Nat
  BY LenProperties DEF ContactTypes
<1>3. PICK u : u = toServer \o toClient
  OBVIOUS
<1>4. /\ DOMAIN u = 1..(Len(toServer) + Len(toClient))
      /\ \A i \in DOMAIN toServer : u[i] = toServer[i]
      /\ \A i \in DOMAIN toClient : u[Len(toServer) + i] = toClient[i]
  BY <1>3, Concatenated DEF ContactTypes
<1>5. c \notin watched /\ \A i \in DOMAIN u : ~About(u[i], c, Gains \cup Tells)
  <2>1. \A i \in DOMAIN u : u[i] \in ToSet(toServer \o toClient)
    BY <1>3 DEF ToSet
  <2> QED
    BY <1>1, <2>1 DEF Known, About, Gains, Tells
<1>6. \A i \in DOMAIN toServer : ~About(toServer[i], c, Gains)
  <2>1. \A i \in DOMAIN toServer : i \in DOMAIN u
    BY <1>2, <1>4
  <2> QED
    BY <1>4, <1>5, <2>1 DEF About
<1>7. \A i \in DOMAIN toClient : ~About(toClient[i], c, Tells)
  <2>1. \A i \in DOMAIN toClient : Len(toServer) + i \in DOMAIN u
    BY <1>2, <1>4
  <2> QED
    BY <1>4, <1>5, <2>1 DEF About
<1>8. \A i \in DOMAIN toClient' : ~About(toClient'[i], c, Tells)
  <2>1. CASE toClient' = toClient
    BY <1>7, <2>1
  <2>2. CASE toClient # <<>> /\ toClient' = Tail(toClient)
    <3>1. /\ DOMAIN toClient' = 1..(Len(toClient) - 1)
          /\ \A i \in DOMAIN toClient' : toClient'[i] = toClient[i + 1]
      <4>1. /\ toClient' \in Seq(Packets) /\ Len(toClient') = Len(toClient) - 1
            /\ \A i \in 1..Len(toClient') : toClient'[i] = toClient[i + 1]
        BY <2>2, HeadTailProperties DEF ContactTypes
      <4> QED
        BY <4>1, LenProperties
    <3>2. \A i \in DOMAIN toClient' : i + 1 \in DOMAIN toClient
      BY <1>2, <3>1
    <3> QED
      BY <1>7, <3>1, <3>2
  <2> QED
    BY <2>1, <2>2
<1>9. ~HeardAvail(c)'
  BY <1>1, <1>8 DEF HeardAvail, ComesTo
<1>10. Ordered(c)
  <2>1. ASSUME NEW i \in DOMAIN toServer, NEW j \in 1..(i - 1) PROVE j \in DOMAIN toServer
    BY <1>2
  <2> QED
    BY <1>5, <1>6, <2>1 DEF Ordered
<1>11. Ordered(c)'
  BY <1>10, ContinuesKeep
<1> QED
  BY <1>5, <1>9, <1>11 DEF Fresh

(* The server answers to p that c is available.                            *)
Told(p, c) ==
    /\ \/ p.is = "notify_last" /\ c \in watched \cup p.of
       \/ p.is = "add" /\ c \in p.of
    /\ presence[c] = "avail"

LEMMA ReportedOf ==
    ASSUME NEW cs \in SUBSET Contacts, NEW c, NEW t, t = Reports("avail", cs)
    PROVE  /\ c \in cs => /\ 1 \in DOMAIN t /\ About(t[1], c, Tells) /\ t[1].is = "avail"
                          /\ \A j \in DOMAIN t : j > 1 => ~About(t[j], c, Tells)
           /\ c \notin cs => \A i \in DOMAIN t : ~About(t[i], c, Tells)
<1>0. "avail" \in PacketKinds
  BY DEF PacketKinds
<1>1. /\ \A i \in DOMAIN t : t[i].is = "avail" /\ t[i].of = cs
      /\ cs # {} => DOMAIN t = 1..1
  BY <1>0, Reported
<1>2. CASE c \in cs
  <2>1. DOMAIN t = 1..1
    BY <1>1, <1>2
  <2>2. 1 \in DOMAIN t /\ \A j \in DOMAIN t : ~(j > 1)
    BY <2>1
  <2>3. t[1].is = "avail" /\ t[1].of = cs
    BY <1>1, <2>2
  <2> QED
    BY <1>2, <2>2, <2>3 DEF About, Tells
<1>3. CASE c \notin cs
  BY <1>1, <1>3 DEF About
<1> QED
  BY <1>2, <1>3

LEMMA AnswerTells ==
    ASSUME ContactTypes, NEW p \in Packets, NEW t \in Answers(p), NEW c \in Contacts
    PROVE  /\ Told(p, c) => \E i \in DOMAIN t :
                 /\ About(t[i], c, Tells) /\ t[i].is = "avail"
                 /\ \A j \in DOMAIN t : j > i => ~About(t[j], c, Tells)
           /\ ~Told(p, c) => \A i \in DOMAIN t : ~About(t[i], c, Tells)
<1>1. CASE p.is = "notify_last"
  <2>1. PICK cs : cs = Available(watched \cup p.of)
    OBVIOUS
  <2>2. t = Reports("avail", cs)
    BY <1>1, <2>1 DEF Answers
  <2>3. cs \in SUBSET Contacts /\ (Told(p, c) <=> c \in cs)
    BY <1>1, <2>1 DEF ContactTypes, Packets, Available, Told
  <2> QED
    BY <2>2, <2>3, ReportedOf
<1>2. CASE p.is = "add"
  <2>1. PICK cs : cs = Available(p.of)
    OBVIOUS
  <2>2. t = Reports("avail", cs)
    BY <1>2, <2>1 DEF Answers
  <2>3. cs \in SUBSET Contacts /\ (Told(p, c) <=> c \in cs)
    BY <1>2, <2>1 DEF ContactTypes, Packets, Available, Told
  <2> QED
    BY <2>2, <2>3, ReportedOf
<1>3. CASE p.is = "get"
  <2>1. t \in Stored /\ stored \in SUBSET Contacts
    BY <1>3 DEF Answers, ContactTypes
  <2>2. \A i \in DOMAIN t : t[i].is = IF i < Len(t) THEN "get_more_reply" ELSE "get_reply"
    BY <2>1, ListSent
  <2> QED
    BY <1>3, <2>2 DEF About, Tells, Told
<1>4. CASE p.is = "put"
  <2>1. t = <<Packet("put_reply", {})>>
    BY <1>4 DEF Answers
  <2>2. DOMAIN t = 1..1 /\ t[1].is = "put_reply"
    BY <2>1 DEF Packet
  <2> QED
    BY <1>4, <2>2 DEF About, Tells, Told
<1>5. CASE p.is = "put_more"
  <2>1. t = <<Packet("put_more_reply", {})>>
    BY <1>5 DEF Answers
  <2>2. DOMAIN t = 1..1 /\ t[1].is = "put_more_reply"
    BY <2>1 DEF Packet
  <2> QED
    BY <1>5, <2>2 DEF About, Tells, Told
<1>6. CASE ~(p.is \in {"notify_last", "add", "get", "put", "put_more"})
  <2>1. t = <<>>
    BY <1>6 DEF Answers
  <2> QED
    BY <1>6, <2>1 DEF Told
<1> QED
  BY <1>1, <1>2, <1>3, <1>4, <1>5, <1>6

LEMMA HandledTells ==
    ASSUME ContactTypes, ServerHandles, NEW c \in Contacts
    PROVE  HeardAvail(c)' <=> Told(Head(toServer), c) \/ HeardAvail(c)
<1>1. PICK p : p = Head(toServer)
  OBVIOUS
<1>2. p \in Packets
  BY <1>1, HeadTypes DEF ServerHandles, ContactTypes
<1>3. PICK t \in Answers(p) : toClient' = toClient \o t
  BY <1>1 DEF ServerHandles
<1>4. t \in Seq(Packets) /\ toClient \in Seq(Packets) /\ Heard' = Heard
  BY <1>2, Answered DEF ServerHandles, listVars, ContactTypes, Heard
<1>5. CASE Told(p, c)
  <2>1. PICK i \in DOMAIN t : /\ About(t[i], c, Tells) /\ t[i].is = "avail"
                              /\ \A j \in DOMAIN t : j > i => ~About(t[j], c, Tells)
    BY <1>2, <1>5, AnswerTells
  <2>2. HeardAvail(c)' <=> t[i].is \in {"avail"}
    BY <1>3, <1>4, <2>1, Settles DEF HeardAvail
  <2> QED
    BY <1>1, <1>5, <2>1, <2>2
<1>6. CASE ~Told(p, c)
  <2>1. \A i \in DOMAIN t : ~About(t[i], c, Tells)
    BY <1>2, <1>6, AnswerTells
  <2>2. HeardAvail(c)' <=> HeardAvail(c)
    BY <1>3, <1>4, <2>1, Silent DEF HeardAvail
  <2> QED
    BY <1>1, <1>6, <2>2
<1> QED
  BY <1>5, <1>6

(* The server handles the first packet.                                    *)
LEMMA QueueHandled ==
    ASSUME ContactTypes, ServerHandles, NEW c
    PROVE  /\ Followed => Followed'
           /\ Listed => Listed' \/ Head(toServer).is = "notify_last"
           /\ Followed /\ Head(toServer).is = "notify_first" => Listed'
           /\ Ordered(c) => Ordered(c)'
<1>1. PICK p : p = Head(toServer)
  OBVIOUS
<1>2. PICK u : u = toServer'
  OBVIOUS
<1>3. /\ Len(toServer) \in Nat \ {0} /\ DOMAIN toServer = 1..Len(toServer)
      /\ DOMAIN u = 1..(Len(toServer) - 1)
      /\ \A i \in DOMAIN u : u[i] = toServer[i + 1]
      /\ p = toServer[1]
  <2>1. toServer \in Seq(Packets) /\ toServer # <<>> /\ u = Tail(toServer)
    BY <1>2 DEF ServerHandles, ContactTypes
  <2>2. Len(toServer) \in Nat \ {0} /\ DOMAIN toServer = 1..Len(toServer)
    BY <2>1, EmptySeq, LenProperties
  <2>3. u \in Seq(Packets) /\ Len(u) = Len(toServer) - 1 /\ \A i \in 1..Len(u) : u[i] = toServer[i + 1]
    BY <2>1, HeadTailProperties
  <2>4. p = toServer[1]
    BY <1>1, <2>1
  <2> QED
    BY <2>2, <2>3, <2>4, LenProperties
<1>4. \A j \in DOMAIN toServer : j # 1 => j - 1 \in DOMAIN u /\ u[j - 1] = toServer[j]
  BY <1>3
<1>5. \A i \in DOMAIN u : i + 1 \in DOMAIN toServer /\ i + 1 > 1 /\ i \in Nat
  BY <1>3
<1>6. ASSUME Followed, NEW i \in DOMAIN u, u[i].is = "notify_first"
      PROVE  \E j \in DOMAIN u : j > i /\ u[j].is = "notify_last"
  <2>1. PICK j \in DOMAIN toServer : j > i + 1 /\ toServer[j].is = "notify_last"
    BY <1>3, <1>5, <1>6 DEF Followed
  <2>2. j # 1 /\ j - 1 > i
    BY <1>3, <1>5, <2>1
  <2> QED
    BY <1>4, <2>1, <2>2
<1>7. ASSUME NEW j \in DOMAIN toServer, toServer[j].is = "notify_last", j # 1
      PROVE  Listed'
  BY <1>2, <1>4, <1>7 DEF Listed
<1>8. ASSUME Followed, p.is = "notify_first" PROVE Listed'
  <2>1. 1 \in DOMAIN toServer /\ toServer[1].is = "notify_first"
    BY <1>3, <1>8
  <2>2. PICK j \in DOMAIN toServer : j > 1 /\ toServer[j].is = "notify_last"
    BY <1>8, <2>1 DEF Followed
  <2> QED
    BY <1>7, <2>2
<1>9. ASSUME Ordered(c), NEW i \in DOMAIN u, About(u[i], c, {"remove"})
      PROVE  c \notin watched' /\ \A j \in 1..(i - 1) : ~About(u[j], c, Gains)
  <2>1. i + 1 \in DOMAIN toServer /\ u[i] = toServer[i + 1] /\ i \in Nat
    BY <1>3, <1>5
  <2>2. c \notin watched /\ \A j \in 1..i : ~About(toServer[j], c, Gains)
    <3>1. c \notin watched /\ \A j \in 1..((i + 1) - 1) : ~About(toServer[j], c, Gains)
      BY <1>9, <2>1 DEF Ordered
    <3> QED
      BY <2>1, <3>1
  <2>3. ~About(p, c, Gains)
    <3>1. 1 \in 1..i
      BY <1>3, <2>1
    <3> QED
      BY <1>3, <2>2, <3>1
  <2>4. c \notin watched'
    BY <1>1, <2>2, <2>3 DEF ServerHandles, About, Gains
  <2>5. \A j \in 1..(i - 1) : j \in DOMAIN u /\ j + 1 \in 1..i
    BY <1>3, <2>1
  <2> QED
    BY <1>3, <2>2, <2>4, <2>5
<1>10. Followed => Followed'
  BY <1>2, <1>6 DEF Followed
<1>11. Listed => Listed' \/ p.is = "notify_last"
  BY <1>3, <1>7 DEF Listed
<1>12. Ordered(c) => Ordered(c)'
  BY <1>2, <1>9 DEF Ordered
<1> QED
  BY <1>1, <1>8, <1>10, <1>11, <1>12

LEMMA FreshHandled ==
    ASSUME ContactTypes, ServerHandles, Followed, NEW c \in Contacts, Fresh(c)
    PROVE  Fresh(c)'
<1>1. PICK p : p = Head(toServer)
  OBVIOUS
<1>2. HeardAvail(c)' <=> Told(p, c) \/ HeardAvail(c)
  BY <1>1, HandledTells
<1>3. /\ Listed => Listed' \/ p.is = "notify_last"
      /\ p.is = "notify_first" => Listed'
      /\ Ordered(c)'
  BY <1>1, QueueHandled DEF Fresh
<1>4. presence' = presence /\ toServer # <<>>
      /\ watched' = CASE p.is \in {"notify_first", "notify_last", "add"} -> watched \cup p.of
                      [] p.is = "remove" -> watched \ p.of
                      [] OTHER -> watched
  BY <1>1 DEF ServerHandles
<1>5. p.is = "remove" /\ c \in p.of => c \notin watched
  <2>1. 1 \in DOMAIN toServer /\ toServer[1] = p
    <3>1. toServer \in Seq(Packets) /\ Len(toServer) \in Nat \ {0} /\ DOMAIN toServer = 1..Len(toServer)
      BY <1>4, EmptySeq, LenProperties DEF ContactTypes
    <3> QED
      BY <1>1, <3>1
  <2> QED
    BY <2>1 DEF Fresh, Ordered, About
<1>6. CASE p.is = "notify_first"
  BY <1>2, <1>3, <1>4, <1>6 DEF Fresh, Told
<1>7. CASE p.is = "notify_last"
  BY <1>2, <1>3, <1>4, <1>7 DEF Fresh, Told
<1>8. CASE p.is = "add"
  BY <1>2, <1>3, <1>4, <1>8 DEF Fresh, Told
<1>9. CASE p.is = "remove"
  BY <1>2, <1>3, <1>4, <1>5, <1>9 DEF Fresh, Told
<1>10. CASE p.is \notin {"notify_first", "notify_last", "add", "remove"}
  BY <1>2, <1>3, <1>4, <1>10 DEF Fresh, Told
<1> QED
  BY <1>6, <1>7, <1>8, <1>9, <1>10

(* Somebody comes or goes.                                                 *)
LEMMA FreshReported ==
    ASSUME ContactTypes, NEW d \in Contacts, NEW s \in Tells, ServerReports(d, s),
           NEW c \in Contacts, Fresh(c)
    PROVE  Fresh(c)'
<1>1. /\ presence' = [presence EXCEPT ![d] = s] /\ watched' = watched /\ toServer' = toServer
      /\ Heard' = Heard /\ presence \in [Contacts -> Tells]
      /\ toClient' = IF d \in watched THEN Append(toClient, Packet(s, {d})) ELSE toClient
  BY DEF ServerReports, listVars, historyVars, ContactTypes, Heard
<1>2. Ordered(c)' /\ (Listed <=> Listed')
  BY <1>1 DEF Fresh, Ordered, Listed
<1>3. CASE d \notin watched
  <2>1. HeardAvail(c)' <=> HeardAvail(c)
    BY <1>1, <1>3 DEF HeardAvail
  <2>2. c \in watched => presence'[c] = presence[c]
    BY <1>1, <1>3
  <2> QED
    BY <1>1, <1>2, <2>1, <2>2 DEF Fresh
<1>4. CASE d \in watched
  <2>1. PICK p : p = Packet(s, {d})
    OBVIOUS
  <2>2. p \in Packets /\ p.is = s /\ p.of = {d}
    BY <2>1, PacketTypes DEF Packet
  <2>3. <<p>> \in Seq(Packets) /\ DOMAIN <<p>> = 1..1 /\ <<p>>[1] = p
    BY <2>2, OnePacket
  <2>4. toClient' = toClient \o <<p>> /\ toClient \in Seq(Packets)
    BY <1>1, <1>4, <2>1, <2>2, AppendIsConcat DEF ContactTypes
  <2>5. CASE c = d
    <3>1. /\ About(<<p>>[1], c, Tells) /\ 1 \in DOMAIN <<p>>
          /\ \A j \in DOMAIN <<p>> : j > 1 => ~About(<<p>>[j], c, Tells)
      BY <2>2, <2>3, <2>5 DEF About
    <3>2. HeardAvail(c)' <=> <<p>>[1].is \in {"avail"}
      BY <2>3, <2>4, <3>1, Settles DEF HeardAvail
    <3>3. HeardAvail(c)' <=> s = "avail"
      BY <2>2, <2>3, <3>2
    <3>4. presence'[c] = s
      BY <1>1, <2>5
    <3> QED
      BY <1>1, <1>2, <1>4, <2>5, <3>3, <3>4 DEF Fresh
  <2>6. CASE c # d
    <3>1. \A j \in DOMAIN <<p>> : ~About(<<p>>[j], c, Tells)
      BY <2>2, <2>3, <2>6 DEF About
    <3>2. HeardAvail(c)' <=> HeardAvail(c)
      <4>1. PICK from : from = Heard[c]
        OBVIOUS
      <4>2. PICK yes : yes = {"avail"}
        OBVIOUS
      <4>3. ComesTo(toClient \o <<p>>, c, Tells, yes, from) <=> ComesTo(toClient, c, Tells, yes, from)
        BY <2>3, <2>4, <3>1, Silent
      <4> QED
        BY <1>1, <2>4, <4>1, <4>2, <4>3 DEF HeardAvail
    <3>3. presence'[c] = presence[c]
      BY <1>1, <2>6
    <3> QED
      BY <1>1, <1>2, <3>2, <3>3 DEF Fresh
  <2> QED
    BY <2>5, <2>6
<1> QED
  BY <1>3, <1>4

(* The first packet of the server arrives.                                 *)
LEMMA FreshArrived ==
    ASSUME ContactTypes, toClient # <<>>, toClient' = Tail(toClient), NEW c \in Contacts, Fresh(c),
           watched' = watched, presence' = presence,
           Heard'[c] = IF About(Head(toClient), c, Tells) THEN Head(toClient).is ELSE Heard[c],
           Listed => Listed', Ordered(c) => Ordered(c)'
    PROVE  Fresh(c)'
<1>1. PICK then : then = Heard'[c]
  OBVIOUS
<1>f. PICK from : from = Heard[c]
  OBVIOUS
<1>h. PICK yes : yes = {"avail"}
  OBVIOUS
<1>2. IF About(Head(toClient), c, Tells)
      THEN then \in yes <=> Head(toClient).is \in yes
      ELSE then \in yes <=> from \in yes
  BY <1>1, <1>f
<1>3. HeardAvail(c)' <=> HeardAvail(c)
  <2>1. ComesTo(Tail(toClient), c, Tells, yes, then) <=> ComesTo(toClient, c, Tells, yes, from)
    BY <1>2, Taken DEF ContactTypes
  <2> QED
    BY <1>1, <1>f, <1>h, <2>1, Zenon DEF HeardAvail
<1> QED
  BY <1>3 DEF Fresh

LEMMA StatusStep ==
    ContactTypes /\ Down /\ StatusInv /\ [ContactsNext]_contactVars => StatusInv'
<1> SUFFICES ASSUME ContactTypes, Down, StatusInv, [ContactsNext]_contactVars PROVE StatusInv'
  OBVIOUS
<1> USE DEF linkVars, listVars, serverVars, historyVars
<1>1. /\ ~up => \A c \in contacts : Heard[c] = "not_avail"
      /\ Followed
      /\ \A c \in contacts \ late : c \in Contacts /\ Fresh(c)
  BY DEF StatusInv, ContactTypes
<1>2. CASE Connects
  <2>1. toServer' \in Notify(contacts) /\ contacts \in SUBSET Contacts
    BY <1>2 DEF Connects, ContactTypes
  <2>2. Followed'
    <3>1. PICK t : t = toServer'
      OBVIOUS
    <3>2. \A i \in DOMAIN t : t[i].is = "notify_first" =>
             \E j \in DOMAIN t : j > i /\ t[j].is = "notify_last"
      BY <2>1, <3>1, Notified
    <3> QED
      BY <3>1, <3>2 DEF Followed
  <2>3. ASSUME NEW c \in contacts' \ late' PROVE Fresh(c)'
    <3>1. watched' = {} /\ toClient' = <<>> /\ Heard'[c] = "not_avail"
      BY <1>1, <1>2, <2>3 DEF Connects, Down, Heard
    <3>2. ~HeardAvail(c)'
      BY <3>1, Nothing DEF HeardAvail
    <3>3. \A i \in DOMAIN toServer' : ~About(toServer'[i], c, {"remove"})
      <4>1. PICK t : t = toServer'
        OBVIOUS
      <4>2. \A i \in DOMAIN t : t[i].is \in {"notify_first", "notify_last", "list_empty"}
        BY <2>1, <4>1, Notified
      <4> QED
        BY <4>1, <4>2 DEF About
    <3> QED
      BY <3>1, <3>2, <3>3 DEF Fresh, Ordered
  <2> QED
    BY <1>2, <2>2, <2>3 DEF StatusInv, Connects
<1>3. CASE Disconnects \/ Vanishes
  <2>1. /\ \A c \in contacts : Heard'[c] = "not_avail"
        /\ contacts' = contacts /\ late' = {} /\ toClient' = <<>> /\ toServer' = <<>> /\ watched' = {}
    BY <1>3 DEF Disconnects, Vanishes, SessionOver, Heard, ContactTypes
  <2>2. Followed'
    BY <2>1 DEF Followed
  <2>3. ASSUME NEW c \in contacts' PROVE Fresh(c)'
    <3>1. Heard'[c] = "not_avail"
      BY <2>1, <2>3 DEF ContactTypes
    <3>2. ~HeardAvail(c)'
      BY <2>1, <3>1, Nothing DEF HeardAvail
    <3> QED
      BY <2>1, <3>2 DEF Fresh, Ordered
  <2> QED
    BY <2>1, <2>2, <2>3 DEF StatusInv, ContactTypes
(* Contacts are added, and the server is told of those or of others.       *)
<1>4. ASSUME NEW cs \in SUBSET Contacts, Adds(cs), kept' = kept, up' = up, watched' = watched,
             presence' = presence, \A c : Continues(toServer, toServer', c),
             \/ toClient' = toClient
             \/ /\ toClient # <<>> /\ toClient' = Tail(toClient)
                /\ Head(toClient).is = "get_reply"
      PROVE  StatusInv'
  <2>1. /\ contacts' = contacts \cup cs /\ late \subseteq late'
        /\ \A c \in Contacts : Heard'[c] = IF c \in cs \ contacts THEN "not_avail" ELSE Heard[c]
    BY <1>4 DEF Adds, Heard
  <2>2. ~up' => \A c \in contacts' : Heard'[c] = "not_avail"
    BY <1>1, <1>4, <2>1 DEF ContactTypes
  <2>3. ASSUME NEW c \in contacts' \ late' PROVE Fresh(c)'
    <3>0. c \in Contacts /\ Continues(toServer, toServer', c)
      BY <1>4, <2>1, <2>3 DEF ContactTypes
    <3>1. (Listed => Listed') /\ (Ordered(c) => Ordered(c)')
      BY <1>4, <3>0, ContinuesKeep
    <3>2. CASE c \in contacts
      <4>1. Fresh(c) /\ Heard'[c] = Heard[c]
        BY <1>1, <2>1, <2>3, <3>0, <3>2
      <4>2. CASE toClient' = toClient
        BY <1>4, <3>1, <4>1, <4>2, FreshKept
      <4>3. CASE toClient # <<>> /\ toClient' = Tail(toClient) /\ Head(toClient).is = "get_reply"
        <5>1. ~About(Head(toClient), c, Tells)
          BY <4>3 DEF About, Tells
        <5> QED
          BY <1>4, <3>0, <3>1, <4>1, <4>3, <5>1, FreshArrived
      <4> QED
        BY <1>4, <4>2, <4>3
    <3>3. CASE c \notin contacts
      <4>1. c \in cs \ contacts /\ c \notin late'
        BY <2>1, <2>3, <3>3
      <4> QED
        BY <1>4, <3>0, <4>1, FreshAdded
    <3> QED
      BY <3>2, <3>3
  <2>4. Followed'
    <3>1. PICK c : Continues(toServer, toServer', c)
      BY <1>4
    <3> QED
      BY <1>1, <1>4, <3>1, ContinuesKeep
  <2> QED
    BY <2>2, <2>3, <2>4 DEF StatusInv
(* The list is as it was, or shorter, and the server is told of others.    *)
<1>5. ASSUME contacts' \subseteq contacts, late' = late, up' = up, watched' = watched,
             presence' = presence, toClient' = toClient,
             \A c \in contacts' : Heard'[c] = Heard[c] /\ Continues(toServer, toServer', c),
             Followed'
      PROVE  StatusInv'
  <2>1. ~up' => \A c \in contacts' : Heard'[c] = "not_avail"
    BY <1>1, <1>5
  <2>2. ASSUME NEW c \in contacts' \ late' PROVE Fresh(c)'
    <3>1. Fresh(c) /\ Heard'[c] = Heard[c] /\ Continues(toServer, toServer', c)
      BY <1>1, <1>5, <2>2
    <3>2. (Listed => Listed') /\ (Ordered(c) => Ordered(c)')
      BY <1>5, <3>1, ContinuesKeep
    <3> QED
      BY <1>5, <3>1, <3>2, FreshKept
  <2> QED
    BY <1>5, <2>1, <2>2 DEF StatusInv
<1>6. \A c : Continues(toServer, toServer, c)
  BY DEF Continues
<1>7. ASSUME contacts' = contacts, Heard' = Heard, late' = late, up' = up, watched' = watched,
             presence' = presence, toClient' = toClient, toServer' = toServer
      PROVE  StatusInv'
  <2>1. Followed'
    BY <1>1, <1>7 DEF Followed
  <2> QED
    BY <1>5, <1>6, <1>7, <2>1
<1>8. ASSUME NEW t \in Seq(Packets), toServer' = toServer \o t,
             \A i \in DOMAIN t : t[i].is \in {"add", "put", "put_more", "get"},
             contacts' = contacts, Heard' = Heard, late' = late, up' = up, watched' = watched,
             presence' = presence, toClient' = toClient
      PROVE  StatusInv'
  <2>1. ASSUME NEW c PROVE Continues(toServer, toServer', c)
    <3>1. \A i \in DOMAIN t : ~About(t[i], c, {"remove"}) /\ t[i].is # "notify_first"
      BY <1>8 DEF About
    <3> QED
      BY <1>8, <3>1, MoreContinues DEF ContactTypes
  <2>2. Followed'
    <3>1. PICK c : Continues(toServer, toServer', c)
      BY <2>1
    <3> QED
      BY <1>1, <1>8, <3>1, ContinuesKeep
  <2> QED
    BY <1>5, <1>8, <2>1, <2>2
<1>9. ASSUME NEW c \in Contacts, AddUser(c) PROVE StatusInv'
  <2>1. {c} \in SUBSET Contacts /\ SendsAdd({c})
    BY <1>9 DEF AddUser
  <2>2. \A d : Continues(toServer, toServer', d)
    BY <2>1, AddsContinue
  <2> QED
    BY <1>4, <1>9, <2>1, <2>2 DEF AddUser
<1>10. ASSUME NEW c \in Contacts, AddFound(c) PROVE StatusInv'
  <2>1. {c} \in SUBSET Contacts
    OBVIOUS
  <2> QED
    BY <1>4, <1>6, <1>10, <2>1 DEF AddFound
<1>11. ASSUME NEW c \in Contacts, AskRemove(c) PROVE StatusInv'
  BY <1>7, <1>11 DEF AskRemove, Heard
<1>12. CASE FoundAdded
  <2>1. CASE Last(adding).freed
    BY <1>7, <1>12, <2>1 DEF FoundAdded, Heard
  <2>2. CASE ~Last(adding).freed
    <3>1. PICK c : c = Last(adding).contact
      OBVIOUS
    <3>2. Last(adding) \in Pointers
      BY <1>12, Popped DEF FoundAdded, ContactTypes
    <3>3. {c} \in SUBSET Contacts /\ SendsAdd({c})
      BY <1>12, <2>2, <3>1, <3>2 DEF FoundAdded, Pointers
    <3>4. \A d : Continues(toServer, toServer', d)
      BY <3>3, AddsContinue
    <3>5. /\ contacts' = contacts /\ Heard' = Heard /\ late' = late /\ up' = up
          /\ watched' = watched /\ presence' = presence /\ toClient' = toClient
      BY <1>12 DEF FoundAdded, Heard
    <3>6. Followed'
      <4>1. PICK d : Continues(toServer, toServer', d)
        BY <3>4
      <4> QED
        BY <1>1, <3>5, <4>1, ContinuesKeep
    <3> QED
      BY <1>5, <3>4, <3>5, <3>6
  <2> QED
    BY <2>1, <2>2
<1>13. ASSUME NEW i \in DOMAIN dialogs, NEW yes \in BOOLEAN, AnswerRemove(i, yes)
       PROVE  StatusInv'
  <2>0. /\ late' = late /\ up' = up /\ watched' = watched /\ presence' = presence
        /\ toClient' = toClient
    BY <1>13 DEF AnswerRemove
  <2>1. CASE ~yes \/ dialogs[i].freed
    <3>1. contacts' = contacts /\ Heard' = Heard /\ toServer' = toServer
      BY <1>13, <2>1 DEF AnswerRemove, Heard
    <3> QED
      BY <1>7, <2>0, <3>1
  <2>2. CASE yes /\ ~dialogs[i].freed
    <3>1. PICK d : d = dialogs[i].contact
      OBVIOUS
    <3>2. d \in Contacts
      <4>1. dialogs \in Seq(Pointers) /\ DOMAIN dialogs = 1..Len(dialogs)
        BY LenProperties DEF ContactTypes
      <4>2. dialogs[i] \in Pointers
        BY <4>1, ElementOfSeq
      <4> QED
        BY <3>1, <4>2 DEF Pointers
    <3>3. Removes(d, RemoveAt(dialogs, i))
      BY <1>13, <2>2, <3>1 DEF AnswerRemove
    <3>4. PICK p : p = Packet("remove", {d})
      OBVIOUS
    <3>5. p \in Packets /\ p.is = "remove" /\ p.of = {d}
      BY <3>2, <3>4, PacketTypes DEF Packet
    <3>6. <<p>> \in Seq(Packets) /\ DOMAIN <<p>> = 1..1 /\ <<p>>[1] = p
      BY <3>5, OnePacket
    <3>7. toServer' = IF up THEN toServer \o <<p>> ELSE toServer
      BY <3>3, <3>4 DEF Removes, SendsRemove, Sends
    <3>8. ASSUME NEW c, c # d PROVE Continues(toServer, toServer', c)
      <4>1. \A j \in DOMAIN <<p>> : ~About(<<p>>[j], c, {"remove"}) /\ <<p>>[j].is # "notify_first"
        BY <3>5, <3>6, <3>8 DEF About
      <4>2. Continues(toServer, toServer \o <<p>>, c)
        BY <3>6, <4>1, MoreContinues DEF ContactTypes
      <4> QED
        BY <1>6, <3>7, <4>2
    <3>9. Followed'
      <4>1. PICK c : c # d
        OBVIOUS
      <4>2. Continues(toServer, toServer', c)
        BY <3>8, <4>1
      <4> QED
        BY <1>1, <2>0, <4>2, ContinuesKeep
    <3>10. /\ contacts' = contacts \ {d}
           /\ \A c \in contacts' : Heard'[c] = Heard[c] /\ c # d
      BY <3>3 DEF Removes, ContactTypes, Heard
    <3> QED
      BY <1>5, <2>0, <3>8, <3>9, <3>10
  <2> QED
    BY <2>1, <2>2
<1>14. ASSUME NEW cs \in SUBSET Contacts, Export(cs) PROVE StatusInv'
  <2>1. PICK t \in Put(cs) : toServer' = toServer \o t
    BY <1>14 DEF Export
  <2>2. t \in Seq(Packets) /\ \A i \in DOMAIN t : t[i].is \in {"put", "put_more"}
    BY <2>1, PutSent
  <2>3. \A i \in DOMAIN t : t[i].is \in {"add", "put", "put_more", "get"}
    BY <2>2
  <2> QED
    BY <1>8, <1>14, <2>1, <2>2, <2>3 DEF Export, Heard
<1>15. CASE Import
  <2>1. PICK p : p = Packet("get", {})
    OBVIOUS
  <2>2. p \in Packets /\ p.is = "get"
    BY <2>1 DEF Packet, Packets, PacketKinds
  <2>3. <<p>> \in Seq(Packets) /\ DOMAIN <<p>> = 1..1 /\ <<p>>[1] = p
    BY <2>2, OnePacket
  <2>4. toServer' = toServer \o <<p>>
    BY <1>15, <2>1, <2>2, AppendIsConcat DEF Import, ContactTypes
  <2>5. \A i \in DOMAIN <<p>> : <<p>>[i].is \in {"add", "put", "put_more", "get"}
    BY <2>2, <2>3
  <2> QED
    BY <1>8, <1>15, <2>3, <2>4, <2>5 DEF Import, Heard
<1>16. CASE ServerHandles
  <2>1. up /\ up' = up /\ contacts' = contacts /\ late' = late
    BY <1>16 DEF ServerHandles, Down
  <2>2. Followed'
    <3>1. PICK c : c = "any"
      OBVIOUS
    <3> QED
      BY <1>1, <1>16, QueueHandled
  <2>3. \A c \in contacts' \ late' : Fresh(c)'
    BY <1>1, <1>16, <2>1, FreshHandled
  <2> QED
    BY <2>1, <2>2, <2>3 DEF StatusInv
<1>17. ASSUME NEW d \in Contacts, NEW s \in Tells, ServerReports(d, s) PROVE StatusInv'
  <2>1. /\ up' = up /\ contacts' = contacts /\ late' = late /\ Heard' = Heard
        /\ toServer' = toServer
    BY <1>17 DEF ServerReports, Heard
  <2>2. Followed'
    BY <1>1, <2>1 DEF Followed
  <2>3. \A c \in contacts' \ late' : Fresh(c)'
    BY <1>1, <1>17, <2>1, FreshReported
  <2> QED
    BY <1>1, <2>1, <2>2, <2>3 DEF StatusInv
<1>18. CASE StatusArrives \/ PutReplyArrives \/ ListPartArrives
  <2>1. /\ up /\ up' = up /\ contacts' = contacts /\ late' = late
        /\ toClient # <<>> /\ toClient' = Tail(toClient)
        /\ toServer' = toServer /\ watched' = watched /\ presence' = presence
    BY <1>18 DEF StatusArrives, PutReplyArrives, ListPartArrives, ComesIn, Down
  <2>2. Followed' /\ (Listed => Listed')
    BY <1>1, <2>1 DEF Followed, Listed
  <2>3. ASSUME NEW c \in contacts' \ late' PROVE Fresh(c)'
    <3>1. c \in Contacts /\ c \in contacts /\ Fresh(c)
      BY <1>1, <2>1, <2>3
    <3>2. Ordered(c) => Ordered(c)'
      BY <2>1 DEF Ordered
    <3>3. Heard'[c] = IF About(Head(toClient), c, Tells) THEN Head(toClient).is ELSE Heard[c]
      <4>1. CASE StatusArrives
        BY <3>1, <4>1 DEF StatusArrives, ComesIn, About, Tells, Heard
      <4>2. CASE PutReplyArrives \/ ListPartArrives
        BY <4>2 DEF PutReplyArrives, ListPartArrives, ComesIn, About, Tells, Heard
      <4> QED
        BY <1>18, <4>1, <4>2
    <3> QED
      BY <2>1, <2>2, <3>1, <3>2, <3>3, FreshArrived
  <2> QED
    BY <2>1, <2>2, <2>3 DEF StatusInv
<1>19. CASE ListArrives
  <2>1. PICK list \in Imported(reply \cup Head(toClient).of) :
           Adds(list) /\ SendsAdd(list \ contacts)
    BY <1>19 DEF ListArrives
  <2>2. /\ Adds(list) /\ SendsAdd(list \ contacts) /\ watched' = watched /\ presence' = presence
        /\ toClient # <<>> /\ toClient' = Tail(toClient) /\ Head(toClient).is = "get_reply"
        /\ up' = up /\ kept' = kept
    BY <1>19, <2>1 DEF ListArrives, ComesIn
  <2>3. list \in SUBSET Contacts /\ list \ contacts \in SUBSET Contacts
    <3>1. Head(toClient).of \in SUBSET Contacts
      BY <2>2, HeadTypes DEF ContactTypes
    <3> QED
      BY <2>1, <3>1, ImportedOf DEF ContactTypes
  <2>4. \A c : Continues(toServer, toServer', c)
    BY <2>2, <2>3, AddsContinue
  <2> QED
    BY <1>4, <2>2, <2>3, <2>4
<1>20. CASE UNCHANGED contactVars
  BY <1>7, <1>20 DEF contactVars, Heard
<1> QED
  <2>1. contacts \in SUBSET Contacts /\ {} \in SUBSET Contacts
    BY DEF ContactTypes
  <2> QED
    BY <2>1, <1>2, <1>3, <1>9, <1>10, <1>11, <1>12, <1>13, <1>14, <1>15, <1>16, <1>17, <1>18,
       <1>19, <1>20 DEF ContactsNext, Tells

LEMMA StatusAlways == ContactsSpec => [](ContactTypes /\ NotifyInv /\ StatusInv)
<1>1. ContactsInit => StatusInv
  BY DEF ContactsInit, StatusInv, Followed, Heard
<1>2. NotifyInv => Down
  BY DEF NotifyInv
<1> QED
  BY <1>1, <1>2, NotifyAlways, StatusStep, PTL DEF ContactsSpec

LEMMA StatusHolds == ContactTypes /\ NotifyInv /\ StatusInv => StatusFollows
<1> SUFFICES ASSUME ContactTypes, NotifyInv, StatusInv PROVE StatusFollows
  OBVIOUS
<1>0. \A c \in contacts \ kept : Heard[c] = status[c]
  BY DEF Heard, ContactTypes
<1>1. ~up => \A c \in contacts \ kept : status[c] = "not_avail"
  BY <1>0 DEF StatusInv
<1>2. ASSUME Settled, toClient = <<>>, NEW c \in contacts \ (late \cup kept)
      PROVE  status[c] = presence[c]
  <2>1. c \in watched
    BY <1>2, NotifyHolds DEF NotifyAgrees
  <2>2. HeardAvail(c) <=> status[c] = "avail"
    BY <1>0, <1>2, Nothing DEF HeardAvail
  <2>3. Fresh(c) /\ ~Listed
    BY <1>2 DEF StatusInv, Listed, Settled
  <2>4. status[c] \in Tells /\ presence[c] \in Tells
    BY <1>2 DEF ContactTypes
  <2> QED
    BY <2>1, <2>2, <2>3, <2>4 DEF Fresh, Tells
<1> QED
  BY <1>1, <1>2 DEF StatusFollows

(* Whom the list shows as available is: nobody without a connection, and   *)
(* with one those that the server knows to be, once what was sent in both  *)
(* directions has been handled, but for contacts that were added again     *)
(* before the server had forgotten them, and those that are still shown as *)
(* available since a connection that ended by SIGHUP or a second login.    *)
THEOREM StatusCorrect == ContactsSpec => []StatusFollows
  BY StatusAlways, StatusHolds, PTL

-----------------------------------------------------------------------------

ListParts == {"get_more_reply", "get_reply"}

(* The part i of what arrives belongs to the list k, which ends with the   *)
(* part last[k].                                                           *)
Within(last, k, i) == i <= last[k] /\ \A l \in 1..(k - 1) : last[l] < i

(* The parts in q, and got, which is what has arrived of the first list,   *)
(* are those of the lists, one after another and each without a gap.       *)
EndsAt(last, q, lists) ==
    /\ last \in [DOMAIN lists -> DOMAIN q]
    /\ \A k, l \in DOMAIN lists : k < l => last[k] < last[l]
    /\ \A k \in DOMAIN lists : q[last[k]].is = "get_reply"
    /\ \A i \in DOMAIN q : q[i].is = "get_reply" => \E k \in DOMAIN lists : last[k] = i
Closed(last, q, lists) ==
    /\ \A i \in DOMAIN q : q[i].is \in ListParts => \E k \in DOMAIN lists : i <= last[k]
    /\ \A i \in DOMAIN q : q[i].is = "get_more_reply" => i + 1 \in DOMAIN q /\ q[i + 1].is \in ListParts
Begun(q, lists, got) ==
    got # {} => 1 \in DOMAIN lists /\ 1 \in DOMAIN q /\ q[1].is \in ListParts
Holds(last, q, lists, got) ==
    \A k \in DOMAIN lists : \A c :
       c \in lists[k] <=>
          \/ k = 1 /\ c \in got
          \/ \E i \in DOMAIN q : Within(last, k, i) /\ q[i].is \in ListParts /\ c \in q[i].of
Gathers(last, q, lists, got) ==
    /\ EndsAt(last, q, lists) /\ Closed(last, q, lists)
    /\ Begun(q, lists, got) /\ Holds(last, q, lists, got)

(* Packets that are no parts of a list.                                    *)
LEMMA GathersMore ==
    ASSUME NEW S, NEW q \in Seq(S), NEW t \in Seq(S), NEW T, NEW lists \in Seq(T), NEW got, NEW last,
           Gathers(last, q, lists, got), \A i \in DOMAIN t : t[i].is \notin ListParts
    PROVE  Gathers(last, q \o t, lists, got)
<1>u. PICK u : u = q \o t
  OBVIOUS
<1>1. /\ Len(q) \in Nat /\ Len(t) \in Nat
      /\ DOMAIN q = 1..Len(q) /\ DOMAIN t = 1..Len(t)
      /\ DOMAIN u = 1..(Len(q) + Len(t))
      /\ \A i \in DOMAIN q : u[i] = q[i]
      /\ \A i \in DOMAIN t : u[Len(q) + i] = t[i]
  BY <1>u, Concatenated
<1>2. \A i \in DOMAIN q : i \in DOMAIN u /\ u[i] = q[i]
  BY <1>1
<1>3. ASSUME NEW i \in DOMAIN u, u[i].is \in ListParts PROVE i \in DOMAIN q
  <2>1. CASE i \notin DOMAIN q
    <3>1. i - Len(q) \in DOMAIN t /\ Len(q) + (i - Len(q)) = i
      BY <1>1, <2>1
    <3>2. u[i] = t[i - Len(q)]
      BY <1>1, <3>1
    <3> QED
      BY <1>3, <3>1, <3>2
  <2> QED
    BY <2>1
<1>4. "get_reply" \in ListParts /\ "get_more_reply" \in ListParts
  BY DEF ListParts
<1>5. EndsAt(last, u, lists)
  BY <1>2, <1>3, <1>4 DEF Gathers, EndsAt
<1>6. Closed(last, u, lists)
  BY <1>2, <1>3, <1>4 DEF Gathers, Closed
<1>7. Begun(u, lists, got)
  BY <1>2 DEF Gathers, Begun
<1>8. Holds(last, u, lists, got)
  BY <1>2, <1>3 DEF Gathers, Holds
<1> QED
  BY <1>u, <1>5, <1>6, <1>7, <1>8 DEF Gathers

(* A whole list.                                                           *)
LEMMA GathersList ==
    ASSUME NEW S, NEW q \in Seq(S), NEW t \in Seq(S), NEW T, NEW lists \in Seq(T), NEW list \in T,
           NEW got, NEW last, Gathers(last, q, lists, got), Len(t) # 0,
           \A i \in DOMAIN t : /\ t[i].is = IF i < Len(t) THEN "get_more_reply" ELSE "get_reply"
                               /\ t[i].of \subseteq list,
           \A c \in list : \E i \in DOMAIN t : c \in t[i].of
    PROVE  \E more : Gathers(more, q \o t, Append(lists, list), got)
<1>u. PICK u : u = q \o t
  OBVIOUS
<1>1. /\ Len(q) \in Nat /\ Len(t) \in Nat \ {0}
      /\ DOMAIN q = 1..Len(q) /\ DOMAIN t = 1..Len(t)
      /\ DOMAIN u = 1..(Len(q) + Len(t))
      /\ \A i \in DOMAIN q : u[i] = q[i]
      /\ \A i \in DOMAIN t : u[Len(q) + i] = t[i]
  BY <1>u, Concatenated
<1>v. PICK all : all = Append(lists, list)
  OBVIOUS
<1>n. PICK n : n = Len(lists)
  OBVIOUS
<1>2. /\ n \in Nat /\ DOMAIN lists = 1..n /\ DOMAIN all = 1..(n + 1)
      /\ all[n + 1] = list /\ \A k \in 1..n : all[k] = lists[k]
  <2>1. all \in Seq(T) /\ Len(all) = n + 1 /\ all[n + 1] = list /\ \A k \in 1..n : all[k] = lists[k]
    BY <1>n, <1>v, AppendProperties
  <2> QED
    BY <1>n, <2>1, LenProperties
<1>m. PICK e : e = Len(q) + Len(t)
  OBVIOUS
<1>3. PICK more : more = [k \in 1..(n + 1) |-> IF k = n + 1 THEN e ELSE last[k]]
  OBVIOUS
<1>4. /\ more[n + 1] = e /\ \A k \in 1..n : more[k] = last[k]
  BY <1>2, <1>3
<1>5. \A i \in DOMAIN q : i \in DOMAIN u /\ u[i] = q[i] /\ i < e
  BY <1>1, <1>m
<1>6. ASSUME NEW i \in DOMAIN u, i \notin DOMAIN q
      PROVE  /\ i > Len(q) /\ i <= e /\ i - Len(q) \in DOMAIN t /\ u[i] = t[i - Len(q)]
             /\ u[i].is = IF i < e THEN "get_more_reply" ELSE "get_reply"
             /\ u[i].of \subseteq list
  <2>1. /\ i > Len(q) /\ i <= e /\ i - Len(q) \in DOMAIN t /\ Len(q) + (i - Len(q)) = i
        /\ i - Len(q) < Len(t) <=> i < e
    BY <1>1, <1>6, <1>m
  <2>2. u[i] = t[i - Len(q)]
    BY <1>1, <2>1
  <2> QED
    BY <2>1, <2>2
<1>7. e \in DOMAIN u /\ e \notin DOMAIN q /\ u[e].is = "get_reply"
  <2>1. e \in DOMAIN u /\ e \notin DOMAIN q /\ ~(e < e)
    BY <1>1, <1>m
  <2> QED
    BY <2>1, <1>6
<1>8. last \in [1..n -> DOMAIN q]
  BY <1>2 DEF Gathers, EndsAt
<1>9. EndsAt(more, u, all)
  <2>1. more \in [DOMAIN all -> DOMAIN u]
    BY <1>2, <1>3, <1>5, <1>7, <1>8
  <2>2. ASSUME NEW k \in DOMAIN all, NEW l \in DOMAIN all, k < l PROVE more[k] < more[l]
    <3>1. k \in 1..n
      BY <1>2, <2>2
    <3>2. CASE l = n + 1
      BY <1>4, <1>5, <1>8, <3>1, <3>2
    <3>3. CASE l \in 1..n
      <4>1. last[k] < last[l]
        BY <1>2, <2>2, <3>1, <3>3 DEF Gathers, EndsAt
      <4> QED
        BY <1>4, <3>1, <3>3, <4>1
    <3> QED
      BY <1>2, <3>2, <3>3
  <2>3. ASSUME NEW k \in DOMAIN all PROVE u[more[k]].is = "get_reply"
    <3>1. CASE k = n + 1
      BY <1>4, <1>7, <3>1
    <3>2. CASE k \in 1..n
      <4>1. q[last[k]].is = "get_reply" /\ last[k] \in DOMAIN q
        BY <1>2, <1>8, <3>2 DEF Gathers, EndsAt
      <4> QED
        BY <1>4, <1>5, <3>2, <4>1
    <3> QED
      BY <1>2, <3>1, <3>2
  <2>4. ASSUME NEW i \in DOMAIN u, u[i].is = "get_reply" PROVE \E k \in DOMAIN all : more[k] = i
    <3>1. CASE i \in DOMAIN q
      <4>1. PICK k \in 1..n : last[k] = i
        BY <1>2, <1>5, <2>4, <3>1 DEF Gathers, EndsAt
      <4>2. k \in DOMAIN all /\ more[k] = i
        BY <1>2, <1>4, <4>1
      <4> QED
        BY <4>2
    <3>2. CASE i \notin DOMAIN q
      <4>1. i = e
        BY <1>1, <1>6, <1>m, <2>4, <3>2
      <4>2. n + 1 \in DOMAIN all
        BY <1>2
      <4> QED
        BY <1>4, <4>1, <4>2
    <3> QED
      BY <3>1, <3>2
  <2> QED
    BY <2>1, <2>2, <2>3, <2>4 DEF EndsAt
<1>10. Closed(more, u, all)
  <2>1. n + 1 \in DOMAIN all /\ \A i \in DOMAIN u : i <= more[n + 1]
    BY <1>1, <1>2, <1>4, <1>m
  <2>2. ASSUME NEW i \in DOMAIN u, u[i].is = "get_more_reply"
        PROVE  i + 1 \in DOMAIN u /\ u[i + 1].is \in ListParts
    <3>1. CASE i \in DOMAIN q
      <4>1. i + 1 \in DOMAIN q /\ q[i + 1].is \in ListParts
        BY <1>5, <2>2, <3>1 DEF Gathers, Closed
      <4> QED
        BY <1>5, <4>1
    <3>2. CASE i \notin DOMAIN q
      <4>1. i < e
        BY <1>6, <2>2, <3>2
      <4>2. i + 1 \in DOMAIN u /\ i + 1 \notin DOMAIN q
        BY <1>1, <1>m, <3>2, <4>1
      <4> QED
        BY <1>6, <4>2 DEF ListParts
    <3> QED
      BY <3>1, <3>2
  <2> QED
    BY <2>1, <2>2 DEF Closed
<1>11. Begun(u, all, got)
  <2>1. got # {} => 1 \in DOMAIN lists /\ 1 \in DOMAIN q /\ q[1].is \in ListParts
    BY DEF Gathers, Begun
  <2>2. 1 \in DOMAIN lists => 1 \in DOMAIN all
    BY <1>2
  <2> QED
    BY <1>5, <2>1, <2>2 DEF Begun
<1>12. Holds(more, u, all, got)
  <2>1. ASSUME NEW k \in 1..n, NEW c
        PROVE  c \in all[k] <=>
                  \/ k = 1 /\ c \in got
                  \/ \E i \in DOMAIN u : Within(more, k, i) /\ u[i].is \in ListParts /\ c \in u[i].of
    <3>1. c \in lists[k] <=>
             \/ k = 1 /\ c \in got
             \/ \E i \in DOMAIN q : Within(last, k, i) /\ q[i].is \in ListParts /\ c \in q[i].of
      BY <1>2 DEF Gathers, Holds
    <3>2. \A l \in 1..(k - 1) : l \in 1..n
      BY <1>2
    <3>3. \A i : Within(more, k, i) <=> Within(last, k, i)
      BY <1>4, <3>2 DEF Within
    <3>4. ASSUME NEW i \in DOMAIN u, Within(last, k, i) PROVE i \in DOMAIN q
      <4>1. i <= last[k] /\ last[k] \in DOMAIN q
        BY <1>8, <3>4 DEF Within
      <4> QED
        BY <1>1, <4>1
    <3> QED
      BY <1>2, <1>5, <3>1, <3>3, <3>4
  <2>2. ASSUME NEW c
        PROVE  c \in all[n + 1] <=>
                  \/ n + 1 = 1 /\ c \in got
                  \/ \E i \in DOMAIN u : Within(more, n + 1, i) /\ u[i].is \in ListParts /\ c \in u[i].of
    <3>1. n + 1 = 1 => got = {}
      BY <1>2 DEF Gathers, Begun
    <3>2. ASSUME c \in list
          PROVE  \E i \in DOMAIN u : Within(more, n + 1, i) /\ u[i].is \in ListParts /\ c \in u[i].of
      <4>1. PICK j \in DOMAIN t : c \in t[j].of
        BY <3>2
      <4>2. Len(q) + j \in DOMAIN u /\ Len(q) + j \notin DOMAIN q /\ (Len(q) + j) <= e
        BY <1>1, <1>m
      <4>3. u[Len(q) + j] = t[j] /\ u[Len(q) + j].is \in ListParts
        BY <1>1, <1>6, <4>2 DEF ListParts
      <4>4. \A l \in 1..((n + 1) - 1) : more[l] < Len(q) + j
        BY <1>1, <1>2, <1>4, <1>8
      <4> QED
        BY <1>4, <4>1, <4>2, <4>3, <4>4 DEF Within
    <3>3. ASSUME NEW i \in DOMAIN u, Within(more, n + 1, i), u[i].is \in ListParts, c \in u[i].of
          PROVE  c \in list
      <4>1. CASE i \in DOMAIN q
        <5>1. PICK k \in 1..n : i <= last[k]
          BY <1>2, <1>5, <3>3, <4>1 DEF Gathers, Closed
        <5>2. k \in 1..((n + 1) - 1)
          BY <1>2
        <5>3. more[k] < i /\ more[k] = last[k]
          BY <1>4, <3>3, <5>2 DEF Within
        <5> QED
          BY <1>1, <1>8, <4>1, <5>1, <5>3
      <4>2. CASE i \notin DOMAIN q
        BY <1>6, <3>3, <4>2
      <4> QED
        BY <4>1, <4>2
    <3> QED
      BY <1>2, <3>1, <3>2, <3>3
  <2>3. \A k \in DOMAIN all : k \in 1..n \/ k = n + 1
    BY <1>2
  <2> QED
    BY <2>1, <2>2, <2>3 DEF Holds
<1>13. Gathers(more, u, all, got)
  BY <1>9, <1>10, <1>11, <1>12 DEF Gathers
<1> QED
  BY <1>u, <1>v, <1>13

(* The first packet is taken, which is not the last part of a list.        *)
LEMMA GathersPart ==
    ASSUME NEW S, NEW q \in Seq(S), q # <<>>, NEW T, NEW lists \in Seq(T),
           NEW got, NEW last, Gathers(last, q, lists, got), Head(q).is # "get_reply"
    PROVE  /\ Head(q).is # "get_more_reply" => got = {}
           /\ \E more : Gathers(more, Tail(q), lists,
                                IF Head(q).is = "get_more_reply" THEN got \cup Head(q).of ELSE got)
<1>p. PICK p : p = Head(q)
  OBVIOUS
<1>u. PICK u : u = Tail(q)
  OBVIOUS
<1>1. /\ Len(q) \in Nat \ {0} /\ DOMAIN q = 1..Len(q) /\ DOMAIN u = 1..(Len(q) - 1)
      /\ \A i \in DOMAIN u : u[i] = q[i + 1]
      /\ p = q[1]
  <2>1. Len(q) \in Nat \ {0} /\ DOMAIN q = 1..Len(q)
    BY EmptySeq, LenProperties
  <2>2. u \in Seq(S) /\ Len(u) = Len(q) - 1 /\ \A i \in 1..Len(u) : u[i] = q[i + 1]
    BY <1>u, HeadTailProperties
  <2> QED
    BY <1>p, <2>1, <2>2, LenProperties
<1>2. \A j \in DOMAIN q : j # 1 => j - 1 \in DOMAIN u /\ u[j - 1] = q[j]
  BY <1>1
<1>3. \A i \in DOMAIN u : i + 1 \in DOMAIN q /\ i + 1 # 1 /\ i \in Nat
  BY <1>1
<1>n. PICK n : n = Len(lists)
  OBVIOUS
<1>4. n \in Nat /\ DOMAIN lists = 1..n
  BY <1>n, LenProperties
<1>5. last \in [1..n -> DOMAIN q] /\ \A k \in 1..n : last[k] # 1 /\ last[k] \in Nat
  <2>1. last \in [1..n -> DOMAIN q] /\ \A k \in 1..n : q[last[k]].is = "get_reply"
    BY <1>4 DEF Gathers, EndsAt
  <2> QED
    BY <1>p, <1>1, <2>1
<1>6. PICK more : more = [k \in 1..n |-> last[k] - 1]
  OBVIOUS
<1>7. \A k \in 1..n : more[k] = last[k] - 1 /\ more[k] \in DOMAIN u /\ u[more[k]] = q[last[k]]
  BY <1>2, <1>5, <1>6
<1>8. PICK now : now = IF p.is = "get_more_reply" THEN got \cup p.of ELSE got
  OBVIOUS
<1>9. p.is # "get_more_reply" => got = {} /\ p.is \notin ListParts
  BY <1>p, <1>1 DEF Gathers, Begun, ListParts
<1>10. EndsAt(more, u, lists)
  <2>1. more \in [DOMAIN lists -> DOMAIN u]
    BY <1>4, <1>6, <1>7
  <2>2. ASSUME NEW k \in 1..n, NEW l \in 1..n, k < l PROVE more[k] < more[l]
    <3>1. last[k] < last[l]
      BY <1>4, <2>2 DEF Gathers, EndsAt
    <3> QED
      BY <1>5, <1>7, <3>1
  <2>3. ASSUME NEW k \in 1..n PROVE u[more[k]].is = "get_reply"
    <3>1. q[last[k]].is = "get_reply"
      BY <1>4 DEF Gathers, EndsAt
    <3> QED
      BY <1>7, <3>1
  <2>4. ASSUME NEW i \in DOMAIN u, u[i].is = "get_reply" PROVE \E k \in 1..n : more[k] = i
    <3>1. PICK k \in 1..n : last[k] = i + 1
      BY <1>1, <1>3, <1>4, <2>4 DEF Gathers, EndsAt
    <3>2. more[k] = i
      BY <1>3, <1>7, <3>1
    <3> QED
      BY <3>2
  <2> QED
    BY <1>4, <2>1, <2>2, <2>3, <2>4 DEF EndsAt
<1>11. Closed(more, u, lists)
  <2>1. ASSUME NEW i \in DOMAIN u, u[i].is \in ListParts PROVE \E k \in 1..n : i <= more[k]
    <3>1. PICK k \in 1..n : i + 1 <= last[k]
      BY <1>1, <1>3, <1>4, <2>1 DEF Gathers, Closed
    <3>2. i <= more[k]
      BY <1>3, <1>5, <1>7, <3>1
    <3> QED
      BY <3>2
  <2>2. ASSUME NEW i \in DOMAIN u, u[i].is = "get_more_reply"
        PROVE  i + 1 \in DOMAIN u /\ u[i + 1].is \in ListParts
    <3>1. (i + 1) + 1 \in DOMAIN q /\ q[(i + 1) + 1].is \in ListParts
      BY <1>1, <1>3, <2>2 DEF Gathers, Closed
    <3>2. i + 1 \in DOMAIN u
      BY <1>1, <3>1
    <3> QED
      BY <1>1, <3>1, <3>2
  <2> QED
    BY <1>4, <2>1, <2>2 DEF Closed
<1>12. Begun(u, lists, now)
  <2>1. CASE p.is = "get_more_reply"
    <3>1. 1 \in DOMAIN q /\ q[1].is = "get_more_reply" /\ q[1].is \in ListParts
      BY <1>1, <2>1 DEF ListParts
    <3>2. \E k \in DOMAIN lists : 1 <= last[k]
      BY <3>1 DEF Gathers, Closed
    <3>3. 1 \in DOMAIN lists
      BY <1>4, <3>2
    <3>4. 1 + 1 \in DOMAIN q /\ q[1 + 1].is \in ListParts
      BY <3>1 DEF Gathers, Closed
    <3>5. 1 \in DOMAIN u /\ u[1] = q[1 + 1]
      BY <1>1, <3>4
    <3> QED
      BY <3>3, <3>4, <3>5 DEF Begun
  <2>2. CASE p.is # "get_more_reply"
    BY <1>8, <1>9, <2>2 DEF Begun
  <2> QED
    BY <2>1, <2>2
<1>13. Holds(more, u, lists, now)
  <2> SUFFICES ASSUME NEW k \in 1..n, NEW c
               PROVE  c \in lists[k] <=>
                         \/ k = 1 /\ c \in now
                         \/ \E i \in DOMAIN u : /\ Within(more, k, i) /\ u[i].is \in ListParts
                                                /\ c \in u[i].of
    BY <1>4 DEF Holds
  <2>1. c \in lists[k] <=>
           \/ k = 1 /\ c \in got
           \/ \E i \in DOMAIN q : Within(last, k, i) /\ q[i].is \in ListParts /\ c \in q[i].of
    BY <1>4 DEF Gathers, Holds
  <2>2. \A l \in 1..(k - 1) : l \in 1..n
    BY <1>4
  <2>3. ASSUME NEW i \in DOMAIN u
        PROVE  Within(more, k, i) <=> Within(last, k, i + 1)
    <3>0. \A m \in Nat : (i <= m - 1 <=> i + 1 <= m) /\ (m - 1 < i <=> m < i + 1)
      BY <1>3
    <3>1. ASSUME NEW l \in 1..n
          PROVE  (i <= more[l] <=> i + 1 <= last[l]) /\ (more[l] < i <=> last[l] < i + 1)
      <4>1. more[l] = last[l] - 1 /\ last[l] \in Nat
        BY <1>5, <1>7
      <4> QED
        BY <3>0, <4>1
    <3>2. i <= more[k] <=> i + 1 <= last[k]
      BY <3>1
    <3>3. (\A l \in 1..(k - 1) : more[l] < i) <=> (\A l \in 1..(k - 1) : last[l] < i + 1)
      BY <2>2, <3>1
    <3> QED
      BY <3>2, <3>3 DEF Within
  <2>4. Within(last, k, 1) <=> k = 1
    <3>1. k = 1 => Within(last, k, 1)
      BY <1>5 DEF Within
    <3>2. k # 1 => ~Within(last, k, 1)
      <4>1. k # 1 => 1 \in 1..(k - 1) /\ last[1] > 1
        BY <1>1, <1>4, <1>5, <2>2
      <4>2. k # 1 => last[1] \in Nat /\ ~(last[1] < 1)
        BY <1>5, <2>2, <4>1
      <4> QED
        BY <4>1, <4>2 DEF Within
    <3> QED
      BY <3>1, <3>2
  <2>5. 1 \in DOMAIN q /\ q[1] = p
    BY <1>1
  <2>6. k = 1 /\ c \in now <=> k = 1 /\ (c \in got \/ (p.is \in ListParts /\ c \in p.of))
    <3>1. p.is = "get_more_reply" => p.is \in ListParts
      BY DEF ListParts
    <3> QED
      BY <1>8, <1>9, <3>1
  <2>7. ASSUME c \in lists[k]
        PROVE  \/ k = 1 /\ c \in now
               \/ \E i \in DOMAIN u : Within(more, k, i) /\ u[i].is \in ListParts /\ c \in u[i].of
    <3>1. CASE k = 1 /\ c \in got
      BY <2>6, <3>1
    <3>2. ASSUME NEW i \in DOMAIN q, Within(last, k, i), q[i].is \in ListParts, c \in q[i].of
          PROVE  \/ k = 1 /\ c \in now
                 \/ \E j \in DOMAIN u : Within(more, k, j) /\ u[j].is \in ListParts /\ c \in u[j].of
      <4>1. CASE i = 1
        BY <2>4, <2>5, <2>6, <3>2, <4>1
      <4>2. CASE i # 1
        <5>1. i - 1 \in DOMAIN u /\ u[i - 1] = q[i] /\ (i - 1) + 1 = i
          BY <1>1, <1>2, <4>2
        <5>2. Within(more, k, i - 1)
          BY <2>3, <3>2, <5>1
        <5> QED
          BY <3>2, <5>1, <5>2
      <4> QED
        BY <4>1, <4>2
    <3> QED
      BY <2>1, <2>7, <3>1, <3>2
  <2>8. ASSUME k = 1 /\ c \in now PROVE c \in lists[k]
    BY <2>1, <2>4, <2>5, <2>6, <2>8
  <2>9. ASSUME NEW i \in DOMAIN u, Within(more, k, i), u[i].is \in ListParts, c \in u[i].of
        PROVE  c \in lists[k]
    BY <1>1, <1>3, <2>1, <2>3, <2>9
  <2> QED
    BY <2>7, <2>8, <2>9
<1>14. Gathers(more, u, lists, now)
  BY <1>10, <1>11, <1>12, <1>13 DEF Gathers
<1> QED
  BY <1>p, <1>u, <1>8, <1>9, <1>14

(* The last part of a list is taken.                                       *)
LEMMA GathersLast ==
    ASSUME NEW S, NEW q \in Seq(S), q # <<>>, NEW T, NEW lists \in Seq(T),
           NEW got, NEW last, Gathers(last, q, lists, got), Head(q).is = "get_reply"
    PROVE  /\ lists # <<>>
           /\ \A c : c \in Head(lists) <=> c \in got \/ c \in Head(q).of
           /\ \E more : Gathers(more, Tail(q), Tail(lists), {})
<1>p. PICK p : p = Head(q)
  OBVIOUS
<1>u. PICK u : u = Tail(q)
  OBVIOUS
<1>1. /\ Len(q) \in Nat \ {0} /\ DOMAIN q = 1..Len(q) /\ DOMAIN u = 1..(Len(q) - 1)
      /\ \A i \in DOMAIN u : u[i] = q[i + 1]
      /\ p = q[1]
  <2>1. Len(q) \in Nat \ {0} /\ DOMAIN q = 1..Len(q)
    BY EmptySeq, LenProperties
  <2>2. u \in Seq(S) /\ Len(u) = Len(q) - 1 /\ \A i \in 1..Len(u) : u[i] = q[i + 1]
    BY <1>u, HeadTailProperties
  <2> QED
    BY <1>p, <2>1, <2>2, LenProperties
<1>2. \A j \in DOMAIN q : j # 1 => j - 1 \in DOMAIN u /\ u[j - 1] = q[j]
  BY <1>1
<1>3. \A i \in DOMAIN u : i + 1 \in DOMAIN q /\ i + 1 # 1 /\ i + 1 > 1 /\ i \in Nat
  BY <1>1
<1>n. PICK n : n = Len(lists)
  OBVIOUS
<1>4. n \in Nat /\ DOMAIN lists = 1..n
  BY <1>n, LenProperties
<1>5. last \in [1..n -> DOMAIN q] /\ \A k \in 1..n : last[k] \in Nat \ {0}
  <2>1. last \in [1..n -> DOMAIN q]
    BY <1>4 DEF Gathers, EndsAt
  <2> QED
    BY <1>1, <2>1
(* It is the last part of the first of the lists.                          *)
<1>6. 1 \in 1..n /\ last[1] = 1
  <2>1. 1 \in DOMAIN q /\ q[1].is = "get_reply"
    BY <1>1, <1>p
  <2>2. PICK k \in 1..n : last[k] = 1
    BY <1>4, <2>1 DEF Gathers, EndsAt
  <2>3. 1 \in 1..n
    BY <1>4, <2>2
  <2>4. k # 1 => last[1] < last[k]
    <3>1. k # 1 => 1 < k
      BY <1>4
    <3> QED
      BY <1>4, <2>3, <3>1 DEF Gathers, EndsAt
  <2> QED
    BY <1>5, <2>2, <2>3, <2>4
<1>7. \A k \in 1..n : k # 1 => last[k] > 1
  <2> SUFFICES ASSUME NEW k \in 1..n, k # 1 PROVE last[k] > 1
    OBVIOUS
  <2>1. 1 < k
    BY <1>4
  <2>2. last[1] < last[k]
    BY <1>4, <1>6, <2>1 DEF Gathers, EndsAt
  <2> QED
    BY <1>5, <1>6, <2>2
<1>8. lists # <<>> /\ Head(lists) = lists[1]
  BY <1>4, <1>6
<1>9. \A c : c \in lists[1] <=> c \in got \/ c \in p.of
  <2> SUFFICES ASSUME NEW c PROVE c \in lists[1] <=> c \in got \/ c \in p.of
    OBVIOUS
  <2>1. c \in lists[1] <=>
           \/ 1 = 1 /\ c \in got
           \/ \E i \in DOMAIN q : Within(last, 1, i) /\ q[i].is \in ListParts /\ c \in q[i].of
    BY <1>4, <1>6 DEF Gathers, Holds
  <2>2. \A i \in DOMAIN q : Within(last, 1, i) <=> i = 1
    BY <1>1, <1>6 DEF Within
  <2>3. 1 \in DOMAIN q /\ q[1] = p /\ p.is \in ListParts
    BY <1>1, <1>p DEF ListParts
  <2> QED
    BY <2>1, <2>2, <2>3
<1>v. PICK rest : rest = Tail(lists)
  OBVIOUS
<1>10. /\ rest \in Seq(T) /\ DOMAIN rest = 1..(n - 1)
       /\ \A k \in 1..(n - 1) : rest[k] = lists[k + 1] /\ k + 1 \in 1..n /\ k + 1 # 1 /\ k \in Nat
  <2>1. rest \in Seq(T) /\ Len(rest) = n - 1 /\ \A k \in 1..Len(rest) : rest[k] = lists[k + 1]
    BY <1>n, <1>v, <1>8, HeadTailProperties
  <2>2. DOMAIN rest = 1..(n - 1)
    BY <2>1, LenProperties
  <2> QED
    BY <1>4, <2>1, <2>2
<1>11. PICK more : more = [k \in 1..(n - 1) |-> last[k + 1] - 1]
  OBVIOUS
<1>12. ASSUME NEW k \in 1..(n - 1)
       PROVE  /\ more[k] = last[k + 1] - 1 /\ last[k + 1] \in Nat
              /\ more[k] \in DOMAIN u /\ u[more[k]] = q[last[k + 1]]
  <2>1. k + 1 \in 1..n /\ k + 1 # 1
    BY <1>10
  <2>2. last[k + 1] \in DOMAIN q /\ last[k + 1] # 1 /\ last[k + 1] \in Nat
    BY <1>5, <1>7, <2>1
  <2> QED
    BY <1>2, <1>11, <2>2
<1>13. \A k \in 1..n : k # 1 => k - 1 \in 1..(n - 1) /\ (k - 1) + 1 = k
  BY <1>4
<1>14. EndsAt(more, u, rest)
  <2>1. more \in [DOMAIN rest -> DOMAIN u]
    BY <1>10, <1>11, <1>12
  <2>2. ASSUME NEW k \in 1..(n - 1), NEW l \in 1..(n - 1), k < l PROVE more[k] < more[l]
    <3>1. k + 1 < l + 1 /\ k + 1 \in 1..n /\ l + 1 \in 1..n
      BY <1>10, <2>2
    <3>2. last[k + 1] < last[l + 1]
      BY <1>4, <3>1 DEF Gathers, EndsAt
    <3> QED
      BY <1>12, <3>2
  <2>3. ASSUME NEW k \in 1..(n - 1) PROVE u[more[k]].is = "get_reply"
    <3>1. k + 1 \in DOMAIN lists
      BY <1>4, <1>10
    <3>2. q[last[k + 1]].is = "get_reply"
      BY <3>1 DEF Gathers, EndsAt
    <3> QED
      BY <1>12, <3>2
  <2>4. ASSUME NEW i \in DOMAIN u, u[i].is = "get_reply" PROVE \E k \in 1..(n - 1) : more[k] = i
    <3>1. PICK k \in 1..n : last[k] = i + 1
      BY <1>1, <1>3, <1>4, <2>4 DEF Gathers, EndsAt
    <3>2. k # 1
      BY <1>3, <1>6, <3>1
    <3>3. k - 1 \in 1..(n - 1) /\ (k - 1) + 1 = k
      BY <1>13, <3>2
    <3>4. more[k - 1] = i
      <4>1. more[k - 1] = last[(k - 1) + 1] - 1
        BY <1>12, <3>3
      <4>2. more[k - 1] = (i + 1) - 1
        BY <3>1, <3>3, <4>1
      <4> QED
        BY <1>3, <4>2
    <3> QED
      BY <3>3, <3>4
  <2> QED
    BY <1>10, <2>1, <2>2, <2>3, <2>4 DEF EndsAt
<1>15. Closed(more, u, rest)
  <2>1. ASSUME NEW i \in DOMAIN u, u[i].is \in ListParts PROVE \E k \in 1..(n - 1) : i <= more[k]
    <3>1. PICK k \in 1..n : i + 1 <= last[k]
      BY <1>1, <1>3, <1>4, <2>1 DEF Gathers, Closed
    <3>2. k # 1
      BY <1>3, <1>6, <3>1
    <3>3. k - 1 \in 1..(n - 1) /\ (k - 1) + 1 = k
      BY <1>13, <3>2
    <3>4. more[k - 1] = last[(k - 1) + 1] - 1
      BY <1>12, <3>3
    <3>5. i <= more[k - 1]
      BY <1>3, <1>5, <3>1, <3>3, <3>4
    <3> QED
      BY <3>3, <3>5
  <2>2. ASSUME NEW i \in DOMAIN u, u[i].is = "get_more_reply"
        PROVE  i + 1 \in DOMAIN u /\ u[i + 1].is \in ListParts
    <3>1. (i + 1) + 1 \in DOMAIN q /\ q[(i + 1) + 1].is \in ListParts
      BY <1>1, <1>3, <2>2 DEF Gathers, Closed
    <3>2. i + 1 \in DOMAIN u
      BY <1>1, <3>1
    <3> QED
      BY <1>1, <3>1, <3>2
  <2> QED
    BY <1>10, <2>1, <2>2 DEF Closed
<1>16. Begun(u, rest, {})
  BY DEF Begun
<1>17. Holds(more, u, rest, {})
  <2> SUFFICES ASSUME NEW k \in 1..(n - 1), NEW c
               PROVE  c \in rest[k] <=>
                         \E i \in DOMAIN u : /\ Within(more, k, i) /\ u[i].is \in ListParts
                                             /\ c \in u[i].of
    BY <1>10 DEF Holds
  <2>1. k + 1 \in 1..n /\ k + 1 # 1 /\ rest[k] = lists[k + 1]
    BY <1>10
  <2>2. c \in lists[k + 1] <=>
           \E i \in DOMAIN q : Within(last, k + 1, i) /\ q[i].is \in ListParts /\ c \in q[i].of
    BY <1>4, <2>1 DEF Gathers, Holds
  <2>3. ASSUME NEW i \in DOMAIN u
        PROVE  Within(more, k, i) <=> Within(last, k + 1, i + 1)
    <3>0. \A m \in Nat : (i <= m - 1 <=> i + 1 <= m) /\ (m - 1 < i <=> m < i + 1)
      BY <1>3
    <3>1. ASSUME NEW l \in 1..(n - 1)
          PROVE  (i <= more[l] <=> i + 1 <= last[l + 1]) /\ (more[l] < i <=> last[l + 1] < i + 1)
      <4>1. more[l] = last[l + 1] - 1 /\ last[l + 1] \in Nat
        BY <1>12
      <4> QED
        BY <3>0, <4>1
    <3>2. i <= more[k] <=> i + 1 <= last[k + 1]
      BY <3>1
    <3>3. ASSUME \A l \in 1..(k - 1) : more[l] < i, NEW l \in 1..((k + 1) - 1)
          PROVE  last[l] < i + 1
      <4>1. CASE l = 1
        BY <1>3, <1>6, <4>1
      <4>2. CASE l # 1
        <5>1. l - 1 \in 1..(k - 1) /\ l - 1 \in 1..(n - 1) /\ (l - 1) + 1 = l
          BY <1>4, <4>2
        <5>2. more[l - 1] < i
          BY <3>3, <5>1
        <5>3. last[(l - 1) + 1] < i + 1
          BY <3>1, <5>1, <5>2
        <5> QED
          BY <5>1, <5>3
      <4> QED
        BY <4>1, <4>2
    <3>4. ASSUME \A l \in 1..((k + 1) - 1) : last[l] < i + 1, NEW l \in 1..(k - 1)
          PROVE  more[l] < i
      <4>1. l + 1 \in 1..((k + 1) - 1) /\ l \in 1..(n - 1)
        BY <1>4
      <4>2. last[l + 1] < i + 1
        BY <3>4, <4>1
      <4> QED
        BY <3>1, <4>1, <4>2
    <3> QED
      BY <3>2, <3>3, <3>4 DEF Within
  <2>4. ~Within(last, k + 1, 1)
    <3>1. 1 \in 1..((k + 1) - 1) /\ ~(last[1] < 1)
      BY <1>6
    <3> QED
      BY <3>1 DEF Within
  <2>5. ASSUME c \in rest[k]
        PROVE  \E i \in DOMAIN u : Within(more, k, i) /\ u[i].is \in ListParts /\ c \in u[i].of
    <3>1. PICK i \in DOMAIN q : Within(last, k + 1, i) /\ q[i].is \in ListParts /\ c \in q[i].of
      BY <2>1, <2>2, <2>5
    <3>2. i # 1
      BY <2>4, <3>1
    <3>3. i - 1 \in DOMAIN u /\ u[i - 1] = q[i] /\ (i - 1) + 1 = i
      BY <1>1, <1>2, <3>2
    <3>4. Within(more, k, i - 1)
      BY <2>3, <3>1, <3>3
    <3> QED
      BY <3>1, <3>3, <3>4
  <2>6. ASSUME NEW i \in DOMAIN u, Within(more, k, i), u[i].is \in ListParts, c \in u[i].of
        PROVE  c \in rest[k]
    BY <1>1, <1>3, <2>1, <2>2, <2>3, <2>6
  <2> QED
    BY <2>5, <2>6
<1>18. Gathers(more, u, rest, {})
  BY <1>14, <1>15, <1>16, <1>17 DEF Gathers
<1> QED
  BY <1>p, <1>u, <1>v, <1>8, <1>9, <1>18

-----------------------------------------------------------------------------

ImportInv ==
    /\ answers \in Seq(SUBSET Contacts)
    /\ \E last : Gathers(last, toClient, answers, reply)

LEMMA GathersNone == Gathers(<<>>, <<>>, <<>>, {})
<1>1. DOMAIN <<>> = {}
  OBVIOUS
<1> QED
  BY <1>1 DEF Gathers, EndsAt, Closed, Begun, Holds

(* What the server answers is a whole list, or no part of one.             *)
LEMMA ListAnswered ==
    ASSUME ContactTypes, NEW p \in Packets, NEW t \in Answers(p), p.is # "get"
    PROVE  \A i \in DOMAIN t : t[i].is \notin ListParts
<1>1. CASE p.is = "notify_last"
  <2>1. PICK cs : cs = Available(watched \cup p.of)
    OBVIOUS
  <2>2. t = Reports("avail", cs) /\ cs \in SUBSET Contacts /\ "avail" \in PacketKinds
    BY <1>1, <2>1 DEF Answers, ContactTypes, Packets, Available, PacketKinds
  <2>3. \A i \in DOMAIN t : t[i].is = "avail"
    BY <2>2, Reported
  <2> QED
    BY <2>3 DEF ListParts
<1>2. CASE p.is = "add"
  <2>1. PICK cs : cs = Available(p.of)
    OBVIOUS
  <2>2. t = Reports("avail", cs) /\ cs \in SUBSET Contacts /\ "avail" \in PacketKinds
    BY <1>2, <2>1 DEF Answers, ContactTypes, Packets, Available, PacketKinds
  <2>3. \A i \in DOMAIN t : t[i].is = "avail"
    BY <2>2, Reported
  <2> QED
    BY <2>3 DEF ListParts
<1>3. CASE p.is \in {"put", "put_more"}
  <2>1. t = <<Packet("put_reply", {})>> \/ t = <<Packet("put_more_reply", {})>>
    BY <1>3 DEF Answers
  <2>2. DOMAIN t = 1..1 /\ t[1].is \in {"put_reply", "put_more_reply"}
    BY <2>1 DEF Packet
  <2> QED
    BY <2>2 DEF ListParts
<1>4. CASE p.is \notin {"notify_last", "add", "put", "put_more"}
  <2>1. t = <<>>
    BY <1>4 DEF Answers
  <2> QED
    BY <2>1
<1> QED
  BY <1>1, <1>2, <1>3, <1>4

(* What an import may do to the contacts.                                  *)
Imports == \E list \in SUBSET Head(answers) :
              /\ contacts' = contacts \cup list
              /\ list = Head(answers) \/ Cardinality(list) = ImportLines

(* The last part of a list arrives.                                        *)
LEMMA ListTaken ==
    ASSUME ContactTypes, ImportInv, ListArrives
    PROVE  ImportInv' /\ Imports
<1>0. PICK list \in Imported(reply \cup Head(toClient).of) : Adds(list)
  BY DEF ListArrives
<1>1. /\ toClient \in Seq(Packets) /\ toClient # <<>> /\ toClient' = Tail(toClient)
      /\ Head(toClient).is = "get_reply" /\ reply' = {} /\ answers' = Tail(answers)
      /\ contacts' = contacts \cup list
      /\ answers \in Seq(SUBSET Contacts)
  BY <1>0 DEF ListArrives, ComesIn, Adds, ContactTypes, ImportInv
<1>2. PICK last : Gathers(last, toClient, answers, reply)
  BY DEF ImportInv
<1>3. answers # <<>>
  BY <1>1, <1>2, GathersLast
<1>4. \A c : c \in Head(answers) <=> c \in reply \/ c \in Head(toClient).of
  BY <1>1, <1>2, GathersLast
<1>5. PICK more : Gathers(more, Tail(toClient), Tail(answers), {})
  BY <1>1, <1>2, GathersLast
<1>6. Tail(answers) \in Seq(SUBSET Contacts)
  BY <1>1, <1>3, HeadTailProperties
<1>7. ImportInv'
  BY <1>1, <1>5, <1>6 DEF ImportInv
<1>8. Imports
  <2>1. Head(answers) = reply \cup Head(toClient).of
    BY <1>4
  <2> QED
    BY <1>0, <1>1, <2>1, ImportedOf DEF Imports
<1> QED
  BY <1>7, <1>8

LEMMA ImportStep ==
    ContactTypes /\ ImportInv /\ [ContactsNext]_contactVars =>
       /\ ImportInv'
       /\ up' /\ Len(answers') < Len(answers) => Imports
<1> SUFFICES ASSUME ContactTypes, ImportInv, [ContactsNext]_contactVars
             PROVE  /\ ImportInv'
                    /\ up' /\ Len(answers') < Len(answers) => Imports
  OBVIOUS
<1> USE DEF linkVars, listVars, serverVars, historyVars
<1>1. /\ answers \in Seq(SUBSET Contacts) /\ Len(answers) \in Nat
      /\ toClient \in Seq(Packets)
  BY LenProperties DEF ImportInv, ContactTypes
<1>2. PICK last : Gathers(last, toClient, answers, reply)
  BY DEF ImportInv
<1> DEFINE Done == /\ ImportInv'
                   /\ up' /\ Len(answers') < Len(answers) => Imports
<1> SUFFICES Done
  OBVIOUS
<1>3. ASSUME answers' = answers, NEW more, Gathers(more, toClient', answers, reply')
      PROVE  Done
  BY <1>1, <1>3 DEF ImportInv
<1>4. ASSUME answers' = answers, toClient' = toClient, reply' = reply PROVE Done
  BY <1>2, <1>3, <1>4
<1>5. CASE Disconnects \/ Vanishes
  <2>1. ~up' /\ answers' = <<>> /\ toClient' = <<>> /\ reply' = {}
    BY <1>5 DEF Disconnects, Vanishes, SessionOver
  <2>2. <<>> \in Seq(SUBSET Contacts)
    BY EmptySeq
  <2> QED
    BY <2>1, <2>2, GathersNone DEF ImportInv
<1>6. CASE ServerHandles
  <2>1. PICK p : p = Head(toServer)
    OBVIOUS
  <2>2. p \in Packets
    BY <1>6, <2>1, HeadTypes DEF ServerHandles, ContactTypes
  <2>3. PICK t \in Answers(p) : toClient' = toClient \o t
    BY <1>6, <2>1 DEF ServerHandles
  <2>4. t \in Seq(Packets) /\ reply' = reply
    BY <1>6, <2>2, Answered DEF ServerHandles
  <2>5. CASE p.is = "get"
    <3>1. t \in Stored /\ stored \in SUBSET Contacts /\ answers' = Append(answers, stored)
      BY <1>6, <2>1, <2>3, <2>5 DEF Answers, ServerHandles, ContactTypes
    <3>2. /\ Len(t) # 0
          /\ \A i \in DOMAIN t : /\ t[i].is = IF i < Len(t) THEN "get_more_reply" ELSE "get_reply"
                                 /\ t[i].of \subseteq stored
      BY <3>1, ListSent
    <3>3. \A c \in stored : \E i \in DOMAIN t : c \in t[i].of
      BY <3>1, ListSent
    <3>4. \E more : Gathers(more, toClient \o t, Append(answers, stored), reply)
      BY <1>1, <1>2, <2>4, <3>1, <3>2, <3>3, GathersList
    <3>5. Append(answers, stored) \in Seq(SUBSET Contacts) /\ Len(Append(answers, stored)) = Len(answers) + 1
      BY <1>1, <3>1, AppendProperties
    <3>6. ImportInv'
      BY <2>3, <2>4, <3>1, <3>4, <3>5 DEF ImportInv
    <3>7. ~(Len(answers') < Len(answers))
      BY <1>1, <3>1, <3>5
    <3> QED
      BY <3>6, <3>7
  <2>6. CASE p.is # "get"
    <3>1. \A i \in DOMAIN t : t[i].is \notin ListParts
      BY <2>2, <2>6, ListAnswered
    <3>2. Gathers(last, toClient \o t, answers, reply)
      BY <1>1, <1>2, <2>4, <3>1, GathersMore
    <3>3. answers' = answers
      BY <1>6, <2>1, <2>6 DEF ServerHandles
    <3> QED
      BY <1>3, <2>3, <2>4, <3>2, <3>3
  <2> QED
    BY <2>5, <2>6
<1>7. ASSUME NEW d \in Contacts, NEW s \in Tells, ServerReports(d, s) PROVE Done
  <2>1. CASE d \notin watched
    BY <1>4, <1>7, <2>1 DEF ServerReports
  <2>2. CASE d \in watched
    <3>1. PICK p : p = Packet(s, {d})
      OBVIOUS
    <3>2. p \in Packets /\ p.is = s
      BY <3>1, PacketTypes DEF Packet
    <3>3. <<p>> \in Seq(Packets) /\ DOMAIN <<p>> = 1..1 /\ <<p>>[1] = p
      BY <3>2, OnePacket
    <3>4. toClient' = toClient \o <<p>>
      BY <1>1, <1>7, <2>2, <3>1, <3>2, AppendIsConcat DEF ServerReports
    <3>5. \A i \in DOMAIN <<p>> : <<p>>[i].is \notin ListParts
      BY <3>2, <3>3 DEF Tells, ListParts
    <3>6. Gathers(last, toClient \o <<p>>, answers, reply)
      BY <1>1, <1>2, <3>3, <3>5, GathersMore
    <3> QED
      BY <1>3, <1>7, <3>4, <3>6 DEF ServerReports
  <2> QED
    BY <2>1, <2>2
<1>8. CASE StatusArrives \/ PutReplyArrives \/ ListPartArrives
  <2>1. PICK p : p = Head(toClient)
    OBVIOUS
  <2>2. /\ toClient # <<>> /\ toClient' = Tail(toClient) /\ answers' = answers
        /\ p.is # "get_reply"
    BY <1>8, <2>1 DEF StatusArrives, PutReplyArrives, ListPartArrives, ComesIn
  <2>3. p.is # "get_more_reply" => reply = {}
    BY <1>1, <1>2, <2>1, <2>2, GathersPart
  <2>4. PICK more : Gathers(more, Tail(toClient), answers,
                            IF p.is = "get_more_reply" THEN reply \cup p.of ELSE reply)
    BY <1>1, <1>2, <2>1, <2>2, GathersPart
  <2>5. reply' = IF p.is = "get_more_reply" THEN reply \cup p.of ELSE reply
    <3>1. CASE ListPartArrives
      BY <2>1, <3>1 DEF ListPartArrives, ComesIn
    <3>2. CASE StatusArrives
      BY <2>1, <3>2 DEF StatusArrives, ComesIn
    <3>3. CASE PutReplyArrives
      BY <2>1, <2>3, <3>3 DEF PutReplyArrives, ComesIn
    <3> QED
      BY <1>8, <3>1, <3>2, <3>3
  <2> QED
    BY <1>3, <2>2, <2>4, <2>5
<1>9. CASE ListArrives
  BY <1>9, ListTaken
(* The others have nothing to do with what arrives.                        *)
<1>10. CASE Connects \/ FoundAdded \/ Import
  BY <1>4, <1>10 DEF Connects, FoundAdded, Import
<1>11. ASSUME NEW c \in Contacts, AddUser(c) \/ AddFound(c) \/ AskRemove(c) PROVE Done
  BY <1>4, <1>11 DEF AddUser, AddFound, AskRemove
<1>12. ASSUME NEW i \in DOMAIN dialogs, NEW yes \in BOOLEAN, AnswerRemove(i, yes) PROVE Done
  BY <1>4, <1>12 DEF AnswerRemove
<1>13. ASSUME NEW cs, Export(cs) PROVE Done
  BY <1>4, <1>13 DEF Export
<1>14. CASE UNCHANGED contactVars
  BY <1>4, <1>14 DEF contactVars
<1> QED
  BY <1>5, <1>6, <1>7, <1>8, <1>9, <1>10, <1>11, <1>12, <1>13, <1>14 DEF ContactsNext, Tells

(* An import adds the list the server kept when it was asked, and nothing  *)
(* else: all of it, or of a longer list as many contacts as an import      *)
(* looks at, however large the parts, and whatever else is under way.      *)
THEOREM ImportCorrect == ContactsSpec => ImportedWhole
<1>1. ContactsInit => ImportInv
  <2> SUFFICES ASSUME ContactsInit PROVE ImportInv
    OBVIOUS
  <2>1. <<>> \in Seq(SUBSET Contacts)
    BY EmptySeq
  <2> QED
    BY <2>1, GathersNone DEF ContactsInit, ImportInv
<1>2. /\ ContactTypes /\ ImportInv /\ [ContactsNext]_contactVars => ImportInv'
      /\ ContactTypes /\ ImportInv /\ [ContactsNext]_contactVars =>
            [up' /\ Len(answers') < Len(answers) => Imports]_contactVars
  BY ImportStep
<1> QED
  BY <1>1, <1>2, NotifyAlways, ContactTypesStep, PTL DEF ContactsSpec, ImportedWhole, Imports
=============================================================================
