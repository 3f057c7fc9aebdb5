------------------------------ MODULE ChatProof -------------------------------
(***************************************************************************)
(* Proofs about conversations, for any protocols, messages, sessions and   *)
(* chats and any depth of calls nested in emissions: chats and sessions    *)
(* belong to each other, and what nobody could see is announced; and about *)
(* the messages of the SMS plugin, for any numbers, messages and dialogs.  *)
(***************************************************************************)
EXTENDS Chat, Sms, Integers, SequenceTheorems, FiniteSetTheorems, TLAPS

(* What a session, and what a call is.                                     *)
Peers   == {m.from : m \in Messages}
Circles == {m.with : m \in Messages} \cup {{}}

Conversation == [protocol : ChatProtocols, from : Peers, with : Circles, chat : Chats \cup {0}]

Reception ==
    [at : {"create", "look", "present", "append"}, session : Sessions, chat : Chats \cup {0},
     message : Messages, show : BOOLEAN, drains : BOOLEAN]
Sending ==
    [at : {"sent"}, session : Sessions, chat : Chats \cup {0},
     message : {[said |-> FALSE]}, show : BOOLEAN, drains : BOOLEAN]

ChatTypes ==
    /\ settings \in [style : {"tabbed", "classic"}, autoShow : BOOLEAN, noisy : BOOLEAN,
                     docklet : BOOLEAN]
    /\ lists \in [ChatProtocols -> Seq(Sessions)]
    /\ Live \subseteq Sessions /\ session \in [Live -> Conversation]
    /\ Alive \subseteq Chats /\ chats \in [Alive -> Sessions]
    /\ shown \subseteq Chats /\ window \in {"none", "hidden", "shown"}
    /\ invisible \in Seq(Chats) /\ icon \in {"default", "message"}
    /\ calls \in Seq(Reception \cup Sending)
    /\ unread \subseteq Chats /\ overlapped \in BOOLEAN /\ missed \in BOOLEAN
    /\ chatFault \in {"none", "used", "dangling", "outlived"}

(* A chat that a session knows was made for it.                            *)
Linked == \A s \in Live : session[s].chat \in Alive => chats[session[s].chat] = s

LinkedTypes == ChatTypes /\ Linked

(***************************************************************************)
(* Chats and sessions: until calls overlap each chat is its session's, and *)
(* a call holds a session that lives and, from its creation on, its chat.  *)
(***************************************************************************)
Distinct(s) == \A i, j \in DOMAIN s : s[i] = s[j] => i = j

Paired ==
    /\ \A c \in Alive : chats[c] \in Live /\ session[chats[c]].chat = c
    /\ \A s \in Live : session[s].chat \in Alive \cup {0}

Listed ==
    \A p \in ChatProtocols :
        /\ Distinct(lists[p])
        /\ ToSet(lists[p]) = {s \in Live : session[s].protocol = p}

(* What the call f holds, where t are the sessions.                        *)
Holds(f, t) ==
    /\ f.session \in DOMAIN t
    /\ f.at = "create" <=> t[f.session].chat = 0
    /\ f.at \in {"present", "sent"} => f.chat = t[f.session].chat

Held ==
    /\ \A i \in DOMAIN calls : Holds(calls[i], session)
    /\ \A i, j \in DOMAIN calls :
          calls[i].at = "create" /\ calls[j].session = calls[i].session => i = j

Owned == chatFault # "used" /\ Paired /\ Listed /\ Held

OwnInv ==
    /\ LinkedTypes
    /\ ~overlapped => Owned

(***************************************************************************)
(* What is unread: until something is missed, a chat nobody sees waits in  *)
(* invisible_chats, with the icon, or a call is about to present it.       *)
(***************************************************************************)
Hidden == Tabbed /\ window # "shown" => shown = {}

Presented == {calls[i].chat : i \in {j \in DOMAIN calls : calls[j].at = "present"}}

Due == shown \cup Presented \cup IF icon = "message" THEN ToSet(invisible) ELSE {}

(* The chat the call f will append to is due, where the icon is ic, t are  *)
(* the sessions, al the chats, and due those that are due.                 *)
Awaited(f, ic, t, al, due) ==
    /\ f.at = "create" /\ ~f.show => ic = "message"
    /\ f.at \in {"present", "append"} /\ f.session \in DOMAIN t /\ t[f.session].chat \in al =>
          t[f.session].chat \in due

Announced ==
    /\ unread \subseteq Due
    /\ Tabbed => Alive \subseteq Due
    /\ \A i \in DOMAIN calls : Awaited(calls[i], icon, session, Alive, Due)

Unseen == Hidden /\ unread \subseteq Alive /\ unread \cap shown = {}

UnreadInv ==
    /\ LinkedTypes /\ Unseen
    /\ ~missed => Announced

-----------------------------------------------------------------------------
(* Sequences                                                               *)

(* What is left of a sequence when entry i is removed.                     *)
LEMMA RemovedEntry ==
    ASSUME NEW S, NEW s \in Seq(S), NEW i \in DOMAIN s
    PROVE  /\ RemoveAt(s, i) \in Seq(S)
           /\ DOMAIN RemoveAt(s, i) = 1..(Len(s) - 1)
           /\ \A j \in 1..(Len(s) - 1) : RemoveAt(s, i)[j] = IF j < i THEN s[j] ELSE s[j + 1]
<1> DEFINE a == SubSeq(s, 1, i - 1)
           b == SubSeq(s, i + 1, Len(s))
<1>1. Len(s) \in Nat /\ i \in 1..Len(s) /\ \A j \in 1..Len(s) : s[j] \in S
  BY LenProperties, ElementOfSeq
<1>2. a \in Seq(S) /\ Len(a) = i - 1 /\ \A j \in 1..(i - 1) : a[j] = s[j]
  BY <1>1, SubSeqProperties
<1>3. b \in Seq(S) /\ Len(b) = Len(s) - i /\ \A j \in 1..(Len(s) - i) : b[j] = s[i + j]
  BY <1>1, SubSeqProperties
<1> HIDE DEF a, b
<1>4. Len(a) + Len(b) = Len(s) - 1
  BY <1>1, <1>2, <1>3
<1>5. /\ a \o b \in Seq(S) /\ Len(a \o b) = Len(s) - 1
      /\ \A j \in 1..(Len(s) - 1) : (a \o b)[j] = IF j <= Len(a) THEN a[j] ELSE b[j - Len(a)]
  <2>1. /\ a \o b \in Seq(S) /\ Len(a \o b) = Len(a) + Len(b)
        /\ \A j \in 1..(Len(a) + Len(b)) : (a \o b)[j] = IF j <= Len(a) THEN a[j] ELSE b[j - Len(a)]
    BY <1>2, <1>3, ConcatProperties
  <2> QED
    BY <1>4, <2>1
<1>6. DOMAIN (a \o b) = 1..(Len(s) - 1)
  BY <1>5, LenProperties
<1>7. ASSUME NEW j \in 1..(Len(s) - 1)
      PROVE  (a \o b)[j] = IF j < i THEN s[j] ELSE s[j + 1]
  <2>1. CASE j < i
    BY <1>1, <1>2, <1>5, <2>1
  <2>2. CASE ~(j < i)
    <3>1. j - (i - 1) \in 1..(Len(s) - i) /\ i + (j - (i - 1)) = j + 1 /\ ~(j <= i - 1)
      BY <1>1, <2>2
    <3>2. (a \o b)[j] = b[j - (i - 1)] /\ b[j - (i - 1)] = s[i + (j - (i - 1))]
      BY <1>2, <1>3, <1>5, <3>1
    <3> QED
      BY <2>2, <3>1, <3>2
  <2> QED
    BY <2>1, <2>2
<1> QED
  BY <1>5, <1>6, <1>7 DEF RemoveAt, a, b

(* A set of natural numbers has a least one.                               *)
LEMMA LeastNatural ==
    ASSUME NEW I \in SUBSET Nat, I # {}
    PROVE  \E n \in I : \A m \in I : n <= m
<1> DEFINE T == {1..n : n \in I}
<1>1. IsWellFoundedOn(StrictSubsetOrdering(Nat), FiniteSubsetsOf(Nat))
  BY FS_StrictSubsetOrderingWellFounded
<1>2. T \subseteq FiniteSubsetsOf(Nat) /\ T # {}
  <2>1. \A n \in I : 1..n \subseteq Nat /\ IsFiniteSet(1..n)
    BY FS_Interval
  <2> QED
    BY <2>1 DEF FiniteSubsetsOf
<1> HIDE DEF T
<1>3. PICK x \in T : \A y \in T : ~(<<y, x>> \in StrictSubsetOrdering(Nat))
  BY <1>1, <1>2, WFMin
<1>4. PICK n \in I : x = 1..n
  BY <1>3 DEF T
<1>5. ASSUME NEW m \in I PROVE n <= m
  <2>1. SUFFICES ASSUME m < n PROVE FALSE
    OBVIOUS
  <2>2. 1..m \subseteq 1..n /\ 1..m # 1..n
    <3>1. n \in 1..n /\ n \notin 1..m
      BY <2>1
    <3>2. \A k \in 1..m : k \in 1..n
      BY <2>1
    <3> QED
      BY <3>1, <3>2
  <2>3. <<1..m, 1..n>> \in StrictSubsetOrdering(Nat)
    BY <2>2 DEF StrictSubsetOrdering
  <2>4. 1..m \in T
    BY DEF T
  <2> QED
    BY <1>3, <1>4, <2>3, <2>4
<1> QED
  BY <1>5

(* g_slist_remove takes one entry, and keeps whatever is something else.   *)
LEMMA RemovedOne ==
    ASSUME NEW S, NEW s \in Seq(S), NEW e
    PROVE  /\ RemoveFirst(s, e) \in Seq(S)
           /\ ToSet(s) \ {e} \subseteq ToSet(RemoveFirst(s, e))
           /\ ToSet(RemoveFirst(s, e)) \subseteq ToSet(s)
           /\ Distinct(s) => Distinct(RemoveFirst(s, e)) /\ e \notin ToSet(RemoveFirst(s, e))
<1>1. Len(s) \in Nat /\ DOMAIN s = 1..Len(s)
  BY LenProperties
<1>2. CASE ~\E i \in 1..Len(s) : s[i] = e
  <2>1. RemoveFirst(s, e) = s
    BY <1>2 DEF RemoveFirst
  <2>2. e \notin ToSet(s)
    BY <1>1, <1>2 DEF ToSet
  <2> QED
    BY <2>1, <2>2
<1>3. CASE \E i \in 1..Len(s) : s[i] = e
  <2> DEFINE I == {i \in 1..Len(s) : s[i] = e}
  <2>1. I # {} /\ I \in SUBSET Nat
    BY <1>1, <1>3
  <2>2. PICK n : n = Min(I)
    OBVIOUS
  <2>3. n \in I
    <3>1. \E x \in I : \A y \in I : x <= y
      BY <2>1, LeastNatural
    <3> QED
      BY <2>2, <3>1 DEF Min
  <2>4. SelectInSeq(s, LAMBDA v : v = e) = n
    <3>1. SelectInSeq(s, LAMBDA v : v = e) = IF I # {} THEN Min(I) ELSE 0
      BY DEF SelectInSeq
    <3> HIDE DEF I
    <3> QED
      BY <2>1, <2>2, <3>1
  <2>5. n \in DOMAIN s /\ s[n] = e
    BY <1>1, <2>3
  <2> HIDE DEF I
  <2>6. RemoveFirst(s, e) = RemoveAt(s, n)
    BY <1>3, <2>4 DEF RemoveFirst
  <2>7. PICK r : r = RemoveAt(s, n)
    OBVIOUS
  <2>8. /\ r \in Seq(S) /\ DOMAIN r = 1..(Len(s) - 1)
        /\ \A j \in 1..(Len(s) - 1) : r[j] = IF j < n THEN s[j] ELSE s[j + 1]
    BY <2>5, <2>7, RemovedEntry
  <2>9. ASSUME NEW j \in DOMAIN r
        PROVE  \E i \in DOMAIN s : i # n /\ r[j] = s[i] /\ i = IF j < n THEN j ELSE j + 1
    BY <1>1, <2>5, <2>8
  <2>10. ASSUME NEW i \in DOMAIN s, i # n PROVE \E j \in DOMAIN r : r[j] = s[i]
    <3>1. CASE i < n
      BY <1>1, <2>5, <2>8, <2>10, <3>1
    <3>2. CASE i > n
      <4>1. i - 1 \in 1..(Len(s) - 1) /\ ~(i - 1 < n) /\ (i - 1) + 1 = i
        BY <1>1, <2>5, <2>10, <3>2
      <4> QED
        BY <2>8, <4>1
    <3> QED
      BY <1>1, <2>5, <2>10, <3>1, <3>2
  <2>11. ToSet(s) \ {e} \subseteq ToSet(r)
    BY <2>5, <2>10 DEF ToSet
  <2>12. ToSet(r) \subseteq ToSet(s)
    BY <2>9 DEF ToSet
  <2>13. ASSUME Distinct(s) PROVE Distinct(r) /\ e \notin ToSet(r)
    <3>1. ASSUME NEW j \in DOMAIN r, NEW k \in DOMAIN r, r[j] = r[k] PROVE j = k
      <4>1. PICK i \in DOMAIN s : r[j] = s[i] /\ i = IF j < n THEN j ELSE j + 1
        BY <2>9
      <4>2. PICK l \in DOMAIN s : r[k] = s[l] /\ l = IF k < n THEN k ELSE k + 1
        BY <2>9
      <4>3. i = l
        BY <2>13, <3>1, <4>1, <4>2 DEF Distinct
      <4>4. j \in Nat /\ k \in Nat /\ n \in Nat
        BY <1>1, <2>5, <2>8
      <4> QED
        BY <4>1, <4>2, <4>3, <4>4
    <3>2. e \notin ToSet(r)
      BY <2>5, <2>9, <2>13 DEF Distinct, ToSet
    <3> QED
      BY <3>1, <3>2 DEF Distinct
  <2> QED
    BY <2>6, <2>7, <2>8, <2>11, <2>12, <2>13
<1> QED
  BY <1>2, <1>3

(* A sequence with another element at its end.                             *)
LEMMA Pushed ==
    ASSUME NEW S, NEW s \in Seq(S), NEW f \in S
    PROVE  /\ Append(s, f) \in Seq(S) /\ Len(s) \in Nat
           /\ DOMAIN s = 1..Len(s) /\ DOMAIN Append(s, f) = 1..(Len(s) + 1)
           /\ \A i \in DOMAIN s : Append(s, f)[i] = s[i]
           /\ Append(s, f)[Len(s) + 1] = f
           /\ ToSet(Append(s, f)) = ToSet(s) \cup {f}
<1>u. PICK u : u = Append(s, f)
  OBVIOUS
<1>1. /\ u \in Seq(S) /\ Len(u) = Len(s) + 1 /\ u[Len(s) + 1] = f
      /\ \A i \in 1..Len(s) : u[i] = s[i]
  BY <1>u, AppendProperties
<1>2. /\ DOMAIN s = 1..Len(s) /\ Len(s) \in Nat /\ DOMAIN u = 1..(Len(s) + 1)
  BY <1>1, LenProperties
<1>3. ToSet(u) = ToSet(s) \cup {f}
  <2>1. \A i \in DOMAIN u : u[i] \in ToSet(s) \cup {f}
    BY <1>1, <1>2 DEF ToSet
  <2>2. \A i \in DOMAIN s : s[i] \in ToSet(u)
    BY <1>1, <1>2 DEF ToSet
  <2>3. f \in ToSet(u)
    BY <1>1, <1>2 DEF ToSet
  <2> QED
    BY <2>1, <2>2, <2>3 DEF ToSet
<1> QED
  BY <1>u, <1>1, <1>2, <1>3

(* A sequence without its last element.                                    *)
LEMMA Popped ==
    ASSUME NEW S, NEW s \in Seq(S), s # <<>>
    PROVE  /\ Front(s) \in Seq(S) /\ Len(Front(s)) = Len(s) - 1
           /\ Len(s) \in Nat \ {0} /\ Last(s) = s[Len(s)] /\ Last(s) \in S
           /\ DOMAIN s = 1..Len(s) /\ DOMAIN Front(s) = 1..(Len(s) - 1)
           /\ \A i \in DOMAIN Front(s) : Front(s)[i] = s[i]
<1>1. Len(s) \in Nat /\ DOMAIN s = 1..Len(s) /\ Len(s) # 0 /\ \A i \in DOMAIN s : s[i] \in S
  BY LenProperties, EmptySeq, ElementOfSeq
<1>2. /\ Front(s) \in Seq(S) /\ Len(Front(s)) = Len(s) - 1
      /\ \A i \in 1..(Len(s) - 1) : Front(s)[i] = s[i]
  BY <1>1, SubSeqProperties DEF Front
<1>3. DOMAIN Front(s) = 1..(Len(s) - 1)
  BY <1>2, LenProperties
<1>4. Len(s) \in DOMAIN s /\ Last(s) = s[Len(s)]
  BY <1>1 DEF Last
<1> QED
  BY <1>1, <1>2, <1>3, <1>4

(* A sequence whose last element is another one.                           *)
LEMMA Replaced ==
    ASSUME NEW S, NEW s \in Seq(S), s # <<>>, NEW f \in S
    PROVE  /\ Append(Front(s), f) \in Seq(S)
           /\ Len(s) \in Nat \ {0} /\ DOMAIN s = 1..Len(s) /\ Last(s) = s[Len(s)] /\ Last(s) \in S
           /\ DOMAIN Append(Front(s), f) = 1..Len(s)
           /\ \A i \in 1..(Len(s) - 1) : Append(Front(s), f)[i] = s[i]
           /\ Append(Front(s), f)[Len(s)] = f
<1>1. /\ Front(s) \in Seq(S) /\ Len(Front(s)) = Len(s) - 1
      /\ Len(s) \in Nat \ {0} /\ Last(s) = s[Len(s)] /\ Last(s) \in S
      /\ DOMAIN s = 1..Len(s) /\ DOMAIN Front(s) = 1..(Len(s) - 1)
      /\ \A i \in DOMAIN Front(s) : Front(s)[i] = s[i]
  BY Popped
<1>2. PICK t : t = Front(s)
  OBVIOUS
<1>3. /\ Append(t, f) \in Seq(S) /\ DOMAIN Append(t, f) = 1..(Len(t) + 1)
      /\ \A i \in DOMAIN t : Append(t, f)[i] = t[i]
      /\ Append(t, f)[Len(t) + 1] = f
  BY <1>1, <1>2, Pushed
<1>4. Len(t) + 1 = Len(s)
  BY <1>1, <1>2
<1> QED
  BY <1>1, <1>2, <1>3, <1>4

(* Nothing maps nothing.                                                   *)
LEMMA Nothing == ASSUME NEW S PROVE <<>> \in [DOMAIN <<>> -> S] /\ DOMAIN <<>> = {} /\ <<>> \in Seq(S)
  OBVIOUS

-----------------------------------------------------------------------------
(* Calls                                                                   *)

Calls == Reception \cup Sending

LEMMA LatestIs ==
    ASSUME ChatTypes, calls # <<>>
    PROVE  /\ Latest \in Calls /\ Latest.session \in Sessions /\ Latest.chat \in Chats \cup {0}
           /\ Latest.at # "sent" => Latest \in Reception
           /\ Len(calls) \in Nat \ {0} /\ DOMAIN calls = 1..Len(calls) /\ calls[Len(calls)] = Latest
           /\ \A i \in DOMAIN calls : calls[i] \in Calls
<1>1. calls \in Seq(Calls)
  BY DEF ChatTypes, Calls
<1>2. /\ Len(calls) \in Nat \ {0} /\ DOMAIN calls = 1..Len(calls)
      /\ Latest = calls[Len(calls)] /\ Latest \in Calls
  BY <1>1, Popped DEF Latest
<1>3. \A i \in DOMAIN calls : calls[i] \in Calls
  BY <1>1, ElementOfSeq, <1>2
<1> QED
  BY <1>2, <1>3 DEF Calls, Reception, Sending

(* A call begins.                                                          *)
LEMMA Begins ==
    ASSUME ChatTypes, NEW at, NEW s \in Sessions, NEW c \in Chats \cup {0}, NEW m,
           NEW show \in BOOLEAN, NEW drains \in BOOLEAN,
           \/ at \in {"create", "look", "present", "append"} /\ m \in Messages
           \/ at = "sent" /\ m = [said |-> FALSE],
           calls' = Append(calls, ChatCall(at, s, c, m, show, drains))
    PROVE  /\ calls' \in Seq(Calls) /\ Len(calls) \in Nat
           /\ DOMAIN calls = 1..Len(calls) /\ DOMAIN calls' = 1..(Len(calls) + 1)
           /\ \A i \in DOMAIN calls : calls'[i] = calls[i]
           /\ LET f == calls'[Len(calls) + 1]
              IN  f.at = at /\ f.session = s /\ f.chat = c /\ f.show = show
<1>1. PICK f : f = ChatCall(at, s, c, m, show, drains)
  OBVIOUS
<1>2. f \in Calls
  <2>1. CASE at \in {"create", "look", "present", "append"} /\ m \in Messages
    BY <1>1, <2>1 DEF Calls, Reception, ChatCall
  <2>2. CASE at = "sent" /\ m = [said |-> FALSE]
    BY <1>1, <2>2 DEF Calls, Sending, ChatCall
  <2> QED
    BY <2>1, <2>2
<1>3. f.at = at /\ f.session = s /\ f.chat = c /\ f.show = show
  BY <1>1 DEF ChatCall
<1>4. calls \in Seq(Calls)
  BY DEF ChatTypes, Calls
<1>5. /\ Append(calls, f) \in Seq(Calls) /\ Len(calls) \in Nat
      /\ DOMAIN calls = 1..Len(calls) /\ DOMAIN Append(calls, f) = 1..(Len(calls) + 1)
      /\ \A i \in DOMAIN calls : Append(calls, f)[i] = calls[i]
      /\ Append(calls, f)[Len(calls) + 1] = f
  BY <1>2, <1>4, Pushed
<1>6. calls' = Append(calls, f)
  BY <1>1
<1> QED
  BY <1>3, <1>5, <1>6

(* The latest call goes on.                                                *)
LEMMA GoesOn ==
    ASSUME ChatTypes, calls # <<>>, Latest.at # "sent",
           NEW at \in {"create", "look", "present", "append"}, NEW c \in Chats \cup {0},
           NEW drains \in BOOLEAN, Goes(at, c, drains)
    PROVE  /\ calls' \in Seq(Calls) /\ Len(calls) \in Nat \ {0} /\ calls[Len(calls)] = Latest
           /\ DOMAIN calls = 1..Len(calls) /\ DOMAIN calls' = 1..Len(calls)
           /\ \A i \in 1..(Len(calls) - 1) : calls'[i] = calls[i]
           /\ LET f == calls'[Len(calls)]
              IN  f.at = at /\ f.session = Latest.session /\ f.chat = c /\ f.show = Latest.show
<1>1. PICK f : f = [Latest EXCEPT !.at = at, !.chat = c, !.drains = drains]
  OBVIOUS
<1>2. Latest \in Reception
  BY LatestIs
<1>3. f \in Calls
  BY <1>1, <1>2 DEF Calls, Reception
<1>4. f.at = at /\ f.session = Latest.session /\ f.chat = c /\ f.show = Latest.show
  BY <1>1, <1>2 DEF Reception
<1>5. calls \in Seq(Calls)
  BY DEF ChatTypes, Calls
<1>6. /\ Append(Front(calls), f) \in Seq(Calls)
      /\ Len(calls) \in Nat \ {0} /\ DOMAIN calls = 1..Len(calls) /\ Last(calls) = calls[Len(calls)]
      /\ DOMAIN Append(Front(calls), f) = 1..Len(calls)
      /\ \A i \in 1..(Len(calls) - 1) : Append(Front(calls), f)[i] = calls[i]
      /\ Append(Front(calls), f)[Len(calls)] = f
  BY <1>3, <1>5, Replaced
<1>7. calls' = Append(Front(calls), f)
  BY <1>1 DEF Goes
<1> QED
  BY <1>4, <1>6, <1>7 DEF Latest

(* The latest call returns.                                                *)
LEMMA GoesBack ==
    ASSUME ChatTypes, calls # <<>>, Returns
    PROVE  /\ calls' \in Seq(Calls) /\ Len(calls) \in Nat \ {0} /\ calls[Len(calls)] = Latest
           /\ DOMAIN calls = 1..Len(calls) /\ DOMAIN calls' = 1..(Len(calls) - 1)
           /\ \A i \in DOMAIN calls' : calls'[i] = calls[i]
<1>1. calls \in Seq(Calls)
  BY DEF ChatTypes, Calls
<1> QED
  BY <1>1, Popped DEF Returns, Latest

-----------------------------------------------------------------------------
(* What is held keeps its type, and sessions and chats stay linked.        *)

LEMMA FoundOnes ==
    ASSUME ChatTypes, NEW m \in Messages, NEW s \in Found(m)
    PROVE  s \in ToSet(lists[m.protocol]) /\ s \in Sessions
<1>1. lists[m.protocol] \in Seq(Sessions)
  BY MessagesAssumption DEF ChatTypes
<1>2. PICK i \in DOMAIN lists[m.protocol] : s = lists[m.protocol][i]
  BY DEF Found
<1>3. lists[m.protocol][i] \in Sessions
  BY <1>1, <1>2, ElementOfSeq, LenProperties
<1> QED
  BY <1>2, <1>3 DEF ToSet

LEMMA Settings ==
    ASSUME ChatTypes, NEW m \in Messages
    PROVE  Show(m) \in BOOLEAN /\ Tray(m) \in BOOLEAN /\ Sounds(m) \in BOOLEAN
  BY MessagesAssumption DEF ChatTypes, Show, Tray, Sounds

(* What a new session and a new chat do to the tables.                     *)
LEMMA NewSession ==
    ASSUME ChatTypes, NEW s \in FreshSessions, NEW r \in Conversation,
           session' = [t \in Live \cup {s} |-> IF t = s THEN r ELSE session[t]]
    PROVE  /\ Live' = Live \cup {s} /\ s \notin Live /\ s \in Sessions
           /\ session' \in [Live' -> Conversation]
           /\ session'[s] = r /\ \A t \in Live : session'[t] = session[t]
<1>1. s \in Sessions /\ s \notin Live
  BY DEF FreshSessions
<1>2. Live' = Live \cup {s}
  BY DEF Live
<1>3. session'[s] = r /\ \A t \in Live : session'[t] = session[t]
  BY <1>1
<1>4. session' \in [Live' -> Conversation]
  BY <1>2, <1>3 DEF ChatTypes
<1> QED
  BY <1>1, <1>2, <1>3, <1>4

LEMMA NewChat ==
    ASSUME ChatTypes, NEW c \in FreshChats, NEW s \in Live, NEW w \in Circles,
           session' = [session EXCEPT ![s].with = w, ![s].chat = c],
           chats' = [d \in Alive \cup {c} |-> IF d = c THEN s ELSE chats[d]]
    PROVE  /\ c \in Chats /\ c # 0 /\ c \notin Alive /\ \A t \in Live : session[t].chat # c
           /\ Live' = Live /\ session' \in [Live' -> Conversation]
           /\ session'[s].chat = c /\ session'[s].protocol = session[s].protocol
           /\ \A t \in Live : t # s => session'[t] = session[t]
           /\ Alive' = Alive \cup {c} /\ chats' \in [Alive' -> Sessions]
           /\ chats'[c] = s /\ \A d \in Alive : chats'[d] = chats[d]
<1>1. c \in Chats /\ c # 0 /\ c \notin Alive /\ \A t \in Live : session[t].chat # c
  BY ChatsAssumption DEF FreshChats
<1>2. session[s] \in Conversation /\ session \in [Live -> Conversation] /\ s \in Sessions
  BY DEF ChatTypes
<1>3. /\ session' \in [Live -> Conversation]
      /\ session'[s].chat = c /\ session'[s].protocol = session[s].protocol
      /\ \A t \in Live : t # s => session'[t] = session[t]
  BY <1>1, <1>2 DEF Conversation
<1>4. Live' = Live
  BY <1>3 DEF Live
<1>5. Alive' = Alive \cup {c} /\ chats'[c] = s /\ \A d \in Alive : chats'[d] = chats[d]
  BY <1>1 DEF Alive
<1>6. chats' \in [Alive' -> Sessions]
  BY <1>2, <1>5 DEF ChatTypes
<1> QED
  BY <1>1, <1>3, <1>4, <1>5, <1>6

(* What goes with a chat, and with all of them.                            *)
LEMMA Forgotten ==
    ASSUME ChatTypes, NEW c, NEW s, Forgets(c, s)
    PROVE  /\ Alive' = Alive \ {c} /\ Live' = Live \ {s}
           /\ chats' \in [Alive' -> Sessions] /\ session' \in [Live' -> Conversation]
           /\ lists' \in [ChatProtocols -> Seq(Sessions)]
           /\ \A d \in Alive' : chats'[d] = chats[d]
           /\ \A t \in Live' : session'[t] = session[t]
<1>1. Alive' = Alive \ {c} /\ Live' = Live \ {s}
  BY DEF Forgets, Alive, Live
<1>2. (\A d \in Alive' : chats'[d] = chats[d]) /\ (\A t \in Live' : session'[t] = session[t])
  BY <1>1 DEF Forgets
<1>3. chats' \in [Alive' -> Sessions] /\ session' \in [Live' -> Conversation]
  BY <1>1, <1>2 DEF Forgets, ChatTypes
<1>4. lists' \in [ChatProtocols -> Seq(Sessions)]
  <2>1. \A p \in ChatProtocols : RemoveFirst(lists[p], s) \in Seq(Sessions)
    BY RemovedOne DEF ChatTypes
  <2> QED
    BY <2>1 DEF Forgets, Unlinks
<1> QED
  BY <1>1, <1>2, <1>3, <1>4

LEMMA ForgottenAll ==
    ASSUME ForgetsAll
    PROVE  /\ Alive' = {} /\ Live' = {} /\ shown' = {} /\ unread' = {}
           /\ chats' \in [Alive' -> Sessions] /\ session' \in [Live' -> Conversation]
           /\ lists' \in [ChatProtocols -> Seq(Sessions)]
           /\ \A p \in ChatProtocols : lists'[p] = <<>>
  BY Nothing DEF ForgetsAll, Alive, Live

LEMMA ReceivedLinks ==
    ASSUME LinkedTypes, NEW m \in Messages, ReceiveFirst(m) \/ ReceiveOvertaking(m) \/ ReceiveAgain(m)
    PROVE  LinkedTypes'
<1> USE DEF LinkedTypes
<1>1. Show(m) \in BOOLEAN /\ Tray(m) \in BOOLEAN /\ Sounds(m) \in BOOLEAN
  BY Settings
<1>2. ASSUME NEW s \in Sessions, Announces(s, m)
      PROVE  calls' \in Seq(Calls) /\ icon' \in {"default", "message"}
  <2>1. calls' \in Seq(Calls)
    BY <1>1, <1>2, Begins DEF Announces
  <2> QED
    BY <1>2, <2>1 DEF Announces, ChatTypes
<1>3. CASE ReceiveFirst(m)
  <2>1. PICK s : s = CHOOSE x \in FreshSessions : TRUE
    OBVIOUS
  <2>2. PICK r : r = [protocol |-> m.protocol, from |-> m.from, with |-> {}, chat |-> 0]
    OBVIOUS
  <2>3. s \in FreshSessions /\ r \in Conversation /\ r.chat = 0
    <3>1. s \in FreshSessions
      BY <1>3, <2>1 DEF ReceiveFirst
    <3>2. r \in Conversation
      BY <2>2, MessagesAssumption DEF Conversation, Peers, Circles
    <3>3. r.chat = 0
      BY <2>2
    <3> QED
      BY <3>1, <3>2, <3>3
  <2>4. /\ session' = [t \in Live \cup {s} |-> IF t = s THEN r ELSE session[t]]
        /\ lists' = [lists EXCEPT ![m.protocol] = Append(@, s)]
        /\ Announces(s, m)
        /\ UNCHANGED <<settings, chats, tabs, shown, window, buttons, invisible, ghosts, chatFault>>
    BY <1>3, <2>1, <2>2 DEF ReceiveFirst
  <2>5. /\ Live' = Live \cup {s} /\ s \notin Live /\ s \in Sessions
        /\ session' \in [Live' -> Conversation]
        /\ session'[s] = r /\ \A t \in Live : session'[t] = session[t]
    BY <2>3, <2>4, NewSession
  <2>6. lists' \in [ChatProtocols -> Seq(Sessions)]
    <3>1. Append(lists[m.protocol], s) \in Seq(Sessions)
      BY <2>5, MessagesAssumption, AppendProperties DEF ChatTypes
    <3> QED
      BY <2>4, <3>1, MessagesAssumption DEF ChatTypes
  <2>7. ChatTypes'
    BY <1>2, <2>4, <2>5, <2>6 DEF ChatTypes, Calls, ghosts, Alive
  <2>8. Linked'
    <3>1. Alive' = Alive /\ chats' = chats /\ Alive \subseteq Chats
      BY <2>4 DEF Alive, ChatTypes
    <3>2. ASSUME NEW t \in Live', session'[t].chat \in Alive' PROVE chats'[session'[t].chat] = t
      <4>1. CASE t = s
        BY <2>3, <2>5, <3>1, <3>2, <4>1, ChatsAssumption
      <4>2. CASE t # s
        BY <2>5, <3>1, <3>2, <4>2 DEF Linked
      <4> QED
        BY <4>1, <4>2
    <3> QED
      BY <3>2 DEF Linked
  <2> QED
    BY <2>7, <2>8
<1>4. CASE ReceiveOvertaking(m) \/ ReceiveAgain(m)
  <2>1. PICK s \in Sessions :
          \/ Announces(s, m)
          \/ calls' = Append(calls, ChatCall("look", s, 0, m, Show(m), Sounds(m))) /\ icon' = icon
    BY <1>4, FoundOnes DEF ReceiveOvertaking, ReceiveAgain
  <2>2. calls' \in Seq(Calls) /\ icon' \in {"default", "message"}
    <3>1. CASE Announces(s, m)
      BY <1>2, <3>1
    <3>2. CASE calls' = Append(calls, ChatCall("look", s, 0, m, Show(m), Sounds(m))) /\ icon' = icon
      <4>1. calls' \in Seq(Calls)
        BY <1>1, <3>2, Begins
      <4> QED
        BY <3>2, <4>1 DEF ChatTypes
    <3> QED
      BY <2>1, <3>1, <3>2
  <2>3. /\ UNCHANGED <<settings, chatView, invisible, unread, missed, chatFault>>
        /\ overlapped' \in BOOLEAN
    BY <1>4 DEF ReceiveOvertaking, ReceiveAgain, ghosts, ChatTypes
  <2> QED
    BY <2>2, <2>3 DEF ChatTypes, Linked, Calls, chatView, Alive, Live
<1> QED
  BY <1>3, <1>4

LEMMA CreateLinks == ASSUME LinkedTypes, Create PROVE LinkedTypes'
<1> USE DEF LinkedTypes
<1>1. PICK c : c = CHOOSE x \in FreshChats : TRUE
  OBVIOUS
<1>2. PICK s : s = Latest.session
  OBVIOUS
<1>3. c \in FreshChats /\ s \in Live /\ calls # <<>> /\ Latest \in Reception
  BY <1>1, <1>2, LatestIs DEF Create, CallAt
<1>4. Latest.message \in Messages /\ Latest.message.with \in Circles
  BY <1>3 DEF Reception, Circles
<1>5. /\ session' = [session EXCEPT ![s].with = Latest.message.with, ![s].chat = c]
      /\ chats' = [d \in Alive \cup {c} |-> IF d = c THEN s ELSE chats[d]]
      /\ Goes("append", 0, Sounds(Latest.message))
      /\ UNCHANGED <<settings, lists, icon, overlapped, missed, chatFault>>
      /\ \/ Presents(c, Alive \cup {c}) /\ UNCHANGED invisible
         \/ /\ invisible' = Append(invisible, c)
            /\ window' = IF Tabbed /\ window = "none" THEN "hidden" ELSE window
            /\ UNCHANGED <<shown, unread>>
  BY <1>1, <1>2 DEF Create
<1>6. /\ c \in Chats /\ c # 0 /\ c \notin Alive /\ \A t \in Live : session[t].chat # c
      /\ Live' = Live /\ session' \in [Live' -> Conversation]
      /\ session'[s].chat = c /\ session'[s].protocol = session[s].protocol
      /\ \A t \in Live : t # s => session'[t] = session[t]
      /\ Alive' = Alive \cup {c} /\ chats' \in [Alive' -> Sessions]
      /\ chats'[c] = s /\ \A d \in Alive : chats'[d] = chats[d]
  BY <1>3, <1>4, <1>5, NewChat
<1>7. calls' \in Seq(Calls)
  BY <1>3, <1>4, <1>5, GoesOn, Settings DEF Reception
<1>8. shown' \subseteq Chats /\ window' \in {"none", "hidden", "shown"} /\ unread' \subseteq Chats
  BY <1>5, <1>6 DEF Presents, ChatTypes
<1>9. invisible' \in Seq(Chats)
  <2>1. invisible \in Seq(Chats) /\ Append(invisible, c) \in Seq(Chats)
    BY <1>6, AppendProperties DEF ChatTypes
  <2> QED
    BY <1>5, <2>1
<1>10. ChatTypes'
  BY <1>5, <1>6, <1>7, <1>8, <1>9 DEF ChatTypes, Calls
<1>11. ASSUME NEW t \in Live', session'[t].chat \in Alive' PROVE chats'[session'[t].chat] = t
  BY <1>6, <1>11 DEF Linked
<1> QED
  BY <1>10, <1>11 DEF Linked

(* What changes no table, and only what is seen and what calls do.         *)
LEMMA UntouchedLinks ==
    ASSUME LinkedTypes, UNCHANGED <<settings, lists, session, chats>>,
           shown' \subseteq Chats, window' \in {"none", "hidden", "shown"}, invisible' \in Seq(Chats),
           icon' \in {"default", "message"}, calls' \in Seq(Calls), unread' \subseteq Chats,
           overlapped' \in BOOLEAN, missed' \in BOOLEAN,
           chatFault' \in {"none", "used", "dangling", "outlived"}
    PROVE  LinkedTypes'
  BY DEF LinkedTypes, ChatTypes, Linked, Alive, Live, Calls

LEMMA FaultLinks ==
    ASSUME LinkedTypes, NEW kind \in {"used", "dangling", "outlived"}, ChatFaults(kind)
    PROVE  LinkedTypes'
  BY DEF LinkedTypes, ChatTypes, Linked, Alive, Live, ChatFaults, chatView, ghosts

LEMMA LookLinks ==
    ASSUME LinkedTypes, LookVisible \/ LookShow \/ LookHide \/ PresentChat
    PROVE  LinkedTypes'
<1> USE DEF LinkedTypes
<1>1. /\ calls # <<>> /\ Latest \in Reception /\ Latest.at # "sent"
      /\ Sounds(Latest.message) \in BOOLEAN /\ Latest.show \in BOOLEAN
  <2>1. calls # <<>> /\ Latest.at \in {"look", "present"}
    BY DEF LookVisible, LookShow, LookHide, PresentChat, CallAt
  <2>2. Latest \in Reception
    BY <2>1, LatestIs
  <2> QED
    BY <2>1, <2>2, Settings DEF Reception
<1>2. ASSUME NEW at \in {"present", "append"}, NEW c \in Chats \cup {0}, NEW d \in BOOLEAN, Goes(at, c, d)
      PROVE  calls' \in Seq(Calls)
  BY <1>1, <1>2, GoesOn
<1>3. Alive \subseteq Chats
  BY DEF ChatTypes
<1>4. CASE LookVisible
  <2>1. calls' \in Seq(Calls)
    BY <1>1, <1>2, <1>4 DEF LookVisible
  <2>2. UNCHANGED <<settings, chatView, invisible, icon, ghosts, chatFault>>
    BY <1>4 DEF LookVisible
  <2> QED
    BY <2>1, <2>2, UntouchedLinks DEF ChatTypes, chatView, ghosts
<1>5. CASE LookShow
  <2>1. PICK c : c = session[Latest.session].chat
    OBVIOUS
  <2>2. /\ c \in Alive /\ invisible' = (IF Latest.show THEN RemoveFirst(invisible, c) ELSE invisible)
        /\ Goes("present", c, Latest.show /\ invisible' = <<>>)
        /\ ResetsIcon \/ UNCHANGED <<icon, missed>>
        /\ UNCHANGED <<settings, chatView, unread, overlapped, chatFault>>
    BY <1>5, <2>1 DEF LookShow
  <2>3. invisible' \in Seq(Chats)
    <3>1. invisible \in Seq(Chats) /\ RemoveFirst(invisible, c) \in Seq(Chats)
      BY RemovedOne DEF ChatTypes
    <3> QED
      BY <2>2, <3>1
  <2>4. calls' \in Seq(Calls)
    BY <1>1, <1>2, <1>3, <2>2
  <2>5. icon' \in {"default", "message"} /\ missed' \in BOOLEAN
    BY <2>2 DEF ResetsIcon, ChatTypes
  <2> QED
    BY <2>2, <2>3, <2>4, <2>5, UntouchedLinks DEF ChatTypes, chatView
<1>6. CASE LookHide
  <2>1. PICK c : c = session[Latest.session].chat
    OBVIOUS
  <2>2. /\ c \in Alive /\ invisible' = Append(invisible, c) /\ icon' = "message"
        /\ Goes("append", 0, TRUE)
        /\ UNCHANGED <<settings, chatView, ghosts, chatFault>>
    BY <1>6, <2>1 DEF LookHide
  <2>3. invisible' \in Seq(Chats)
    BY <1>3, <2>2, AppendProperties DEF ChatTypes
  <2>4. calls' \in Seq(Calls)
    BY <1>1, <1>2, <2>2
  <2> QED
    BY <2>2, <2>3, <2>4, UntouchedLinks DEF ChatTypes, chatView, ghosts
<1>7. CASE PresentChat
  <2>1. /\ Latest.chat \in Alive /\ Presents(Latest.chat, Alive)
        /\ Goes("append", 0, Sounds(Latest.message))
        /\ UNCHANGED <<settings, lists, session, chats, tabs, invisible, icon, overlapped, missed, chatFault>>
    BY <1>7 DEF PresentChat
  <2>2. calls' \in Seq(Calls)
    BY <1>1, <1>2, <2>1
  <2>3. shown' \subseteq Chats /\ window' \in {"none", "hidden", "shown"} /\ unread' \subseteq Chats
    BY <1>3, <2>1 DEF Presents, ChatTypes
  <2> QED
    BY <2>1, <2>2, <2>3, UntouchedLinks DEF ChatTypes
<1> QED
  BY <1>4, <1>5, <1>6, <1>7

LEMMA ReturnLinks ==
    ASSUME LinkedTypes, AppendMessage \/ Sent
    PROVE  LinkedTypes'
<1> USE DEF LinkedTypes
<1>1. calls' \in Seq(Calls)
  BY GoesBack DEF AppendMessage, Sent, CallAt
<1>2. unread' \subseteq Chats
  <2>1. CASE AppendMessage
    <3>1. PICK c : c = session[Latest.session].chat
      OBVIOUS
    <3>2. c \in Alive /\ unread' \subseteq unread \cup {c}
      BY <2>1, <3>1 DEF AppendMessage
    <3> QED
      BY <3>2 DEF ChatTypes
  <2>2. CASE Sent
    BY <2>2 DEF Sent, ghosts, ChatTypes
  <2> QED
    BY <2>1, <2>2
<1>3. UNCHANGED <<settings, chatView, invisible, icon, overlapped, missed, chatFault>>
  BY DEF AppendMessage, Sent, ghosts
<1> QED
  BY <1>1, <1>2, <1>3, UntouchedLinks DEF ChatTypes, chatView

LEMMA SendLinks == ASSUME LinkedTypes, NEW c \in Chats, Send(c) PROVE LinkedTypes'
<1> USE DEF LinkedTypes
<1>1. CASE ChatFaults("used")
  BY <1>1, FaultLinks
<1>2. CASE chats[c] \in Live /\ ~ChatFaults("used")
  <2>1. PICK d : d = IF Tabbed THEN c ELSE session[chats[c]].chat
    OBVIOUS
  <2>2. d \in Chats \cup {0}
    BY <1>2, <2>1 DEF ChatTypes, Conversation
  <2>3. /\ calls' = Append(calls, ChatCall("sent", chats[c], d, [said |-> FALSE], TRUE, TRUE))
        /\ UNCHANGED <<settings, chatView, invisible, icon, ghosts, chatFault>>
    BY <1>2, <2>1 DEF Send
  <2>4. chats[c] \in Sessions
    BY <1>2 DEF ChatTypes
  <2>5. calls' \in Seq(Calls)
    BY <2>2, <2>3, <2>4, Begins
  <2> QED
    BY <2>3, <2>5, UntouchedLinks DEF ChatTypes, chatView, ghosts
<1> QED
  BY <1>1, <1>2 DEF Send

LEMMA ForgetsLinks ==
    ASSUME LinkedTypes, NEW c, NEW s, Forgets(c, s), shown' = shown \ {c}, unread' = unread \ {c},
           window' \in {"none", "hidden", "shown"},
           UNCHANGED <<settings, invisible, icon, calls, missed, chatFault>>
    PROVE  LinkedTypes'
<1> USE DEF LinkedTypes
<1>1. /\ Alive' = Alive \ {c} /\ Live' = Live \ {s}
      /\ chats' \in [Alive' -> Sessions] /\ session' \in [Live' -> Conversation]
      /\ lists' \in [ChatProtocols -> Seq(Sessions)]
      /\ \A d \in Alive' : chats'[d] = chats[d]
      /\ \A t \in Live' : session'[t] = session[t]
  BY Forgotten
<1>2. overlapped' \in BOOLEAN
  BY DEF Forgets, Used, ChatTypes
<1>3. ChatTypes'
  BY <1>1, <1>2 DEF ChatTypes
<1>4. Linked'
  BY <1>1 DEF Linked
<1> QED
  BY <1>3, <1>4

LEMMA ForgetsAllLinks ==
    ASSUME LinkedTypes, ForgetsAll, UNCHANGED <<settings, invisible, icon, calls, missed, chatFault>>
    PROVE  LinkedTypes'
<1> USE DEF LinkedTypes
<1>1. /\ Alive' = {} /\ Live' = {} /\ shown' = {} /\ unread' = {}
      /\ chats' \in [Alive' -> Sessions] /\ session' \in [Live' -> Conversation]
      /\ lists' \in [ChatProtocols -> Seq(Sessions)]
  BY ForgottenAll
<1>2. overlapped' \in BOOLEAN /\ window' = "none"
  BY DEF ForgetsAll, Used, ChatTypes
<1>3. ChatTypes'
  BY <1>1, <1>2 DEF ChatTypes
<1>4. Linked'
  BY <1>1 DEF Linked
<1> QED
  BY <1>3, <1>4

(* What closing a page comes to.                                           *)
LEMMA PageCloses ==
    ASSUME NEW c, ClosesPage(c), ~ChatFaults("used")
    PROVE  /\ chats[c] \in Live
           /\ UNCHANGED <<settings, invisible, icon, calls, missed, chatFault>>
           /\ \/ ForgetsAll
              \/ /\ Forgets(c, chats[c]) /\ shown' = shown \ {c} /\ unread' = unread \ {c}
                 /\ window' = IF shown \ {c} = {} THEN "hidden" ELSE window
  BY DEF ClosesPage

LEMMA PageLinks == ASSUME LinkedTypes, NEW c, ClosesPage(c) PROVE LinkedTypes'
<1>1. CASE ChatFaults("used")
  BY <1>1, FaultLinks
<1>2. CASE ~ChatFaults("used")
  BY <1>2, PageCloses, ForgetsLinks, ForgetsAllLinks DEF LinkedTypes, ChatTypes
<1> QED
  BY <1>1, <1>2

LEMMA CloseLinks ==
    ASSUME LinkedTypes, NEW c \in Chats, CloseCurrent(c) \/ CloseTab(c) \/ CloseChat(c)
    PROVE  LinkedTypes'
<1>1. CASE ChatFaults("used")
  BY <1>1, FaultLinks
<1>2. CASE CloseCurrent(c)
  BY <1>2, PageLinks DEF CloseCurrent
<1>3. CASE CloseTab(c)
  BY <1>1, <1>3, PageLinks DEF CloseTab
<1>4. CASE CloseChat(c) /\ ~ChatFaults("used")
  <2>1. /\ Forgets(c, chats[c]) /\ shown' = shown \ {c} /\ unread' = unread \ {c}
        /\ UNCHANGED <<settings, window, invisible, icon, calls, missed, chatFault>>
    BY <1>4 DEF CloseChat
  <2> QED
    BY <2>1, ForgetsLinks DEF LinkedTypes, ChatTypes
<1> QED
  BY <1>1, <1>2, <1>3, <1>4

LEMMA ShowLinks ==
    ASSUME LinkedTypes,
           CloseWindow \/ (\E c \in Chats : HideChat(c)) \/ ShowInvisible \/ ShowDestroyed \/ CallFaults
    PROVE  LinkedTypes'
<1> USE DEF LinkedTypes
<1>1. CASE CloseWindow
  BY <1>1, ForgetsAllLinks DEF CloseWindow
<1>2. ASSUME NEW c \in Chats, HideChat(c) PROVE LinkedTypes'
  <2>1. /\ shown' = shown \ {c} /\ missed' = (missed \/ Used({chats[c]}))
        /\ UNCHANGED <<settings, lists, session, chats, window, invisible, icon, calls, unread,
                       overlapped, chatFault>>
    BY <1>2 DEF HideChat
  <2>2. missed' \in BOOLEAN
    BY <2>1 DEF Used, ChatTypes
  <2> QED
    BY <2>1, <2>2, UntouchedLinks DEF ChatTypes, Calls
<1>3. CASE ShowInvisible \/ (ShowDestroyed /\ ~ChatFaults("dangling"))
  <2>1. /\ ResetsIcon /\ invisible' = <<>>
        /\ UNCHANGED <<settings, lists, session, chats, calls, overlapped, chatFault>>
    BY <1>3 DEF ShowInvisible, ShowDestroyed
  <2>2. \/ UNCHANGED <<shown, window, unread>>
        \/ /\ shown' \subseteq shown \cup Alive
           /\ window' = IF Tabbed THEN "shown" ELSE window
           /\ unread' = unread \ shown'
    BY <1>3 DEF ShowInvisible, ShowDestroyed
  <2>3. shown' \subseteq Chats /\ window' \in {"none", "hidden", "shown"} /\ unread' \subseteq Chats
    BY <2>2 DEF ChatTypes
  <2>4. missed' \in BOOLEAN /\ icon' \in {"default", "message"} /\ invisible' \in Seq(Chats)
    BY <2>1, Nothing DEF ResetsIcon, ChatTypes
  <2> QED
    BY <2>1, <2>3, <2>4, UntouchedLinks DEF ChatTypes, Calls
<1> QED
  BY <1>1, <1>2, <1>3, FaultLinks DEF ShowDestroyed, CallFaults

LEMMA Sticks ==
    ASSUME NEW s, Stick(s)
    PROVE  ChatFaults("used") \/ ChatFaults("outlived")
  BY DEF Stick

LEMMA LinksBegin == ChatInit => LinkedTypes
<1> SUFFICES ASSUME ChatInit PROVE LinkedTypes
  OBVIOUS
<1>1. /\ Live = {} /\ Alive = {} /\ session \in [Live -> Conversation] /\ chats \in [Alive -> Sessions]
      /\ invisible \in Seq(Chats) /\ calls \in Seq(Reception \cup Sending)
  BY Nothing DEF ChatInit, Live, Alive
<1>2. lists \in [ChatProtocols -> Seq(Sessions)]
  BY Nothing DEF ChatInit
<1> QED
  BY <1>1, <1>2 DEF LinkedTypes, ChatTypes, Linked, ChatInit

LEMMA LinksStep == LinkedTypes /\ [ChatNext]_chatVars => LinkedTypes'
<1> SUFFICES ASSUME LinkedTypes, [ChatNext]_chatVars PROVE LinkedTypes'
  OBVIOUS
<1>1. CASE UNCHANGED chatVars
  BY <1>1, UntouchedLinks DEF chatVars, LinkedTypes, ChatTypes, Calls
<1>2. ASSUME NEW s \in Sessions, Stick(s) PROVE LinkedTypes'
  BY <1>2, Sticks, FaultLinks
<1> QED
  BY <1>1, <1>2, ReceivedLinks, CreateLinks, LookLinks, ReturnLinks, SendLinks, CloseLinks, ShowLinks
  DEF ChatNext

-----------------------------------------------------------------------------
(* Chats and sessions belong to each other.                                *)

LEMMA Overlaps == [ChatNext]_chatVars /\ overlapped => overlapped'
  BY DEF ChatNext, chatVars, ReceiveFirst, ReceiveOvertaking, ReceiveAgain, Create, LookVisible,
     LookShow, LookHide, PresentChat, AppendMessage, CallFaults, Send, CloseCurrent, CloseTab,
     CloseChat, HideChat, Stick, Sent, CloseWindow, ShowInvisible, ShowDestroyed, ClosesPage, ChatFaults,
     Forgets, ForgetsAll, ghosts

(* A call begins, goes on or returns, and no session changes.              *)
LEMMA BeginsHeld ==
    ASSUME LinkedTypes, Held, NEW at \in {"look", "sent"}, NEW s \in Live, NEW c \in Chats \cup {0},
           NEW m, NEW show \in BOOLEAN, NEW drains \in BOOLEAN,
           \/ at = "look" /\ m \in Messages
           \/ at = "sent" /\ m = [said |-> FALSE],
           session[s].chat # 0, at = "sent" => c = session[s].chat,
           calls' = Append(calls, ChatCall(at, s, c, m, show, drains)), UNCHANGED session
    PROVE  Held'
<1>1. ChatTypes /\ s \in Sessions
  BY DEF LinkedTypes, ChatTypes
<1>2. PICK n : n = Len(calls) + 1
  OBVIOUS
<1>3. PICK f : f = calls'[n]
  OBVIOUS
<1>4. /\ DOMAIN calls = 1..Len(calls) /\ Len(calls) \in Nat
      /\ DOMAIN calls' = 1..(Len(calls) + 1)
      /\ \A i \in DOMAIN calls : calls'[i] = calls[i]
      /\ f.at = at /\ f.session = s /\ f.chat = c
  <2>1. \/ at \in {"create", "look", "present", "append"} /\ m \in Messages
        \/ at = "sent" /\ m = [said |-> FALSE]
    OBVIOUS
  <2> QED
    BY <1>1, <1>2, <1>3, <2>1, Begins
<1>5. \A i \in DOMAIN calls' : i \in DOMAIN calls \/ i = n
  BY <1>2, <1>4
<1>6. session' = session
  OBVIOUS
<1>7. Holds(f, session)
  BY <1>4 DEF Holds, Live
<1>8. ASSUME NEW i \in DOMAIN calls' PROVE Holds(calls'[i], session')
  BY <1>3, <1>4, <1>5, <1>6, <1>7, <1>8 DEF Held
<1>9. ASSUME NEW i \in DOMAIN calls', NEW j \in DOMAIN calls',
             calls'[i].at = "create", calls'[j].session = calls'[i].session
      PROVE  i = j
  <2>1. i \in DOMAIN calls /\ calls'[i] = calls[i] /\ session[calls[i].session].chat = 0
    BY <1>3, <1>4, <1>5, <1>9 DEF Held, Holds
  <2>2. j # n
    BY <1>3, <1>4, <1>9, <2>1
  <2>3. j \in DOMAIN calls /\ calls'[j] = calls[j]
    BY <1>4, <1>5, <2>2
  <2> QED
    BY <1>9, <2>1, <2>3 DEF Held
<1> QED
  BY <1>8, <1>9 DEF Held

LEMMA GoesHeld ==
    ASSUME LinkedTypes, Held, calls # <<>>, Latest.at \in {"look", "present"},
           NEW at \in {"present", "append"}, NEW c \in Chats \cup {0}, NEW drains \in BOOLEAN,
           Goes(at, c, drains), at = "present" => c = session[Latest.session].chat,
           UNCHANGED session
    PROVE  Held'
<1>1. ChatTypes
  BY DEF LinkedTypes
<1>2. PICK n : n = Len(calls)
  OBVIOUS
<1>3. PICK f : f = calls'[n]
  OBVIOUS
<1>4. /\ DOMAIN calls = 1..n /\ n \in Nat \ {0} /\ DOMAIN calls' = 1..n /\ calls[n] = Latest
      /\ \A i \in 1..(n - 1) : calls'[i] = calls[i]
      /\ f.at = at /\ f.session = Latest.session /\ f.chat = c
  BY <1>1, <1>2, <1>3, GoesOn
<1>5. \A i \in DOMAIN calls' : i \in DOMAIN calls /\ (calls'[i] = calls[i] \/ i = n)
  BY <1>4
<1>6. session' = session
  OBVIOUS
<1>7. Holds(Latest, session) /\ Holds(f, session)
  BY <1>4 DEF Held, Holds
<1>8. ASSUME NEW i \in DOMAIN calls' PROVE Holds(calls'[i], session')
  BY <1>3, <1>5, <1>6, <1>7, <1>8 DEF Held
<1>9. \A i \in DOMAIN calls' : /\ calls'[i].session = calls[i].session
                               /\ calls'[i].at = "create" => calls[i].at = "create"
  BY <1>3, <1>4, <1>5
<1> QED
  BY <1>5, <1>8, <1>9 DEF Held

LEMMA ReturnsHeld ==
    ASSUME LinkedTypes, Held, calls # <<>>, Returns, UNCHANGED session
    PROVE  Held'
<1>1. /\ DOMAIN calls = 1..Len(calls) /\ Len(calls) \in Nat \ {0}
      /\ DOMAIN calls' = 1..(Len(calls) - 1)
      /\ \A i \in DOMAIN calls' : calls'[i] = calls[i]
  BY GoesBack DEF LinkedTypes
<1>2. \A i \in DOMAIN calls' : i \in DOMAIN calls
  BY <1>1
<1> QED
  BY <1>1, <1>2 DEF Held

LEMMA UntouchedOwned ==
    ASSUME LinkedTypes, Owned, Held', chatFault' # "used", UNCHANGED <<lists, session, chats>>
    PROVE  Owned'
  BY DEF Owned, Paired, Listed, Alive, Live

LEMMA FirstOwned ==
    ASSUME LinkedTypes, Owned, NEW m \in Messages, ReceiveFirst(m)
    PROVE  Owned'
<1>1. PICK s : s = CHOOSE x \in FreshSessions : TRUE
  OBVIOUS
<1>2. PICK r : r = [protocol |-> m.protocol, from |-> m.from, with |-> {}, chat |-> 0]
  OBVIOUS
<1>3. s \in FreshSessions /\ ChatTypes
  BY <1>1 DEF ReceiveFirst, LinkedTypes
<1>4. r \in Conversation /\ r.chat = 0 /\ r.protocol = m.protocol /\ m.protocol \in ChatProtocols
  <2>1. r \in Conversation
    BY <1>2, MessagesAssumption DEF Conversation, Peers, Circles
  <2> QED
    BY <1>2, <2>1, MessagesAssumption
<1>5. /\ session' = [t \in Live \cup {s} |-> IF t = s THEN r ELSE session[t]]
      /\ lists' = [lists EXCEPT ![m.protocol] = Append(@, s)]
      /\ Announces(s, m)
      /\ UNCHANGED <<chats, chatFault>>
  BY <1>1, <1>2 DEF ReceiveFirst
<1>6. /\ Live' = Live \cup {s} /\ s \notin Live /\ s \in Sessions
      /\ session'[s] = r /\ \A t \in Live : session'[t] = session[t]
  BY <1>3, <1>4, <1>5, NewSession
<1>7. Paired'
  <2>1. Alive' = Alive /\ \A c \in Alive : chats'[c] = chats[c]
    BY <1>5 DEF Alive
  <2> QED
    BY <1>4, <1>6, <2>1 DEF Owned, Paired
<1>8. Listed'
  <2>1. ASSUME NEW p \in ChatProtocols
        PROVE  Distinct(lists'[p]) /\ ToSet(lists'[p]) = {t \in Live' : session'[t].protocol = p}
    <3>1. lists[p] \in Seq(Sessions) /\ Distinct(lists[p]) /\ ToSet(lists[p]) = {t \in Live : session[t].protocol = p}
      BY <1>3 DEF Owned, Listed, ChatTypes
    <3>2. CASE p # m.protocol
      <4>1. lists'[p] = lists[p]
        BY <1>3, <1>5, <3>2 DEF ChatTypes
      <4> QED
        BY <1>4, <1>6, <3>1, <3>2, <4>1
    <3>3. CASE p = m.protocol
      <4>1. lists'[p] = Append(lists[p], s)
        BY <1>3, <1>5, <3>3 DEF ChatTypes
      <4>2. PICK l : l = lists[p]
        OBVIOUS
      <4>3. PICK k : k = lists'[p]
        OBVIOUS
      <4>4. /\ DOMAIN l = 1..Len(l) /\ DOMAIN k = 1..(Len(l) + 1) /\ Len(l) \in Nat
            /\ \A i \in DOMAIN l : k[i] = l[i]
            /\ k[Len(l) + 1] = s /\ ToSet(k) = ToSet(l) \cup {s}
        BY <1>6, <3>1, <4>1, <4>2, <4>3, Pushed
      <4>5. \A i \in DOMAIN l : l[i] # s
        BY <1>6, <3>1, <4>2 DEF ToSet
      <4>6. \A i \in DOMAIN k : i \in DOMAIN l \/ i = Len(l) + 1
        BY <4>4
      <4>7. Distinct(k)
        BY <3>1, <4>2, <4>4, <4>5, <4>6 DEF Distinct
      <4>8. ToSet(k) = {t \in Live' : session'[t].protocol = p}
        BY <1>4, <1>6, <3>1, <3>3, <4>2, <4>4
      <4> QED
        BY <4>3, <4>7, <4>8
    <3> QED
      BY <3>2, <3>3
  <2> QED
    BY <2>1 DEF Listed
<1>9. Held'
  <2>1. PICK n : n = Len(calls) + 1
    OBVIOUS
  <2>2. PICK f : f = calls'[n]
    OBVIOUS
  <2>3. /\ DOMAIN calls = 1..Len(calls) /\ Len(calls) \in Nat
        /\ DOMAIN calls' = 1..(Len(calls) + 1)
        /\ \A i \in DOMAIN calls : calls'[i] = calls[i]
        /\ f.at = "create" /\ f.session = s
    BY <1>3, <1>5, <1>6, <2>1, <2>2, Begins, Settings DEF Announces
  <2>4. \A i \in DOMAIN calls' : i \in DOMAIN calls \/ i = n
    BY <2>1, <2>3
  <2>5. \A i \in DOMAIN calls : calls[i].session # s
    BY <1>6 DEF Owned, Held, Holds, Live
  <2>6. ASSUME NEW i \in DOMAIN calls' PROVE Holds(calls'[i], session')
    <3>1. CASE i \in DOMAIN calls
      <4>1. Holds(calls[i], session) /\ calls'[i] = calls[i]
        BY <2>3, <3>1 DEF Owned, Held
      <4> QED
        BY <1>6, <4>1 DEF Holds, Live
    <3>2. CASE i = n
      BY <1>4, <1>6, <2>2, <2>3, <3>2 DEF Holds, Live
    <3> QED
      BY <2>4, <3>1, <3>2
  <2>7. ASSUME NEW i \in DOMAIN calls', NEW j \in DOMAIN calls',
               calls'[i].at = "create", calls'[j].session = calls'[i].session
        PROVE  i = j
    BY <2>2, <2>3, <2>4, <2>5, <2>7 DEF Owned, Held
  <2> QED
    BY <2>6, <2>7 DEF Held
<1> QED
  BY <1>5, <1>7, <1>8, <1>9 DEF Owned

(* What a call that has begun holds.                                       *)
LEMMA LatestHolds ==
    ASSUME LinkedTypes, Owned, calls # <<>>
    PROVE  /\ Holds(Latest, session) /\ Latest.session \in Live
           /\ Latest.at # "create" => session[Latest.session].chat \in Alive
           /\ Latest.at \in {"present", "sent"} => Latest.chat = session[Latest.session].chat
<1>1. Holds(Latest, session)
  <2>1. Len(calls) \in DOMAIN calls /\ calls[Len(calls)] = Latest
    BY LatestIs DEF LinkedTypes
  <2> QED
    BY <2>1 DEF Owned, Held
<1> QED
  BY <1>1 DEF Holds, Owned, Paired, Live

LEMMA AgainOwned ==
    ASSUME LinkedTypes, Owned, NEW m \in Messages, ReceiveAgain(m)
    PROVE  Owned'
<1>1. PICK s \in Found(m) :
        /\ session[s].chat # 0
        /\ calls' = Append(calls, ChatCall("look", s, 0, m, Show(m), Sounds(m)))
  BY DEF ReceiveAgain
<1>2. s \in Live
  <2>1. s \in ToSet(lists[m.protocol])
    BY FoundOnes DEF LinkedTypes
  <2> QED
    BY <2>1, MessagesAssumption DEF Owned, Listed
<1>3. UNCHANGED <<lists, session, chats, chatFault>>
  BY DEF ReceiveAgain, chatView
<1>4. Show(m) \in BOOLEAN /\ Sounds(m) \in BOOLEAN
  BY Settings DEF LinkedTypes
<1>5. Held'
  BY <1>1, <1>2, <1>3, <1>4, BeginsHeld DEF Owned
<1> QED
  BY <1>3, <1>5, UntouchedOwned DEF Owned

LEMMA CreateOwned == ASSUME LinkedTypes, Owned, Create PROVE Owned'
<1>1. PICK c : c = CHOOSE x \in FreshChats : TRUE
  OBVIOUS
<1>2. PICK s : s = Latest.session
  OBVIOUS
<1>3. /\ c \in FreshChats /\ s \in Live /\ calls # <<>> /\ Latest \in Reception /\ ChatTypes
      /\ Latest.at = "create"
  BY <1>1, <1>2, LatestIs DEF Create, CallAt, LinkedTypes
<1>4. Latest.message \in Messages /\ Latest.message.with \in Circles
  BY <1>3 DEF Reception, Circles
<1>5. /\ session' = [session EXCEPT ![s].with = Latest.message.with, ![s].chat = c]
      /\ chats' = [d \in Alive \cup {c} |-> IF d = c THEN s ELSE chats[d]]
      /\ Goes("append", 0, Sounds(Latest.message))
      /\ UNCHANGED <<lists, chatFault>>
  BY <1>1, <1>2 DEF Create
<1>6. /\ c # 0 /\ c \notin Alive
      /\ Live' = Live /\ session'[s].chat = c /\ session'[s].protocol = session[s].protocol
      /\ \A t \in Live : t # s => session'[t] = session[t]
      /\ Alive' = Alive \cup {c}
      /\ chats'[c] = s /\ \A d \in Alive : chats'[d] = chats[d]
  BY <1>3, <1>4, <1>5, NewChat
<1>7. session[s].chat = 0
  BY <1>2, <1>3, LatestHolds DEF Holds
<1>8. Paired'
  <2>1. 0 \notin Alive
    BY <1>3, ChatsAssumption DEF ChatTypes
  <2>2. \A d \in Alive : chats[d] # s
    BY <1>7, <2>1 DEF Owned, Paired
  <2> QED
    BY <1>3, <1>6, <2>2 DEF Owned, Paired
<1>9. Listed'
  <2>1. \A t \in Live : session'[t].protocol = session[t].protocol
    BY <1>6
  <2> QED
    BY <1>5, <1>6, <2>1 DEF Owned, Listed
<1>10. Held'
  <2>1. PICK n : n = Len(calls)
    OBVIOUS
  <2>2. PICK f : f = calls'[n]
    OBVIOUS
  <2>3. /\ DOMAIN calls = 1..n /\ n \in Nat \ {0} /\ DOMAIN calls' = 1..n /\ calls[n] = Latest
        /\ \A i \in 1..(n - 1) : calls'[i] = calls[i]
        /\ f.at = "append" /\ f.session = s
    BY <1>2, <1>3, <1>4, <1>5, <2>1, <2>2, GoesOn, Settings
  <2>4. \A i \in DOMAIN calls' : i \in DOMAIN calls /\ (calls'[i] = calls[i] \/ i = n)
    BY <2>3
  <2>5. \A i \in DOMAIN calls : i # n => calls[i].session # s
    BY <1>2, <1>3, <2>3 DEF Owned, Held
  <2>6. ASSUME NEW i \in DOMAIN calls' PROVE Holds(calls'[i], session')
    <3>1. CASE i = n
      BY <1>3, <1>6, <2>2, <2>3, <3>1 DEF Holds, Live
    <3>2. CASE i # n
      <4>1. calls'[i] = calls[i] /\ Holds(calls[i], session) /\ calls[i].session # s
        BY <2>4, <2>5, <3>2 DEF Owned, Held
      <4> QED
        BY <1>6, <4>1 DEF Holds, Live
    <3> QED
      BY <3>1, <3>2
  <2>7. ASSUME NEW i \in DOMAIN calls', NEW j \in DOMAIN calls',
               calls'[i].at = "create", calls'[j].session = calls'[i].session
        PROVE  i = j
    <3>1. i # n /\ calls'[i] = calls[i]
      BY <2>2, <2>3, <2>4, <2>7
    <3>2. j # n
      BY <2>2, <2>3, <2>4, <2>5, <2>7, <3>1
    <3> QED
      BY <2>4, <2>7, <3>1, <3>2 DEF Owned, Held
  <2> QED
    BY <2>6, <2>7 DEF Held
<1> QED
  BY <1>5, <1>8, <1>9, <1>10 DEF Owned

LEMMA LookOwned ==
    ASSUME LinkedTypes, Owned, LookVisible \/ LookShow \/ LookHide \/ PresentChat
    PROVE  Owned'
<1>1. /\ calls # <<>> /\ Latest.at \in {"look", "present"} /\ ChatTypes
      /\ UNCHANGED <<lists, session, chats, chatFault>>
  BY DEF LookVisible, LookShow, LookHide, PresentChat, CallAt, LinkedTypes, chatView
<1>2. Latest.message \in Messages /\ Latest.show \in BOOLEAN /\ Sounds(Latest.message) \in BOOLEAN
  <2>1. Latest \in Reception
    BY <1>1, LatestIs
  <2> QED
    BY <1>1, <2>1, Settings DEF Reception
<1>3. 0 \in Chats \cup {0} /\ Owned /\ Held /\ UNCHANGED session
  BY <1>1 DEF Owned
<1>4. Held'
  <2>1. CASE LookVisible \/ LookHide \/ PresentChat
    <3>1. PICK d \in BOOLEAN : Goes("append", 0, d)
      BY <1>2, <2>1 DEF LookVisible, LookHide, PresentChat
    <3> QED
      BY <1>1, <1>3, <3>1, GoesHeld
  <2>2. CASE LookShow
    <3>1. PICK c : c = session[Latest.session].chat
      OBVIOUS
    <3>2. PICK d : d = (Latest.show /\ invisible' = <<>>)
      OBVIOUS
    <3>3. c \in Alive /\ Goes("present", c, d)
      BY <2>2, <3>1, <3>2 DEF LookShow
    <3>4. c \in Chats \cup {0} /\ d \in BOOLEAN
      BY <1>1, <1>2, <3>2, <3>3 DEF ChatTypes
    <3> QED
      BY <1>1, <1>3, <3>1, <3>3, <3>4, GoesHeld
  <2> QED
    BY <2>1, <2>2
<1> QED
  BY <1>1, <1>4, UntouchedOwned DEF Owned

LEMMA ReturnOwned ==
    ASSUME LinkedTypes, Owned, AppendMessage \/ Sent
    PROVE  Owned'
<1>1. calls # <<>> /\ Returns /\ UNCHANGED <<lists, session, chats, chatFault>>
  BY DEF AppendMessage, Sent, CallAt, chatView
<1>2. Held'
  BY <1>1, ReturnsHeld DEF Owned
<1> QED
  BY <1>1, <1>2, UntouchedOwned DEF Owned

LEMMA NoFaults == ASSUME LinkedTypes, Owned, CallFaults PROVE FALSE
<1>1. /\ calls # <<>>
      /\ \/ Latest.at \in {"create", "look", "append"} /\ Latest.session \notin Live
         \/ /\ Latest.at \in {"look", "append"} /\ Latest.session \in Live
            /\ session[Latest.session].chat \notin Alive
         \/ Latest.at \in {"present", "sent"} /\ Latest.chat \notin Alive
  BY DEF CallFaults
<1> QED
  BY <1>1, LatestHolds

LEMMA SendOwned == ASSUME LinkedTypes, Owned, NEW c \in Chats, Send(c) PROVE Owned'
<1>1. c \in Alive /\ chats[c] \in Live /\ session[chats[c]].chat = c /\ c # 0
  BY ChatsAssumption DEF Send, Owned, Paired
<1>2. PICK d : d = IF Tabbed THEN c ELSE session[chats[c]].chat
  OBVIOUS
<1>3. d = c
  BY <1>1, <1>2
<1>4. /\ calls' = Append(calls, ChatCall("sent", chats[c], d, [said |-> FALSE], TRUE, TRUE))
      /\ UNCHANGED <<lists, session, chats, chatFault>>
  BY <1>1, <1>2 DEF Send, chatView
<1>5. Held'
  BY <1>1, <1>3, <1>4, BeginsHeld DEF Owned
<1> QED
  BY <1>4, <1>5, UntouchedOwned DEF Owned

LEMMA ForgetsOwned ==
    ASSUME LinkedTypes, Owned, NEW c \in Alive, Forgets(c, chats[c]), ~overlapped',
           UNCHANGED <<calls, chatFault>>
    PROVE  Owned'
<1>1. PICK s : s = chats[c]
  OBVIOUS
<1>2. s \in Live /\ session[s].chat = c /\ Forgets(c, s) /\ ChatTypes
  BY <1>1 DEF Owned, Paired, LinkedTypes
<1>3. /\ Alive' = Alive \ {c} /\ Live' = Live \ {s}
      /\ \A d \in Alive' : chats'[d] = chats[d]
      /\ \A t \in Live' : session'[t] = session[t]
  BY <1>2, Forgotten
<1>4. \A i \in DOMAIN calls : calls[i].session # s
  BY <1>2 DEF Forgets, Used
<1>5. Paired'
  <2>1. \A d \in Alive' : chats[d] # s
    BY <1>2, <1>3 DEF Owned, Paired
  <2>2. \A t \in Live' : session[t].chat # c
    BY <1>1, <1>3 DEF LinkedTypes, Linked
  <2> QED
    BY <1>3, <2>1, <2>2 DEF Owned, Paired
<1>6. Listed'
  <2>1. ASSUME NEW p \in ChatProtocols
        PROVE  Distinct(lists'[p]) /\ ToSet(lists'[p]) = {t \in Live' : session'[t].protocol = p}
    <3>1. lists[p] \in Seq(Sessions) /\ lists'[p] = RemoveFirst(lists[p], s)
      BY <1>2 DEF ChatTypes, Forgets, Unlinks
    <3>2. /\ Distinct(lists[p]) /\ ToSet(lists[p]) = {t \in Live : session[t].protocol = p}
      BY DEF Owned, Listed
    <3>3. /\ Distinct(lists'[p]) /\ s \notin ToSet(lists'[p])
          /\ ToSet(lists[p]) \ {s} \subseteq ToSet(lists'[p])
          /\ ToSet(lists'[p]) \subseteq ToSet(lists[p])
      BY <3>1, <3>2, RemovedOne
    <3> QED
      BY <1>3, <3>2, <3>3
  <2> QED
    BY <2>1 DEF Listed
<1>7. Held'
  <2>1. ASSUME NEW i \in DOMAIN calls PROVE Holds(calls[i], session')
    <3>1. Holds(calls[i], session) /\ calls[i].session # s
      BY <1>4 DEF Owned, Held
    <3> QED
      BY <1>3, <3>1 DEF Holds, Live
  <2> QED
    BY <2>1 DEF Owned, Held
<1> QED
  BY <1>5, <1>6, <1>7 DEF Owned

LEMMA ForgetsAllOwned ==
    ASSUME LinkedTypes, Owned, ForgetsAll, ~overlapped', UNCHANGED <<calls, chatFault>>
    PROVE  Owned'
<1>1. Alive' = {} /\ Live' = {} /\ \A p \in ChatProtocols : lists'[p] = <<>>
  BY ForgottenAll
<1>2. DOMAIN calls = {}
  BY DEF ForgetsAll, Used, Owned, Held, Holds, Live
<1>3. Paired'
  BY <1>1 DEF Paired
<1>4. Listed'
  BY <1>1 DEF Listed, Distinct, ToSet
<1>5. Held'
  BY <1>2 DEF Held
<1> QED
  BY <1>3, <1>4, <1>5 DEF Owned

LEMMA PageOwned ==
    ASSUME LinkedTypes, Owned, NEW c \in Alive, ClosesPage(c), ~overlapped'
    PROVE  Owned'
<1>1. chats[c] \in Live
  BY DEF Owned, Paired
<1>2. /\ UNCHANGED <<calls, chatFault>>
      /\ ForgetsAll \/ Forgets(c, chats[c])
  BY <1>1 DEF ClosesPage
<1> QED
  BY <1>2, ForgetsOwned, ForgetsAllOwned

LEMMA CloseOwned ==
    ASSUME LinkedTypes, Owned, ~overlapped', NEW c \in Chats,
           CloseCurrent(c) \/ CloseTab(c) \/ CloseChat(c)
    PROVE  Owned'
<1>1. c \in Alive /\ chats[c] \in Live /\ session[chats[c]].chat = c
  BY DEF Owned, Paired, CloseCurrent, CloseTab, CloseChat
<1>2. CASE CloseCurrent(c)
  BY <1>1, <1>2, PageOwned DEF CloseCurrent
<1>3. CASE CloseTab(c)
  BY <1>1, <1>3, PageOwned DEF CloseTab
<1>4. CASE CloseChat(c)
  BY <1>1, <1>4, ForgetsOwned DEF CloseChat
<1> QED
  BY <1>2, <1>3, <1>4

LEMMA ShowOwned ==
    ASSUME LinkedTypes, Owned, ~overlapped',
           CloseWindow \/ (\E c \in Chats : HideChat(c)) \/ ShowInvisible \/ ShowDestroyed
    PROVE  Owned'
<1>1. CASE CloseWindow
  BY <1>1, ForgetsAllOwned DEF CloseWindow
<1>2. CASE (\E c \in Chats : HideChat(c)) \/ ShowInvisible \/ ShowDestroyed
  <2>1. UNCHANGED <<lists, session, chats, calls>> /\ chatFault' \in {chatFault, "dangling"}
    BY <1>2 DEF HideChat, ShowInvisible, ShowDestroyed, ChatFaults, chatView
  <2>2. Held'
    BY <2>1 DEF Owned, Held
  <2> QED
    BY <2>1, <2>2, UntouchedOwned DEF Owned
<1> QED
  BY <1>1, <1>2

(* The pin of a window is its chat's, and that of all pages may be nobody's.*)
LEMMA StickOwned == ASSUME LinkedTypes, Owned, NEW s, Stick(s) PROVE Owned'
<1>1. ChatFaults("outlived")
  BY ChatsAssumption DEF Stick, Owned, Paired
<1>2. Held'
  BY <1>1 DEF ChatFaults, chatView, Owned, Held
<1> QED
  BY <1>1, <1>2, UntouchedOwned DEF ChatFaults, chatView

LEMMA OwnBegins == ChatInit => OwnInv
<1> SUFFICES ASSUME ChatInit PROVE OwnInv
  OBVIOUS
<1>1. Live = {} /\ Alive = {} /\ DOMAIN calls = {}
  BY Nothing DEF ChatInit, Live, Alive
<1>2. Listed
  BY <1>1, Nothing DEF ChatInit, Listed, Distinct, ToSet
<1> QED
  BY <1>1, <1>2, LinksBegin DEF OwnInv, Owned, Paired, Held, ChatInit

LEMMA OwnStep == OwnInv /\ [ChatNext]_chatVars => OwnInv'
<1> SUFFICES ASSUME OwnInv, [ChatNext]_chatVars PROVE OwnInv'
  OBVIOUS
<1>1. LinkedTypes /\ LinkedTypes'
  BY LinksStep DEF OwnInv
<1>2. ASSUME ~overlapped' PROVE Owned'
  <2>1. Owned
    BY <1>2, Overlaps DEF OwnInv
  <2>2. CASE UNCHANGED chatVars
    <3>1. Held'
      BY <2>1, <2>2 DEF chatVars, Owned, Held
    <3> QED
      BY <1>1, <2>1, <2>2, <3>1, UntouchedOwned DEF chatVars, Owned
  <2>3. \A m \in Messages : ~ReceiveOvertaking(m)
    BY <1>2 DEF ReceiveOvertaking
  <2> QED
    BY <1>1, <1>2, <2>1, <2>2, <2>3, FirstOwned, AgainOwned, CreateOwned, LookOwned, ReturnOwned,
       NoFaults, SendOwned, CloseOwned, ShowOwned, StickOwned DEF ChatNext
<1> QED
  BY <1>1, <1>2 DEF OwnInv

(* Every chat belongs to a session in a list that knows it as its chat, and *)
(* nothing that was freed is used, as long as no message overtakes the      *)
(* first one of its session and no session is closed under a call; except   *)
(* for the pin of the window of all chats, whose first page was closed.     *)
THEOREM OwnedCorrect == ChatSpec => []ChatsOwned
<1>1. ChatInit => OwnInv
  BY OwnBegins
<1>2. OwnInv /\ [ChatNext]_chatVars => OwnInv'
  BY OwnStep
<1>3. OwnInv => ChatsOwned
  BY DEF OwnInv, Owned, Paired, Listed, ChatsOwned
<1> QED
  BY <1>1, <1>2, <1>3, PTL DEF ChatSpec

-----------------------------------------------------------------------------
(* What nobody could see is announced.                                     *)

LEMMA Misses == [ChatNext]_chatVars /\ missed => missed'
  BY DEF ChatNext, chatVars, ReceiveFirst, ReceiveOvertaking, ReceiveAgain, Create, LookVisible,
     LookShow, LookHide, PresentChat, AppendMessage, CallFaults, Send, CloseCurrent, CloseTab,
     CloseChat, HideChat, Stick, Sent, CloseWindow, ShowInvisible, ShowDestroyed, ClosesPage, ChatFaults,
     ResetsIcon, ghosts

LEMMA StillPresented ==
    ASSUME \A i \in DOMAIN calls : calls[i].at = "present" => i \in DOMAIN calls' /\ calls'[i] = calls[i]
    PROVE  Presented \subseteq Presented'
  BY DEF Presented

(* The step takes no chat that stays from what is due, gives no session    *)
(* another chat that is not due, and leaves the icon to a call that hides. *)
StaysDue ==
    /\ settings' = settings
    /\ Due \cap Alive' \subseteq Due'
    /\ Alive' \subseteq Alive \cup Due'
    /\ \A t \in Live' :
          \/ session'[t].chat \notin Alive' \/ session'[t].chat \in Due'
          \/ t \in Live /\ session'[t].chat = session[t].chat /\ session[t].chat \in Alive
    /\ \/ icon = "message" => icon' = "message"
       \/ \A i \in DOMAIN calls : ~(calls[i].at = "create" /\ ~calls[i].show)

LEMMA StaysAnnounced ==
    ASSUME Announced, StaysDue, unread' \subseteq Due',
           \A i \in DOMAIN calls' :
              \/ i \in DOMAIN calls /\ calls'[i] = calls[i]
              \/ Awaited(calls'[i], icon', session', Alive', Due')
    PROVE  Announced'
<1>1. ASSUME NEW i \in DOMAIN calls' PROVE Awaited(calls'[i], icon', session', Alive', Due')
  <2>1. CASE i \in DOMAIN calls /\ calls'[i] = calls[i]
    <3>1. PICK f : f = calls[i]
      OBVIOUS
    <3>2. Awaited(f, icon, session, Alive, Due)
      BY <2>1, <3>1 DEF Announced
    <3>3. f.at = "create" /\ ~f.show => icon' = "message"
      BY <2>1, <3>1, <3>2 DEF Awaited, StaysDue
    <3>4. ASSUME f.at \in {"present", "append"}, f.session \in Live', session'[f.session].chat \in Alive'
          PROVE  session'[f.session].chat \in Due'
      BY <3>2, <3>4 DEF Awaited, StaysDue, Live
    <3> QED
      BY <2>1, <3>1, <3>3, <3>4 DEF Awaited, Live
  <2> QED
    BY <2>1
<1>2. Tabbed' => Alive' \subseteq Due'
  BY DEF StaysDue, Announced, Tabbed
<1> QED
  BY <1>1, <1>2 DEF Announced

(* A call begins, for which nothing need be due yet.                       *)
LEMMA BeginsAnnounced ==
    ASSUME ChatTypes, Announced, NEW at \in {"create", "look", "sent"}, NEW s \in Sessions,
           NEW c \in Chats \cup {0}, NEW m, NEW show \in BOOLEAN, NEW drains \in BOOLEAN,
           \/ at \in {"create", "look"} /\ m \in Messages
           \/ at = "sent" /\ m = [said |-> FALSE],
           calls' = Append(calls, ChatCall(at, s, c, m, show, drains)),
           at = "create" /\ ~show => icon' = "message",
           icon' \in {icon, "message"},
           \A t \in Live' : \/ session'[t].chat \notin Alive
                            \/ t \in Live /\ session'[t] = session[t],
           UNCHANGED <<settings, chats, shown, invisible, unread>>
    PROVE  Announced'
<1>1. PICK n : n = Len(calls) + 1
  OBVIOUS
<1>2. PICK f : f = calls'[n]
  OBVIOUS
<1>3. /\ DOMAIN calls = 1..Len(calls) /\ Len(calls) \in Nat /\ DOMAIN calls' = 1..(Len(calls) + 1)
      /\ \A i \in DOMAIN calls : calls'[i] = calls[i]
      /\ f.at = at /\ f.show = show
  <2>1. \/ at \in {"create", "look", "present", "append"} /\ m \in Messages
        \/ at = "sent" /\ m = [said |-> FALSE]
    OBVIOUS
  <2> QED
    BY <1>1, <1>2, <2>1, Begins
<1>4. \A i \in DOMAIN calls' : i \in DOMAIN calls \/ i = n
  BY <1>1, <1>3
<1>5. Presented \subseteq Presented'
  BY <1>3, StillPresented
<1>6. Due \subseteq Due' /\ Alive' = Alive
  BY <1>5 DEF Due, Alive
<1>7. StaysDue
  <2>1. ASSUME NEW t \in Live'
        PROVE  \/ session'[t].chat \notin Alive' \/ session'[t].chat \in Due'
               \/ t \in Live /\ session'[t].chat = session[t].chat /\ session[t].chat \in Alive
    BY <1>6
  <2> QED
    BY <1>6, <2>1 DEF StaysDue
<1>8. Awaited(f, icon', session', Alive', Due')
  BY <1>3 DEF Awaited
<1>9. unread' \subseteq Due'
  BY <1>6 DEF Announced
<1> QED
  BY <1>2, <1>3, <1>4, <1>7, <1>8, <1>9, StaysAnnounced

LEMMA AnnouncesAnnounced ==
    ASSUME ChatTypes, Announced, NEW s \in Sessions, NEW m \in Messages, Announces(s, m),
           \A t \in Live' : \/ session'[t].chat \notin Alive
                            \/ t \in Live /\ session'[t] = session[t],
           UNCHANGED <<settings, chats, shown, invisible, unread>>
    PROVE  Announced'
<1>1. PICK show : show = ~Tray(m)
  OBVIOUS
<1>2. PICK drains : drains = (Tray(m) \/ Sounds(m))
  OBVIOUS
<1>3. show \in BOOLEAN /\ drains \in BOOLEAN
  BY <1>1, <1>2, Settings
<1>4. /\ calls' = Append(calls, ChatCall("create", s, 0, m, show, drains))
      /\ ~show => icon' = "message"
      /\ icon' \in {icon, "message"}
  BY <1>1, <1>2 DEF Announces
<1>5. 0 \in Chats \cup {0}
  OBVIOUS
<1> QED
  BY <1>3, <1>4, <1>5, BeginsAnnounced

LEMMA ReceivedAnnounced ==
    ASSUME LinkedTypes, Announced, NEW m \in Messages,
           ReceiveFirst(m) \/ ReceiveOvertaking(m) \/ ReceiveAgain(m)
    PROVE  Announced'
<1> USE DEF LinkedTypes
<1>1. CASE ReceiveFirst(m)
  <2>1. PICK s : s = CHOOSE x \in FreshSessions : TRUE
    OBVIOUS
  <2>2. PICK r : r = [protocol |-> m.protocol, from |-> m.from, with |-> {}, chat |-> 0]
    OBVIOUS
  <2>3. s \in FreshSessions /\ r \in Conversation /\ r.chat = 0
    <3>1. s \in FreshSessions
      BY <1>1, <2>1 DEF ReceiveFirst
    <3>2. r \in Conversation
      BY <2>2, MessagesAssumption DEF Conversation, Peers, Circles
    <3>3. r.chat = 0
      BY <2>2
    <3> QED
      BY <3>1, <3>2, <3>3
  <2>4. /\ session' = [t \in Live \cup {s} |-> IF t = s THEN r ELSE session[t]]
        /\ Announces(s, m)
        /\ UNCHANGED <<settings, chats, shown, invisible, unread>>
    BY <1>1, <2>1, <2>2 DEF ReceiveFirst, ghosts
  <2>5. /\ Live' = Live \cup {s} /\ s \in Sessions
        /\ session'[s] = r /\ \A t \in Live : session'[t] = session[t]
    BY <2>3, <2>4, NewSession
  <2>6. 0 \notin Alive
    BY ChatsAssumption DEF ChatTypes
  <2>7. ASSUME NEW t \in Live'
        PROVE  session'[t].chat \notin Alive \/ (t \in Live /\ session'[t] = session[t])
    BY <2>3, <2>5, <2>6
  <2> QED
    BY <2>4, <2>5, <2>7, AnnouncesAnnounced
<1>2. CASE ReceiveOvertaking(m)
  <2>1. PICK s \in Sessions : Announces(s, m)
    BY <1>2, FoundOnes DEF ReceiveOvertaking
  <2>2. UNCHANGED <<settings, session, chats, shown, invisible, unread>>
    BY <1>2 DEF ReceiveOvertaking, chatView
  <2>3. \A t \in Live' : t \in Live /\ session'[t] = session[t]
    BY <2>2 DEF Live
  <2> QED
    BY <2>1, <2>2, <2>3, AnnouncesAnnounced
<1>3. CASE ReceiveAgain(m)
  <2>1. PICK s \in Sessions : calls' = Append(calls, ChatCall("look", s, 0, m, Show(m), Sounds(m)))
    BY <1>3, FoundOnes DEF ReceiveAgain
  <2>2. UNCHANGED <<settings, session, chats, shown, invisible, icon, unread>>
    BY <1>3 DEF ReceiveAgain, chatView, ghosts
  <2>3. \A t \in Live' : t \in Live /\ session'[t] = session[t]
    BY <2>2 DEF Live
  <2>4. Show(m) \in BOOLEAN /\ Sounds(m) \in BOOLEAN
    BY Settings
  <2> QED
    BY <2>1, <2>2, <2>3, <2>4, BeginsAnnounced
<1> QED
  BY <1>1, <1>2, <1>3

(* The latest call goes on, and what it will append to is due.             *)
LEMMA GoesPresented ==
    ASSUME ChatTypes, calls # <<>>, Latest.at # "sent",
           NEW at \in {"present", "append"}, NEW c \in Chats \cup {0}, NEW drains \in BOOLEAN,
           Goes(at, c, drains)
    PROVE  /\ Presented \subseteq Presented' \cup {Latest.chat}
           /\ Latest.at # "present" => Presented \subseteq Presented'
           /\ at = "present" => c \in Presented'
<1>1. PICK n : n = Len(calls)
  OBVIOUS
<1>2. PICK f : f = calls'[n]
  OBVIOUS
<1>3. /\ DOMAIN calls = 1..n /\ n \in Nat \ {0} /\ DOMAIN calls' = 1..n /\ calls[n] = Latest
      /\ \A i \in 1..(n - 1) : calls'[i] = calls[i]
      /\ f.at = at /\ f.chat = c
  BY <1>1, <1>2, GoesOn
<1>4. \A i \in DOMAIN calls : i \in DOMAIN calls' /\ (i = n \/ calls'[i] = calls[i])
  BY <1>3
<1>5. n \in DOMAIN calls'
  BY <1>3
<1>6. Presented \subseteq Presented' \cup {Latest.chat}
  BY <1>3, <1>4 DEF Presented
<1>7. Latest.at # "present" => Presented \subseteq Presented'
  BY <1>3, <1>4 DEF Presented
<1>8. at = "present" => c \in Presented'
  BY <1>2, <1>3, <1>5 DEF Presented
<1> QED
  BY <1>6, <1>7, <1>8

LEMMA GoesAnnounced ==
    ASSUME ChatTypes, calls # <<>>, Latest.at # "sent",
           NEW at \in {"present", "append"}, NEW c \in Chats \cup {0}, NEW drains \in BOOLEAN,
           Goes(at, c, drains), Announced, StaysDue, unread' \subseteq Due',
           Latest.session \in Live' /\ session'[Latest.session].chat \in Alive' =>
              session'[Latest.session].chat \in Due'
    PROVE  Announced'
<1>1. PICK n : n = Len(calls)
  OBVIOUS
<1>2. PICK f : f = calls'[n]
  OBVIOUS
<1>3. /\ DOMAIN calls = 1..n /\ n \in Nat \ {0} /\ DOMAIN calls' = 1..n
      /\ \A i \in 1..(n - 1) : calls'[i] = calls[i]
      /\ f.at = at /\ f.session = Latest.session
  BY <1>1, <1>2, GoesOn
<1>4. \A i \in DOMAIN calls' : (i \in DOMAIN calls /\ calls'[i] = calls[i]) \/ i = n
  BY <1>3
<1>5. Awaited(f, icon', session', Alive', Due')
  BY <1>3 DEF Awaited, Live
<1> QED
  BY <1>2, <1>4, <1>5, StaysAnnounced

(* What the latest call has been waiting for.                              *)
LEMMA LatestAwaits ==
    ASSUME ChatTypes, calls # <<>>, Announced
    PROVE  /\ Latest.at = "create" /\ ~Latest.show => icon = "message"
           /\ Latest.at \in {"present", "append"} /\ Latest.session \in Live
              /\ session[Latest.session].chat \in Alive => session[Latest.session].chat \in Due
<1>1. Awaited(Latest, icon, session, Alive, Due)
  <2>1. Len(calls) \in DOMAIN calls /\ calls[Len(calls)] = Latest
    BY LatestIs
  <2> QED
    BY <2>1 DEF Announced
<1> QED
  BY <1>1 DEF Awaited, Live

LEMMA CreateAnnounced == ASSUME LinkedTypes, Unseen, Announced, Create PROVE Announced'
<1>1. PICK c : c = CHOOSE x \in FreshChats : TRUE
  OBVIOUS
<1>2. PICK s : s = Latest.session
  OBVIOUS
<1>3. /\ c \in FreshChats /\ s \in Live /\ calls # <<>> /\ Latest \in Reception /\ ChatTypes
      /\ Latest.at = "create"
  BY <1>1, <1>2, LatestIs DEF Create, CallAt, LinkedTypes
<1>4. /\ Latest.message \in Messages /\ Latest.message.with \in Circles
      /\ Sounds(Latest.message) \in BOOLEAN
  BY <1>3, Settings DEF Reception, Circles
<1>5. /\ session' = [session EXCEPT ![s].with = Latest.message.with, ![s].chat = c]
      /\ chats' = [d \in Alive \cup {c} |-> IF d = c THEN s ELSE chats[d]]
      /\ Goes("append", 0, Sounds(Latest.message))
      /\ UNCHANGED <<settings, icon>>
      /\ \/ Latest.show /\ Presents(c, Alive \cup {c}) /\ UNCHANGED invisible
         \/ ~Latest.show /\ invisible' = Append(invisible, c) /\ UNCHANGED <<shown, unread>>
  BY <1>1, <1>2 DEF Create
<1>6. /\ c \in Chats /\ c \notin Alive
      /\ Live' = Live /\ session'[s].chat = c
      /\ \A t \in Live : t # s => session'[t] = session[t]
      /\ Alive' = Alive \cup {c}
  BY <1>3, <1>4, <1>5, NewChat
<1>7. Presented \subseteq Presented'
  BY <1>3, <1>4, <1>5, GoesPresented
<1>8. c \in Due' /\ Due \cap Alive' \subseteq Due' /\ unread' \subseteq Due'
  <2>1. CASE Latest.show
    <3>1. c \in shown'
      BY <1>5, <2>1 DEF Presents
    <3>2. shown \cap Alive' \subseteq shown'
      BY <1>5, <1>6, <2>1 DEF Presents
    <3>3. Due \cap Alive' \subseteq Due'
      BY <1>5, <1>7, <2>1, <3>2 DEF Due
    <3>4. unread' \subseteq unread /\ unread \subseteq Due /\ unread \subseteq Alive
      BY <1>5, <2>1 DEF Presents, Announced, Unseen
    <3> QED
      BY <1>6, <3>1, <3>3, <3>4 DEF Due
  <2>2. CASE ~Latest.show
    <3>1. icon = "message" /\ icon' = "message"
      BY <1>3, <1>5, <2>2, LatestAwaits
    <3>2. invisible \in Seq(Chats)
      BY <1>3 DEF ChatTypes
    <3>3. invisible' = Append(invisible, c) /\ shown' = shown /\ unread' = unread
      BY <1>5, <2>2
    <3>4. ToSet(invisible') = ToSet(invisible) \cup {c}
      BY <1>6, <3>2, <3>3, Pushed
    <3>5. Due \subseteq Due' /\ c \in Due'
      BY <1>7, <3>1, <3>3, <3>4 DEF Due
    <3> QED
      BY <3>3, <3>5 DEF Announced
  <2> QED
    BY <2>1, <2>2
<1>9. StaysDue
  <2>1. Alive' \subseteq Alive \cup Due'
    BY <1>6, <1>8
  <2>2. ASSUME NEW t \in Live'
        PROVE  \/ session'[t].chat \notin Alive' \/ session'[t].chat \in Due'
               \/ t \in Live /\ session'[t].chat = session[t].chat /\ session[t].chat \in Alive
    BY <1>6, <1>8
  <2> QED
    BY <1>5, <1>8, <2>1, <2>2 DEF StaysDue
<1>10. session'[Latest.session].chat \in Due'
  BY <1>2, <1>6, <1>8
<1> QED
  BY <1>3, <1>4, <1>5, <1>8, <1>9, <1>10, GoesAnnounced

(* A call that looks at its chat, or presents it.                          *)
LEMMA LooksAt ==
    ASSUME LinkedTypes, LookVisible \/ LookShow \/ LookHide \/ PresentChat
    PROVE  /\ calls # <<>> /\ Latest.at # "sent" /\ ChatTypes
           /\ Sounds(Latest.message) \in BOOLEAN /\ Latest.show \in BOOLEAN
           /\ Alive \subseteq Chats /\ Alive' = Alive /\ Live' = Live
           /\ UNCHANGED <<settings, session>>
<1>1. /\ calls # <<>> /\ Latest.at \in {"look", "present"} /\ ChatTypes
      /\ UNCHANGED <<settings, session, chats>>
  BY DEF LookVisible, LookShow, LookHide, PresentChat, CallAt, chatView, LinkedTypes
<1>2. Latest \in Reception
  BY <1>1, LatestIs
<1> QED
  BY <1>1, <1>2, Settings DEF Reception, Alive, Live, ChatTypes

LEMMA UntouchedDue ==
    ASSUME Due \cap Alive \subseteq Due', UNCHANGED <<settings, session>>, Alive' = Alive,
           \/ icon' = icon \/ icon' = "message"
           \/ \A i \in DOMAIN calls : ~(calls[i].at = "create" /\ ~calls[i].show)
    PROVE  StaysDue
<1>1. Live' = Live
  BY DEF Live
<1>2. ASSUME NEW t \in Live'
      PROVE  \/ session'[t].chat \notin Alive' \/ session'[t].chat \in Due'
             \/ t \in Live /\ session'[t].chat = session[t].chat /\ session[t].chat \in Alive
  BY <1>1
<1> QED
  BY <1>2 DEF StaysDue

LEMMA VisibleAnnounced == ASSUME LinkedTypes, Unseen, Announced, LookVisible PROVE Announced'
<1>1. /\ calls # <<>> /\ Latest.at # "sent" /\ ChatTypes /\ Sounds(Latest.message) \in BOOLEAN
      /\ Alive \subseteq Chats /\ Alive' = Alive /\ Live' = Live /\ UNCHANGED <<settings, session>>
  BY LooksAt
<1>2. PICK c : c = session[Latest.session].chat
  OBVIOUS
<1>3. /\ c \in Alive /\ WindowVisible(c) /\ Latest.at = "look"
      /\ Goes("append", 0, Sounds(Latest.message))
      /\ UNCHANGED <<shown, invisible, icon, unread>>
  BY <1>2 DEF LookVisible, CallAt, chatView, ghosts
<1>4. Presented \subseteq Presented'
  BY <1>1, <1>3, GoesPresented
<1>5. Due \subseteq Due'
  BY <1>3, <1>4 DEF Due
<1>6. c \in Due'
  BY <1>3, <1>5 DEF WindowVisible, Announced, Due
<1>7. StaysDue
  BY <1>1, <1>3, <1>5, UntouchedDue
<1>8. unread' \subseteq Due' /\ session'[Latest.session].chat = c
  BY <1>1, <1>2, <1>3, <1>5 DEF Announced
<1> QED
  BY <1>1, <1>3, <1>6, <1>7, <1>8, GoesAnnounced

LEMMA LookShowAnnounced ==
    ASSUME LinkedTypes, Unseen, Announced, LookShow, ~missed'
    PROVE  Announced'
<1>1. /\ calls # <<>> /\ Latest.at # "sent" /\ ChatTypes /\ Latest.show \in BOOLEAN
      /\ Alive \subseteq Chats /\ Alive' = Alive /\ Live' = Live /\ UNCHANGED <<settings, session>>
  BY LooksAt
<1>2. PICK c : c = session[Latest.session].chat
  OBVIOUS
<1>3. PICK d : d = (Latest.show /\ invisible' = <<>>)
  OBVIOUS
<1>4. /\ c \in Alive /\ Latest.at = "look" /\ Goes("present", c, d)
      /\ invisible' = IF Latest.show THEN RemoveFirst(invisible, c) ELSE invisible
      /\ IF d THEN ResetsIcon ELSE icon' = icon
      /\ UNCHANGED <<shown, unread>>
  BY <1>2, <1>3 DEF LookShow, CallAt, chatView
<1>5. d \in BOOLEAN /\ c \in Chats \cup {0}
  BY <1>1, <1>3, <1>4
<1>6. Presented \subseteq Presented' /\ c \in Presented'
  BY <1>1, <1>4, <1>5, GoesPresented
<1>7. ToSet(invisible) \ {c} \subseteq ToSet(invisible')
  <2>1. invisible \in Seq(Chats)
    BY <1>1 DEF ChatTypes
  <2>2. ToSet(invisible) \ {c} \subseteq ToSet(RemoveFirst(invisible, c))
    BY <2>1, RemovedOne
  <2> QED
    BY <1>4, <2>2
<1>8. Due \subseteq Due'
  <2>1. CASE d
    <3>1. invisible' = <<>>
      BY <1>3, <2>1
    <3>2. ToSet(invisible') = {}
      BY <3>1, Nothing DEF ToSet
    <3>3. ToSet(invisible) \subseteq {c}
      BY <1>7, <3>2
    <3> QED
      BY <1>4, <1>6, <3>3 DEF Due
  <2>2. CASE ~d
    BY <1>4, <1>6, <1>7, <2>2 DEF Due
  <2> QED
    BY <2>1, <2>2
<1>9. \/ icon' = icon
      \/ \A i \in DOMAIN calls : ~(calls[i].at = "create" /\ ~calls[i].show)
  BY <1>4 DEF ResetsIcon
<1>10. StaysDue
  BY <1>1, <1>8, <1>9, UntouchedDue
<1>11. unread' \subseteq Due' /\ session'[Latest.session].chat \in Due'
  BY <1>1, <1>2, <1>4, <1>6, <1>8 DEF Announced, Due
<1> QED
  BY <1>1, <1>4, <1>5, <1>10, <1>11, GoesAnnounced

LEMMA LookHideAnnounced == ASSUME LinkedTypes, Unseen, Announced, LookHide PROVE Announced'
<1>1. /\ calls # <<>> /\ Latest.at # "sent" /\ ChatTypes
      /\ Alive \subseteq Chats /\ Alive' = Alive /\ Live' = Live /\ UNCHANGED <<settings, session>>
  BY LooksAt
<1>2. PICK c : c = session[Latest.session].chat
  OBVIOUS
<1>3. /\ c \in Alive /\ Latest.at = "look" /\ Goes("append", 0, TRUE)
      /\ invisible' = Append(invisible, c) /\ icon' = "message"
      /\ UNCHANGED <<shown, unread>>
  BY <1>2 DEF LookHide, CallAt, chatView, ghosts
<1>4. Presented \subseteq Presented'
  BY <1>1, <1>3, GoesPresented
<1>5. ToSet(invisible') = ToSet(invisible) \cup {c}
  <2>1. invisible \in Seq(Chats) /\ c \in Chats
    BY <1>1, <1>3 DEF ChatTypes
  <2> QED
    BY <1>3, <2>1, Pushed
<1>6. Due \subseteq Due' /\ c \in Due'
  BY <1>3, <1>4, <1>5 DEF Due
<1>7. StaysDue
  BY <1>1, <1>3, <1>6, UntouchedDue
<1>8. unread' \subseteq Due' /\ session'[Latest.session].chat = c
  BY <1>1, <1>2, <1>3, <1>6 DEF Announced
<1> QED
  BY <1>1, <1>3, <1>6, <1>7, <1>8, GoesAnnounced

LEMMA PresentAnnounced == ASSUME LinkedTypes, Unseen, Announced, PresentChat PROVE Announced'
<1>1. /\ calls # <<>> /\ Latest.at # "sent" /\ ChatTypes /\ Sounds(Latest.message) \in BOOLEAN
      /\ Alive \subseteq Chats /\ Alive' = Alive /\ Live' = Live /\ UNCHANGED <<settings, session>>
  BY LooksAt
<1>2. /\ Latest.at = "present" /\ Latest.chat \in Alive /\ Presents(Latest.chat, Alive)
      /\ Goes("append", 0, Sounds(Latest.message))
      /\ UNCHANGED <<invisible, icon>>
  BY DEF PresentChat, CallAt
<1>3. Presented \subseteq Presented' \cup {Latest.chat}
  BY <1>1, <1>2, GoesPresented
<1>4. Latest.chat \in shown' /\ shown \cap Alive \subseteq shown' /\ unread' \subseteq unread
  BY <1>2 DEF Presents
<1>5. Due \cap Alive \subseteq Due'
  BY <1>2, <1>3, <1>4 DEF Due
<1>6. StaysDue
  BY <1>1, <1>2, <1>5, UntouchedDue
<1>7. unread' \subseteq Due'
  BY <1>4, <1>5 DEF Announced, Unseen
<1>8. Latest.session \in Live' /\ session'[Latest.session].chat \in Alive' =>
         session'[Latest.session].chat \in Due'
  BY <1>1, <1>2, <1>5, LatestAwaits
<1> QED
  BY <1>1, <1>2, <1>6, <1>7, <1>8, GoesAnnounced

LEMMA AppendAnnounced ==
    ASSUME LinkedTypes, Unseen, Announced, AppendMessage \/ Sent
    PROVE  Announced'
<1>1. /\ calls # <<>> /\ Latest.at # "present" /\ Returns /\ ChatTypes
      /\ UNCHANGED <<settings, session, chats, shown, invisible, icon>>
  BY DEF AppendMessage, Sent, CallAt, chatView, LinkedTypes
<1>2. /\ DOMAIN calls = 1..Len(calls) /\ Len(calls) \in Nat \ {0} /\ calls[Len(calls)] = Latest
      /\ DOMAIN calls' = 1..(Len(calls) - 1)
      /\ \A i \in DOMAIN calls' : calls'[i] = calls[i]
  BY <1>1, GoesBack
<1>3. \A i \in DOMAIN calls : i = Len(calls) \/ i \in DOMAIN calls'
  BY <1>2
<1>4. Presented \subseteq Presented'
  BY <1>1, <1>2, <1>3, StillPresented
<1>5. Due \subseteq Due' /\ Alive' = Alive
  BY <1>1, <1>4 DEF Due, Alive
<1>6. StaysDue
  BY <1>1, <1>5, UntouchedDue
<1>7. unread' \subseteq Due'
  <2>1. CASE AppendMessage
    <3>1. PICK c : c = session[Latest.session].chat
      OBVIOUS
    <3>2. /\ Latest.at = "append" /\ Latest.session \in Live /\ c \in Alive
          /\ unread' \subseteq unread \cup {c}
      BY <2>1, <3>1 DEF AppendMessage, CallAt
    <3>3. c \in Due
      BY <1>1, <3>1, <3>2, LatestAwaits
    <3> QED
      BY <1>5, <3>2, <3>3 DEF Announced
  <2>2. CASE Sent
    BY <1>5, <2>2 DEF Sent, ghosts, Announced
  <2> QED
    BY <2>1, <2>2
<1>8. \A i \in DOMAIN calls' : i \in DOMAIN calls /\ calls'[i] = calls[i]
  BY <1>2
<1> QED
  BY <1>6, <1>7, <1>8, StaysAnnounced

LEMMA SameAnnounced ==
    ASSUME Announced, UNCHANGED <<settings, session, chats, shown, invisible, icon, calls, unread>>
    PROVE  Announced'
<1>1. UNCHANGED <<Alive, Due, Tabbed>>
  BY DEF Alive, Due, Presented, Tabbed
<1> QED
  BY <1>1 DEF Announced

LEMMA FaultsAnnounced ==
    ASSUME Announced, NEW kind, ChatFaults(kind)
    PROVE  Announced'
  BY SameAnnounced DEF ChatFaults, chatView, ghosts

LEMMA SendAnnounced ==
    ASSUME LinkedTypes, Announced, NEW c \in Chats, Send(c)
    PROVE  Announced'
<1>1. CASE ChatFaults("used")
  BY <1>1, FaultsAnnounced
<1>2. CASE chats[c] \in Live /\ ~ChatFaults("used")
  <2>1. PICK d : d = IF Tabbed THEN c ELSE session[chats[c]].chat
    OBVIOUS
  <2>2. d \in Chats \cup {0} /\ ChatTypes
    BY <1>2, <2>1 DEF LinkedTypes, ChatTypes, Conversation
  <2>3. /\ calls' = Append(calls, ChatCall("sent", chats[c], d, [said |-> FALSE], TRUE, TRUE))
        /\ UNCHANGED <<settings, session, chats, shown, invisible, icon, unread>>
    BY <1>2, <2>1 DEF Send, chatView, ghosts
  <2>4. chats[c] \in Sessions
    BY <1>2, <2>2 DEF ChatTypes
  <2>5. \A t \in Live' : t \in Live /\ session'[t] = session[t]
    BY <2>3 DEF Live
  <2> QED
    BY <2>2, <2>3, <2>4, <2>5, BeginsAnnounced
<1> QED
  BY <1>1, <1>2 DEF Send

(* Chats go, and what is left of them was as it is.                        *)
LEMMA FewerAnnounced ==
    ASSUME Announced, UNCHANGED <<settings, invisible, icon, calls>>,
           Alive' \subseteq Alive, Live' \subseteq Live, \A t \in Live' : session'[t] = session[t],
           shown \cap Alive' \subseteq shown', unread' \subseteq unread \cap Alive'
    PROVE  Announced'
<1>1. Presented' = Presented
  BY DEF Presented
<1>2. Due \cap Alive' \subseteq Due'
  BY <1>1 DEF Due
<1>3. StaysDue
  <2>1. ASSUME NEW t \in Live'
        PROVE  \/ session'[t].chat \notin Alive' \/ session'[t].chat \in Due'
               \/ t \in Live /\ session'[t].chat = session[t].chat /\ session[t].chat \in Alive
    OBVIOUS
  <2> QED
    BY <1>2, <2>1 DEF StaysDue
<1>4. unread' \subseteq Due'
  BY <1>2 DEF Announced
<1> QED
  BY <1>3, <1>4, StaysAnnounced

LEMMA ForgetsAnnounced ==
    ASSUME LinkedTypes, Unseen, Announced, NEW c, NEW s, Forgets(c, s),
           shown' = shown \ {c}, unread' = unread \ {c},
           UNCHANGED <<settings, invisible, icon, calls>>
    PROVE  Announced'
<1>1. /\ Alive' = Alive \ {c} /\ Live' = Live \ {s}
      /\ \A t \in Live' : session'[t] = session[t]
  BY Forgotten DEF LinkedTypes
<1> QED
  BY <1>1, FewerAnnounced DEF Unseen

LEMMA ForgetsAllAnnounced ==
    ASSUME Announced, ForgetsAll, UNCHANGED <<settings, invisible, icon, calls>>
    PROVE  Announced'
  BY ForgottenAll, FewerAnnounced

LEMMA PageAnnounced ==
    ASSUME LinkedTypes, Unseen, Announced, NEW c, ClosesPage(c)
    PROVE  Announced'
<1>1. CASE ChatFaults("used")
  BY <1>1, FaultsAnnounced
<1>2. CASE ~ChatFaults("used")
  BY <1>2, PageCloses, ForgetsAnnounced, ForgetsAllAnnounced
<1> QED
  BY <1>1, <1>2

LEMMA CloseAnnounced ==
    ASSUME LinkedTypes, Unseen, Announced, NEW c \in Chats,
           CloseCurrent(c) \/ CloseTab(c) \/ CloseChat(c)
    PROVE  Announced'
<1>1. CASE ChatFaults("used")
  BY <1>1, FaultsAnnounced
<1>2. CASE CloseCurrent(c)
  BY <1>2, PageAnnounced DEF CloseCurrent
<1>3. CASE CloseTab(c)
  BY <1>1, <1>3, PageAnnounced DEF CloseTab
<1>4. CASE CloseChat(c) /\ ~ChatFaults("used")
  <2>1. /\ Forgets(c, chats[c]) /\ shown' = shown \ {c} /\ unread' = unread \ {c}
        /\ UNCHANGED <<settings, invisible, icon, calls>>
    BY <1>4 DEF CloseChat
  <2> QED
    BY <2>1, ForgetsAnnounced
<1> QED
  BY <1>1, <1>2, <1>3, <1>4

LEMMA HideAnnounced ==
    ASSUME LinkedTypes, Unseen, Announced, NEW c \in Chats, HideChat(c), ~missed'
    PROVE  Announced'
<1>1. /\ ~Tabbed /\ c \in Alive /\ c \in shown /\ shown' = shown \ {c} /\ ~Used({chats[c]})
      /\ UNCHANGED <<settings, session, chats, invisible, icon, calls, unread>>
  BY DEF HideChat, Visible
<1>2. UNCHANGED <<Alive, Presented, Tabbed>>
  BY <1>1 DEF Alive, Presented, Tabbed
<1>3. Due \ {c} \subseteq Due'
  BY <1>1, <1>2 DEF Due
<1>4. unread' \subseteq Due'
  BY <1>1, <1>3 DEF Announced, Unseen
<1>5. ASSUME NEW i \in DOMAIN calls PROVE Awaited(calls[i], icon, session, Alive, Due')
  <2>1. PICK f : f = calls[i]
    OBVIOUS
  <2>2. Awaited(f, icon, session, Alive, Due) /\ f.session # chats[c]
    BY <1>1, <2>1 DEF Announced, Used
  <2>3. ASSUME f.at \in {"present", "append"}, f.session \in DOMAIN session,
               session[f.session].chat \in Alive
        PROVE  session[f.session].chat \in Due'
    <3>1. chats[session[f.session].chat] = f.session
      BY <2>3 DEF LinkedTypes, Linked, Live
    <3> QED
      BY <1>3, <2>2, <2>3, <3>1 DEF Awaited
  <2> QED
    BY <2>1, <2>2, <2>3 DEF Awaited
<1> QED
  BY <1>1, <1>2, <1>4, <1>5 DEF Announced

(* The icon is clicked, and every chat that waits is shown.                *)
LEMMA Reveals ==
    ASSUME ShowInvisible \/ (ShowDestroyed /\ ~ChatFaults("dangling"))
    PROVE  /\ ResetsIcon /\ invisible' = <<>>
           /\ UNCHANGED <<settings, lists, session, chats, calls, chatFault>>
           /\ \/ UNCHANGED <<shown, window, unread>> /\ ToSet(invisible) \cap Alive = {}
              \/ /\ shown' = IF Tabbed THEN Alive ELSE shown \cup (ToSet(invisible) \cap Alive)
                 /\ window' = IF Tabbed THEN "shown" ELSE window
                 /\ unread' = unread \ shown'
<1>1. CASE ShowInvisible
  <2>1. invisible = <<>> => ToSet(invisible) = {}
    BY Nothing DEF ToSet
  <2>2. ToSet(invisible) \cap Alive = ToSet(invisible)
    BY <1>1 DEF ShowInvisible
  <2> QED
    BY <1>1, <2>1, <2>2 DEF ShowInvisible
<1>2. CASE ShowDestroyed /\ ~ChatFaults("dangling")
  BY <1>2 DEF ShowDestroyed
<1> QED
  BY <1>1, <1>2

LEMMA RevealsAnnounced ==
    ASSUME LinkedTypes, Unseen, Announced, ShowInvisible \/ ShowDestroyed, ~missed'
    PROVE  Announced'
<1>1. CASE ChatFaults("dangling")
  BY <1>1, FaultsAnnounced
<1>2. CASE ~ChatFaults("dangling")
  <2>1. /\ ResetsIcon /\ invisible' = <<>>
        /\ UNCHANGED <<settings, session, chats, calls>>
        /\ \/ UNCHANGED <<shown, window, unread>> /\ ToSet(invisible) \cap Alive = {}
           \/ /\ shown' = IF Tabbed THEN Alive ELSE shown \cup (ToSet(invisible) \cap Alive)
              /\ window' = IF Tabbed THEN "shown" ELSE window
              /\ unread' = unread \ shown'
    BY <1>2, Reveals
  <2>2. Presented' = Presented /\ Alive' = Alive
    BY <2>1 DEF Presented, Alive
  <2>3. Due \cap Alive \subseteq Due'
    BY <2>1, <2>2 DEF Due
  <2>4. \A i \in DOMAIN calls : ~(calls[i].at = "create" /\ ~calls[i].show)
    BY <2>1 DEF ResetsIcon
  <2>5. StaysDue
    BY <2>1, <2>2, <2>3, <2>4, UntouchedDue
  <2>6. unread' \subseteq Due'
    BY <2>1, <2>3 DEF Announced, Unseen
  <2>7. \A i \in DOMAIN calls' : i \in DOMAIN calls /\ calls'[i] = calls[i]
    BY <2>1
  <2> QED
    BY <2>5, <2>6, <2>7, StaysAnnounced
<1> QED
  BY <1>1, <1>2

(* What is unread is in a chat that is not shown.                          *)
LEMMA SameUnseen ==
    ASSUME Unseen, UNCHANGED <<settings, shown, window, unread>>, Alive \subseteq Alive'
    PROVE  Unseen'
  BY DEF Unseen, Hidden, Tabbed

LEMMA PresentsUnseen ==
    ASSUME Unseen, NEW c, NEW cs, Presents(c, cs), settings' = settings, Alive \subseteq Alive'
    PROVE  Unseen'
  BY DEF Unseen, Hidden, Tabbed, Presents

LEMMA CallsUnseen ==
    ASSUME LinkedTypes, Unseen,
           \/ \E m \in Messages : ReceiveFirst(m) \/ ReceiveOvertaking(m) \/ ReceiveAgain(m)
           \/ LookVisible \/ LookShow \/ LookHide \/ CallFaults \/ Sent
           \/ \E c \in Chats : Send(c)
    PROVE  Unseen'
<1>1. UNCHANGED <<settings, chats, shown, window, unread>>
  BY DEF ReceiveFirst, ReceiveOvertaking, ReceiveAgain, LookVisible, LookShow, LookHide, CallFaults,
     Sent, Send, ChatFaults, chatView, ghosts
<1>2. Alive' = Alive
  BY <1>1 DEF Alive
<1> QED
  BY <1>1, <1>2, SameUnseen

LEMMA CreateUnseen == ASSUME LinkedTypes, Unseen, Create PROVE Unseen'
<1>1. PICK c : c = CHOOSE x \in FreshChats : TRUE
  OBVIOUS
<1>2. /\ chats' = [d \in Alive \cup {c} |-> IF d = c THEN Latest.session ELSE chats[d]]
      /\ settings' = settings
      /\ \/ Presents(c, Alive \cup {c})
         \/ /\ window' = IF Tabbed /\ window = "none" THEN "hidden" ELSE window
            /\ UNCHANGED <<shown, unread>>
  BY <1>1 DEF Create
<1>3. Alive \subseteq Alive'
  BY <1>2 DEF Alive
<1>4. CASE Presents(c, Alive \cup {c})
  BY <1>2, <1>3, <1>4, PresentsUnseen
<1>5. CASE /\ window' = IF Tabbed /\ window = "none" THEN "hidden" ELSE window
           /\ UNCHANGED <<shown, unread>>
  BY <1>2, <1>3, <1>5 DEF Unseen, Hidden, Tabbed
<1> QED
  BY <1>2, <1>4, <1>5

LEMMA AppendUnseen == ASSUME LinkedTypes, Unseen, AppendMessage PROVE Unseen'
<1>1. PICK c : c = session[Latest.session].chat
  OBVIOUS
<1>2. /\ c \in Alive /\ UNCHANGED <<settings, chats, shown, window>>
      /\ \/ unread' = unread
         \/ ~Visible(c) /\ unread' = unread \cup {c}
  BY <1>1 DEF AppendMessage, chatView
<1>3. ~Visible(c) => c \notin shown
  BY DEF Visible, WindowVisible, Unseen, Hidden
<1>4. Alive' = Alive
  BY <1>2 DEF Alive
<1> QED
  BY <1>2, <1>3, <1>4 DEF Unseen, Hidden, Tabbed

LEMMA ForgetsUnseen ==
    ASSUME LinkedTypes, Unseen, NEW c, NEW s, Forgets(c, s), shown' = shown \ {c}, unread' = unread \ {c},
           window' = window \/ shown' = {}, settings' = settings
    PROVE  Unseen'
<1>1. Alive' = Alive \ {c}
  BY Forgotten DEF LinkedTypes
<1> QED
  BY <1>1 DEF Unseen, Hidden, Tabbed

LEMMA ForgetsAllUnseen == ASSUME ForgetsAll PROVE Unseen'
  BY ForgottenAll DEF Unseen, Hidden

LEMMA FaultsUnseen == ASSUME Unseen, NEW kind, ChatFaults(kind) PROVE Unseen'
<1>1. UNCHANGED <<settings, chats, shown, window, unread>>
  BY DEF ChatFaults, chatView, ghosts
<1> QED
  BY <1>1, SameUnseen DEF Alive

LEMMA PageUnseen == ASSUME LinkedTypes, Unseen, NEW c, ClosesPage(c) PROVE Unseen'
<1>1. CASE ChatFaults("used")
  BY <1>1, FaultsUnseen
<1>2. CASE ~ChatFaults("used")
  BY <1>2, PageCloses, ForgetsUnseen, ForgetsAllUnseen
<1> QED
  BY <1>1, <1>2

LEMMA CloseUnseen ==
    ASSUME LinkedTypes, Unseen, NEW c \in Chats, CloseCurrent(c) \/ CloseTab(c) \/ CloseChat(c)
    PROVE  Unseen'
<1>1. CASE ChatFaults("used")
  BY <1>1, FaultsUnseen
<1>2. CASE CloseCurrent(c)
  BY <1>2, PageUnseen DEF CloseCurrent
<1>3. CASE CloseTab(c)
  BY <1>1, <1>3, PageUnseen DEF CloseTab
<1>4. CASE CloseChat(c) /\ ~ChatFaults("used")
  <2>1. /\ Forgets(c, chats[c]) /\ shown' = shown \ {c} /\ unread' = unread \ {c}
        /\ UNCHANGED <<settings, window>>
    BY <1>4 DEF CloseChat
  <2> QED
    BY <2>1, ForgetsUnseen
<1> QED
  BY <1>1, <1>2, <1>3, <1>4

LEMMA ShowUnseen ==
    ASSUME LinkedTypes, Unseen,
           CloseWindow \/ (\E c \in Chats : HideChat(c)) \/ ShowInvisible \/ ShowDestroyed \/ PresentChat
    PROVE  Unseen'
<1>1. CASE CloseWindow
  BY <1>1, ForgetsAllUnseen DEF CloseWindow
<1>2. ASSUME NEW c \in Chats, HideChat(c) PROVE Unseen'
  <2>1. shown' = shown \ {c} /\ UNCHANGED <<settings, chats, window, unread>>
    BY <1>2 DEF HideChat
  <2> QED
    BY <2>1 DEF Unseen, Hidden, Tabbed, Alive
<1>3. CASE ChatFaults("dangling")
  BY <1>3, FaultsUnseen
<1>4. CASE ShowInvisible \/ (ShowDestroyed /\ ~ChatFaults("dangling"))
  <2>1. /\ UNCHANGED <<settings, chats>>
        /\ \/ UNCHANGED <<shown, window, unread>>
           \/ /\ window' = IF Tabbed THEN "shown" ELSE window
              /\ unread' = unread \ shown'
    BY <1>4, Reveals
  <2>2. Alive' = Alive /\ Tabbed' = Tabbed
    BY <2>1 DEF Alive, Tabbed
  <2> QED
    BY <2>1, <2>2 DEF Unseen, Hidden
<1>5. CASE PresentChat
  <2>1. Presents(Latest.chat, Alive) /\ UNCHANGED <<settings, chats>>
    BY <1>5 DEF PresentChat
  <2> QED
    BY <2>1, PresentsUnseen DEF Alive
<1> QED
  BY <1>1, <1>2, <1>3, <1>4, <1>5

LEMMA UnseenStep ==
    ASSUME LinkedTypes, Unseen, [ChatNext]_chatVars
    PROVE  Unseen'
<1>1. CASE UNCHANGED chatVars
  BY <1>1, SameUnseen DEF chatVars, Alive
<1>2. ASSUME NEW s \in Sessions, Stick(s) PROVE Unseen'
  BY <1>2, Sticks, FaultsUnseen
<1> QED
  BY <1>1, <1>2, CallsUnseen, CreateUnseen, AppendUnseen, CloseUnseen, ShowUnseen DEF ChatNext

LEMMA UnreadBegins == ChatInit => UnreadInv
<1> SUFFICES ASSUME ChatInit PROVE UnreadInv
  OBVIOUS
<1>1. Live = {} /\ Alive = {} /\ DOMAIN calls = {}
  BY Nothing DEF ChatInit, Live, Alive
<1> QED
  BY <1>1, LinksBegin DEF UnreadInv, Unseen, Hidden, Announced, ChatInit

LEMMA UnreadStep == UnreadInv /\ [ChatNext]_chatVars => UnreadInv'
<1> SUFFICES ASSUME UnreadInv, [ChatNext]_chatVars PROVE UnreadInv'
  OBVIOUS
<1>1. LinkedTypes /\ Unseen /\ LinkedTypes' /\ Unseen'
  BY LinksStep, UnseenStep DEF UnreadInv
<1>2. ASSUME ~missed' PROVE Announced'
  <2>1. Announced
    BY <1>2, Misses DEF UnreadInv
  <2>2. CASE UNCHANGED chatVars
    BY <2>1, <2>2, SameAnnounced DEF chatVars
  <2>3. CASE CallFaults
    BY <2>1, <2>3, FaultsAnnounced DEF CallFaults
  <2>4. CASE CloseWindow
    BY <2>1, <2>4, ForgetsAllAnnounced DEF CloseWindow
  <2>5. ASSUME NEW s \in Sessions, Stick(s) PROVE Announced'
    BY <2>1, <2>5, Sticks, FaultsAnnounced
  <2> QED
    BY <1>1, <1>2, <2>1, <2>2, <2>3, <2>4, <2>5, ReceivedAnnounced, CreateAnnounced, VisibleAnnounced,
       LookShowAnnounced, LookHideAnnounced, PresentAnnounced, AppendAnnounced, SendAnnounced,
       CloseAnnounced, HideAnnounced, RevealsAnnounced DEF ChatNext
<1> QED
  BY <1>1, <1>2 DEF UnreadInv

(* A chat with a message that nobody could see waits in invisible_chats,    *)
(* with the icon, or a call is about to present it, until the icon is reset *)
(* under a first message or the user hides a chat under a call.             *)
THEOREM UnreadCorrect == ChatSpec => []UnreadAnnounced
<1>1. ChatInit => UnreadInv
  BY UnreadBegins
<1>2. UnreadInv /\ [ChatNext]_chatVars => UnreadInv'
  BY UnreadStep
<1>3. UnreadInv => UnreadAnnounced
  <2> SUFFICES ASSUME UnreadInv, ~missed PROVE UnreadAnnounced
    BY DEF UnreadAnnounced
  <2>1. unread \subseteq Due /\ unread \cap shown = {}
    BY DEF UnreadInv, Announced, Unseen
  <2> QED
    BY <2>1 DEF UnreadAnnounced, Due, Presented
<1> QED
  BY <1>1, <1>2, <1>3, PTL DEF ChatSpec

-----------------------------------------------------------------------------
(***************************************************************************)
(* The messages of the SMS plugin.                                         *)
(***************************************************************************)
(* Whom a message may go to; "" is nobody.                                 *)
Whom == Numbers \cup {""}

SmsForms    == [kind : {"contact", "button"}, to : Whom, ext : BOOLEAN, crossed : BOOLEAN]
SmsStages ==
    {"starts", "page", "sends", "token", "writes", "asks", "waits", "removes", "complains", "posts"}
SmsMessages ==
    [to : Whom, ext : BOOLEAN, number : Whom, external : BOOLEAN,
     asked : {"popup", "chat"}, crossed : BOOLEAN, crowded : BOOLEAN, at : SmsStages, left : Nat]
SmsReports  == [how : {"none", "popup", "chat"}, asked : {"popup", "chat"}, crowded : BOOLEAN]
SmsSignals  == [what : {"report"}, report : SmsReports] \cup [what : {"token"}, msg : Nat]

SmsTypes ==
    /\ number \in Whom /\ external \in BOOLEAN
    /\ method \in {"none", "popup", "chat"} /\ sent \in Nat
    /\ forms \in Seq(SmsForms) /\ posted \in Seq(SmsSignals)
    /\ messages \in [Ids -> SmsMessages] /\ Ids \subseteq Nat

(* What the answer to an open dialog will be completed with is what the    *)
(* dialog says, unless it is known to have been changed.                   *)
FormsFit ==
    \A i \in DOMAIN forms : ~forms[i].crossed =>
        /\ forms[i].kind = "contact" => number = forms[i].to
        /\ forms[i].kind = "button" => external = forms[i].ext

(* Who was never crowded is alone, and the plugin answers as he asked.     *)
Alone == \A m \in Ids : ~messages[m].crowded => Ids = {m} /\ method = messages[m].asked

(* Who waits for his token has one dialog for it, open or on its way.      *)
Waiting(m) == m \in Ids /\ messages[m].at = "waits"
OnItsWay   == {i \in DOMAIN posted : posted[i].what = "token"}
OneDialog ==
    /\ \A t \in tokens : Waiting(t.msg)
    /\ \A i \in OnItsWay : Waiting(posted[i].msg)
    /\ \A t, u \in tokens : t.msg = u.msg => t = u
    /\ \A i, j \in OnItsWay : posted[i].msg = posted[j].msg => i = j
    /\ \A t \in tokens, i \in OnItsWay : t.msg # posted[i].msg

(* Until the dialog opens the picture is that of the one alone.            *)
Pictured ==
    /\ \A m \in Ids : messages[m].at = "asks" /\ ~messages[m].crowded => picture = m
    /\ \A i \in OnItsWay : ~messages[posted[i].msg].crowded => picture = posted[i].msg

Reported ==
    \A i \in DOMAIN posted : posted[i].what = "report" /\ ~posted[i].report.crowded =>
        posted[i].report.how = posted[i].report.asked

SmsInv ==
    /\ SmsTypes /\ FormsFit /\ SentAsTitled /\ Alone
    /\ OneDialog /\ Pictured /\ Reported /\ AnswerFits

(* What a message is stays, but for how far its thread is.                 *)
Stays(m) ==
    /\ messages'[m].to = messages[m].to /\ messages'[m].number = messages[m].number
    /\ messages'[m].ext = messages[m].ext /\ messages'[m].external = messages[m].external
    /\ messages'[m].asked = messages[m].asked
    /\ messages'[m].crossed = messages[m].crossed /\ messages'[m].crowded = messages[m].crowded

LEMMA SetStays ==
    ASSUME SmsTypes, NEW m \in Ids, NEW s \in SmsStages, NEW n \in Nat, Set(m, s, n)
    PROVE  /\ Ids' = Ids /\ Stays(m) /\ messages'[m].at = s
           /\ \A k \in Ids \ {m} : messages'[k] = messages[k]
           /\ messages' \in [Ids -> SmsMessages]
<1>1. messages \in [Ids -> SmsMessages] /\ messages[m] \in SmsMessages
  BY DEF SmsTypes
<1>2. PICK r : r = messages[m]
  OBVIOUS
<1>3. PICK q : q = [r EXCEPT !.at = s, !.left = n]
  OBVIOUS
<1>4. /\ q \in SmsMessages /\ q.at = s
      /\ q.to = r.to /\ q.number = r.number /\ q.ext = r.ext /\ q.external = r.external
      /\ q.asked = r.asked /\ q.crossed = r.crossed /\ q.crowded = r.crowded
  BY <1>1, <1>2, <1>3 DEF SmsMessages
<1>5. messages' = [messages EXCEPT ![m] = q]
  BY <1>1, <1>2, <1>3 DEF Set, SmsMessages
<1>6. /\ messages' \in [Ids -> SmsMessages] /\ messages'[m] = q
      /\ \A k \in Ids \ {m} : messages'[k] = messages[k]
  BY <1>1, <1>4, <1>5
<1>7. Ids' = Ids
  BY <1>6 DEF Ids
<1> QED
  BY <1>2, <1>4, <1>6, <1>7 DEF Stays

(* The thread of a message goes on, or is over.                            *)
LEMMA Proceeds ==
    ASSUME SmsInv, NEW m \in Ids, ~Waiting(m), OnlyThreads, UNCHANGED <<external, method, forms, sent>>,
           messages' \in [Ids' -> SmsMessages], Ids \ {m} \subseteq Ids', Ids' \subseteq Ids,
           \A k \in Ids \ {m} : messages'[k] = messages[k],
           m \in Ids' => /\ Stays(m) /\ messages'[m].at # "waits"
                         /\ messages'[m].at = "asks" =>
                               picture' = m \/ (messages[m].at = "asks" /\ picture' = picture),
           \/ posted' = posted
           \/ \E r \in SmsReports : /\ ~r.crowded => r.how = r.asked
                                    /\ posted' = Append(posted, [what |-> "report", report |-> r])
    PROVE  SmsInv'
<1>1. SmsTypes /\ OneDialog /\ Alone
  BY DEF SmsInv
<1>2. UNCHANGED <<number, external, method, forms, sent, reports, tokens>>
  BY DEF OnlyThreads
<1>3. /\ \A k \in Ids' : k \in Ids /\ Stays(k)
      /\ \A k \in Ids : Waiting(k) => Waiting(k)' /\ k # m
      /\ \A k \in Ids : ~messages[k].crowded => k = m
  <2>1. \A k \in Ids' : Stays(k)
    BY DEF Stays
  <2>2. \A k \in Ids : Waiting(k) => k \in Ids' /\ messages'[k].at = "waits"
    BY DEF Waiting
  <2>3. \A k \in Ids : ~messages[k].crowded => k = m
    BY <1>1 DEF Alone
  <2> QED
    BY <2>1, <2>2, <2>3 DEF Waiting
<1>4. PICK n : n = Len(posted)
  OBVIOUS
<1>5. posted \in Seq(SmsSignals)
  BY <1>1 DEF SmsTypes
<1>6. n \in Nat /\ DOMAIN posted = 1..n
  BY <1>4, <1>5, LenProperties
<1>7. /\ posted' \in Seq(SmsSignals)
      /\ \A i \in DOMAIN posted' :
            \/ i \in 1..n /\ posted'[i] = posted[i]
            \/ /\ posted'[i].what = "report"
               /\ ~posted'[i].report.crowded => posted'[i].report.how = posted'[i].report.asked
  <2>1. CASE posted' = posted
    BY <1>5, <1>6, <2>1
  <2>2. CASE posted' # posted
    <3>1. PICK r \in SmsReports : /\ ~r.crowded => r.how = r.asked
                                 /\ posted' = Append(posted, [what |-> "report", report |-> r])
      BY <2>2
    <3>2. PICK x : x = [what |-> "report", report |-> r]
      OBVIOUS
    <3>3. x \in SmsSignals /\ x.what = "report" /\ x.report = r
      BY <3>2 DEF SmsSignals
    <3>4. /\ posted' \in Seq(SmsSignals) /\ DOMAIN posted' = 1..(n + 1)
          /\ \A i \in 1..n : posted'[i] = posted[i]
          /\ posted'[n + 1] = x
      BY <1>4, <1>5, <1>6, <3>1, <3>2, <3>3, Pushed
    <3>5. \A i \in 1..(n + 1) : i \in 1..n \/ i = n + 1
      BY <1>6
    <3> QED
      BY <3>1, <3>3, <3>4, <3>5
  <2> QED
    BY <2>1, <2>2
<1>8. \A i \in OnItsWay' : i \in OnItsWay /\ posted'[i] = posted[i]
  BY <1>6, <1>7 DEF OnItsWay
<1>9. SmsTypes' /\ FormsFit'
  BY <1>1, <1>2, <1>7 DEF SmsTypes, SmsInv, FormsFit
<1>10. SentAsTitled'
  BY <1>3 DEF SmsInv, SentAsTitled, Stays
<1>11. Alone'
  <2>1. ASSUME NEW k \in Ids', ~messages'[k].crowded
        PROVE  Ids' = {k} /\ method' = messages'[k].asked
    <3>1. k \in Ids /\ ~messages[k].crowded /\ messages'[k].asked = messages[k].asked
      BY <1>3, <2>1 DEF Stays
    <3>2. Ids = {k} /\ method = messages[k].asked
      BY <1>1, <3>1 DEF Alone
    <3> QED
      BY <1>2, <2>1, <3>1, <3>2
  <2> QED
    BY <2>1 DEF Alone
<1>12. OneDialog'
  BY <1>1, <1>2, <1>3, <1>8 DEF OneDialog, Waiting
<1>13. Pictured'
  <2>1. ASSUME NEW k \in Ids', messages'[k].at = "asks", ~messages'[k].crowded
        PROVE  picture' = k
    <3>1. k = m
      BY <1>3, <2>1 DEF Stays
    <3> QED
      BY <1>3, <2>1, <3>1 DEF SmsInv, Pictured, Stays
  <2>2. ASSUME NEW i \in OnItsWay', ~messages'[posted'[i].msg].crowded
        PROVE  FALSE
    <3>1. i \in OnItsWay /\ Waiting(posted[i].msg) /\ posted'[i] = posted[i]
      BY <1>1, <1>8 DEF OneDialog
    <3>2. posted[i].msg \in Ids' /\ posted[i].msg # m
      BY <1>3, <3>1 DEF Waiting
    <3> QED
      BY <1>3, <2>2, <3>1, <3>2 DEF Stays
  <2> QED
    BY <2>1, <2>2 DEF Pictured
<1>14. Reported'
  BY <1>6, <1>7 DEF SmsInv, Reported
<1>15. AnswerFits'
  <2>1. ASSUME NEW t \in tokens, ~messages'[t.msg].crowded
        PROVE  t.shown = t.msg
    <3>1. Waiting(t.msg)
      BY <1>1 DEF OneDialog
    <3>2. t.msg \in Ids'
      BY <1>3, <3>1 DEF Waiting
    <3> QED
      BY <1>3, <2>1, <3>2 DEF SmsInv, AnswerFits, Stays
  <2>2. \A r \in reports : ~r.crowded => r.how = r.asked
    BY DEF SmsInv, AnswerFits
  <2> QED
    BY <1>2, <2>1, <2>2 DEF AnswerFits
<1> QED
  BY <1>9, <1>10, <1>11, <1>12, <1>13, <1>14, <1>15 DEF SmsInv

LEMMA OverNow ==
    ASSUME SmsTypes, NEW m \in Ids, Over(m)
    PROVE  /\ Ids' = Ids \ {m} /\ messages' \in [Ids' -> SmsMessages]
           /\ \A k \in Ids \ {m} : messages'[k] = messages[k]
<1>1. Ids' = Ids \ {m} /\ \A k \in Ids \ {m} : messages'[k] = messages[k]
  BY DEF Over, Ids
<1>2. messages' = [k \in Ids' |-> messages[k]] /\ \A k \in Ids' : messages[k] \in SmsMessages
  BY <1>1 DEF Over, SmsTypes
<1>3. messages' \in [Ids' -> SmsMessages]
  BY <1>2
<1> QED
  BY <1>1, <1>3

LEMMA Saying ==
    ASSUME SmsInv, NEW m \in Ids, ~Waiting(m), OnlyThreads, Says(m)
    PROVE  SmsInv'
<1>1. SmsTypes /\ Over(m)
  BY DEF SmsInv, Says
<1>2. /\ Ids' = Ids \ {m} /\ messages' \in [Ids' -> SmsMessages]
      /\ \A k \in Ids \ {m} : messages'[k] = messages[k]
  BY <1>1, OverNow
<1>3. PICK r : r = [how |-> method, asked |-> messages[m].asked, crowded |-> messages[m].crowded]
  OBVIOUS
<1>4. r \in SmsReports /\ r.crowded = messages[m].crowded /\ r.how = method /\ r.asked = messages[m].asked
  <2>1. messages[m] \in SmsMessages /\ method \in {"none", "popup", "chat"}
    BY <1>1 DEF SmsTypes
  <2>2. messages[m].asked \in {"popup", "chat"} /\ messages[m].crowded \in BOOLEAN
    BY <2>1 DEF SmsMessages
  <2> QED
    BY <1>3, <2>1, <2>2 DEF SmsReports
<1>5. ~r.crowded => r.how = r.asked
  BY <1>4 DEF SmsInv, Alone
<1>6. posted' = Append(posted, [what |-> "report", report |-> r])
  BY <1>3 DEF Says
<1> QED
  BY <1>2, <1>4, <1>5, <1>6, Proceeds DEF OnlyThreads

LEMMA Stopping ==
    ASSUME SmsInv, NEW m \in Ids, ~Waiting(m), OnlyThreads, Silently(m)
    PROVE  SmsInv'
<1>1. SmsTypes /\ Over(m) /\ posted' = posted
  BY DEF SmsInv, Silently
<1>2. /\ Ids' = Ids \ {m} /\ messages' \in [Ids' -> SmsMessages]
      /\ \A k \in Ids \ {m} : messages'[k] = messages[k]
  BY <1>1, OverNow
<1> QED
  BY <1>1, <1>2, Proceeds DEF OnlyThreads

LEMMA Moving ==
    ASSUME SmsInv, NEW m \in Ids, ~Waiting(m), OnlyThreads, posted' = posted,
           NEW s \in SmsStages, NEW n \in Nat, Set(m, s, n), s # "waits",
           s = "asks" => picture' = m \/ (messages[m].at = "asks" /\ picture' = picture)
    PROVE  SmsInv'
<1>1. SmsTypes
  BY DEF SmsInv
<1>2. /\ Ids' = Ids /\ Stays(m) /\ messages'[m].at = s
      /\ \A k \in Ids \ {m} : messages'[k] = messages[k]
      /\ messages' \in [Ids -> SmsMessages]
  BY <1>1, SetStays
<1> QED
  BY <1>2, Proceeds DEF OnlyThreads

LEMMA ThreadStep ==
    ASSUME SmsInv, NEW m \in Ids,
           Starts(m) \/ Sends(m) \/ Page(m) \/ Token(m) \/ Writes(m) \/ Removes(m) \/ Posts(m)
    PROVE  SmsInv'
<1>1. OnlyThreads /\ ~Waiting(m)
  BY DEF Starts, Sends, Page, Token, Writes, Removes, Posts, Waiting
<1>2. /\ messages[m].left \in Nat /\ messages[m].at \in SmsStages /\ Tries \in Nat
      /\ messages[m].left > 1 => messages[m].left - 1 \in Nat
  <2>1. messages[m] \in SmsMessages
    BY DEF SmsInv, SmsTypes
  <2>2. messages[m].left \in Nat /\ messages[m].at \in SmsStages
    BY <2>1 DEF SmsMessages
  <2> QED
    BY <2>2, SmsAssumption
<1>3. ASSUME NEW s \in {"page", "sends", "token", "writes", "posts"}, NEW n \in {messages[m].left, Tries},
             Set(m, s, n), posted' = posted
      PROVE  SmsInv'
  <2>1. s \in SmsStages /\ s # "waits" /\ s # "asks" /\ n \in Nat
    BY <1>2 DEF SmsStages
  <2> QED
    BY <1>1, <1>3, <2>1, Moving
<1>4. ASSUME Reaches(m, "asks"), picture' = m, posted' = posted
      PROVE  SmsInv'
  <2>1. "asks" \in SmsStages /\ "asks" # "waits" /\ Set(m, "asks", messages[m].left)
    BY <1>4 DEF Reaches, SmsStages
  <2> QED
    BY <1>1, <1>2, <1>4, <2>1, Moving
<1>5. ASSUME AsksAgain(m), messages[m].at # "asks"
      PROVE  SmsInv'
  <2>1. /\ Set(m, messages[m].at, messages[m].left - 1) /\ posted' = posted
        /\ messages[m].left - 1 \in Nat /\ messages[m].at # "waits"
    BY <1>1, <1>2, <1>5 DEF AsksAgain, Waiting
  <2> QED
    BY <1>1, <1>2, <1>5, <2>1, Moving
<1>6. ASSUME Says(m) \/ Silently(m)
      PROVE  SmsInv'
  BY <1>1, <1>6, Saying, Stopping
<1>7. CASE Starts(m)
  <2>1. \/ Says(m) \/ Silently(m)
        \/ (Set(m, "page", messages[m].left) /\ posted' = posted)
        \/ (Set(m, "sends", messages[m].left) /\ posted' = posted)
    BY <1>7 DEF Starts, Reaches
  <2> QED
    BY <1>3, <1>6, <2>1
<1>8. CASE Sends(m)
  BY <1>6, <1>8 DEF Sends
<1>9. CASE Page(m)
  <2>1. \/ Says(m) \/ (AsksAgain(m) /\ messages[m].at # "asks")
        \/ (Set(m, "token", Tries) /\ posted' = posted)
    BY <1>9 DEF Page
  <2> QED
    BY <1>3, <1>5, <1>6, <2>1
<1>10. CASE Token(m)
  <2>1. \/ Says(m) \/ (AsksAgain(m) /\ messages[m].at # "asks")
        \/ (Set(m, "writes", messages[m].left) /\ posted' = posted)
    BY <1>10 DEF Token, Reaches
  <2> QED
    BY <1>3, <1>5, <1>6, <2>1
<1>11. CASE Writes(m)
  <2>1. Says(m) \/ (Reaches(m, "asks") /\ picture' = m /\ posted' = posted)
    BY <1>11 DEF Writes
  <2> QED
    BY <1>4, <1>6, <2>1
<1>12. CASE Removes(m)
  <2>1. Says(m) \/ (Set(m, "posts", Tries) /\ posted' = posted)
    BY <1>12 DEF Removes
  <2> QED
    BY <1>3, <1>6, <2>1
<1>13. CASE Posts(m)
  <2>1. Says(m) \/ Silently(m) \/ (AsksAgain(m) /\ messages[m].at # "asks")
    BY <1>13 DEF Posts
  <2> QED
    BY <1>5, <1>6, <2>1
<1> QED
  BY <1>7, <1>8, <1>9, <1>10, <1>11, <1>12, <1>13

(* The dialog for a token is sent for.                                     *)
LEMMA AskingStep ==
    ASSUME SmsInv, NEW m \in Ids, Asks(m)
    PROVE  SmsInv'
<1>1. SmsTypes /\ OneDialog /\ Pictured
  BY DEF SmsInv
<1>2. /\ UNCHANGED <<number, external, method, forms, sent, reports, tokens, picture>>
      /\ messages[m].at = "asks" /\ Set(m, "waits", messages[m].left)
      /\ posted' = Append(posted, [what |-> "token", msg |-> m])
  BY DEF Asks, OnlyThreads, Reaches
<1>3. messages[m].left \in Nat /\ "waits" \in SmsStages /\ m \in Nat
  BY <1>1 DEF SmsTypes, SmsMessages, SmsStages
<1>4. /\ Ids' = Ids /\ Stays(m) /\ messages'[m].at = "waits"
      /\ \A k \in Ids \ {m} : messages'[k] = messages[k]
      /\ messages' \in [Ids -> SmsMessages]
  BY <1>1, <1>2, <1>3, SetStays
<1>5. \A k \in Ids : Stays(k)
  BY <1>4 DEF Stays
<1>6. \A k : Waiting(k)' <=> Waiting(k) \/ k = m
  BY <1>4 DEF Waiting
<1>7. ~Waiting(m)
  BY <1>2 DEF Waiting
<1>8. PICK n, x : n = Len(posted) /\ x = [what |-> "token", msg |-> m]
  OBVIOUS
<1>9. posted \in Seq(SmsSignals) /\ x \in SmsSignals /\ x.what = "token" /\ x.msg = m
  BY <1>1, <1>3, <1>8 DEF SmsTypes, SmsSignals
<1>10. /\ posted' \in Seq(SmsSignals) /\ DOMAIN posted' = 1..(n + 1) /\ DOMAIN posted = 1..n /\ n \in Nat
       /\ \A i \in 1..n : posted'[i] = posted[i]
       /\ posted'[n + 1] = x
  BY <1>2, <1>8, <1>9, Pushed
<1>11. \A i \in DOMAIN posted' : \/ i \in DOMAIN posted /\ posted'[i] = posted[i]
                                 \/ i = n + 1 /\ posted'[i] = x
  BY <1>10
<1>12. \A i \in OnItsWay' : \/ i \in OnItsWay /\ posted'[i] = posted[i] /\ posted[i].msg # m
                            \/ i = n + 1 /\ posted'[i].msg = m
  BY <1>1, <1>7, <1>9, <1>11 DEF OnItsWay, OneDialog
<1>13. SmsTypes' /\ FormsFit'
  BY <1>1, <1>2, <1>4, <1>10 DEF SmsTypes, SmsInv, FormsFit
<1>14. SentAsTitled'
  BY <1>4, <1>5 DEF SmsInv, SentAsTitled, Stays
<1>15. Alone'
  BY <1>2, <1>4, <1>5 DEF SmsInv, Alone, Stays
<1>16. OneDialog'
  <2>1. \A t \in tokens : Waiting(t.msg)' /\ t.msg # m
    BY <1>1, <1>6, <1>7 DEF OneDialog
  <2>2. \A i \in OnItsWay' : posted'[i].msg \in Ids' /\ messages'[posted'[i].msg].at = "waits"
    <3>1. \A k : Waiting(k) \/ k = m => k \in Ids' /\ messages'[k].at = "waits"
      BY <1>6 DEF Waiting
    <3>2. \A i \in OnItsWay : Waiting(posted[i].msg)
      BY <1>1 DEF OneDialog
    <3> QED
      BY <1>12, <3>1, <3>2
  <2>3. \A t, u \in tokens : t.msg = u.msg => t = u
    BY <1>1 DEF OneDialog
  <2>4. \A i, j \in OnItsWay' : posted'[i].msg = posted'[j].msg => i = j
    BY <1>1, <1>12 DEF OneDialog
  <2>5. \A t \in tokens, i \in OnItsWay' : t.msg # posted'[i].msg
    BY <1>1, <1>12, <2>1 DEF OneDialog
  <2> QED
    BY <1>2, <2>1, <2>2, <2>3, <2>4, <2>5 DEF OneDialog, Waiting
<1>17. Pictured'
  <2>1. \A k \in Ids' : messages'[k].at = "asks" /\ ~messages'[k].crowded => picture' = k
    BY <1>1, <1>2, <1>4 DEF Pictured
  <2>2. ASSUME NEW i \in OnItsWay', ~messages'[posted'[i].msg].crowded
        PROVE  picture' = posted'[i].msg
    <3>1. CASE i \in OnItsWay /\ posted'[i] = posted[i] /\ posted[i].msg # m
      <4>1. posted[i].msg \in Ids
        BY <1>1, <3>1 DEF OneDialog, Waiting
      <4> QED
        BY <1>1, <1>2, <1>4, <2>2, <3>1, <4>1 DEF Pictured
    <3>2. CASE posted'[i].msg = m
      BY <1>1, <1>2, <1>4, <2>2, <3>2 DEF Pictured, Stays
    <3> QED
      BY <1>12, <3>1, <3>2
  <2> QED
    BY <2>1, <2>2 DEF Pictured
<1>18. Reported'
  BY <1>9, <1>11 DEF SmsInv, Reported
<1>19. AnswerFits'
  <2>1. \A t \in tokens : t.msg \in Ids
    BY <1>1 DEF OneDialog, Waiting
  <2> QED
    BY <1>2, <1>5, <2>1 DEF SmsInv, AnswerFits, Stays
<1> QED
  BY <1>13, <1>14, <1>15, <1>16, <1>17, <1>18, <1>19 DEF SmsInv

(* The dialog for a token is answered, or cancelled.                       *)
LEMMA TokenStep ==
    ASSUME SmsInv, NEW t \in tokens, AnswerToken(t) \/ CancelToken(t)
    PROVE  SmsInv'
<1>1. SmsTypes /\ OneDialog /\ Pictured /\ Alone
  BY DEF SmsInv
<1>2. /\ UNCHANGED <<number, external, method, forms, sent, picture, posted, reports>>
      /\ tokens' = tokens \ {t}
  BY DEF AnswerToken, CancelToken
<1>3. PICK m : m = t.msg
  OBVIOUS
<1>4. m \in Ids /\ messages[m].left \in Nat
  BY <1>1, <1>3 DEF OneDialog, Waiting, SmsTypes, SmsMessages
<1>5. /\ Ids' \subseteq Ids /\ Ids \ {m} \subseteq Ids' /\ messages' \in [Ids' -> SmsMessages]
      /\ \A k \in Ids \ {m} : messages'[k] = messages[k]
      /\ m \in Ids' => Stays(m) /\ messages'[m].at # "asks"
  <2>1. CASE AnswerToken(t)
    <3>1. PICK next \in {"removes", "complains"} : Set(m, next, messages[m].left)
      BY <1>3, <2>1 DEF AnswerToken, Reaches
    <3>2. next \in SmsStages /\ next # "asks"
      BY DEF SmsStages
    <3>3. /\ Ids' = Ids /\ Stays(m) /\ messages'[m].at = next
          /\ \A k \in Ids \ {m} : messages'[k] = messages[k]
          /\ messages' \in [Ids -> SmsMessages]
      BY <1>1, <1>4, <3>1, <3>2, SetStays
    <3> QED
      BY <3>2, <3>3
  <2>2. CASE CancelToken(t)
    <3>1. /\ Ids' = Ids \ {m} /\ messages' \in [Ids' -> SmsMessages]
          /\ \A k \in Ids \ {m} : messages'[k] = messages[k]
      BY <1>1, <1>3, <1>4, <2>2, OverNow DEF CancelToken
    <3> QED
      BY <3>1
  <2> QED
    BY <2>1, <2>2
<1>6. \A k \in Ids' : k \in Ids /\ Stays(k)
  BY <1>5 DEF Stays
<1>7. \A k : Waiting(k) /\ k # m => Waiting(k)'
  BY <1>5 DEF Waiting
<1>8. \A u \in tokens' : u \in tokens /\ u.msg # m
  BY <1>1, <1>2, <1>3 DEF OneDialog
<1>9. \A i \in OnItsWay : posted[i].msg # m
  BY <1>1, <1>3 DEF OneDialog
<1>10. OnItsWay' = OnItsWay
  BY <1>2 DEF OnItsWay
<1>11. SmsTypes' /\ FormsFit' /\ Reported'
  BY <1>1, <1>2, <1>5 DEF SmsTypes, SmsInv, FormsFit, Reported
<1>12. SentAsTitled'
  BY <1>6 DEF SmsInv, SentAsTitled, Stays
<1>13. Alone'
  <2>1. ASSUME NEW k \in Ids', ~messages'[k].crowded
        PROVE  Ids' = {k} /\ method' = messages'[k].asked
    <3>1. k \in Ids /\ ~messages[k].crowded /\ messages'[k].asked = messages[k].asked
      BY <1>6, <2>1 DEF Stays
    <3>2. Ids = {k} /\ method = messages[k].asked
      BY <1>1, <3>1 DEF Alone
    <3> QED
      BY <1>2, <1>5, <2>1, <3>1, <3>2
  <2> QED
    BY <2>1 DEF Alone
<1>14. OneDialog'
  BY <1>1, <1>2, <1>7, <1>8, <1>9, <1>10 DEF OneDialog
<1>15. Pictured'
  <2>1. \A k \in Ids' : messages'[k].at = "asks" /\ ~messages'[k].crowded => picture' = k
    BY <1>1, <1>2, <1>5 DEF Pictured
  <2>2. ASSUME NEW i \in OnItsWay, ~messages'[posted[i].msg].crowded
        PROVE  picture = posted[i].msg
    <3>1. posted[i].msg \in Ids \ {m}
      BY <1>1, <1>9 DEF OneDialog, Waiting
    <3> QED
      BY <1>1, <1>5, <2>2, <3>1 DEF Pictured
  <2> QED
    BY <1>2, <1>10, <2>1, <2>2 DEF Pictured
<1>16. AnswerFits'
  <2>1. \A u \in tokens' : u \in tokens /\ messages'[u.msg] = messages[u.msg]
    BY <1>1, <1>5, <1>8 DEF OneDialog, Waiting
  <2> QED
    BY <1>2, <2>1 DEF SmsInv, AnswerFits
<1> QED
  BY <1>11, <1>12, <1>13, <1>14, <1>15, <1>16 DEF SmsInv

(* The GUI shows what was sent first.                                      *)
LEMMA ShowsStep ==
    ASSUME SmsInv, Shows
    PROVE  SmsInv'
<1>1. SmsTypes /\ OneDialog /\ Pictured
  BY DEF SmsInv
<1>2. /\ UNCHANGED <<number, external, method, forms, sent, messages, picture>>
      /\ posted # <<>> /\ posted' = Tail(posted)
  BY DEF Shows
<1>3. PICK n, s : n = Len(posted) /\ s = Head(posted)
  OBVIOUS
<1>4. posted \in Seq(SmsSignals)
  BY <1>1 DEF SmsTypes
<1>5. /\ posted' \in Seq(SmsSignals) /\ DOMAIN posted' = 1..(n - 1) /\ DOMAIN posted = 1..n
      /\ n \in Nat /\ 1 \in 1..n /\ s = posted[1] /\ s \in SmsSignals
      /\ \A i \in 1..(n - 1) : posted'[i] = posted[i + 1] /\ i + 1 \in 1..n /\ i + 1 # 1
  <2>1. /\ Tail(posted) \in Seq(SmsSignals) /\ Head(posted) \in SmsSignals
        /\ Len(Tail(posted)) = n - 1 /\ \A i \in 1..(n - 1) : Tail(posted)[i] = posted[i + 1]
    BY <1>2, <1>3, <1>4, HeadTailProperties
  <2>2. n \in Nat /\ DOMAIN posted = 1..n /\ DOMAIN Tail(posted) = 1..(n - 1) /\ n # 0
    BY <1>2, <1>3, <1>4, <2>1, LenProperties, EmptySeq
  <2>3. s = posted[1]
    BY <1>2, <1>3, <1>4
  <2>4. \A i \in 1..(n - 1) : i + 1 \in 1..n /\ i + 1 # 1
    BY <2>2
  <2>5. 1 \in 1..n
    BY <2>2
  <2> QED
    BY <1>2, <1>3, <2>1, <2>2, <2>3, <2>4, <2>5
<1>6. \A i \in OnItsWay' : i + 1 \in OnItsWay \ {1} /\ posted'[i] = posted[i + 1]
  BY <1>5 DEF OnItsWay
<1>7. \A i, j \in OnItsWay' : i + 1 = j + 1 => i = j
  BY <1>5 DEF OnItsWay
<1>8. \A k : Waiting(k)' <=> Waiting(k)
  BY <1>2 DEF Waiting, Ids
<1>9. Ids' = Ids
  BY <1>2 DEF Ids
<1>10. SmsTypes' /\ FormsFit' /\ SentAsTitled' /\ Alone'
  BY <1>1, <1>2, <1>5, <1>9 DEF SmsTypes, SmsInv, FormsFit, SentAsTitled, Alone
<1>11. Pictured' /\ Reported'
  <2>1. \A k \in Ids' : messages'[k].at = "asks" /\ ~messages'[k].crowded => picture' = k
    BY <1>1, <1>2, <1>9 DEF Pictured
  <2>2. \A i \in OnItsWay' : ~messages'[posted'[i].msg].crowded => picture' = posted'[i].msg
    BY <1>1, <1>2, <1>6 DEF Pictured
  <2>3. Reported'
    BY <1>5 DEF SmsInv, Reported
  <2> QED
    BY <2>1, <2>2, <2>3 DEF Pictured
<1>12. ASSUME tokens' = tokens
       PROVE  OneDialog'
  BY <1>1, <1>6, <1>7, <1>8, <1>12 DEF OneDialog, Waiting
<1>13. CASE s.what = "token"
  <2>1. PICK u : u = [msg |-> s.msg, shown |-> picture]
    OBVIOUS
  <2>2. u.msg = s.msg /\ u.shown = picture /\ tokens' = tokens \cup {u} /\ reports' = reports
    BY <1>3, <1>13, <2>1 DEF Shows
  <2>3. 1 \in OnItsWay /\ Waiting(s.msg)
    BY <1>1, <1>5, <1>13 DEF OnItsWay, OneDialog
  <2>4. \A t \in tokens : t.msg # s.msg
    BY <1>1, <1>5, <2>3 DEF OneDialog
  <2>5. \A i \in OnItsWay' : posted'[i].msg # s.msg
    BY <1>1, <1>5, <1>6, <2>3 DEF OneDialog
  <2>6. OneDialog'
    <3>1. \A t \in tokens' : Waiting(t.msg)'
      BY <1>1, <1>8, <2>2, <2>3 DEF OneDialog
    <3>2. \A i \in OnItsWay' : posted'[i].msg \in Ids' /\ messages'[posted'[i].msg].at = "waits"
      BY <1>1, <1>2, <1>6, <1>9 DEF OneDialog, Waiting
    <3>3. \A t, v \in tokens' : t.msg = v.msg => t = v
      BY <1>1, <2>2, <2>4 DEF OneDialog
    <3>4. \A i, j \in OnItsWay' : posted'[i].msg = posted'[j].msg => i = j
      BY <1>1, <1>6, <1>7 DEF OneDialog
    <3>5. \A t \in tokens', i \in OnItsWay' : t.msg # posted'[i].msg
      BY <1>1, <1>6, <2>2, <2>5 DEF OneDialog
    <3> QED
      BY <3>1, <3>2, <3>3, <3>4, <3>5 DEF OneDialog, Waiting
  <2>7. ~messages[s.msg].crowded => picture = s.msg
    BY <1>1, <1>5, <2>3 DEF Pictured
  <2>8. AnswerFits'
    BY <1>2, <2>2, <2>7 DEF SmsInv, AnswerFits
  <2> QED
    BY <1>10, <1>11, <2>6, <2>8 DEF SmsInv
<1>14. CASE s.what # "token"
  <2>1. tokens' = tokens /\ reports' = reports \cup {s.report}
    BY <1>3, <1>14 DEF Shows
  <2>2. s.what = "report"
    BY <1>5, <1>14 DEF SmsSignals
  <2>3. ~s.report.crowded => s.report.how = s.report.asked
    BY <1>5, <2>2 DEF SmsInv, Reported
  <2>4. AnswerFits'
    BY <1>2, <2>1, <2>3 DEF SmsInv, AnswerFits
  <2> QED
    BY <1>10, <1>11, <1>12, <2>1, <2>4 DEF SmsInv
<1> QED
  BY <1>13, <1>14

LEMMA Somebody == "" \in Whom /\ Numbers \subseteq Whom
  BY DEF Whom

(* Dialogs, those of one kind crossed, and without one of them.            *)
LEMMA FormsCrossed ==
    ASSUME NEW s \in Seq(SmsForms), NEW kind, NEW t, t = Crossed(s, kind)
    PROVE  /\ t \in Seq(SmsForms) /\ DOMAIN t = DOMAIN s
           /\ \A i \in DOMAIN s :
                 /\ t[i].kind = s[i].kind /\ t[i].to = s[i].to
                 /\ t[i].ext = s[i].ext
                 /\ ~t[i].crossed => ~s[i].crossed /\ s[i].kind # kind
<1>1. PICK n : n = Len(s)
  OBVIOUS
<1>2. n \in Nat /\ DOMAIN s = 1..n /\ \A i \in 1..n : s[i] \in SmsForms
  BY <1>1, LenProperties, ElementOfSeq
<1>3. ASSUME NEW i \in 1..n
      PROVE  /\ t[i] \in SmsForms
             /\ t[i].kind = s[i].kind /\ t[i].to = s[i].to /\ t[i].ext = s[i].ext
             /\ ~t[i].crossed => ~s[i].crossed /\ s[i].kind # kind
  <2>1. PICK f, g : f = s[i] /\ g = t[i]
    OBVIOUS
  <2>2. g = [f EXCEPT !.crossed = @ \/ f.kind = kind]
    BY <1>1, <1>2, <2>1 DEF Crossed
  <2>3. f \in SmsForms
    BY <1>2, <2>1
  <2>4. PICK y \in BOOLEAN : y <=> f.crossed \/ f.kind = kind
    OBVIOUS
  <2>5. g = [f EXCEPT !.crossed = y]
    BY <2>2, <2>4
  <2>6. g \in SmsForms /\ g.kind = f.kind /\ g.to = f.to /\ g.ext = f.ext /\ g.crossed = y
    BY <2>3, <2>5 DEF SmsForms
  <2> QED
    BY <2>1, <2>4, <2>6
<1>4. DOMAIN t = 1..n /\ t = [i \in 1..n |-> t[i]]
  BY <1>1, <1>2 DEF Crossed
<1>5. \A i \in 1..n : t[i] \in SmsForms
  BY <1>3
<1>6. t \in Seq(SmsForms)
  BY <1>2, <1>4, <1>5, IsASeq
<1> QED
  BY <1>1, <1>2, <1>3, <1>4, <1>6

LEMMA FormsLeft ==
    ASSUME forms \in Seq(SmsForms), NEW i \in DOMAIN forms
    PROVE  /\ Without(i) \in Seq(SmsForms)
           /\ \A j \in DOMAIN Without(i) : \E k \in DOMAIN forms : Without(i)[j] = forms[k]
<1>1. PICK n : n = Len(forms)
  OBVIOUS
<1>2. n \in Nat /\ DOMAIN forms = 1..n /\ \A k \in 1..n : forms[k] \in SmsForms
  BY <1>1, LenProperties, ElementOfSeq
<1>3. n - 1 \in Nat
  BY <1>2
<1>4. \A j \in 1..(n - 1) : j \in 1..n /\ j + 1 \in 1..n
  BY <1>2
<1>5. PICK w : w = Without(i)
  OBVIOUS
<1>6. w = [j \in 1..(n - 1) |-> forms[IF j < i THEN j ELSE j + 1]]
  BY <1>1, <1>5 DEF Without
<1>7. \A j \in 1..(n - 1) : \E k \in 1..n : w[j] = forms[k]
  BY <1>4, <1>6
<1>8. \A j \in 1..(n - 1) : w[j] \in SmsForms
  BY <1>2, <1>7
<1>9. DOMAIN w = 1..(n - 1) /\ w = [j \in 1..(n - 1) |-> w[j]]
  BY <1>6
<1>10. w \in Seq(SmsForms)
  BY <1>3, <1>8, <1>9, IsASeq
<1> QED
  BY <1>2, <1>5, <1>7, <1>9, <1>10

LEMMA NextNumber == \A n \in Nat : n + 1 \in Nat
  OBVIOUS

LEMMA LastOrBefore == \A n \in Nat : \A i \in 1..(n + 1) : i \in 1..n \/ i = n + 1
  OBVIOUS

(* There is a new message, or only the preferences are shown.              *)
LEMMA MessageStep ==
    ASSUME SmsInv, forms' \in Seq(SmsForms), FormsFit',
           number' \in Whom, external' \in BOOLEAN,
           UNCHANGED <<picture, posted, reports, tokens>>,
           NEW to \in Whom, NEW ext \in BOOLEAN, NEW num \in Whom,
           NEW way \in BOOLEAN, NEW how \in {"popup", "chat"}, NEW crossed \in BOOLEAN,
           ~crossed => num = to /\ way = ext,
           \/ NewMessage(to, ext, num, way, how, crossed)
           \/ method' = how /\ messages' = CrowdedNow /\ sent' = sent
    PROVE  SmsInv'
<1>1. SmsTypes /\ OneDialog /\ Pictured
  BY DEF SmsInv
<1>2. method' = how /\ sent' \in Nat
  <2>1. sent \in Nat
    BY <1>1 DEF SmsTypes
  <2>2. method' = how
    BY DEF NewMessage
  <2>3. sent' = sent \/ sent' = sent + 1
    BY DEF NewMessage, Created
  <2>4. sent' \in Nat
    BY <2>1, <2>3, NextNumber
  <2> QED
    BY <2>2, <2>4
<1>3. PICK old : old = CrowdedNow
  OBVIOUS
<1>4. /\ old \in [Ids -> SmsMessages]
      /\ \A k \in Ids : /\ old[k].to = messages[k].to /\ old[k].number = messages[k].number
                        /\ old[k].ext = messages[k].ext /\ old[k].external = messages[k].external
                        /\ old[k].crossed = messages[k].crossed /\ old[k].at = messages[k].at
                        /\ old[k].crowded = TRUE
  <2>1. old = [k \in Ids |-> [messages[k] EXCEPT !.crowded = TRUE]]
    BY <1>3 DEF CrowdedNow
  <2>2. ASSUME NEW k \in Ids
        PROVE  /\ old[k] \in SmsMessages
               /\ old[k].to = messages[k].to /\ old[k].number = messages[k].number
               /\ old[k].ext = messages[k].ext /\ old[k].external = messages[k].external
               /\ old[k].crossed = messages[k].crossed /\ old[k].at = messages[k].at
               /\ old[k].crowded = TRUE
    <3>1. PICK r : r = messages[k]
      OBVIOUS
    <3>2. r \in SmsMessages /\ old[k] = [r EXCEPT !.crowded = TRUE]
      BY <1>1, <2>1, <3>1 DEF SmsTypes
    <3> QED
      BY <3>1, <3>2 DEF SmsMessages
  <2> QED
    BY <2>1, <2>2
<1>5. PICK r : r = [to |-> to, ext |-> ext, number |-> num, external |-> way, asked |-> how,
                    crossed |-> crossed, crowded |-> Ids # {}, at |-> "starts", left |-> Tries]
  OBVIOUS
<1>6. /\ r \in SmsMessages /\ r.at = "starts" /\ r.asked = how
      /\ ~r.crossed => r.number = r.to /\ r.external = r.ext
      /\ ~r.crowded => Ids = {}
  <2>1. PICK y \in BOOLEAN : y <=> Ids # {}
    OBVIOUS
  <2>2. r = [to |-> to, ext |-> ext, number |-> num, external |-> way, asked |-> how,
             crossed |-> crossed, crowded |-> y, at |-> "starts", left |-> Tries]
    BY <1>5, <2>1
  <2>3. Tries \in Nat
    BY SmsAssumption
  <2> QED
    BY <2>1, <2>2, <2>3 DEF SmsMessages, SmsStages
<1>7. PICK new : /\ new \subseteq Nat \ Ids /\ (new = {} \/ \E k : new = {k})
                 /\ messages' = [k \in Ids \cup new |-> IF k \in Ids THEN old[k] ELSE r]
  <2>1. CASE NewMessage(to, ext, num, way, how, crossed)
    <3>1. messages' = [k \in Ids \cup {sent'} |-> IF k \in Ids THEN old[k] ELSE r]
      BY <1>3, <1>5, <2>1 DEF NewMessage, Created
    <3>2. CASE sent' \in Ids
      <4>1. Ids \cup {sent'} = Ids \cup {}
        BY <3>2
      <4> QED
        BY <3>1, <4>1
    <3>3. CASE sent' \notin Ids
      <4>1. {sent'} \subseteq Nat \ Ids
        BY <1>2, <3>3
      <4> QED
        BY <3>1, <4>1
    <3> QED
      BY <3>2, <3>3
  <2>2. CASE messages' = CrowdedNow
    <3>1. messages' = [k \in Ids \cup {} |-> IF k \in Ids THEN old[k] ELSE r]
      BY <1>3, <1>4, <2>2
    <3> QED
      BY <3>1
  <2> QED
    BY <2>1, <2>2
<1>8. /\ Ids' = Ids \cup new /\ messages' \in [Ids' -> SmsMessages] /\ Ids' \subseteq Nat
      /\ \A k \in Ids : messages'[k] = old[k]
      /\ \A k \in Ids' : k \in Ids \/ (k \in new /\ messages'[k] = r)
  BY <1>1, <1>4, <1>6, <1>7 DEF Ids, SmsTypes
<1>9. SmsTypes' /\ FormsFit'
  BY <1>1, <1>2, <1>8 DEF SmsTypes
<1>10. SentAsTitled'
  <2>1. ASSUME NEW k \in Ids', ~messages'[k].crossed
        PROVE  messages'[k].number = messages'[k].to /\ messages'[k].external = messages'[k].ext
    <3>1. CASE k \in Ids
      <4>1. PICK q : q = messages'[k]
        OBVIOUS
      <4>2. /\ q.to = messages[k].to /\ q.number = messages[k].number /\ q.ext = messages[k].ext
            /\ q.external = messages[k].external /\ q.crossed = messages[k].crossed
        BY <1>4, <1>8, <3>1, <4>1
      <4>3. ~messages[k].crossed
        BY <2>1, <4>1, <4>2
      <4>4. messages[k].number = messages[k].to /\ messages[k].external = messages[k].ext
        BY <3>1, <4>3 DEF SmsInv, SentAsTitled
      <4> QED
        BY <4>1, <4>2, <4>4
    <3>2. CASE messages'[k] = r
      BY <1>6, <2>1, <3>2
    <3> QED
      BY <1>8, <3>1, <3>2
  <2> QED
    BY <2>1 DEF SentAsTitled
<1>11. Alone'
  <2>1. ASSUME NEW k \in Ids', ~messages'[k].crowded
        PROVE  Ids' = {k} /\ method' = messages'[k].asked
    <3>1. k \in new /\ messages'[k] = r
      BY <1>4, <1>8, <2>1
    <3>2. Ids = {} /\ new = {k}
      BY <1>6, <1>7, <2>1, <3>1
    <3> QED
      BY <1>2, <1>6, <1>8, <3>1, <3>2
  <2> QED
    BY <2>1 DEF Alone
<1>12. \A k : Waiting(k) => Waiting(k)' /\ messages'[k].crowded
  BY <1>4, <1>8 DEF Waiting
<1>13. OnItsWay' = OnItsWay
  BY DEF OnItsWay
<1>14. OneDialog'
  BY <1>1, <1>12, <1>13 DEF OneDialog
<1>15. Pictured'
  <2>1. \A k \in Ids' : messages'[k].at # "asks" \/ messages'[k].crowded
    BY <1>4, <1>6, <1>8
  <2>2. \A i \in OnItsWay : messages'[posted[i].msg].crowded
    BY <1>1, <1>12 DEF OneDialog
  <2> QED
    BY <1>13, <2>1, <2>2 DEF Pictured
<1>16. Reported'
  BY DEF SmsInv, Reported
<1>17. AnswerFits'
  <2>1. \A t \in tokens : messages'[t.msg].crowded
    BY <1>1, <1>12 DEF OneDialog
  <2> QED
    BY <2>1 DEF SmsInv, AnswerFits
<1> QED
  BY <1>9, <1>10, <1>11, <1>14, <1>15, <1>16, <1>17 DEF SmsInv

(* What the user does with dialogs that no message comes of.               *)
LEMMA DialogStep ==
    ASSUME SmsInv, forms' \in Seq(SmsForms), FormsFit',
           number' \in Whom, external' \in BOOLEAN,
           UNCHANGED <<method, sent, messages, picture, posted, reports, tokens>>
    PROVE  SmsInv'
<1>1. SmsTypes' /\ SentAsTitled' /\ Alone'
  BY DEF SmsInv, SmsTypes, SentAsTitled, Alone, Ids
<1>2. OneDialog' /\ Pictured' /\ Reported' /\ AnswerFits'
  BY DEF SmsInv, OneDialog, Pictured, Reported, AnswerFits, OnItsWay, Waiting, Ids
<1> QED
  BY <1>1, <1>2 DEF SmsInv

(* A dialog opens, and crosses those of its kind.                          *)
LEMMA OpensForm ==
    ASSUME forms \in Seq(SmsForms), FormsFit, NEW kind \in {"contact", "button"},
           NEW to \in Whom, NEW ext \in BOOLEAN,
           forms' = Append(Crossed(forms, kind), Form(kind, to, ext)),
           kind = "contact" => number' = to /\ external' = external,
           kind = "button" => external' = ext /\ number' = number
    PROVE  forms' \in Seq(SmsForms) /\ FormsFit'
<1>1. PICK x, c, n : x = Form(kind, to, ext) /\ c = Crossed(forms, kind) /\ n = Len(c)
  OBVIOUS
<1>2. x \in SmsForms /\ x.kind = kind /\ x.to = to /\ x.ext = ext
  BY <1>1 DEF Form, SmsForms
<1>3. forms' = Append(c, x)
  BY <1>1
<1>4. /\ c \in Seq(SmsForms) /\ DOMAIN c = DOMAIN forms
      /\ \A i \in DOMAIN forms :
            /\ c[i].kind = forms[i].kind /\ c[i].to = forms[i].to /\ c[i].ext = forms[i].ext
            /\ ~c[i].crossed => ~forms[i].crossed /\ forms[i].kind # kind
  BY <1>1, FormsCrossed
<1>5. /\ forms' \in Seq(SmsForms) /\ DOMAIN forms' = 1..(n + 1) /\ DOMAIN c = 1..n /\ n \in Nat
      /\ \A i \in 1..n : forms'[i] = c[i]
      /\ forms'[n + 1] = x
      /\ \A i \in 1..(n + 1) : i \in 1..n \/ i = n + 1
  BY <1>1, <1>2, <1>3, <1>4, LastOrBefore, Pushed
<1>6. ASSUME NEW i \in 1..(n + 1), ~forms'[i].crossed
      PROVE  /\ forms'[i].kind = "contact" => number' = forms'[i].to
             /\ forms'[i].kind = "button" => external' = forms'[i].ext
  <2>1. CASE i \in 1..n
    <3>1. PICK f \in {forms[i]} : f.kind # kind /\ f.kind = forms'[i].kind /\ f.to = forms'[i].to
                                  /\ f.ext = forms'[i].ext /\ ~f.crossed
      BY <1>4, <1>5, <1>6, <2>1
    <3>2. /\ f.kind = "contact" => number = f.to
          /\ f.kind = "button" => external = f.ext
      BY <1>4, <1>5, <2>1, <3>1 DEF FormsFit
    <3> QED
      BY <3>1, <3>2
  <2>2. CASE i = n + 1
    BY <1>2, <1>5, <2>2
  <2> QED
    BY <1>5, <2>1, <2>2
<1> QED
  BY <1>5, <1>6 DEF FormsFit

LEMMA UserStep ==
    ASSUME SmsInv,
           \/ \E c \in Numbers : SendToContact(c) \/ SendInChat(c)
           \/ \E ext \in BOOLEAN : SendButton(ext) \/ UpdateConfig(ext)
           \/ \E i \in DOMAIN forms : Answer(i) \/ AnswerButton(i) \/ Cancel(i)
    PROVE  SmsInv'
<1>1. /\ forms \in Seq(SmsForms) /\ FormsFit
      /\ external \in BOOLEAN /\ number \in Whom
      /\ \A i \in DOMAIN forms : forms[i] \in SmsForms
  BY ElementOfSeq, LenProperties DEF SmsInv, SmsTypes
<1>2. ASSUME NEW c \in Numbers, SendToContact(c)
      PROVE  SmsInv'
  <2>1. /\ forms' = Append(Crossed(forms, "contact"), Form("contact", c, FALSE))
        /\ number' = c /\ external' = external
        /\ UNCHANGED <<method, sent, messages, picture, posted, reports, tokens>>
    BY <1>2 DEF SendToContact
  <2>2. forms' \in Seq(SmsForms) /\ FormsFit'
    BY <1>1, <2>1, Somebody, OpensForm
  <2> QED
    BY <1>1, <2>1, <2>2, Somebody, DialogStep
<1>3. ASSUME NEW ext \in BOOLEAN, SendButton(ext)
      PROVE  SmsInv'
  <2>1. /\ forms' = Append(Crossed(forms, "button"), Form("button", "", ext))
        /\ number' = number /\ external' = ext
        /\ UNCHANGED <<method, sent, messages, picture, posted, reports, tokens>>
    BY <1>3 DEF SendButton
  <2>2. forms' \in Seq(SmsForms) /\ FormsFit'
    BY <1>1, <2>1, Somebody, OpensForm
  <2> QED
    BY <1>1, <2>1, <2>2, DialogStep
<1>4. ASSUME NEW ext \in BOOLEAN, UpdateConfig(ext)
      PROVE  SmsInv'
  <2>1. /\ forms' = Crossed(forms, "button")
        /\ number' = number /\ external' = ext
        /\ UNCHANGED <<method, sent, messages, picture, posted, reports, tokens>>
    BY <1>4 DEF UpdateConfig
  <2>2. /\ forms' \in Seq(SmsForms) /\ DOMAIN forms' = DOMAIN forms
        /\ \A i \in DOMAIN forms :
              /\ forms'[i].kind = forms[i].kind /\ forms'[i].to = forms[i].to /\ forms'[i].ext = forms[i].ext
              /\ ~forms'[i].crossed => ~forms[i].crossed /\ forms[i].kind # "button"
    BY <1>1, <2>1, FormsCrossed
  <2>3. FormsFit'
    BY <1>1, <2>1, <2>2 DEF FormsFit
  <2> QED
    BY <1>1, <2>1, <2>2, <2>3, DialogStep
<1>5. ASSUME NEW i \in DOMAIN forms, forms' = Without(i), UNCHANGED <<number, external>>
      PROVE  forms' \in Seq(SmsForms) /\ FormsFit'
  <2>1. /\ forms' \in Seq(SmsForms)
        /\ \A j \in DOMAIN forms' : \E k \in DOMAIN forms : forms'[j] = forms[k]
    BY <1>1, <1>5, FormsLeft
  <2> QED
    BY <1>1, <1>5, <2>1 DEF FormsFit
<1>6. ASSUME NEW i \in DOMAIN forms, Cancel(i)
      PROVE  SmsInv'
  BY <1>1, <1>5, <1>6, DialogStep DEF Cancel
<1>7. ASSUME NEW i \in DOMAIN forms, Answer(i)
      PROVE  SmsInv'
  <2>1. /\ forms' = Without(i) /\ forms[i].kind = "contact"
        /\ UNCHANGED <<number, external, picture, posted, reports, tokens>>
    BY <1>7 DEF Answer
  <2>2. PICK way \in BOOLEAN : NewMessage(forms[i].to, way, number, way, "popup", forms[i].crossed)
    BY <1>7 DEF Answer
  <2>3. PICK to, crossed : to = forms[i].to /\ crossed = forms[i].crossed
    OBVIOUS
  <2>4. to \in Whom /\ crossed \in BOOLEAN /\ (~crossed => number = to)
    BY <1>1, <2>1, <2>3 DEF SmsForms, FormsFit
  <2>5. number \in Whom
    BY DEF SmsInv, SmsTypes
  <2>6. NewMessage(to, way, number, way, "popup", crossed)
    BY <2>2, <2>3
  <2>7. PICK how \in {"popup", "chat"} : how = "popup"
    OBVIOUS
  <2> QED
    BY <1>1, <1>5, <2>1, <2>4, <2>5, <2>6, <2>7, MessageStep
<1>8. ASSUME NEW i \in DOMAIN forms, AnswerButton(i)
      PROVE  SmsInv'
  <2>1. /\ forms[i].kind = "button"
        /\ UNCHANGED <<external, picture, posted, reports, tokens>>
    BY <1>8 DEF AnswerButton
  <2>2. PICK c \in Whom :
           /\ number' = c
           /\ forms' = Crossed(Without(i), "contact")
           /\ NewMessage(c, forms[i].ext, c, external, "popup", forms[i].crossed)
    BY <1>8 DEF AnswerButton, Whom
  <2>3. PICK w : w = Without(i)
    OBVIOUS
  <2>4. /\ w \in Seq(SmsForms) /\ \A j \in DOMAIN w : \E k \in DOMAIN forms : w[j] = forms[k]
    BY <1>1, <2>3, FormsLeft
  <2>5. forms' = Crossed(w, "contact")
    BY <2>2, <2>3
  <2>6. /\ forms' \in Seq(SmsForms) /\ DOMAIN forms' = DOMAIN w
        /\ \A j \in DOMAIN w :
              /\ forms'[j].kind = w[j].kind /\ forms'[j].to = w[j].to /\ forms'[j].ext = w[j].ext
              /\ ~forms'[j].crossed => ~w[j].crossed /\ w[j].kind # "contact"
    BY <2>4, <2>5, FormsCrossed
  <2>7. FormsFit'
    BY <1>1, <2>1, <2>4, <2>6 DEF FormsFit
  <2>8. PICK ext, crossed : ext = forms[i].ext /\ crossed = forms[i].crossed
    OBVIOUS
  <2>9. ext \in BOOLEAN /\ crossed \in BOOLEAN /\ (~crossed => external = ext)
    BY <1>1, <2>1, <2>8 DEF SmsForms, FormsFit
  <2>10. NewMessage(c, ext, c, external, "popup", crossed)
    BY <2>2, <2>8
  <2>11. PICK how \in {"popup", "chat"} : how = "popup"
    OBVIOUS
  <2> QED
    BY <1>1, <2>1, <2>2, <2>6, <2>7, <2>9, <2>10, <2>11, MessageStep
<1>9. ASSUME NEW c \in Numbers, SendInChat(c)
      PROVE  SmsInv'
  <2>1. UNCHANGED <<number, external, forms, picture, posted, reports, tokens>>
    BY <1>9 DEF SendInChat
  <2>2. FormsFit'
    BY <1>1, <2>1 DEF FormsFit
  <2>3. \/ NewMessage(c, external, c, external, "chat", FALSE)
        \/ method' = "chat" /\ messages' = CrowdedNow /\ sent' = sent
    BY <1>9 DEF SendInChat
  <2>4. PICK how \in {"popup", "chat"} : how = "chat"
    OBVIOUS
  <2> QED
    BY <1>1, <2>1, <2>2, <2>3, <2>4, Somebody, MessageStep
<1> QED
  BY <1>2, <1>3, <1>4, <1>6, <1>7, <1>8, <1>9

LEMMA SmsBegins == SmsInit => SmsInv
<1> SUFFICES ASSUME SmsInit PROVE SmsInv
  OBVIOUS
<1>1. /\ number \in Whom /\ external \in BOOLEAN /\ method = "none" /\ sent = 0
      /\ forms = <<>> /\ posted = <<>> /\ messages = <<>> /\ reports = {} /\ tokens = {}
  BY Somebody DEF SmsInit
<1>2. DOMAIN forms = {} /\ DOMAIN posted = {} /\ Ids = {}
  BY <1>1 DEF Ids
<1>3. forms \in Seq(SmsForms) /\ posted \in Seq(SmsSignals) /\ 0 \in Nat
  BY <1>1
<1>4. messages \in [Ids -> SmsMessages]
  BY <1>1, <1>2
<1>5. SmsTypes
  BY <1>1, <1>2, <1>3, <1>4 DEF SmsTypes
<1>6. FormsFit /\ SentAsTitled /\ Alone
  BY <1>2 DEF FormsFit, SentAsTitled, Alone
<1>7. OneDialog /\ Pictured /\ Reported /\ AnswerFits
  BY <1>1, <1>2 DEF OneDialog, Pictured, Reported, AnswerFits, OnItsWay
<1> QED
  BY <1>5, <1>6, <1>7 DEF SmsInv

LEMMA SmsStep == SmsInv /\ [SmsNext]_smsVars => SmsInv'
<1> SUFFICES ASSUME SmsInv, [SmsNext]_smsVars PROVE SmsInv'
  OBVIOUS
<1>1. ASSUME \/ \E c \in Numbers : SendToContact(c) \/ SendInChat(c)
             \/ \E ext \in BOOLEAN : SendButton(ext) \/ UpdateConfig(ext)
             \/ \E i \in DOMAIN forms : Answer(i) \/ AnswerButton(i) \/ Cancel(i)
      PROVE  SmsInv'
  BY <1>1, UserStep
<1>2. CASE Shows
  BY <1>2, ShowsStep
<1>3. ASSUME NEW t \in tokens, AnswerToken(t) \/ CancelToken(t)
      PROVE  SmsInv'
  BY <1>3, TokenStep
<1>4. ASSUME NEW m \in Ids, Thread(m)
      PROVE  SmsInv'
  BY <1>4, ThreadStep, AskingStep DEF Thread
<1>5. CASE UNCHANGED smsVars
  <2>1. /\ UNCHANGED <<number, external, forms>>
        /\ UNCHANGED <<method, sent, messages, picture, posted, reports, tokens>>
    BY <1>5 DEF smsVars
  <2>2. /\ forms' \in Seq(SmsForms) /\ number' \in Whom /\ external' \in BOOLEAN
        /\ FormsFit'
    BY <2>1 DEF SmsInv, SmsTypes, FormsFit
  <2> QED
    BY <2>1, <2>2, DialogStep
<1> QED
  BY <1>1, <1>2, <1>3, <1>4, <1>5 DEF SmsNext

(* A message whose dialog nothing crossed goes to whom the title of the    *)
(* dialog names and in the way its button says, however many dialogs are   *)
(* open and in whatever order they are answered: the number and the way    *)
(* are in the configuration, which the next dialog overwrites              *)
(* (sms_gui.c:155-157, 297-299).                                           *)
THEOREM TitlesCorrect == SmsSpec => []SentAsTitled
<1>1. SmsInv => SentAsTitled
  BY DEF SmsInv
<1> QED
  BY <1>1, SmsBegins, SmsStep, PTL DEF SmsSpec

(* A dialog for a token shows the picture of its own message, and an       *)
(* answer is shown where its message was typed, while no other message is  *)
(* under way: all threads share one file and one method (sms_gui.c:46-47). *)
THEOREM RepliesCorrect == SmsSpec => []AnswerFits
<1>1. SmsInv => AnswerFits
  BY DEF SmsInv
<1> QED
  BY <1>1, SmsBegins, SmsStep, PTL DEF SmsSpec
=============================================================================
