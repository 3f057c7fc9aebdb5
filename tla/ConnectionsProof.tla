-------------------------- MODULE ConnectionsProof --------------------------
(***************************************************************************)
(* Proofs about connections: files sent directly, for any number of        *)
(* transfers, files of any size and chunks of any size, and the Jabber     *)
(* connection, for any number of connections, logins and reconnections.    *)
(***************************************************************************)
EXTENDS Dcc, Jabber, Integers, TLAPS

(***************************************************************************)
(* Files sent directly.                                                    *)
(***************************************************************************)
Files   == Transfers \cup {"none"}
Units   == [file : Files, at : Nat]
Kinds   == {"uin", "ack", "want", "offer", "announce", "info", "file_ack", "header", "data"}
Packets == [is : Kinds, arg : Int \cup Files \cup Units]
States  == Reading \cup Writing \cup {"none", "freed"}

Types ==
    /\ flow \in [Transfers -> {"unused", "requested", "callback", "direct"}]
    /\ state \in [Ends -> States] /\ wire \in [Ends -> Seq(Packets)]
    /\ sent \in [Transfers -> Nat] /\ got \in [Transfers -> Seq(Units)]
    /\ file \in [Transfers -> Files] /\ requested \in Files /\ torn \subseteq Transfers

(* Only the sending end can get to where a file is sent, only the other to *)
(* where one is received, and neither is sent what it does not expect.     *)
OfSender   == {"send_info", "read_file_ack", "send_header", "send_file"}
OfReceiver == {"read_request", "read_info", "send_file_ack", "read_header", "read_no_buffer",
               "get_file"}

Roles ==
    \A t \in Transfers :
        /\ state[<<t, "get">>] \notin OfSender /\ state[<<t, "send">>] \notin OfReceiver
        /\ \A i \in 1..Len(wire[<<t, "get">>]) : wire[<<t, "get">>][i].is # "want"
        /\ \A i \in 1..Len(wire[<<t, "send">>]) : wire[<<t, "send">>][i].is \notin {"offer", "data"}

(* A session that is not over has something left to send, or sent nothing. *)
Progress ==
    \A t \in Transfers :
        /\ sent[t] <= SizeOf(t)
        /\ state[<<t, "send">>] # "freed" => sent[t] = 0 \/ sent[t] < SizeOf(t)
        /\ state[<<t, "send">>] = "none" => sent[t] = 0
        /\ flow[t] \in {"unused", "requested"} =>
              state[<<t, "send">>] = "none" /\ state[<<t, "get">>] = "none"

-----------------------------------------------------------------------------
(* The units of the file f that have been received, g, those on the wire   *)
(* w, whole or in part, and the number n of those that have been sent.     *)
Received(g, n, f) ==
    Len(g) <= n /\ \A i \in 1..Len(g) : g[i] = Unit(f, i)

IsData(w, i) == i \in 1..Len(w) /\ w[i].is = "data"

Carries(p, f, k) == p.arg = Unit(f, k) \/ p.arg = Unit("none", k)

OnTheWay(w, g, n, f) ==
    /\ \A i \in 1..Len(w) : IsData(w, i) =>
          \E k \in (Len(g) + 1)..n : Carries(w[i], f, k)
    /\ \A i, j \in 1..Len(w) : IsData(w, i) /\ IsData(w, j) /\ i < j => w[i].arg.at < w[j].arg.at
    /\ \A k \in (Len(g) + 1)..n : \E i \in 1..Len(w) : IsData(w, i) /\ w[i].arg.at = k

Stream(t) ==
    /\ Received(got[t], sent[t], file[t])
    /\ ~Closed(<<t, "get">>) /\ t \notin torn => OnTheWay(wire[<<t, "get">>], got[t], sent[t], file[t])

IInv == Types /\ Roles /\ Progress /\ \A t \in Transfers : Stream(t)

-----------------------------------------------------------------------------
(* Sequences.                                                              *)

(* Reading what is no unit of the file.                                    *)
LEMMA ReadOther ==
    ASSUME NEW w \in Seq(Packets), NEW g \in Seq(Units), NEW n \in Nat, NEW f,
           OnTheWay(w, g, n, f), w # <<>>, w[1].is # "data"
    PROVE  OnTheWay(Tail(w), g, n, f)
<1>1. /\ Len(w) \in Nat /\ Len(w) > 0 /\ Len(Tail(w)) = Len(w) - 1
      /\ \A i \in 1..Len(Tail(w)) : Tail(w)[i] = w[i + 1] /\ i + 1 \in 1..Len(w)
  OBVIOUS
<1>2. \A i \in 1..Len(Tail(w)) : IsData(Tail(w), i) <=> IsData(w, i + 1)
  BY <1>1 DEF IsData
<1>3. \A i \in 1..Len(w) : IsData(w, i) => i - 1 \in 1..Len(Tail(w)) /\ Tail(w)[i - 1] = w[i]
                                           /\ IsData(Tail(w), i - 1)
  BY <1>1 DEF IsData
<1>4. \A i \in 1..Len(Tail(w)) : IsData(Tail(w), i) =>
          \E k \in (Len(g) + 1)..n : Carries(Tail(w)[i], f, k)
  BY <1>1, <1>2 DEF OnTheWay
<1>5. \A i, j \in 1..Len(Tail(w)) :
          IsData(Tail(w), i) /\ IsData(Tail(w), j) /\ i < j => Tail(w)[i].arg.at < Tail(w)[j].arg.at
  BY <1>1, <1>2 DEF OnTheWay
<1>6. \A k \in (Len(g) + 1)..n : \E i \in 1..Len(Tail(w)) :
          IsData(Tail(w), i) /\ Tail(w)[i].arg.at = k
  BY <1>1, <1>3 DEF OnTheWay
<1>. QED
  BY <1>4, <1>5, <1>6 DEF OnTheWay

(* The first unit on the wire is the next one of the file.                 *)
LEMMA FirstIsNext ==
    ASSUME NEW w \in Seq(Packets), NEW g \in Seq(Units), NEW n \in Nat, NEW f,
           OnTheWay(w, g, n, f), w # <<>>, w[1].is = "data"
    PROVE  Carries(w[1], f, Len(g) + 1) /\ Len(g) + 1 <= n
<1>1. Len(w) \in Nat /\ 1 \in 1..Len(w) /\ IsData(w, 1) /\ Len(g) \in Nat
  BY DEF IsData
<1>2. PICK k \in (Len(g) + 1)..n : Carries(w[1], f, k)
  BY <1>1 DEF OnTheWay
<1>3. PICK i \in 1..Len(w) : IsData(w, i) /\ w[i].arg.at = Len(g) + 1
  <2>1. Len(g) + 1 \in (Len(g) + 1)..n
    BY <1>1, <1>2
  <2>. QED
    BY <2>1 DEF OnTheWay
<1>4. w[1].arg.at = k
  BY <1>2 DEF Unit, Carries
<1>5. i = 1
  <2>1. SUFFICES ASSUME i # 1 PROVE FALSE
    OBVIOUS
  <2>2. 1 < i
    BY <2>1, <1>1
  <2>3. w[1].arg.at < w[i].arg.at
    BY <2>2, <1>1, <1>3 DEF OnTheWay
  <2>. QED
    BY <2>3, <1>1, <1>2, <1>3, <1>4
<1>. QED
  BY <1>1, <1>2, <1>3, <1>4, <1>5

(* Reading a unit, and writing it to the disk.                             *)
LEMMA ReadUnit ==
    ASSUME NEW w \in Seq(Packets), NEW g \in Seq(Units), NEW n \in Nat, NEW f \in Files,
           OnTheWay(w, g, n, f), Received(g, n, f), w # <<>>, w[1].is = "data",
           w[1].arg.file # "none"
    PROVE  /\ OnTheWay(Tail(w), Append(g, w[1].arg), n, f)
           /\ Received(Append(g, w[1].arg), n, f)
           /\ Append(g, w[1].arg) \in Seq(Units)
<1> DEFINE h == Append(g, w[1].arg)
<1>0. w[1].arg = Unit(f, Len(g) + 1) /\ Len(g) + 1 <= n /\ Len(g) \in Nat
  <2>1. Carries(w[1], f, Len(g) + 1) /\ Len(g) + 1 <= n
    BY FirstIsNext
  <2>2. Unit("none", Len(g) + 1).file = "none"
    BY DEF Unit
  <2>. QED
    BY <2>1, <2>2 DEF Carries
<1>1. w[1].arg \in Units
  BY <1>0 DEF Unit, Units
<1>2. h \in Seq(Units) /\ Len(h) = Len(g) + 1
  BY <1>1
<1>3. Received(h, n, f)
  <2>1. \A i \in 1..Len(h) : h[i] = IF i = Len(g) + 1 THEN w[1].arg ELSE g[i]
    BY <1>1, <1>2
  <2>. QED
    BY <2>1, <1>0, <1>2 DEF Received
<1>4. /\ Len(w) \in Nat /\ Len(w) > 0 /\ Len(Tail(w)) = Len(w) - 1
      /\ \A i \in 1..Len(Tail(w)) : Tail(w)[i] = w[i + 1] /\ i + 1 \in 1..Len(w)
  OBVIOUS
<1>5. \A i \in 1..Len(Tail(w)) : IsData(Tail(w), i) <=> IsData(w, i + 1)
  BY <1>4 DEF IsData
<1>6. w[1].arg.at = Len(g) + 1 /\ IsData(w, 1)
  BY <1>0, <1>4 DEF Unit, IsData
<1>7. \A i \in 1..Len(Tail(w)) : IsData(Tail(w), i) =>
          \E k \in (Len(h) + 1)..n : Carries(Tail(w)[i], f, k)
  <2>1. SUFFICES ASSUME NEW i \in 1..Len(Tail(w)), IsData(Tail(w), i)
                 PROVE  \E k \in (Len(h) + 1)..n : Carries(Tail(w)[i], f, k)
    OBVIOUS
  <2>2. IsData(w, i + 1) /\ i + 1 \in 1..Len(w) /\ 1 < i + 1 /\ Tail(w)[i] = w[i + 1]
    BY <2>1, <1>4, <1>5
  <2>3. PICK k \in (Len(g) + 1)..n : Carries(w[i + 1], f, k)
    BY <2>2 DEF OnTheWay
  <2>4. Len(g) + 1 < k
    <3>1. w[i + 1].arg.at = k
      BY <2>3 DEF Unit, Carries
    <3>2. w[1].arg.at < w[i + 1].arg.at
      BY <2>2, <1>4, <1>6 DEF OnTheWay
    <3>. QED
      BY <3>1, <3>2, <1>6
  <2>5. k \in (Len(h) + 1)..n
    BY <2>3, <2>4, <1>2, <1>0
  <2>. QED
    BY <2>2, <2>3, <2>5
<1>8. \A i, j \in 1..Len(Tail(w)) :
          IsData(Tail(w), i) /\ IsData(Tail(w), j) /\ i < j => Tail(w)[i].arg.at < Tail(w)[j].arg.at
  BY <1>4, <1>5 DEF OnTheWay
<1>9. \A k \in (Len(h) + 1)..n : \E i \in 1..Len(Tail(w)) :
          IsData(Tail(w), i) /\ Tail(w)[i].arg.at = k
  <2>1. SUFFICES ASSUME NEW k \in (Len(h) + 1)..n
                 PROVE  \E i \in 1..Len(Tail(w)) : IsData(Tail(w), i) /\ Tail(w)[i].arg.at = k
    OBVIOUS
  <2>2. k \in (Len(g) + 1)..n /\ k # Len(g) + 1
    BY <1>0, <1>2
  <2>3. PICK i \in 1..Len(w) : IsData(w, i) /\ w[i].arg.at = k
    BY <2>2 DEF OnTheWay
  <2>4. i # 1
    BY <2>2, <2>3, <1>6
  <2>5. i - 1 \in 1..Len(Tail(w)) /\ Tail(w)[i - 1] = w[i]
    BY <2>4, <1>4
  <2>6. IsData(Tail(w), i - 1)
    BY <2>3, <2>5 DEF IsData
  <2>. QED
    BY <2>3, <2>5, <2>6
<1>. QED
  BY <1>2, <1>3, <1>7, <1>8, <1>9 DEF OnTheWay

LEMMA ConcatIs ==
    ASSUME NEW w \in Seq(Packets), NEW s \in Seq(Packets)
    PROVE  /\ Len(w) \in Nat /\ Len(s) \in Nat /\ Len(w \o s) = Len(w) + Len(s)
           /\ w \o s \in Seq(Packets)
           /\ \A i \in 1..Len(w) : (w \o s)[i] = w[i] /\ i \in 1..Len(w \o s)
           /\ \A i \in 1..Len(w \o s) : i \notin 1..Len(w) =>
                  i - Len(w) \in 1..Len(s) /\ (w \o s)[i] = s[i - Len(w)]
OBVIOUS

(* Writing what is no unit of the file.                                    *)
LEMMA WriteOther ==
    ASSUME NEW w \in Seq(Packets), NEW s \in Seq(Packets), NEW g \in Seq(Units),
           NEW n \in Nat, NEW f,
           OnTheWay(w, g, n, f), \A i \in 1..Len(s) : s[i].is # "data"
    PROVE  OnTheWay(w \o s, g, n, f)
<1>1. /\ Len(w) \in Nat /\ Len(s) \in Nat /\ Len(w \o s) = Len(w) + Len(s)
      /\ \A i \in 1..Len(w) : (w \o s)[i] = w[i] /\ i \in 1..Len(w \o s)
      /\ \A i \in 1..Len(w \o s) : i \notin 1..Len(w) =>
            i - Len(w) \in 1..Len(s) /\ (w \o s)[i] = s[i - Len(w)]
  BY ConcatIs
<1>2. \A i \in 1..Len(w \o s) : IsData(w \o s, i) <=> IsData(w, i)
  BY <1>1 DEF IsData
<1>3. \A i \in 1..Len(w \o s) : IsData(w, i) => i \in 1..Len(w)
  BY DEF IsData
<1>. QED
  BY <1>1, <1>2, <1>3 DEF OnTheWay

(* Writing the next unit.                                                  *)
LEMMA WriteUnit ==
    ASSUME NEW w \in Seq(Packets), NEW s \in Seq(Packets), NEW g \in Seq(Units),
           NEW n \in Nat, NEW f \in Files,
           OnTheWay(w, g, n, f), Len(g) <= n, Len(s) = 1,
           NEW h \in {f, "none"}, s[1] = Data(h, n + 1)
    PROVE  OnTheWay(w \o s, g, n + 1, f)
<1>0. /\ Len(w) \in Nat /\ Len(w \o s) = Len(w) + 1
      /\ \A i \in 1..Len(w) : (w \o s)[i] = w[i] /\ i \in 1..Len(w \o s)
      /\ \A i \in 1..Len(w \o s) : i \notin 1..Len(w) => (w \o s)[i] = s[i - Len(w)]
  <2>1. Len(w \o s) = Len(w) + Len(s)
    BY ConcatIs
  <2>2. Len(w) \in Nat
    BY ConcatIs
  <2>. QED
    BY <2>1, <2>2, ConcatIs
<1> DEFINE d == Data(h, n + 1)
<1> DEFINE v == w \o s
<1>1. d.is = "data" /\ Carries(d, f, n + 1) /\ d.arg.at = n + 1
  BY DEF Data, Unit, Carries
<1>2. /\ Len(w) \in Nat /\ Len(v) = Len(w) + 1 /\ v[Len(w) + 1] = d
      /\ \A i \in 1..Len(w) : v[i] = w[i] /\ i \in 1..Len(v)
      /\ \A i \in 1..Len(v) : i \in 1..Len(w) \/ i = Len(w) + 1
  <2>1. /\ Len(w) \in Nat /\ Len(v) = Len(w) + 1
        /\ \A i \in 1..Len(w) : v[i] = w[i] /\ i \in 1..Len(v)
        /\ \A i \in 1..Len(v) : i \notin 1..Len(w) => v[i] = s[i - Len(w)]
    BY <1>0
  <2>2. v[Len(w) + 1] = s[1]
    <3> HIDE DEF v, d
    <3>1. Len(w) + 1 \in 1..Len(v) /\ Len(w) + 1 \notin 1..Len(w) /\ (Len(w) + 1) - Len(w) = 1
      BY <2>1
    <3>. QED
      BY <3>1, <2>1
  <2> HIDE DEF v
  <2>. QED
    BY <2>1, <2>2
<1>3. \A i \in 1..Len(w) : IsData(v, i) <=> IsData(w, i)
  BY <1>2 DEF IsData
<1>4. IsData(v, Len(w) + 1) /\ Len(g) \in Nat
  BY <1>1, <1>2 DEF IsData
<1>5. \A i \in 1..Len(w) : IsData(w, i) => w[i].arg.at < n + 1
  <2>1. SUFFICES ASSUME NEW i \in 1..Len(w), IsData(w, i) PROVE w[i].arg.at < n + 1
    OBVIOUS
  <2>2. PICK k \in (Len(g) + 1)..n : Carries(w[i], f, k)
    BY <2>1 DEF OnTheWay
  <2>3. w[i].arg.at = k
    BY <2>2 DEF Unit, Carries
  <2>. QED
    BY <2>3, <1>4
<1>6. \A i \in 1..Len(v) : IsData(v, i) => \E k \in (Len(g) + 1)..(n + 1) : Carries(v[i], f, k)
  <2>1. SUFFICES ASSUME NEW i \in 1..Len(v), IsData(v, i)
                 PROVE  \E k \in (Len(g) + 1)..(n + 1) : Carries(v[i], f, k)
    OBVIOUS
  <2>2. CASE i = Len(w) + 1
    <3>1. n + 1 \in (Len(g) + 1)..(n + 1)
      BY <1>4
    <3>. QED
      BY <3>1, <2>2, <1>1, <1>2
  <2>3. CASE i \in 1..Len(w)
    <3>1. PICK k \in (Len(g) + 1)..n : Carries(w[i], f, k)
      BY <2>1, <2>3, <1>3 DEF OnTheWay
    <3>2. k \in (Len(g) + 1)..(n + 1)
      BY <1>4
    <3>. QED
      BY <3>1, <3>2, <2>3, <1>2
  <2>. QED
    BY <2>2, <2>3, <1>2
<1>7. \A i, j \in 1..Len(v) : IsData(v, i) /\ IsData(v, j) /\ i < j => v[i].arg.at < v[j].arg.at
  <2>1. SUFFICES ASSUME NEW i \in 1..Len(v), NEW j \in 1..Len(v),
                        IsData(v, i), IsData(v, j), i < j
                 PROVE  v[i].arg.at < v[j].arg.at
    OBVIOUS
  <2>2. i \in 1..Len(w) /\ v[i] = w[i] /\ IsData(w, i)
    BY <2>1, <1>2, <1>3
  <2>3. CASE j = Len(w) + 1
    BY <2>2, <2>3, <1>1, <1>2, <1>5
  <2>4. CASE j \in 1..Len(w)
    BY <2>1, <2>2, <2>4, <1>2, <1>3 DEF OnTheWay
  <2>. QED
    BY <2>3, <2>4, <1>2
<1>8. \A k \in (Len(g) + 1)..(n + 1) : \E i \in 1..Len(v) : IsData(v, i) /\ v[i].arg.at = k
  <2>1. SUFFICES ASSUME NEW k \in (Len(g) + 1)..(n + 1)
                 PROVE  \E i \in 1..Len(v) : IsData(v, i) /\ v[i].arg.at = k
    OBVIOUS
  <2>2. CASE k = n + 1
    BY <2>2, <1>1, <1>2, <1>4
  <2>3. CASE k # n + 1
    <3>1. k \in (Len(g) + 1)..n
      BY <2>3, <1>4
    <3>2. PICK i \in 1..Len(w) : IsData(w, i) /\ w[i].arg.at = k
      BY <3>1 DEF OnTheWay
    <3>. QED
      BY <3>2, <1>2, <1>3
  <2>. QED
    BY <2>2, <2>3
<1>. QED
  BY <1>6, <1>7, <1>8 DEF OnTheWay

-----------------------------------------------------------------------------
(* Steps of one end that touch no unit of the file.                        *)

Unexpected(e) == IF e[2] = "send" THEN {"want", "data"} ELSE {"offer", "data"}
Foreign(e)    == IF e[2] = "send" THEN OfReceiver ELSE OfSender

Session(e) ==
    /\ state[e] \notin {"none", "freed"}
    /\ \E st \in States \ ({"none"} \cup Foreign(e)) : state' = [state EXCEPT ![e] = st]

ReadsOther(e) ==
    wire[e] # <<>> /\ wire[e][1].is # "data" /\ wire' = [wire EXCEPT ![e] = Tail(@)]

ReadsTorn(e) ==
    wire[e] # <<>> /\ wire' = [wire EXCEPT ![e] = Tail(@)] /\ torn' = torn \cup {e[1]}

WritesOther(e) ==
    \E s \in Seq(Packets) : Writes(e, s) /\ \A i \in 1..Len(s) : s[i].is \notin Unexpected(e)

OpensFile(e) ==
    e[2] = "send" /\ file[e[1]] = "none" /\ file' = [file EXCEPT ![e[1]] = requested]

Talks(e) ==
    /\ Session(e) /\ UNCHANGED <<usersVars, sent, got>>
    /\ (UNCHANGED torn /\ (UNCHANGED wire \/ ReadsOther(e) \/ WritesOther(e))) \/ ReadsTorn(e)
    /\ UNCHANGED file \/ OpensFile(e)

LEMMA EndsArePairs ==
    ASSUME NEW e \in Ends
    PROVE  e[1] \in Transfers /\ e[2] \in Sides /\ e = <<e[1], e[2]>>
BY DEF Ends

LEMMA SizeIsNat ==
    ASSUME Types, NEW t \in Transfers
    PROVE  SizeOf(t) \in Nat
BY DccAssumption DEF Types, SizeOf, Files

LEMMA FirstExpected ==
    ASSUME Types, Roles, NEW e \in Ends, wire[e] # <<>>
    PROVE  /\ e[2] = "get" => wire[e][1].is # "want"
           /\ e[2] = "send" => wire[e][1].is \notin {"offer", "data"}
<1>1. wire[e] \in Seq(Packets)
  BY DEF Types
<1>2. 1 \in 1..Len(wire[e])
  BY <1>1
<1>3. e[1] \in Transfers /\ e = <<e[1], e[2]>>
  BY EndsArePairs
<1>4. ASSUME e[2] = "get" PROVE wire[e][1].is # "want"
  <2>1. e = <<e[1], "get">>
    BY <1>3, <1>4
  <2>. QED
    BY <2>1, <1>2, <1>3 DEF Roles
<1>5. ASSUME e[2] = "send" PROVE wire[e][1].is \notin {"offer", "data"}
  <2>1. e = <<e[1], "send">>
    BY <1>3, <1>5
  <2>. QED
    BY <2>1, <1>2, <1>3 DEF Roles
<1>. QED
  BY <1>4, <1>5

LEMMA PacketTypes ==
    /\ \A p \in Kinds : Packet(p) \in Packets /\ Packet(p).is = p
    /\ \A n \in Int : Header(n) \in Packets /\ Header(n).is = "header"
    /\ \A f \in Files : Info(f) \in Packets /\ Info(f).is = "info"
    /\ \A f \in Files, n \in Nat : Data(f, n) \in Packets /\ Data(f, n).is = "data"
BY DEF Packet, Header, Info, Data, Packets, Kinds, Unit, Units

LEMMA WritesOne ==
    ASSUME NEW e \in Ends, NEW p \in Packets, p.is \notin Unexpected(e), Writes(e, <<p>>)
    PROVE  WritesOther(e)
<1>1. <<p>> \in Seq(Packets) /\ \A i \in 1..Len(<<p>>) : <<p>>[i].is \notin Unexpected(e)
  OBVIOUS
<1>. QED
  BY <1>1 DEF WritesOther

LEMMA WritesTwo ==
    ASSUME NEW e \in Ends, NEW p \in Packets, NEW q \in Packets,
           p.is \notin Unexpected(e), q.is \notin Unexpected(e), Writes(e, <<p, q>>)
    PROVE  WritesOther(e)
<1>1. <<p, q>> \in Seq(Packets) /\ \A i \in 1..Len(<<p, q>>) : <<p, q>>[i].is \notin Unexpected(e)
  OBVIOUS
<1>. QED
  BY <1>1 DEF WritesOther

LEMMA StepIs ==
    ASSUME IInv, NEW e \in Ends, Step(e)
    PROVE  Talks(e) \/ (SendData(e) /\ e[2] = "send") \/ (GetData(e) /\ e[2] = "get")
<1> USE DEF Types, Goes, In, usersVars, fileVars, Foreign, OfSender, OfReceiver, States, Reading, Writing
<1>0. /\ e[1] \in Transfers /\ e[2] \in Sides /\ e = <<e[1], e[2]>>
      /\ e[2] = "get" => state[e] \notin OfSender
      /\ e[2] = "send" => state[e] \notin OfReceiver
      /\ wire[e] \in Seq(Packets) /\ file[e[1]] \in Files
  BY EndsArePairs DEF IInv, Roles, Sides
<1>1. CASE Connected(e)
  <2>1. WritesOther(e)
    BY <1>1, PacketTypes, WritesTwo DEF Connected, Unexpected, Kinds
  <2>. QED
    BY <1>1, <2>1 DEF Connected, Talks, Session
<1>2. CASE ReadUin(e)
  BY <1>2 DEF ReadUin, Reads, Talks, Session, ReadsOther
<1>3. CASE SendAck(e)
  <2>1. WritesOther(e)
    BY <1>3, PacketTypes, WritesOne DEF SendAck, Unexpected, Kinds
  <2>. QED
    BY <1>3, <2>1 DEF SendAck, Talks, Session
<1>4. CASE ReadAck(e)
  BY <1>4 DEF ReadAck, Reads, Talks, Session, ReadsOther
<1>5. CASE SendRequest(e)
  <2>1. WritesOther(e)
    BY <1>5, <1>0, PacketTypes, WritesOne DEF SendRequest, Unexpected, Kinds, Sides
  <2>. QED
    BY <1>5, <2>1, <1>0 DEF SendRequest, Talks, Session, Sides
<1>6. CASE ReadType(e)
  <2>0. wire[e] # <<>>
    BY <1>6 DEF ReadType, Reads
  <2>1. e[2] = "get" => wire[e][1].is # "want"
    BY <2>0, FirstExpected DEF IInv
  <2>2. e[2] = "send" => wire[e][1].is # "offer"
    BY <2>0, FirstExpected DEF IInv
  <2>. QED
    BY <1>6, <1>0, <2>1, <2>2 DEF ReadType, Reads, Talks, Session, ReadsOther, Sides
<1>7. CASE NeedFileInfo(e)
  <2>1. e[2] = "send"
    BY <1>7, <1>0 DEF NeedFileInfo, Sides
  <2>. QED
    BY <1>7, <2>1 DEF NeedFileInfo, Talks, Session, OpensFile
<1>8. CASE SendFileInfo(e)
  <2>1. e[2] = "send"
    BY <1>8, <1>0 DEF SendFileInfo, Sides
  <2>2. WritesOther(e)
    BY <1>8, <1>0, <2>1, PacketTypes, WritesTwo DEF SendFileInfo, Unexpected, Kinds
  <2>. QED
    BY <1>8, <2>1, <2>2 DEF SendFileInfo, Talks, Session
<1>9. CASE ReadRequest(e)
  <2>1. e[2] = "get"
    BY <1>9, <1>0 DEF ReadRequest, Sides
  <2>. QED
    BY <1>9, <2>1 DEF ReadRequest, Reads, Talks, Session, ReadsOther
<1>10. CASE ReadFileInfo(e)
  <2>1. e[2] = "get"
    BY <1>10, <1>0 DEF ReadFileInfo, Sides
  <2>. QED
    BY <1>10, <2>1 DEF ReadFileInfo, Closes, Reads, Talks, Session, ReadsOther
<1>11. CASE SendFileAck(e)
  <2>1. e[2] = "get"
    BY <1>11, <1>0 DEF SendFileAck, Sides
  <2>2. WritesOther(e)
    BY <1>11, <2>1, PacketTypes, WritesOne DEF SendFileAck, Unexpected, Kinds
  <2>. QED
    BY <1>11, <2>1, <2>2 DEF SendFileAck, Talks, Session
<1>12. CASE ReadFileAck(e)
  <2>1. e[2] = "send"
    BY <1>12, <1>0 DEF ReadFileAck, Sides
  <2>. QED
    BY <1>12, <2>1 DEF ReadFileAck, Reads, Talks, Session, ReadsOther
<1>13. CASE SendHeader(e)
  <2>1. e[2] = "send"
    BY <1>13, <1>0 DEF SendHeader, Sides
  <2>2. ChunkOf(e) \in Int
    <3>1. SizeOf(e[1]) \in Nat /\ sent[e[1]] \in Nat
      BY <1>0, SizeIsNat DEF IInv
    <3>2. Chunk \in Nat
      BY DccAssumption
    <3>. QED
      BY <3>1, <3>2 DEF ChunkOf
  <2>3. WritesOther(e)
    BY <1>13, <2>1, <2>2, PacketTypes, WritesOne DEF SendHeader, Unexpected
  <2>. QED
    BY <1>13, <2>1, <2>3 DEF SendHeader, Talks, Session
<1>14. CASE SendData(e)
  BY <1>14, <1>0 DEF SendData, Sides
<1>15. CASE ReadHeader(e)
  <2>1. e[2] = "get"
    BY <1>15, <1>0 DEF ReadHeader, Sides
  <2>. QED
    BY <1>15, <2>1 DEF ReadHeader, Reads, Talks, Session, ReadsOther
<1>16. CASE ReadNoBuffer(e)
  <2>1. state' = [state EXCEPT ![e] = state[e]] /\ e[2] = "get"
    BY <1>16, <1>0 DEF ReadNoBuffer, IInv, Sides
  <2>. QED
    BY <1>16, <2>1 DEF ReadNoBuffer, Talks, Session
<1>17. CASE GetData(e)
  BY <1>17, <1>0 DEF GetData, Sides
<1>20. CASE Garbled(e)
  <2>1. e[2] = "get"
    BY <1>20, <1>0 DEF Garbled, Sides
  <2>2. ReadsTorn(e)
    BY <1>20 DEF Garbled, ReadsTorn
  <2>3. \E st \in {"get_file", "read_header", "read_no_buffer", "freed"} :
           state' = [state EXCEPT ![e] = st]
    BY <1>20 DEF Garbled, Closes
  <2>4. Session(e)
    BY <1>20, <2>1, <2>3 DEF Garbled, Session
  <2>. QED
    BY <1>20, <2>2, <2>4 DEF Garbled, Talks
<1>18. CASE ReadFails(e)
  BY <1>18 DEF ReadFails, Closes, Talks, Session
<1>19. CASE WriteFails(e)
  BY <1>19 DEF WriteFails, Closes, Talks, Session
<1>. QED
  BY <1>1, <1>2, <1>3, <1>4, <1>5, <1>6, <1>7, <1>8, <1>9, <1>10, <1>11, <1>12, <1>13, <1>14,
     <1>15, <1>16, <1>17, <1>18, <1>19, <1>20 DEF Step

-----------------------------------------------------------------------------
(* What may be on the wire to an end.                                      *)
Expected(w, bad) == \A i \in 1..Len(w) : w[i].is \notin bad

Bad(e) == IF e[2] = "get" THEN {"want"} ELSE {"offer", "data"}

LEMMA TailExpected ==
    ASSUME NEW w \in Seq(Packets), NEW bad, Expected(w, bad), w # <<>>
    PROVE  Tail(w) \in Seq(Packets) /\ Expected(Tail(w), bad)
<1>1. /\ Tail(w) \in Seq(Packets)
      /\ \A i \in 1..Len(Tail(w)) : Tail(w)[i] = w[i + 1] /\ i + 1 \in 1..Len(w)
  OBVIOUS
<1>. QED
  BY <1>1 DEF Expected

LEMMA ConcatExpected ==
    ASSUME NEW w \in Seq(Packets), NEW s \in Seq(Packets), NEW bad,
           Expected(w, bad), Expected(s, bad)
    PROVE  w \o s \in Seq(Packets) /\ Expected(w \o s, bad)
<1>1. /\ w \o s \in Seq(Packets)
      /\ \A i \in 1..Len(w \o s) : \/ i \in 1..Len(w) /\ (w \o s)[i] = w[i]
                                   \/ i - Len(w) \in 1..Len(s) /\ (w \o s)[i] = s[i - Len(w)]
  OBVIOUS
<1>. QED
  BY <1>1 DEF Expected

(* Roles, end by end.                                                      *)
RoleOf(e) == state[e] \notin Foreign(e) /\ Expected(wire[e], Bad(e))

LEMMA RolesByEnd == Roles <=> \A e \in Ends : RoleOf(e)
<1>1. ASSUME NEW t \in Transfers
      PROVE  /\ <<t, "get">> \in Ends /\ <<t, "send">> \in Ends
             /\ RoleOf(<<t, "get">>) <=>
                  /\ state[<<t, "get">>] \notin OfSender
                  /\ \A i \in 1..Len(wire[<<t, "get">>]) : wire[<<t, "get">>][i].is # "want"
             /\ RoleOf(<<t, "send">>) <=>
                  /\ state[<<t, "send">>] \notin OfReceiver
                  /\ \A i \in 1..Len(wire[<<t, "send">>]) :
                        wire[<<t, "send">>][i].is \notin {"offer", "data"}
  BY DEF Ends, Sides, RoleOf, Foreign, Expected, Bad
<1>2. ASSUME NEW e \in Ends
      PROVE  e[1] \in Transfers /\ (e = <<e[1], "get">> \/ e = <<e[1], "send">>)
  BY EndsArePairs DEF Sides
<1>. QED
  BY <1>1, <1>2 DEF Roles

LEMMA RolesNext ==
    ASSUME \A e \in Ends : state'[e] \notin Foreign(e) /\ Expected(wire'[e], Bad(e))
    PROVE  Roles'
<1>1. ASSUME NEW t \in Transfers
      PROVE  /\ state'[<<t, "get">>] \notin OfSender
             /\ \A i \in 1..Len(wire'[<<t, "get">>]) : wire'[<<t, "get">>][i].is # "want"
             /\ state'[<<t, "send">>] \notin OfReceiver
             /\ \A i \in 1..Len(wire'[<<t, "send">>]) :
                    wire'[<<t, "send">>][i].is \notin {"offer", "data"}
  BY DEF Ends, Sides, Foreign, Expected, Bad
<1>. QED
  BY <1>1 DEF Roles

LEMMA PeerIsEnd ==
    ASSUME NEW e \in Ends
    PROVE  /\ Peer(e) \in Ends /\ Peer(e) # e /\ Peer(e)[1] = e[1]
           /\ e[2] = "send" => e = <<e[1], "send">> /\ Peer(e) = <<e[1], "get">>
           /\ e[2] = "get" => e = <<e[1], "get">> /\ Peer(e) = <<e[1], "send">>
BY EndsArePairs DEF Ends, Sides, Peer

-----------------------------------------------------------------------------
(* Each kind of step keeps the invariant.                                  *)

LEMMA TalksTypes ==
    ASSUME IInv, NEW e \in Ends, Talks(e)
    PROVE  Types' /\ Roles'
<1> USE DEF IInv
<1>1. state' \in [Ends -> States] /\ (\A d \in Ends : state'[d] \notin Foreign(d))
  <2>1. PICK st \in States \ ({"none"} \cup Foreign(e)) : state' = [state EXCEPT ![e] = st]
    BY DEF Talks, Session
  <2>2. \A d \in Ends : state[d] \notin Foreign(d)
    BY RolesByEnd DEF RoleOf
  <2>. QED
    BY <2>1, <2>2 DEF Types
<1>2. file' \in [Transfers -> Files]
  BY DEF Talks, OpensFile, Types
<1>3. wire' \in [Ends -> Seq(Packets)] /\ \A d \in Ends : Expected(wire'[d], Bad(d))
  <2>1. wire \in [Ends -> Seq(Packets)] /\ \A d \in Ends : Expected(wire[d], Bad(d))
    BY RolesByEnd DEF RoleOf, Types
  <2>2. CASE UNCHANGED wire
    BY <2>1, <2>2
  <2>3. CASE ReadsOther(e) \/ ReadsTorn(e)
    <3>1. Tail(wire[e]) \in Seq(Packets) /\ Expected(Tail(wire[e]), Bad(e))
      BY <2>1, <2>3, TailExpected DEF ReadsOther, ReadsTorn
    <3>. QED
      BY <2>1, <2>3, <3>1 DEF ReadsOther, ReadsTorn
  <2>4. CASE WritesOther(e)
    <3>1. PICK s \in Seq(Packets) : Writes(e, s) /\ \A i \in 1..Len(s) : s[i].is \notin Unexpected(e)
      BY <2>4 DEF WritesOther
    <3>2. Expected(s, Bad(Peer(e)))
      BY <3>1, PeerIsEnd, EndsArePairs DEF Expected, Bad, Unexpected, Sides, Peer
    <3>3. Peer(e) \in Ends
      BY PeerIsEnd
    <3>4. wire[Peer(e)] \o s \in Seq(Packets) /\ Expected(wire[Peer(e)] \o s, Bad(Peer(e)))
      BY <2>1, <3>2, <3>3, ConcatExpected
    <3>. QED
      BY <2>1, <3>1, <3>3, <3>4 DEF Writes
  <2>. QED
    BY <2>2, <2>3, <2>4 DEF Talks
<1>6. torn' \subseteq Transfers
  BY EndsArePairs DEF Talks, ReadsTorn, Types
<1>4. Types'
  BY <1>1, <1>2, <1>3, <1>6 DEF Types, Talks, usersVars
<1>5. Roles'
  BY <1>1, <1>3, RolesNext
<1>. QED
  BY <1>4, <1>5

LEMMA TalksProgress ==
    ASSUME IInv, NEW e \in Ends, Talks(e)
    PROVE  Progress'
<1> USE DEF IInv
<1>1. SUFFICES ASSUME NEW t \in Transfers
               PROVE  /\ sent'[t] <= SizeOf(t)'
                      /\ state'[<<t, "send">>] # "freed" => sent'[t] = 0 \/ sent'[t] < SizeOf(t)'
                      /\ state'[<<t, "send">>] = "none" => sent'[t] = 0
                      /\ flow'[t] \in {"unused", "requested"} =>
                            state'[<<t, "send">>] = "none" /\ state'[<<t, "get">>] = "none"
  BY DEF Progress
<1>2. PICK st \in States \ {"none"} : state' = [state EXCEPT ![e] = st]
  BY DEF Talks, Session
<1>3. <<t, "send">> \in Ends /\ <<t, "get">> \in Ends
  BY DEF Ends, Sides
<1>4. sent' = sent /\ flow' = flow /\ state[e] \notin {"none", "freed"} /\ sent[t] \in Nat
  BY DEF Talks, usersVars, Session, Types
<1>5. SizeOf(t)' \in Nat /\ SizeOf(t) \in Nat
  <2>1. Types'
    BY TalksTypes
  <2>2. SizeOf(t)' \in Nat
    BY <2>1, DccAssumption DEF Types, SizeOf, Files
  <2>. QED
    BY <2>2, SizeIsNat
<1>6. SizeOf(t)' = SizeOf(t) \/ sent[t] = 0
  <2>1. CASE UNCHANGED file
    BY <2>1 DEF SizeOf
  <2>2. CASE OpensFile(e) /\ t # e[1]
    BY <2>2, EndsArePairs DEF OpensFile, SizeOf, Types
  <2>3. CASE OpensFile(e) /\ t = e[1]
    <3>1. SizeOf(t) = 0 /\ sent[t] <= SizeOf(t)
      BY <2>3 DEF OpensFile, SizeOf, Progress
    <3>. QED
      BY <3>1, <1>4
  <2>. QED
    BY <2>1, <2>2, <2>3 DEF Talks
<1>7. /\ sent[t] <= SizeOf(t)
      /\ state[<<t, "send">>] # "freed" => sent[t] = 0 \/ sent[t] < SizeOf(t)
      /\ state[<<t, "send">>] = "none" => sent[t] = 0
      /\ flow[t] \in {"unused", "requested"} =>
            state[<<t, "send">>] = "none" /\ state[<<t, "get">>] = "none"
  BY DEF Progress
<1>8. /\ state'[<<t, "send">>] # "freed" => state[<<t, "send">>] # "freed"
      /\ state'[<<t, "send">>] = "none" <=> state[<<t, "send">>] = "none"
      /\ state'[<<t, "get">>] = "none" <=> state[<<t, "get">>] = "none"
  BY <1>2, <1>3, <1>4 DEF Types
<1>. QED
  BY <1>4, <1>5, <1>6, <1>7, <1>8

(* A connection that is closed stays closed.                               *)
LEMMA ClosedStays ==
    ASSUME Types, NEW e \in Ends, Session(e), running' = running, NEW d \in Ends
    PROVE  Closed(d) => Closed(d)'
BY DEF Session, Closed, Types

LEMMA NothingOnTheWay ==
    ASSUME NEW w, NEW g, NEW n, NEW f, NEW h, OnTheWay(w, g, n, f), Received(g, n, f),
           n = 0, Len(g) \in Nat
    PROVE  OnTheWay(w, g, n, h) /\ Received(g, n, h)
<1>1. Len(g) = 0 /\ (Len(g) + 1)..n = {}
  BY DEF Received
<1>. QED
  BY <1>1 DEF OnTheWay, Received

LEMMA TalksStream ==
    ASSUME IInv, NEW e \in Ends, Talks(e), NEW t \in Transfers
    PROVE  Stream(t)'
<1> USE DEF IInv
<1> DEFINE r == <<t, "get">>
<1>1. r \in Ends /\ got' = got /\ sent' = sent /\ sent[t] \in Nat /\ got[t] \in Seq(Units)
      /\ wire[r] \in Seq(Packets) /\ running' = running /\ Len(got[t]) \in Nat
  BY DEF Talks, usersVars, Types, Ends, Sides
<1>2. file'[t] = file[t] \/ sent[t] = 0
  <2>1. CASE OpensFile(e) /\ t = e[1]
    <3>1. sent[t] <= SizeOf(t) /\ SizeOf(t) = 0
      BY <2>1 DEF OpensFile, SizeOf, Progress
    <3>. QED
      BY <3>1, <1>1
  <2>2. CASE OpensFile(e) /\ t # e[1]
    BY <2>2, EndsArePairs DEF OpensFile, Types
  <2>. QED
    BY <2>1, <2>2 DEF Talks
<1>3. Received(got[t], sent[t], file[t])
  BY DEF Stream
<1>4. Received(got[t], sent[t], file'[t])
  BY <1>1, <1>2, <1>3 DEF Received
<1>5. ASSUME ~Closed(r)', t \notin torn'
      PROVE  OnTheWay(wire'[r], got[t], sent[t], file'[t])
  <2>1. ~Closed(r) /\ t \notin torn
    <3>1. ~Closed(r)
      BY <1>1, <1>5, ClosedStays DEF Talks
    <3>2. t \notin torn
      BY <1>5 DEF Talks, ReadsTorn
    <3>. QED
      BY <3>1, <3>2
  <2>2. OnTheWay(wire[r], got[t], sent[t], file[t])
    BY <2>1 DEF Stream
  <2>3. OnTheWay(wire[r], got[t], sent[t], file'[t])
    BY <2>2, <1>1, <1>2, <1>3, NothingOnTheWay
  <2>4. CASE UNCHANGED wire
    BY <2>3, <2>4
  <2>5. CASE ReadsOther(e)
    <3>1. CASE e = r
      <4>1. wire'[r] = Tail(wire[r]) /\ wire[r] # <<>> /\ wire[r][1].is # "data"
        BY <2>5, <3>1, <1>1 DEF ReadsOther, Types
      <4>. QED
        BY <4>1, <2>3, <1>1, ReadOther
    <3>2. CASE e # r
      BY <2>3, <2>5, <3>2, <1>1 DEF ReadsOther, Types
    <3>. QED
      BY <3>1, <3>2
  <2>7. CASE ReadsTorn(e)
    <3>1. e # r
      BY <2>7, <1>5 DEF ReadsTorn
    <3>. QED
      BY <2>3, <2>7, <3>1, <1>1 DEF ReadsTorn, Types
  <2>6. CASE WritesOther(e)
    <3>1. PICK s \in Seq(Packets) : Writes(e, s) /\ \A i \in 1..Len(s) : s[i].is \notin Unexpected(e)
      BY <2>6 DEF WritesOther
    <3>2. CASE Peer(e) = r
      <4>1. wire'[r] = wire[r] \o s
        BY <3>1, <3>2, <2>1, <1>1 DEF Writes, Types
      <4>2. \A i \in 1..Len(s) : s[i].is # "data"
        BY <3>1 DEF Unexpected
      <4>. QED
        BY <4>1, <4>2, <2>3, <1>1, WriteOther
    <3>3. CASE Peer(e) # r
      BY <3>1, <3>3, <2>3, <1>1, PeerIsEnd DEF Writes, Types
    <3>. QED
      BY <3>2, <3>3
  <2>. QED
    BY <2>4, <2>5, <2>6, <2>7 DEF Talks
<1>. QED
  BY <1>1, <1>4, <1>5 DEF Stream

(* Nothing is written of an empty file, otherwise the next unit is.        *)
WritesData(t, s) ==
    /\ Writes(<<t, "send">>, s)
    /\ \/ SizeOf(t) = 0 /\ Len(s) = 0 /\ sent' = sent
       \/ /\ SizeOf(t) # 0 /\ Len(s) = 1
          /\ \E f \in {file[t], "none"} : s[1] = Data(f, sent[t] + 1)
          /\ sent' = [sent EXCEPT ![t] = @ + 1]

LEMMA SendDataIs ==
    ASSUME IInv, NEW t \in Transfers, SendData(<<t, "send">>)
    PROVE  /\ \E s \in Seq(Packets) : WritesData(t, s)
           /\ \E st \in {"freed", "send_header", "send_file"} :
                 state' = [state EXCEPT ![<<t, "send">>] = st]
                 /\ (sent'[t] >= SizeOf(t) => st = "freed")
<1> DEFINE e == <<t, "send">>
<1>1. e[1] = t
  OBVIOUS
<1>2. \E st \in {"freed", "send_header", "send_file"} :
         state' = [state EXCEPT ![e] = st] /\ (sent'[t] >= SizeOf(t) => st = "freed")
  BY <1>1 DEF SendData, Closes, Goes
<1>3. /\ \A f \in {file[t], "none"} : Data(f, sent[t] + 1) \in Packets
      /\ sent \in [Transfers -> Nat]
  <2>1. /\ file[t] \in Files /\ "none" \in Files /\ sent[t] + 1 \in Nat
        /\ sent \in [Transfers -> Nat]
    BY DEF IInv, Types, Files
  <2>. QED
    BY <2>1, PacketTypes
<1>4. CASE SizeOf(t) = 0
  <2>1. PICK f \in {file[t], "none"} : Writes(e, [i \in 1..0 |-> Data(f, sent[t] + 1)])
    BY <1>1, <1>4 DEF SendData, WritesUnit
  <2>2. sent' = sent
    <3>1. sent' = [sent EXCEPT ![t] = @ + 0]
      BY <1>1, <1>4 DEF SendData
    <3>. QED
      BY <3>1, <1>3
  <2>3. [i \in 1..0 |-> Data(f, sent[t] + 1)] = <<>>
    OBVIOUS
  <2>4. <<>> \in Seq(Packets) /\ Len(<<>>) = 0
    OBVIOUS
  <2>5. WritesData(t, <<>>)
    BY <2>1, <2>2, <2>3, <2>4, <1>4 DEF WritesData
  <2>. QED
    BY <2>4, <2>5, <1>2
<1>5. CASE SizeOf(t) # 0
  <2>0. sent' = [sent EXCEPT ![t] = @ + 1]
    BY <1>1, <1>5 DEF SendData
  <2>1. PICK f \in {file[t], "none"} : Writes(e, [i \in 1..1 |-> Data(f, sent[t] + 1)])
    BY <1>1, <1>5 DEF SendData, WritesUnit
  <2>2. PICK s : s = [i \in 1..1 |-> Data(f, sent[t] + 1)]
    OBVIOUS
  <2>3. s \in Seq(Packets) /\ Len(s) = 1
    <3>1. s \in [1..1 -> Packets]
      BY <2>2, <1>3
    <3>. QED
      BY <3>1
  <2>4. s[1] = Data(f, sent[t] + 1)
    BY <2>2
  <2>5. WritesData(t, s)
    BY <2>0, <2>1, <2>2, <2>3, <2>4, <1>5 DEF WritesData
  <2>. QED
    BY <2>3, <2>5, <1>2
<1>. QED
  BY <1>4, <1>5

(* The numbers, in both cases.                                             *)
LEMMA SendDataCounts ==
    ASSUME IInv, NEW t \in Transfers, NEW s \in Seq(Packets), WritesData(t, s),
           state[<<t, "send">>] = "send_file"
    PROVE  /\ SizeOf(t) \in Nat /\ sent[t] \in Nat /\ sent'[t] \in Nat
           /\ sent' \in [Transfers -> Nat]
           /\ sent[t] <= sent'[t] /\ sent'[t] <= SizeOf(t)
           /\ Expected(s, Bad(<<t, "get">>))
<1>1. SizeOf(t) \in Nat /\ sent \in [Transfers -> Nat] /\ sent[t] \in Nat
  BY SizeIsNat DEF IInv, Types
<1>2. sent[t] <= SizeOf(t) /\ (sent[t] = 0 \/ sent[t] < SizeOf(t))
  BY DEF IInv, Progress
<1>3. CASE SizeOf(t) = 0 /\ Len(s) = 0 /\ sent' = sent
  <2>1. Expected(s, Bad(<<t, "get">>))
    BY <1>3 DEF Expected
  <2>. QED
    BY <2>1, <1>1, <1>2, <1>3
<1>4. CASE /\ SizeOf(t) # 0 /\ Len(s) = 1
           /\ \E f \in {file[t], "none"} : s[1] = Data(f, sent[t] + 1)
           /\ sent' = [sent EXCEPT ![t] = @ + 1]
  <2>1. sent'[t] = sent[t] + 1 /\ sent' \in [Transfers -> Nat]
    BY <1>1, <1>4
  <2>2. s[1].is = "data" /\ \A i \in 1..Len(s) : i = 1
    BY <1>4 DEF Data
  <2>3. Expected(s, Bad(<<t, "get">>))
    BY <2>2 DEF Expected, Bad
  <2>4. sent[t] < SizeOf(t)
    BY <1>1, <1>2, <1>4
  <2>. QED
    BY <2>1, <2>3, <2>4, <1>1
<1>. QED
  BY <1>3, <1>4 DEF WritesData

LEMMA SendDataOnTheWay ==
    ASSUME IInv, NEW t \in Transfers, NEW s \in Seq(Packets), WritesData(t, s),
           NEW w \in Seq(Packets), OnTheWay(w, got[t], sent[t], file[t]),
           Received(got[t], sent[t], file[t])
    PROVE  OnTheWay(w \o s, got[t], sent'[t], file[t])
<1>1. got[t] \in Seq(Units) /\ sent \in [Transfers -> Nat] /\ sent[t] \in Nat /\ file[t] \in Files
  BY DEF IInv, Types
<1>2. Len(got[t]) <= sent[t]
  BY DEF Received
<1>3. CASE Len(s) = 0 /\ sent' = sent
  <2>1. \A i \in 1..Len(s) : s[i].is # "data"
    BY <1>3
  <2>. QED
    BY <2>1, <1>1, <1>3, WriteOther
<1>4. CASE /\ Len(s) = 1 /\ \E f \in {file[t], "none"} : s[1] = Data(f, sent[t] + 1)
           /\ sent' = [sent EXCEPT ![t] = @ + 1]
  <2>1. sent'[t] = sent[t] + 1
    BY <1>1, <1>4
  <2>2. OnTheWay(w \o s, got[t], sent[t] + 1, file[t])
    <3>1. PICK f \in {file[t], "none"} : s[1] = Data(f, sent[t] + 1)
      BY <1>4
    <3>. QED
      BY <3>1, <1>1, <1>2, <1>4, WriteUnit
  <2>. QED
    BY <2>1, <2>2
<1>. QED
  BY <1>3, <1>4 DEF WritesData

(* The sending end writes a unit, or is done with an empty file.           *)
LEMMA SendDataKeeps ==
    ASSUME IInv, NEW t \in Transfers, SendData(<<t, "send">>)
    PROVE  IInv'
<1>1. PICK s \in Seq(Packets) : WritesData(t, s)
  BY SendDataIs
<1>2. PICK st \in {"freed", "send_header", "send_file"} :
         state' = [state EXCEPT ![<<t, "send">>] = st] /\ (sent'[t] >= SizeOf(t) => st = "freed")
  BY SendDataIs
<1>3. /\ state[<<t, "send">>] = "send_file" /\ file' = file /\ got' = got
      /\ running' = running /\ flow' = flow /\ requested' = requested /\ torn' = torn
  BY DEF SendData, In, usersVars
<1>4. /\ SizeOf(t) \in Nat /\ sent[t] \in Nat /\ sent'[t] \in Nat
      /\ sent' \in [Transfers -> Nat]
      /\ sent[t] <= sent'[t] /\ sent'[t] <= SizeOf(t)
      /\ Expected(s, Bad(<<t, "get">>))
  BY <1>1, <1>3, SendDataCounts
<1>5. /\ <<t, "send">> \in Ends /\ <<t, "get">> \in Ends
      /\ wire' = [wire EXCEPT ![<<t, "get">>] = IF Closed(<<t, "get">>) THEN @ ELSE @ \o s]
  BY <1>1 DEF Ends, Sides, Writes, Peer, WritesData
<1>6. /\ wire[<<t, "get">>] \in Seq(Packets) /\ wire[<<t, "get">>] \o s \in Seq(Packets)
      /\ Expected(wire[<<t, "get">>] \o s, Bad(<<t, "get">>))
  <2>1. wire[<<t, "get">>] \in Seq(Packets)
    BY <1>5 DEF IInv, Types
  <2>2. Expected(wire[<<t, "get">>], Bad(<<t, "get">>))
    BY <1>5, RolesByEnd DEF IInv, RoleOf
  <2>. QED
    BY <2>1, <2>2, <1>4, ConcatExpected
<1>7. Types'
  <2>1. wire' \in [Ends -> Seq(Packets)]
    BY <1>5, <1>6 DEF IInv, Types
  <2>2. state' \in [Ends -> States]
    BY <1>2 DEF IInv, Types, States, Writing
  <2>. QED
    BY <2>1, <2>2, <1>3, <1>4 DEF IInv, Types
<1>8. Roles'
  <2>1. \A d \in Ends : state'[d] \notin Foreign(d)
    BY <1>2, <1>5, RolesByEnd DEF IInv, RoleOf, Types, Foreign, OfReceiver
  <2>2. \A d \in Ends : Expected(wire'[d], Bad(d))
    BY <1>5, <1>6, RolesByEnd DEF IInv, RoleOf, Types
  <2>. QED
    BY <2>1, <2>2, RolesNext
<1>9. ASSUME NEW u \in Transfers, u # t
      PROVE  /\ sent'[u] = sent[u] /\ <<u, "get">> \in Ends /\ <<u, "send">> \in Ends
             /\ wire'[<<u, "get">>] = wire[<<u, "get">>]
             /\ state'[<<u, "get">>] = state[<<u, "get">>]
             /\ state'[<<u, "send">>] = state[<<u, "send">>]
  BY <1>1, <1>2, <1>5, <1>9 DEF IInv, Types, Ends, Sides, WritesData
<1>10. state'[<<t, "send">>] = st /\ state'[<<t, "get">>] = state[<<t, "get">>]
  BY <1>2, <1>5 DEF IInv, Types
<1>11. Progress'
  <2>1. \A u \in Transfers : SizeOf(u)' = SizeOf(u)
    BY <1>3 DEF SizeOf
  <2>2. flow[t] \notin {"unused", "requested"}
    BY <1>3 DEF IInv, Progress
  <2>3. ASSUME NEW u \in Transfers
        PROVE  /\ sent'[u] <= SizeOf(u)
               /\ state'[<<u, "send">>] # "freed" => sent'[u] = 0 \/ sent'[u] < SizeOf(u)
               /\ state'[<<u, "send">>] = "none" => sent'[u] = 0
               /\ flow'[u] \in {"unused", "requested"} =>
                     state'[<<u, "send">>] = "none" /\ state'[<<u, "get">>] = "none"
    <3>1. CASE u = t
      <4>1. st # "freed" => sent'[t] < SizeOf(t)
        BY <1>2, <1>4
      <4>. QED
        BY <4>1, <3>1, <2>2, <1>2, <1>3, <1>4, <1>10
    <3>2. CASE u # t
      BY <3>2, <1>3, <1>9 DEF IInv, Progress
    <3>. QED
      BY <3>1, <3>2
  <2>. QED
    BY <2>1, <2>3 DEF Progress
<1>12. ASSUME NEW u \in Transfers, u # t PROVE Stream(u)'
  <2>1. Closed(<<u, "get">>)' <=> Closed(<<u, "get">>)
    BY <1>3, <1>9, <1>12 DEF Closed
  <2>2. Stream(u)
    BY DEF IInv
  <2>. QED
    BY <2>1, <2>2, <1>3, <1>9, <1>12 DEF Stream
<1>13. Stream(t)'
  <2>1. Closed(<<t, "get">>)' <=> Closed(<<t, "get">>)
    BY <1>3, <1>10 DEF Closed
  <2>2. got[t] \in Seq(Units) /\ Stream(t)
    BY DEF IInv, Types
  <2>3. Len(got[t]) \in Nat
    BY <2>2
  <2>4. Received(got[t], sent[t], file[t])
    BY <2>2 DEF Stream
  <2>5. Received(got[t], sent'[t], file[t])
    BY <2>3, <2>4, <1>4 DEF Received
  <2>6. ASSUME ~Closed(<<t, "get">>), t \notin torn
        PROVE  OnTheWay(wire'[<<t, "get">>], got[t], sent'[t], file[t])
    <3>1. wire'[<<t, "get">>] = wire[<<t, "get">>] \o s
      BY <2>6, <1>5 DEF IInv, Types
    <3>2. OnTheWay(wire[<<t, "get">>], got[t], sent[t], file[t])
      BY <2>2, <2>6 DEF Stream
    <3>3. OnTheWay(wire[<<t, "get">>] \o s, got[t], sent'[t], file[t])
      BY <3>2, <2>4, <1>1, <1>6, SendDataOnTheWay
    <3>. QED
      BY <3>1, <3>3
  <2>. QED
    BY <2>1, <2>5, <2>6, <1>3 DEF Stream
<1>. QED
  BY <1>7, <1>8, <1>11, <1>12, <1>13 DEF IInv

(* The receiving end reads a unit.                                         *)
LEMMA GetDataKeeps ==
    ASSUME IInv, NEW t \in Transfers, NEW e, e = <<t, "get">>, GetData(e)
    PROVE  IInv'
<1> USE DEF IInv
<1>1. /\ e \in Ends /\ e[1] = t /\ sent[t] \in Nat /\ file[t] \in Files
      /\ got[t] \in Seq(Units) /\ wire[e] \in Seq(Packets)
  BY DEF Types, Ends, Sides
<1>2. /\ state[e] = "get_file" /\ wire[e] # <<>> /\ wire[e][1].is = "data"
      /\ wire' = [wire EXCEPT ![e] = Tail(@)]
      /\ got' = [got EXCEPT ![t] = Append(@, wire[e][1].arg)]
      /\ sent' = sent /\ file' = file /\ torn' = torn /\ UNCHANGED usersVars
      /\ t \notin torn /\ wire[e][1].arg.file # "none"
  BY DEF GetData, In, Reads, usersVars
<1>3. PICK st \in {"read_header", "get_file"} : state' = [state EXCEPT ![e] = st]
  BY DEF GetData, Goes
<1>4. Tail(wire[e]) \in Seq(Packets) /\ Expected(Tail(wire[e]), Bad(e))
  BY <1>1, <1>2, RolesByEnd, TailExpected DEF RoleOf
<1>5. ~Closed(e) /\ ~Closed(e)'
  BY <1>2, <1>3 DEF Closed, Types
<1>6. /\ OnTheWay(Tail(wire[e]), Append(got[t], wire[e][1].arg), sent[t], file[t])
      /\ Received(Append(got[t], wire[e][1].arg), sent[t], file[t])
      /\ Append(got[t], wire[e][1].arg) \in Seq(Units)
  <2>1. OnTheWay(wire[e], got[t], sent[t], file[t]) /\ Received(got[t], sent[t], file[t])
    BY <1>1, <1>2, <1>5 DEF Stream
  <2>. QED
    BY <2>1, <1>1, <1>2, ReadUnit
<1>7. Types'
  BY <1>1, <1>2, <1>3, <1>4, <1>6 DEF Types, usersVars, States, Reading
<1>8. Roles'
  <2>1. \A d \in Ends : state'[d] \notin Foreign(d)
    BY <1>1, <1>3, RolesByEnd DEF RoleOf, Types, Foreign, OfSender
  <2>2. \A d \in Ends : Expected(wire'[d], Bad(d))
    BY <1>1, <1>2, <1>4, RolesByEnd DEF RoleOf, Types
  <2>. QED
    BY <2>1, <2>2, RolesNext
<1>9. Progress'
  <2>1. ASSUME NEW u \in Transfers
        PROVE  /\ SizeOf(u)' = SizeOf(u) /\ state'[<<u, "send">>] = state[<<u, "send">>]
               /\ flow'[u] = flow[u] /\ sent'[u] = sent[u]
               /\ flow[u] \in {"unused", "requested"} => state'[<<u, "get">>] = state[<<u, "get">>]
    BY <1>1, <1>2, <1>3 DEF SizeOf, usersVars, Ends, Sides, Types, Progress
  <2>. QED
    BY <2>1 DEF Progress
<1>10. ASSUME NEW u \in Transfers PROVE Stream(u)'
  <2>1. CASE u = t
    <3>1. wire'[e] = Tail(wire[e]) /\ got'[t] = Append(got[t], wire[e][1].arg)
      BY <1>1, <1>2 DEF Types
    <3>. QED
      BY <3>1, <2>1, <1>1, <1>2, <1>6 DEF Stream
  <2>2. CASE u # t
    <3>1. <<u, "get">> \in Ends /\ <<u, "get">> # e
      BY <2>2, <1>1 DEF Ends, Sides
    <3>2. /\ wire'[<<u, "get">>] = wire[<<u, "get">>] /\ got'[u] = got[u]
          /\ state'[<<u, "get">>] = state[<<u, "get">>]
      BY <3>1, <2>2, <1>1, <1>2, <1>3 DEF Types
    <3>3. Closed(<<u, "get">>)' <=> Closed(<<u, "get">>)
      BY <3>2, <1>2 DEF Closed, usersVars
    <3>. QED
      BY <3>2, <3>3, <1>2 DEF Stream
  <2>. QED
    BY <2>1, <2>2
<1>. QED
  BY <1>7, <1>8, <1>9, <1>10

(* What the users, the server and the listening sockets do: nothing is     *)
(* written or read, and a file is opened only before anything is sent.     *)
LEMMA QuietKeeps ==
    ASSUME IInv, sent' = sent, got' = got, wire' = wire, torn' = torn,
           flow' \in [Transfers -> {"unused", "requested", "callback", "direct"}],
           requested' \in Files, file' \in [Transfers -> Files], state' \in [Ends -> States],
           \A e \in Ends : state'[e] \notin Foreign(e) /\ (Closed(e) => Closed(e)'),
           \A t \in Transfers :
              /\ sent[t] = 0 \/ file'[t] = file[t]
              /\ state'[<<t, "send">>] = "none" => state[<<t, "send">>] = "none"
              /\ state[<<t, "send">>] = "freed" => state'[<<t, "send">>] = "freed"
              /\ flow'[t] \in {"unused", "requested"} =>
                    state'[<<t, "send">>] = "none" /\ state'[<<t, "get">>] = "none"
    PROVE  IInv'
<1>1. Types'
  BY DEF IInv, Types
<1>2. Roles'
  <2>1. \A d \in Ends : Expected(wire'[d], Bad(d))
    BY RolesByEnd DEF IInv, RoleOf
  <2>. QED
    BY <2>1, RolesNext
<1>3. ASSUME NEW t \in Transfers
      PROVE  /\ SizeOf(t)' \in Nat /\ sent[t] \in Nat
             /\ sent[t] = 0 \/ SizeOf(t)' = SizeOf(t)
  BY <1>1, DccAssumption DEF IInv, Types, SizeOf, Files
<1>4. Progress'
  <2>1. SUFFICES ASSUME NEW t \in Transfers
                 PROVE  /\ sent[t] <= SizeOf(t)'
                        /\ state'[<<t, "send">>] # "freed" => sent[t] = 0 \/ sent[t] < SizeOf(t)'
                        /\ state'[<<t, "send">>] = "none" => sent[t] = 0
    BY DEF Progress
  <2>2. /\ sent[t] <= SizeOf(t)
        /\ state[<<t, "send">>] # "freed" => sent[t] = 0 \/ sent[t] < SizeOf(t)
        /\ state[<<t, "send">>] = "none" => sent[t] = 0
    BY DEF IInv, Progress
  <2>3. state'[<<t, "send">>] # "freed" => state[<<t, "send">>] # "freed"
    OBVIOUS
  <2>4. SizeOf(t)' \in Nat /\ sent[t] \in Nat
    BY <1>3
  <2>5. CASE sent[t] = 0
    BY <2>4, <2>5
  <2>6. CASE SizeOf(t)' = SizeOf(t)
    BY <2>2, <2>3, <2>6
  <2>. QED
    BY <1>3, <2>5, <2>6
<1>5. ASSUME NEW t \in Transfers PROVE Stream(t)'
  <2>1. /\ <<t, "get">> \in Ends /\ Stream(t) /\ got[t] \in Seq(Units)
        /\ sent[t] = 0 \/ file'[t] = file[t]
    BY DEF Ends, Sides, IInv, Types
  <2>2. Len(got[t]) \in Nat
    BY <2>1
  <2>3. Received(got[t], sent[t], file[t])
    BY <2>1 DEF Stream
  <2>4. Received(got[t], sent[t], file'[t])
    BY <2>1, <2>2, <2>3 DEF Received
  <2>5. ASSUME ~Closed(<<t, "get">>)', t \notin torn
        PROVE  OnTheWay(wire[<<t, "get">>], got[t], sent[t], file'[t])
    <3>1. OnTheWay(wire[<<t, "get">>], got[t], sent[t], file[t])
      BY <2>1, <2>5 DEF Stream
    <3>. QED
      BY <3>1, <2>1, <2>2, <2>3, NothingOnTheWay
  <2>. QED
    BY <2>4, <2>5 DEF Stream
<1>. QED
  BY <1>1, <1>2, <1>4, <1>5 DEF IInv

(* What holds of an end before one of these steps.                         *)
LEMMA EndFacts ==
    ASSUME IInv
    PROVE  /\ \A t \in Transfers : <<t, "send">> \in Ends /\ <<t, "get">> \in Ends
           /\ \A e \in Ends : state[e] \in States /\ state[e] \notin Foreign(e)
           /\ \A t \in Transfers : flow[t] \in {"unused", "requested"} =>
                 state[<<t, "send">>] = "none" /\ state[<<t, "get">>] = "none" /\ sent[t] = 0
BY RolesByEnd DEF IInv, Types, RoleOf, Progress, Ends, Sides

LEMMA UsersKeep ==
    ASSUME IInv, NEW t \in Transfers,
           \/ RequestTransfer(t) \/ RequestArrives(t) \/ SendDirectly(t) \/ AnswerDirect(t)
           \/ \E yes \in BOOLEAN : Answer(t, yes)
    PROVE  IInv'
<1> USE EndFacts
<1>1. CASE RequestTransfer(t)
  BY <1>1, QuietKeeps DEF RequestTransfer, fileVars, IInv, Types, Files, Closed
<1>2. CASE RequestArrives(t)
  <2>1. ~Closed(<<t, "get">>)
    BY <1>2 DEF RequestArrives, Closed
  <2>2. state' = [state EXCEPT ![<<t, "get">>] = "connecting"] /\ running' = running
    BY <1>2 DEF RequestArrives, Opens
  <2>3. \A e \in Ends : Closed(e) => Closed(e)'
    BY <2>1, <2>2 DEF Closed, IInv, Types
  <2>4. \A e \in Ends : state'[e] \notin Foreign(e)
    BY <2>2 DEF Foreign, OfSender, OfReceiver, IInv, Types
  <2>5. state' \in [Ends -> States]
    BY <2>2 DEF IInv, Types, States, Writing
  <2>. QED
    BY <1>2, <2>2, <2>3, <2>4, <2>5, QuietKeeps DEF RequestArrives, fileVars, IInv, Types
<1>3. CASE SendDirectly(t)
  <2>1. ~Closed(<<t, "send">>) /\ sent[t] = 0
    BY <1>3 DEF SendDirectly, Closed
  <2>2. state' = [state EXCEPT ![<<t, "send">>] = "connecting"] /\ running' = running
    BY <1>3 DEF SendDirectly, Opens
  <2>3. \A e \in Ends : Closed(e) => Closed(e)'
    BY <2>1, <2>2 DEF Closed, IInv, Types
  <2>4. \A e \in Ends : state'[e] \notin Foreign(e)
    BY <2>2 DEF Foreign, OfSender, OfReceiver, IInv, Types
  <2>5. state' \in [Ends -> States] /\ file' \in [Transfers -> Files]
    BY <1>3, <2>2 DEF SendDirectly, IInv, Types, States, Writing, Files
  <2>. QED
    BY <1>3, <2>1, <2>2, <2>3, <2>4, <2>5, QuietKeeps DEF SendDirectly, IInv, Types
<1>4. CASE AnswerDirect(t)
  BY <1>4, QuietKeeps DEF AnswerDirect, usersVars, fileVars, IInv, Types, Closed
<1>5. ASSUME NEW yes \in BOOLEAN, Answer(t, yes) PROVE IInv'
  <2>1. PICK st \in {"connecting", "freed"} : state' = [state EXCEPT ![<<t, "get">>] = st]
    BY <1>5 DEF Answer, Opens
  <2>2. state[<<t, "get">>] = "connecting" /\ flow[t] = "callback" /\ running' = running
    BY <1>5 DEF Answer, usersVars
  <2>3. \A e \in Ends : Closed(e) => Closed(e)'
    BY <2>1, <2>2 DEF Closed, IInv, Types
  <2>4. \A e \in Ends : state'[e] \notin Foreign(e)
    BY <2>1 DEF Foreign, OfSender, OfReceiver, IInv, Types
  <2>5. state' \in [Ends -> States]
    BY <2>1 DEF IInv, Types, States, Writing
  <2>. QED
    BY <1>5, <2>1, <2>2, <2>3, <2>4, <2>5, QuietKeeps
    DEF Answer, usersVars, fileVars, IInv, Types
<1>. QED
  BY <1>1, <1>2, <1>3, <1>4, <1>5

LEMMA AcceptKeeps ==
    ASSUME IInv, NEW e \in Ends, Accept(e)
    PROVE  IInv'
<1>1. state' = [state EXCEPT ![e] = "read_uin_1"] /\ running' = running /\ flow' = flow
  BY DEF Accept, Opens, usersVars
<1>2. state[e] = "none" /\ ~Closed(e)
  BY DEF Accept, Closed
<1>3. \A d \in Ends : Closed(d) => Closed(d)'
  BY <1>1, <1>2 DEF Closed, IInv, Types
<1>4. \A d \in Ends : state'[d] \notin Foreign(d)
  BY <1>1, EndFacts DEF Foreign, OfSender, OfReceiver, IInv, Types
<1>5. state' \in [Ends -> States]
  BY <1>1 DEF IInv, Types, States, Reading
<1>6. flow[e[1]] \notin {"unused", "requested"}
  BY EndFacts, EndsArePairs, PeerIsEnd DEF Accept, Sides
<1>7. ASSUME NEW t \in Transfers, flow[t] \in {"unused", "requested"}
      PROVE  state'[<<t, "send">>] = "none" /\ state'[<<t, "get">>] = "none"
  <2>1. e # <<t, "send">> /\ e # <<t, "get">>
    BY <1>6, <1>7
  <2>. QED
    BY <2>1, <1>1, <1>7, EndFacts DEF IInv, Types
<1>. QED
  BY <1>1, <1>2, <1>3, <1>4, <1>5, <1>7, EndFacts, QuietKeeps
  DEF Accept, usersVars, fileVars, IInv, Types

LEMMA ExitKeeps ==
    ASSUME IInv, NEW p \in Sides, Exit(p)
    PROVE  IInv'
<1>1. state' = [e \in Ends |-> IF e[2] = p /\ state[e] # "none" THEN "freed" ELSE state[e]]
      /\ running' = running \ {p} /\ flow' = flow
  BY DEF Exit
<1>2. \A d \in Ends : Closed(d) => Closed(d)'
  BY <1>1 DEF Closed
<1>3. \A d \in Ends : state'[d] \notin Foreign(d)
  BY <1>1, EndFacts DEF Foreign, OfSender, OfReceiver
<1>4. state' \in [Ends -> States]
  BY <1>1, EndFacts DEF States
<1>5. \A d \in Ends : /\ state'[d] = "none" <=> state[d] = "none"
                      /\ state[d] = "freed" => state'[d] = "freed"
  BY <1>1
<1>. QED
  BY <1>1, <1>2, <1>3, <1>4, <1>5, EndFacts, QuietKeeps DEF Exit, fileVars, IInv, Types

LEMMA StutterKeeps ==
    ASSUME IInv, UNCHANGED vars
    PROVE  IInv'
BY EndFacts, QuietKeeps DEF vars, usersVars, fileVars, IInv, Types, Closed

LEMMA InitIInv == ASSUME Init PROVE IInv
<1>1. Types
  BY DEF Init, Types, Files, States
<1>2. ASSUME NEW t \in Transfers
      PROVE  /\ state[<<t, "send">>] = "none" /\ state[<<t, "get">>] = "none"
             /\ wire[<<t, "send">>] = <<>> /\ wire[<<t, "get">>] = <<>>
             /\ sent[t] = 0 /\ got[t] = <<>> /\ SizeOf(t) = 0
  BY DEF Init, Ends, Sides, SizeOf
<1>3. Len(<<>>) = 0 /\ 1..0 = {}
  OBVIOUS
<1>4. Roles
  BY <1>2, <1>3 DEF Roles, OfSender, OfReceiver
<1>5. Progress
  <2>1. 0 <= 0
    OBVIOUS
  <2>2. \A t \in Transfers : sent[t] <= SizeOf(t)
    BY <1>2, <2>1
  <2>. QED
    BY <1>2, <2>2 DEF Progress
<1>6. ASSUME NEW t \in Transfers PROVE Stream(t)
  <2>1. (Len(<<>>) + 1)..0 = {} /\ 0 <= 0
    BY <1>3
  <2>. QED
    BY <1>2, <1>3, <2>1 DEF Stream, Received, OnTheWay
<1>. QED
  BY <1>1, <1>4, <1>5, <1>6 DEF IInv

LEMMA NextKeeps ==
    ASSUME IInv, [Next]_vars
    PROVE  IInv'
<1>1. CASE UNCHANGED vars
  BY <1>1, StutterKeeps
<1>2. ASSUME NEW t \in Transfers,
             \/ RequestTransfer(t) \/ RequestArrives(t) \/ SendDirectly(t) \/ AnswerDirect(t)
             \/ \E yes \in BOOLEAN : Answer(t, yes)
      PROVE  IInv'
  BY <1>2, UsersKeep
<1>3. ASSUME NEW e \in Ends, Accept(e) PROVE IInv'
  BY <1>3, AcceptKeeps
<1>4. ASSUME NEW e \in Ends, Step(e) PROVE IInv'
  <2>0. e[1] \in Transfers /\ e = <<e[1], e[2]>>
    BY EndsArePairs
  <2>1. CASE Talks(e)
    BY <2>1, TalksTypes, TalksProgress, TalksStream DEF IInv
  <2>2. CASE SendData(e) /\ e[2] = "send"
    <3>1. e = <<e[1], "send">>
      BY <2>0, <2>2
    <3>2. SendData(<<e[1], "send">>)
      BY <3>1, <2>2
    <3>. QED
      BY <3>2, <2>0, SendDataKeeps
  <2>3. CASE GetData(e) /\ e[2] = "get"
    <3>1. e = <<e[1], "get">>
      BY <2>0, <2>3
    <3>. QED
      BY <3>1, <2>0, <2>3, GetDataKeeps
  <2>. QED
    BY <1>4, <2>1, <2>2, <2>3, StepIs
<1>5. ASSUME NEW p \in Sides, Exit(p) PROVE IInv'
  BY <1>5, ExitKeeps
<1>. QED
  BY <1>1, <1>2, <1>3, <1>4, <1>5 DEF Next

-----------------------------------------------------------------------------
(* Nothing is received of a file that is not open yet.                     *)
LEMMA IInvGotPrefix == ASSUME IInv PROVE GotPrefix
<1>1. SUFFICES ASSUME NEW t \in Transfers
               PROVE  \E f \in Transfers :
                         /\ got[t] = [i \in 1..Len(got[t]) |-> Unit(f, i)]
                         /\ Len(got[t]) <= Size[f]
  BY DEF GotPrefix
<1>2. /\ got[t] \in Seq(Units) /\ file[t] \in Files /\ sent[t] \in Nat
      /\ Len(got[t]) <= sent[t] /\ sent[t] <= SizeOf(t) /\ SizeOf(t) \in Nat
      /\ \A i \in 1..Len(got[t]) : got[t][i] = Unit(file[t], i)
  BY SizeIsNat DEF IInv, Types, Stream, Received, Progress
<1>3. Len(got[t]) \in Nat /\ Len(got[t]) <= SizeOf(t)
  BY <1>2
<1>4. got[t] = [i \in 1..Len(got[t]) |-> got[t][i]]
  BY <1>2
<1>5. CASE file[t] \in Transfers
  <2>1. SizeOf(t) = Size[file[t]]
    BY <1>5, DccAssumption DEF SizeOf
  <2>2. got[t] = [i \in 1..Len(got[t]) |-> Unit(file[t], i)]
    BY <1>2, <1>4
  <2>. QED
    BY <2>1, <2>2, <1>3, <1>5
<1>6. CASE file[t] = "none"
  <2>1. Len(got[t]) = 0 /\ Size[t] \in Nat
    BY <1>3, <1>6, DccAssumption DEF SizeOf
  <2>2. 1..Len(got[t]) = {}
    BY <2>1
  <2>3. got[t] = [i \in 1..Len(got[t]) |-> Unit(t, i)]
    BY <1>4, <2>2
  <2>. QED
    BY <2>1, <2>3
<1>. QED
  BY <1>2, <1>5, <1>6 DEF Files

(* Whatever the users and the two programs do, a receiver has on its disk  *)
(* the beginning of one file of the sender, and of no other, followed by   *)
(* something else only after a unit that the sender wrote in part (dcc.c). *)
THEOREM SpecGotPrefix == Spec => []GotPrefix
<1>1. Init => IInv
  BY InitIInv
<1>2. IInv /\ [Next]_vars => IInv'
  BY NextKeeps
<1>3. IInv => GotPrefix
  BY IInvGotPrefix
<1>. QED
  BY <1>1, <1>2, <1>3, PTL DEF Spec

-----------------------------------------------------------------------------
(* Both users are told the truth.  The sender is told "sent" as it writes  *)
(* the last unit; the receiver "received" when the other end is closed and *)
(* everything it has written is read.  What they are told is about ends    *)
(* that are closed, and of those nothing changes any more.                 *)
Messages == {"nothing", "asked", "sent", "received", "refused"}

SentAll(t) == state[<<t, "send">>] = "freed" /\ sent[t] = SizeOf(t)
GotAll(t)  == /\ state[<<t, "get">>] = "freed" /\ Closed(<<t, "send">>)
              /\ Len(got[t]) = sent[t] \/ t \in torn

ToldInv ==
    /\ IInv
    /\ told \in [Ends -> Messages]
    /\ \A t \in Transfers :
          /\ told[<<t, "send">>] = "sent" => SentAll(t)
          /\ told[<<t, "get">>] = "received" => GotAll(t)

(* A closed end stays closed, and sends, opens and receives nothing.       *)
Rests(e) ==
    /\ Closed(e)' /\ (state[e] = "freed" => state'[e] = "freed")
    /\ e[2] = "send" => /\ sent'[e[1]] = sent[e[1]]
                        /\ state[e] = "freed" => file'[e[1]] = file[e[1]]
    /\ e[2] = "get" => got'[e[1]] = got[e[1]]
    /\ torn \subseteq torn'

LEMMA StepRests ==
    ASSUME IInv, NEW e \in Ends, Step(e), NEW d \in Ends, Closed(d)
    PROVE  Rests(d)
<1>1. e[1] \in Transfers /\ e = <<e[1], e[2]>> /\ d[1] \in Transfers /\ d = <<d[1], d[2]>>
  BY EndsArePairs
<1>2. Types
  BY DEF IInv
<1>3. CASE Talks(e)
  <2>1. Closed(d)' /\ (state[d] = "freed" => state'[d] = "freed")
    <3>1. Closed(d)'
      BY <1>2, <1>3, ClosedStays DEF Talks, usersVars
    <3>2. state[d] = "freed" => state'[d] = "freed"
      BY <1>2, <1>3 DEF Talks, Session, Types
    <3>. QED
      BY <3>1, <3>2
  <2>2. d[2] = "send" /\ state[d] = "freed" => file'[d[1]] = file[d[1]]
    <3>1. state[d] = "freed" => d # e
      BY <1>3 DEF Talks, Session
    <3>. QED
      BY <3>1, <1>1, <1>2, <1>3 DEF Talks, OpensFile, Types
  <2>3. torn \subseteq torn'
    BY <1>3 DEF Talks, ReadsTorn
  <2>. QED
    BY <2>1, <2>2, <2>3, <1>3 DEF Talks, Rests
<1>4. CASE SendData(e) /\ e[2] = "send"
  <2>1. state[e] = "send_file" /\ running' = running /\ got' = got /\ file' = file /\ torn' = torn
    BY <1>4 DEF SendData, In, usersVars
  <2>2. \E st : state' = [state EXCEPT ![e] = st]
    BY <1>4 DEF SendData, Closes, Goes
  <2>3. d # e
    BY <2>1 DEF Closed
  <2>4. state'[d] = state[d]
    BY <2>2, <2>3, <1>2 DEF Types
  <2>5. d[2] = "send" => sent'[d[1]] = sent[d[1]]
    <3>1. d[2] = "send" => d[1] # e[1]
      BY <1>1, <1>4, <2>3
    <3>2. \E n : sent' = [sent EXCEPT ![e[1]] = n]
      BY <1>4 DEF SendData
    <3>. QED
      BY <3>1, <3>2, <1>1, <1>2 DEF Types
  <2>. QED
    BY <2>1, <2>4, <2>5 DEF Rests, Closed
<1>5. CASE GetData(e) /\ e[2] = "get"
  <2>1. state[e] = "get_file" /\ running' = running /\ sent' = sent /\ file' = file /\ torn' = torn
    BY <1>5 DEF GetData, In, usersVars
  <2>2. \E st : state' = [state EXCEPT ![e] = st]
    BY <1>5 DEF GetData, Goes
  <2>3. d # e
    BY <2>1 DEF Closed
  <2>4. state'[d] = state[d]
    BY <2>2, <2>3, <1>2 DEF Types
  <2>5. d[2] = "get" => got'[d[1]] = got[d[1]]
    <3>1. d[2] = "get" => d[1] # e[1]
      BY <1>1, <1>5, <2>3
    <3>2. \E g : got' = [got EXCEPT ![e[1]] = g]
      BY <1>5 DEF GetData
    <3>. QED
      BY <3>1, <3>2, <1>1, <1>2 DEF Types
  <2>. QED
    BY <2>1, <2>4, <2>5 DEF Rests, Closed
<1>. QED
  BY <1>3, <1>4, <1>5, StepIs

LEMMA UsersRest ==
    ASSUME IInv, NEW t \in Transfers, NEW d \in Ends, Closed(d),
           \/ RequestTransfer(t) \/ RequestArrives(t) \/ SendDirectly(t) \/ AnswerDirect(t)
           \/ \E yes \in BOOLEAN : Answer(t, yes)
    PROVE  Rests(d)
<1> USE EndFacts
<1>1. Types
  BY DEF IInv
<1>2. CASE RequestTransfer(t) \/ AnswerDirect(t)
  BY <1>2 DEF RequestTransfer, AnswerDirect, Rests, Closed, fileVars, usersVars
<1>3. CASE RequestArrives(t)
  <2>0. ~Closed(<<t, "get">>)
    BY <1>3 DEF RequestArrives, Closed
  <2>1. d # <<t, "get">>
    BY <2>0
  <2>2. state'[d] = state[d] /\ running' = running
    BY <2>1, <1>1, <1>3 DEF RequestArrives, Opens, Types
  <2>. QED
    BY <2>2, <1>3 DEF RequestArrives, Rests, Closed, fileVars
<1>4. CASE SendDirectly(t)
  <2>0. ~Closed(<<t, "send">>)
    BY <1>4 DEF SendDirectly, Closed
  <2>1. d # <<t, "send">>
    BY <2>0
  <2>2. state'[d] = state[d] /\ running' = running
    BY <2>1, <1>1, <1>4 DEF SendDirectly, Opens, Types
  <2>3. d[2] = "send" => file'[d[1]] = file[d[1]]
    BY <2>1, <1>1, <1>4, EndsArePairs DEF SendDirectly, Types
  <2>. QED
    BY <2>2, <2>3, <1>4 DEF SendDirectly, Rests, Closed
<1>5. ASSUME NEW yes \in BOOLEAN, Answer(t, yes) PROVE Rests(d)
  <2>1. d # <<t, "get">>
    BY <1>5 DEF Answer, Closed
  <2>2. state'[d] = state[d] /\ running' = running
    BY <2>1, <1>1, <1>5 DEF Answer, Opens, Types, usersVars
  <2>. QED
    BY <2>2, <1>5 DEF Answer, Rests, Closed, fileVars
<1>. QED
  BY <1>2, <1>3, <1>4, <1>5

LEMMA ClosedRests ==
    ASSUME IInv, [Next]_vars, NEW d \in Ends, Closed(d)
    PROVE  Rests(d)
<1>1. CASE UNCHANGED vars
  BY <1>1 DEF vars, usersVars, fileVars, Rests, Closed
<1>2. ASSUME NEW t \in Transfers,
             \/ RequestTransfer(t) \/ RequestArrives(t) \/ SendDirectly(t) \/ AnswerDirect(t)
             \/ \E yes \in BOOLEAN : Answer(t, yes)
      PROVE  Rests(d)
  BY <1>2, UsersRest
<1>3. ASSUME NEW e \in Ends, Accept(e) PROVE Rests(d)
  <2>1. d # e
    BY <1>3 DEF Accept, Closed
  <2>2. state'[d] = state[d] /\ running' = running
    BY <2>1, <1>3 DEF Accept, Opens, usersVars, IInv, Types
  <2>. QED
    BY <2>2, <1>3 DEF Accept, Rests, Closed, fileVars
<1>4. ASSUME NEW e \in Ends, Step(e) PROVE Rests(d)
  BY <1>4, StepRests
<1>5. ASSUME NEW p \in Sides, Exit(p) PROVE Rests(d)
  BY <1>5 DEF Exit, Rests, Closed, fileVars
<1>. QED
  BY <1>1, <1>2, <1>3, <1>4, <1>5 DEF Next

(* Who is told "sent" and "received", and when.                            *)
TellsSent(d) == SendData(d) /\ d[2] = "send" /\ sent'[d[1]] >= SizeOf(d[1])

TellsReceived(d) ==
    /\ d[2] = "get" /\ wire[d] = <<>> /\ ~Closed(d) /\ Closed(Peer(d))
    /\ state' = [state EXCEPT ![d] = "freed"] /\ UNCHANGED <<running, sent, got, torn>>

TellsBoth(d) ==
    /\ told'[d] = "sent" => told[d] = "sent" \/ TellsSent(d)
    /\ told'[d] = "received" => told[d] = "received" \/ TellsReceived(d)

LEMMA StepTells ==
    ASSUME ToldInv, NEW e \in Ends, Step(e)
    PROVE  told' \in [Ends -> Messages] /\ \A d \in Ends : TellsBoth(d)
<1>1. IInv /\ Types /\ told \in [Ends -> Messages]
  BY DEF ToldInv, IInv
<1>2. ASSUME UNCHANGED told PROVE told' \in [Ends -> Messages] /\ \A d \in Ends : TellsBoth(d)
  BY <1>1, <1>2 DEF TellsBoth
<1>3. ASSUME NEW m \in {"nothing", "asked", "refused"}, told' = [told EXCEPT ![e] = m]
      PROVE  told' \in [Ends -> Messages] /\ \A d \in Ends : TellsBoth(d)
  BY <1>1, <1>3 DEF TellsBoth, Messages
<1>4. CASE SendData(e)
  <2>1. e[2] = "send"
    BY <1>1, <1>4, EndFacts, EndsArePairs DEF SendData, In, Foreign, OfSender, Sides
  <2>2. UNCHANGED told \/ (told' = [told EXCEPT ![e] = "sent"] /\ TellsSent(e))
    BY <1>4, <2>1 DEF SendData, Closes, TellsSent
  <2>3. CASE told' = [told EXCEPT ![e] = "sent"] /\ TellsSent(e)
    BY <2>3, <1>1 DEF TellsBoth, Messages
  <2>. QED
    BY <2>2, <2>3, <1>2
<1>5. CASE ReadFails(e)
  <2>1. told' = [told EXCEPT ![e] = Message(e)] /\ state' = [state EXCEPT ![e] = "freed"]
    BY <1>5 DEF ReadFails, Closes
  <2>2. CASE state[e] = "get_file" /\ Closed(Peer(e))
    <3>1. e[2] = "get"
      BY <1>1, <2>2, EndFacts, EndsArePairs DEF Foreign, OfReceiver, Sides
    <3>2. TellsReceived(e)
      BY <3>1, <2>1, <2>2, <1>5 DEF TellsReceived, ReadFails, Closed, usersVars, fileVars
    <3>3. Message(e) = "received"
      BY <2>2 DEF Message
    <3>. QED
      BY <3>2, <3>3, <2>1, <1>1 DEF TellsBoth, Messages
  <2>3. CASE ~(state[e] = "get_file" /\ Closed(Peer(e)))
    <3>1. Message(e) \in {"nothing", "asked", "refused"}
      BY <2>3 DEF Message
    <3>. QED
      BY <3>1, <2>1, <1>3
  <2>. QED
    BY <2>2, <2>3
<1>6. CASE WriteFails(e)
  BY <1>6, <1>3 DEF WriteFails, Closes
<1>7. CASE ReadFileInfo(e)
  BY <1>7, <1>2, <1>3 DEF ReadFileInfo, Closes
<1>8. CASE UNCHANGED told
  BY <1>8, <1>2
<1>9. CASE Garbled(e)
  BY <1>9, <1>2, <1>3 DEF Garbled, Closes
<1>. QED
  BY <1>4, <1>5, <1>6, <1>7, <1>8, <1>9
  DEF Step, Connected, ReadUin, SendAck, ReadAck, SendRequest, ReadType, NeedFileInfo,
      SendFileInfo, ReadRequest, SendFileAck, ReadFileAck, SendHeader, ReadHeader,
      ReadNoBuffer, GetData

LEMMA NextTells ==
    ASSUME ToldInv, [Next]_vars
    PROVE  told' \in [Ends -> Messages] /\ \A d \in Ends : TellsBoth(d)
<1>1. ASSUME UNCHANGED told PROVE told' \in [Ends -> Messages] /\ \A d \in Ends : TellsBoth(d)
  BY <1>1 DEF TellsBoth, ToldInv
<1>2. ASSUME NEW e \in Ends, Step(e)
      PROVE  told' \in [Ends -> Messages] /\ \A d \in Ends : TellsBoth(d)
  BY <1>2, StepTells
<1>. QED
  BY <1>1, <1>2 DEF Next, vars, RequestTransfer, RequestArrives, SendDirectly, AnswerDirect,
                    Answer, Accept, Exit

(* "sent": the last unit has just been written.                            *)
LEMMA SentIsAll ==
    ASSUME IInv, NEW t \in Transfers, TellsSent(<<t, "send">>)
    PROVE  SentAll(t)'
<1>1. SendData(<<t, "send">>) /\ sent'[t] >= SizeOf(t) /\ <<t, "send">> \in Ends
  BY EndFacts DEF TellsSent
<1>2. PICK s \in Seq(Packets) : WritesData(t, s)
  BY <1>1, SendDataIs
<1>3. state[<<t, "send">>] = "send_file" /\ file' = file
  BY <1>1 DEF SendData, In
<1>4. SizeOf(t) \in Nat /\ sent'[t] \in Nat /\ sent'[t] <= SizeOf(t)
  BY <1>2, <1>3, SendDataCounts
<1>5. state'[<<t, "send">>] = "freed"
  BY <1>1, SendDataIs DEF IInv, Types
<1>6. SizeOf(t)' = SizeOf(t)
  BY <1>3 DEF SizeOf
<1>. QED
  BY <1>1, <1>4, <1>5, <1>6 DEF SentAll

(* "received": nothing is on the wire and nothing more will be.            *)
LEMMA ReceivedIsAll ==
    ASSUME IInv, NEW t \in Transfers, TellsReceived(<<t, "get">>)
    PROVE  GotAll(t)'
<1> DEFINE e == <<t, "get">>
<1>1. e \in Ends /\ <<t, "send">> \in Ends /\ Peer(e) = <<t, "send">>
  BY EndFacts DEF Peer
<1>2. wire[e] = <<>> /\ ~Closed(e) /\ Closed(<<t, "send">>)
  BY <1>1 DEF TellsReceived
<1>3. /\ state' = [state EXCEPT ![e] = "freed"] /\ running' = running /\ sent' = sent /\ got' = got
      /\ torn' = torn
  BY DEF TellsReceived
<1>4. /\ Received(got[t], sent[t], file[t])
      /\ t \notin torn => OnTheWay(<<>>, got[t], sent[t], file[t])
  BY <1>2 DEF IInv, Stream
<1>5. sent[t] \in Nat /\ Len(got[t]) \in Nat /\ Len(got[t]) <= sent[t]
  <2>1. sent[t] \in Nat /\ got[t] \in Seq(Units)
    BY DEF IInv, Types
  <2>. QED
    BY <2>1, <1>4 DEF Received
<1>6. ASSUME t \notin torn PROVE Len(got[t]) = sent[t]
  <2>1. ~(\E i \in 1..Len(<<>>) : TRUE)
    OBVIOUS
  <2>2. \A k \in (Len(got[t]) + 1)..sent[t] : FALSE
    BY <2>1, <1>4, <1>6 DEF OnTheWay
  <2>. QED
    BY <2>2, <1>5
<1>7. state'[e] = "freed" /\ state'[<<t, "send">>] = state[<<t, "send">>]
  BY <1>1, <1>3 DEF IInv, Types
<1>. QED
  BY <1>2, <1>3, <1>6, <1>7 DEF GotAll, Closed

LEMMA ToldBothKeeps == ASSUME ToldInv, [Next]_vars PROVE ToldInv'
<1>1. IInv /\ IInv'
  BY NextKeeps DEF ToldInv
<1>2. told' \in [Ends -> Messages] /\ \A d \in Ends : TellsBoth(d)
  BY NextTells
<1>3. ASSUME NEW t \in Transfers, told'[<<t, "send">>] = "sent" PROVE SentAll(t)'
  <2>1. <<t, "send">> \in Ends
    BY <1>1, EndFacts
  <2>2. told[<<t, "send">>] = "sent" \/ TellsSent(<<t, "send">>)
    BY <2>1, <1>2, <1>3 DEF TellsBoth
  <2>3. CASE told[<<t, "send">>] = "sent"
    <3>1. SentAll(t)
      BY <2>3 DEF ToldInv
    <3>2. Rests(<<t, "send">>)
      BY <3>1, <2>1, <1>1, ClosedRests DEF SentAll, Closed
    <3>. QED
      BY <3>1, <3>2 DEF SentAll, Rests, SizeOf
  <2>. QED
    BY <2>2, <2>3, <1>1, SentIsAll
<1>4. ASSUME NEW t \in Transfers, told'[<<t, "get">>] = "received" PROVE GotAll(t)'
  <2>1. <<t, "send">> \in Ends /\ <<t, "get">> \in Ends
    BY <1>1, EndFacts
  <2>2. told[<<t, "get">>] = "received" \/ TellsReceived(<<t, "get">>)
    BY <2>1, <1>2, <1>4 DEF TellsBoth
  <2>3. CASE told[<<t, "get">>] = "received"
    <3>1. GotAll(t)
      BY <2>3 DEF ToldInv
    <3>2. Rests(<<t, "send">>) /\ Rests(<<t, "get">>)
      BY <3>1, <2>1, <1>1, ClosedRests DEF GotAll, Closed
    <3>. QED
      BY <3>1, <3>2 DEF GotAll, Rests
  <2>. QED
    BY <2>2, <2>3, <1>1, ReceivedIsAll
<1>. QED
  BY <1>1, <1>2, <1>3, <1>4 DEF ToldInv

(* If one user is told that the file was sent and the other that it was    *)
(* received, the receiver has all of it (the GG_EVENT_DCC_DONE of both     *)
(* programs, dcc.c), or has read a unit that was written in part.          *)
THEOREM SpecBothToldComplete == Spec => []BothToldComplete
<1>1. Init => ToldInv
  BY InitIInv DEF Init, ToldInv, Messages, Ends, Sides
<1>2. ToldInv /\ [Next]_vars => ToldInv'
  BY ToldBothKeeps
<1>3. ToldInv => BothToldComplete
  BY DEF ToldInv, BothToldComplete, SentAll, GotAll
<1>. QED
  BY <1>1, <1>2, <1>3, PTL DEF Spec
(***************************************************************************)
(* The Jabber connection.                                                  *)
(***************************************************************************)
JabberAssumption == 0 \notin Conns /\ MaxLogins \in Nat \ {0} /\ "available" \in Wanted

Phases == {"closed", "opening", "open", "authenticating", "online"}
Links  == [phase : Phases, want : Statuses]
Logins == [status : Statuses, at : {"start", "register", "open"}]

JabberTypes ==
    /\ conn \in Conns \cup {0} /\ link \in [Conns -> Links] /\ owed \in [Conns -> Nat]
    /\ handlers \in BOOLEAN /\ registered \subseteq Conns
    /\ logins \in Seq(Logins) /\ status \in Statuses /\ actions \in Seq(Statuses)
    /\ shown \in Statuses /\ mail \in Nat /\ hasty \in BOOLEAN /\ trouble \subseteq {"failed", "lost"}

(* A login thread that is past its beginning has a connection.             *)
Placed == \A i \in DOMAIN logins : logins[i].at # "start" => conn # 0

(* One login or one connection at a time, and never both.                  *)
Single ==
    /\ \A c \in Conns : Live(c) => c = conn
    /\ Len(logins) <= 1
    /\ logins # <<>> => \A c \in Conns : ~Live(c)

(* The handlers exist from the moment they are registered with the         *)
(* connection until it is gone.                                            *)
InUse == Live(conn) \/ (logins # <<>> /\ logins[1].at = "open")
Handled == (handlers => InUse) /\ (InUse => conn \in registered)

(* A status without a connection is that of one that was lost, and a login *)
(* is on its way, or failed; and it is the one the GUI shows or will show. *)
Backed ==
    /\ status # Off => Online(conn) \/ "lost" \in trouble
    /\ status # Off /\ "failed" \notin trouble => Live(conn) \/ logins # <<>>
    /\ shown # Off => shown = status \/ mail > 0

JabberInv ==
    /\ JabberTypes /\ Placed /\ Backed
    /\ ~hasty => Single
    /\ ~hasty /\ "failed" \notin trouble => Handled

-----------------------------------------------------------------------------
(* The queue of the login threads.                                         *)

LEMMA Spawned ==
    ASSUME logins \in Seq(Logins), NEW s \in Statuses, Spawns(s)
    PROVE  /\ logins' \in Seq(Logins) /\ Len(logins') = Len(logins) + 1 /\ logins' # <<>>
           /\ Placed /\ conn' = conn => Placed'
           /\ logins = <<>> => logins'[1].at = "start"
<1>1. Login(s, "start") \in Logins
  BY DEF Login, Logins
<1>2. logins' = Append(logins, Login(s, "start"))
  BY DEF Spawns
<1>3. logins' \in Seq(Logins) /\ Len(logins') = Len(logins) + 1 /\ logins' # <<>>
  BY <1>1, <1>2
<1>4. \A i \in DOMAIN logins' : logins'[i].at # "start" => i \in DOMAIN logins /\ logins[i] = logins'[i]
  BY <1>1, <1>2 DEF Login
<1>5. logins = <<>> => logins'[1].at = "start"
  BY <1>1, <1>2 DEF Login
<1> QED
  BY <1>3, <1>4, <1>5 DEF Placed

LEMMA Left ==
    ASSUME logins \in Seq(Logins), logins # <<>>, Leaves
    PROVE  /\ logins' \in Seq(Logins) /\ Len(logins') = Len(logins) - 1
           /\ Placed /\ conn' = conn => Placed'
<1>1. logins' = Tail(logins)
  BY DEF Leaves
<1>2. logins' \in Seq(Logins) /\ Len(logins') = Len(logins) - 1
  BY <1>1
<1>3. \A i \in DOMAIN logins' : logins'[i] = logins[i + 1] /\ i + 1 \in DOMAIN logins
  BY <1>1
<1> QED
  BY <1>2, <1>3 DEF Placed

LEMMA Gone1 ==
    ASSUME logins \in Seq(Logins), logins # <<>>, NEW place \in {"register", "open"}, MovesTo(place)
    PROVE  /\ logins' \in Seq(Logins) /\ Len(logins') = Len(logins) /\ logins' # <<>>
           /\ logins'[1].at = place
           /\ Placed /\ conn' # 0 => Placed'
<1>1. logins' = [logins EXCEPT ![1].at = place]
  BY DEF MovesTo
<1>2. 1 \in DOMAIN logins /\ logins[1] \in Logins
  OBVIOUS
<1>3. [logins[1] EXCEPT !.at = place] \in Logins /\ [logins[1] EXCEPT !.at = place].at = place
  BY <1>2 DEF Logins
<1>4. logins' \in Seq(Logins) /\ Len(logins') = Len(logins) /\ logins' # <<>> /\ DOMAIN logins' = DOMAIN logins
  BY <1>1, <1>2, <1>3
<1>5. logins'[1].at = place
  BY <1>1, <1>2, <1>3
<1> QED
  BY <1>4, <1>5 DEF Placed

-----------------------------------------------------------------------------
(* What ends a connection.                                                 *)

LEMMA GivenUp ==
    ASSUME JabberAssumption, JabberTypes, NEW c \in Conns, GivesUp(c)
    PROVE  /\ link' \in [Conns -> Links] /\ link'[c].phase = "closed"
           /\ \A d \in Conns : d # c => link'[d] = link[d]
           /\ handlers' = FALSE /\ registered' = registered \ {c}
           /\ status' = Off /\ mail' \in Nat /\ mail' > 0
<1>1. NoLink \in Links /\ NoLink.phase = "closed"
  BY DEF NoLink, Links, Phases, Statuses
<1>2. link' = [link EXCEPT ![c] = NoLink]
  BY DEF GivesUp, Shuts
<1>3. link' \in [Conns -> Links] /\ link'[c].phase = "closed" /\ \A d \in Conns : d # c => link'[d] = link[d]
  BY <1>1, <1>2 DEF JabberTypes
<1>4. mail' \in Nat /\ mail' > 0
  BY DEF GivesUp, Tells, JabberTypes, JabberAssumption
<1> QED
  BY <1>3, <1>4 DEF GivesUp, Unregisters

(* A connection is given up, and nothing else is done about the logins.    *)
LEMMA GivesUpKeeps ==
    ASSUME JabberAssumption, JabberInv, NEW c \in Conns, GivesUp(c), Live(c),
           UNCHANGED <<conn, logins, shown>>, owed' \in [Conns -> Nat], actions' \in Seq(Statuses),
           hasty' \in BOOLEAN, hasty => hasty', trouble \subseteq trouble', trouble' \subseteq {"failed", "lost"}
    PROVE  JabberInv'
<1> USE DEF JabberInv
<1>1. /\ link' \in [Conns -> Links] /\ link'[c].phase = "closed"
      /\ \A d \in Conns : d # c => link'[d] = link[d]
      /\ handlers' = FALSE /\ registered' = registered \ {c}
      /\ status' = Off /\ mail' \in Nat /\ mail' > 0
  BY GivenUp
<1>2. JabberTypes'
  BY <1>1 DEF JabberTypes, Statuses
<1>3. Placed'
  BY DEF Placed
<1>4. Backed'
  BY <1>1 DEF Backed
<1>5. ~Live(c)' /\ \A d \in Conns : Live(d)' => Live(d)
  BY <1>1 DEF Live, JabberTypes
<1>6. ASSUME ~hasty' PROVE Single'
  BY <1>5, <1>6 DEF Single
<1>7. ASSUME ~hasty', "failed" \notin trouble' PROVE Handled'
  <2>1. Single /\ c = conn /\ logins = <<>>
    BY <1>7 DEF Single
  <2>2. ~InUse'
    BY <2>1, <1>5 DEF InUse
  <2> QED
    BY <2>2, <1>1 DEF Handled
<1> QED
  BY <1>2, <1>3, <1>4, <1>6, <1>7

LEMMA ConnIsConn ==
    ASSUME JabberAssumption, JabberTypes, Open(conn)
    PROVE  conn \in Conns /\ Live(conn)
BY DEF JabberTypes, Open, Live

LEMMA ChangesStatusKeeps ==
    ASSUME JabberAssumption, JabberInv, NEW s \in Statuses, ChangesStatus(s),
           conn' = conn, owed' \in [Conns -> Nat], actions' \in Seq(Statuses), trouble' = trouble,
           hasty' \in BOOLEAN, hasty => hasty',
           ~hasty' => \/ logins = <<>> /\ \A c \in Conns : Live(c) => Online(c)
                      \/ Online(conn)
    PROVE  JabberInv'
<1> USE DEF JabberInv
<1>1. CASE UNCHANGED <<link, handlers, registered, logins, retries, status, mail>> /\ shown' \in {shown, Off}
  <2>1. JabberTypes'
    BY <1>1 DEF JabberTypes, Statuses
  <2>2. Placed' /\ Backed'
    BY <1>1 DEF Placed, Backed, Online, Live
  <2>3. Single' = Single /\ Handled' = Handled
    BY <1>1 DEF Single, Handled, Live, InUse
  <2> QED
    BY <2>1, <2>2, <2>3
<1>2. CASE Open(conn) /\ GivesUp(conn) /\ UNCHANGED <<logins, shown>>
  <2>1. conn \in Conns /\ Live(conn)
    BY <1>2, ConnIsConn
  <2>2. trouble' \subseteq {"failed", "lost"}
    BY DEF JabberTypes
  <2> QED
    BY <1>2, <2>1, <2>2, GivesUpKeeps
<1>3. CASE /\ ~Online(conn) /\ status = Off /\ Spawns(s)
           /\ UNCHANGED <<link, handlers, registered, retries, status, mail, shown>>
  <2>1. /\ logins' \in Seq(Logins) /\ Len(logins') = Len(logins) + 1 /\ logins' # <<>>
        /\ Placed'
        /\ logins = <<>> => logins'[1].at = "start"
    BY <1>3, Spawned DEF JabberTypes
  <2>2. JabberTypes'
    BY <1>3, <2>1 DEF JabberTypes
  <2>3. Backed'
    BY <1>3 DEF Backed
  <2>4. ASSUME ~hasty' PROVE Single' /\ logins = <<>> /\ ~Live(conn) /\ ~Live(conn)'
    <3>1. Single /\ logins = <<>> /\ \A c \in Conns : ~Live(c)
      BY <2>4, <1>3 DEF Single
    <3>2. \A c \in Conns : ~Live(c)'
      BY <3>1, <1>3 DEF Live
    <3> QED
      BY <3>1, <3>2, <2>1 DEF Single, Live, JabberTypes
  <2>5. ASSUME ~hasty', "failed" \notin trouble' PROVE Handled'
    BY <2>4, <2>5, <2>1, <1>3 DEF Handled, InUse
  <2> QED
    BY <2>1, <2>2, <2>3, <2>4, <2>5
<1>4. CASE /\ Online(conn) /\ status' = s /\ shown' = s
           /\ UNCHANGED <<link, handlers, registered, logins, retries, mail>>
  <2>1. JabberTypes'
    BY <1>4 DEF JabberTypes
  <2>2. Placed' /\ Backed'
    BY <1>4 DEF Placed, Backed, Online, Live
  <2>3. Single' = Single /\ Handled' = Handled
    BY <1>4 DEF Single, Handled, Live, InUse
  <2> QED
    BY <2>1, <2>2, <2>3
<1> QED
  BY <1>1, <1>2, <1>3, <1>4 DEF ChangesStatus, ClosesConn

-----------------------------------------------------------------------------
(* The steps.                                                              *)

LEMMA AskKeeps ==
    ASSUME JabberAssumption, JabberInv, NEW s \in Statuses, Ask(s)
    PROVE  JabberInv'
<1>1. JabberTypes
  BY DEF JabberInv
<1>2. hasty' \in BOOLEAN /\ (hasty => hasty')
  BY <1>1 DEF Ask, Asks, JabberTypes, Busy
<1>3. ASSUME ~hasty' PROVE logins = <<>> /\ \A c \in Conns : Live(c) => Online(c)
  BY <1>3 DEF Ask, Asks, Busy
<1> QED
  BY <1>1, <1>2, <1>3, ChangesStatusKeeps DEF Ask, JabberTypes

LEMMA ReconfigureKeeps ==
    ASSUME JabberAssumption, JabberInv, Reconfigure
    PROVE  JabberInv'
<1> USE DEF JabberInv
<1>1. hasty' \in BOOLEAN /\ (hasty => hasty')
  BY DEF Reconfigure, Asks, JabberTypes, Busy
<1>2. "available" \in Statuses
  BY DEF JabberAssumption, Statuses
<1>3. /\ logins' \in Seq(Logins) /\ Len(logins') = Len(logins) + 1 /\ logins' # <<>>
      /\ Placed'
      /\ logins = <<>> => logins'[1].at = "start"
  BY <1>2, Spawned DEF JabberTypes, Reconfigure
<1>4. /\ link' \in [Conns -> Links] /\ \A d \in Conns : Live(d)' => Live(d)
      /\ registered' \subseteq Conns /\ status' \in Statuses /\ mail' \in Nat
      /\ Open(conn) => ~Live(conn)' /\ handlers' = FALSE /\ status' = Off /\ mail' > 0
      /\ ~Open(conn) => UNCHANGED <<link, handlers, registered, status, mail>>
  <2>1. CASE Open(conn)
    <3>1. GivesUp(conn) /\ conn \in Conns /\ JabberTypes
      BY <2>1, ConnIsConn DEF Reconfigure, ClosesConn
    <3> QED
      BY <2>1, <3>1, GivenUp DEF JabberTypes, Live, Statuses, Reconfigure
  <2>2. CASE ~Open(conn)
    BY <2>2 DEF Reconfigure, ClosesConn, JabberTypes, Live
  <2> QED
    BY <2>1, <2>2
<1>5. JabberTypes'
  BY <1>1, <1>3, <1>4 DEF JabberTypes, Reconfigure
<1>6. Backed'
  BY <1>3, <1>4 DEF Backed, Reconfigure, Open, Online
<1>7. ASSUME ~hasty' PROVE Single /\ logins = <<>> /\ (\A c \in Conns : ~Live(c)') /\ ~Live(conn)'
  <2>1. Single /\ logins = <<>> /\ \A c \in Conns : Live(c) => Online(c)
    BY <1>1, <1>7 DEF Reconfigure, Asks, Busy
  <2>2. \A c \in Conns : Live(c) => c = conn /\ Open(conn)
    BY <2>1 DEF Single, Online, Open
  <2>3. \A c \in Conns : ~Live(c)'
    BY <1>4, <2>2 DEF Live, Reconfigure
  <2> QED
    BY <2>1, <2>3, <1>5 DEF JabberTypes, Live, Reconfigure
<1>8. ASSUME ~hasty' PROVE Single'
  BY <1>3, <1>7, <1>8 DEF Single
<1>9. ASSUME ~hasty', "failed" \notin trouble' PROVE Handled'
  <2>1. ~InUse'
    BY <1>3, <1>7, <1>9 DEF InUse
  <2>2. handlers' = FALSE
    <3>1. CASE Open(conn)
      BY <1>4, <3>1
    <3>2. CASE ~Open(conn)
      <4>1. Handled /\ Single /\ logins = <<>> /\ ~Live(conn)
        BY <1>1, <1>4, <1>7, <1>9, <3>2 DEF Reconfigure, Live
      <4> QED
        BY <1>4, <3>2, <4>1 DEF Handled, InUse
    <3> QED
      BY <3>1, <3>2
  <2> QED
    BY <2>1, <2>2 DEF Handled
<1> QED
  BY <1>3, <1>5, <1>6, <1>8, <1>9

LEMMA ToldKeeps == ASSUME JabberInv, Told PROVE JabberInv'
<1>1. JabberTypes' /\ Placed'
  BY DEF JabberInv, JabberTypes, Told, connVars, dataVars, ghostVars, Statuses, Placed
<1>2. Backed'
  BY DEF JabberInv, Backed, Told, connVars, dataVars, ghostVars, Online, Live
<1>3. Single' = Single /\ Handled' = Handled
  BY DEF Told, connVars, dataVars, ghostVars, Single, Handled, InUse, Live
<1> QED
  BY <1>1, <1>2, <1>3 DEF JabberInv, Told, ghostVars

LEMMA LoginEndsKeeps ==
    ASSUME JabberAssumption, JabberInv, LoginImpossible \/ LoginFails
    PROVE  JabberInv'
<1> USE DEF JabberInv, connVars, dataVars
<1>1. /\ logins # <<>> /\ Leaves /\ UNCHANGED <<conn, link, owed, handlers, registered>>
      /\ UNCHANGED <<status, retries, actions, shown, asked, hasty>>
      /\ trouble' = trouble \cup {"failed"} /\ Tells
  BY DEF LoginImpossible, LoginFails, At, Troubled
<1>2. logins' \in Seq(Logins) /\ Len(logins') = Len(logins) - 1 /\ Placed'
  BY <1>1, Left DEF JabberTypes
<1>3. mail' \in Nat /\ (mail > 0 => mail' > 0)
  BY <1>1 DEF Tells, JabberTypes, JabberAssumption
<1>4. JabberTypes'
  BY <1>1, <1>2, <1>3 DEF JabberTypes
<1>5. Backed'
  BY <1>1, <1>3 DEF Backed, Online
<1>6. ASSUME ~hasty' PROVE Single'
  <2>1. Single /\ \A c \in Conns : ~Live(c)
    BY <1>1, <1>6 DEF Single
  <2>2. \A c \in Conns : ~Live(c)'
    BY <2>1, <1>1 DEF Live
  <2> QED
    BY <2>1, <2>2, <1>1, <1>2 DEF Single, JabberTypes
<1> QED
  BY <1>1, <1>2, <1>4, <1>5, <1>6

LEMMA LoginBeginsKeeps ==
    ASSUME JabberAssumption, JabberInv, NEW c \in Conns, LoginBegins(c)
    PROVE  JabberInv'
<1> USE DEF JabberInv
<1>1. /\ logins # <<>> /\ logins[1].at = "start" /\ ~Open(conn) /\ c # conn /\ ~Live(c)
      /\ conn' = c /\ registered' = registered \ {c} /\ MovesTo("register")
      /\ UNCHANGED <<link, owed, handlers, status, retries, actions, shown, mail, asked, hasty, trouble>>
  BY DEF LoginBegins, At, dataVars, guiVars, ghostVars
<1>2. /\ logins' \in Seq(Logins) /\ Len(logins') = Len(logins) /\ logins' # <<>>
      /\ logins'[1].at = "register" /\ Placed'
  BY <1>1, Gone1 DEF JabberTypes, JabberAssumption
<1>3. JabberTypes'
  BY <1>1, <1>2 DEF JabberTypes
<1>4. Backed'
  BY <1>1, <1>2 DEF Backed, Online, Open
<1>5. ASSUME ~hasty' PROVE Single' /\ \A d \in Conns : ~Live(d)
  <2>1. Single /\ \A d \in Conns : ~Live(d)
    BY <1>1, <1>5 DEF Single
  <2>2. \A d \in Conns : ~Live(d)'
    BY <2>1, <1>1 DEF Live
  <2> QED
    BY <2>1, <2>2, <1>2 DEF Single
<1>6. ASSUME ~hasty', "failed" \notin trouble' PROVE Handled'
  <2>1. Handled /\ ~InUse
    BY <1>1, <1>5, <1>6 DEF InUse, JabberTypes, Live
  <2>2. ~InUse'
    BY <1>1, <1>2, <1>5, <1>6 DEF InUse, Live
  <2> QED
    BY <2>1, <2>2, <1>1 DEF Handled
<1> QED
  BY <1>2, <1>3, <1>4, <1>5, <1>6

(* With a connection that is open there is a login only if somebody asked  *)
(* again too early.                                                        *)
LEMMA LoginAgainKeeps ==
    ASSUME JabberAssumption, JabberInv, NEW moved \in BOOLEAN, LoginAgain(moved)
    PROVE  JabberInv'
<1> USE DEF JabberInv
<1>1. /\ logins # <<>> /\ Open(conn) /\ MovesTo("register")
      /\ UNCHANGED <<conn, owed, actions, shown, asked, hasty, trouble>>
      /\ GivesUp(conn) \/ UNCHANGED <<link, handlers, registered, retries, status, mail>>
  BY DEF LoginAgain, At, ClosesConn, ghostVars
<1>2. conn \in Conns /\ Live(conn) /\ conn # 0
  BY <1>1, ConnIsConn DEF JabberAssumption
<1>3. hasty
  BY <1>1, <1>2 DEF Single
<1>4. /\ logins' \in Seq(Logins) /\ Len(logins') = Len(logins) /\ logins' # <<>> /\ Placed'
  BY <1>1, <1>2, Gone1 DEF JabberTypes
<1>5. CASE GivesUp(conn)
  <2>1. /\ link' \in [Conns -> Links] /\ handlers' = FALSE /\ registered' = registered \ {conn}
        /\ status' = Off /\ mail' \in Nat /\ mail' > 0
    BY <1>2, <1>5, GivenUp
  <2> QED
    BY <2>1, <1>1, <1>3, <1>4 DEF JabberTypes, Statuses, Backed
<1>6. CASE UNCHANGED <<link, handlers, registered, retries, status, mail>>
  <2>1. JabberTypes'
    BY <1>6, <1>1, <1>4 DEF JabberTypes
  <2> QED
    BY <2>1, <1>6, <1>1, <1>3, <1>4 DEF Backed, Online
<1> QED
  BY <1>1, <1>5, <1>6

LEMMA LoginRegistersKeeps ==
    ASSUME JabberAssumption, JabberInv, LoginRegisters
    PROVE  JabberInv'
<1> USE DEF JabberInv
<1>1. /\ logins # <<>> /\ logins[1].at = "register" /\ MovesTo("open") /\ handlers' = TRUE
      /\ registered' = IF handlers THEN registered ELSE registered \cup {conn}
      /\ UNCHANGED <<conn, link, owed, status, retries, actions, shown, mail, asked, hasty, trouble>>
  BY DEF LoginRegisters, At, dataVars, guiVars, ghostVars
<1>2. conn # 0 /\ conn \in Conns
  <2>1. 1 \in DOMAIN logins
    BY <1>1 DEF JabberTypes
  <2> QED
    BY <1>1, <2>1 DEF Placed, JabberTypes
<1>3. /\ logins' \in Seq(Logins) /\ Len(logins') = Len(logins) /\ logins' # <<>>
      /\ logins'[1].at = "open" /\ Placed'
  BY <1>1, <1>2, Gone1 DEF JabberTypes
<1>4. JabberTypes'
  BY <1>1, <1>2, <1>3 DEF JabberTypes
<1>5. Backed'
  BY <1>1, <1>3 DEF Backed, Online
<1>6. ASSUME ~hasty' PROVE Single' /\ \A d \in Conns : ~Live(d)
  <2>1. Single /\ \A d \in Conns : ~Live(d)
    BY <1>1, <1>6 DEF Single
  <2>2. \A d \in Conns : ~Live(d)'
    BY <2>1, <1>1 DEF Live
  <2> QED
    BY <2>1, <2>2, <1>1, <1>3 DEF Single
<1>7. ASSUME ~hasty', "failed" \notin trouble' PROVE Handled'
  <2>1. Handled /\ ~InUse
    BY <1>1, <1>2, <1>6, <1>7 DEF InUse
  <2>2. ~handlers
    BY <2>1 DEF Handled
  <2>3. InUse' /\ conn' \in registered'
    BY <1>1, <1>3, <2>2 DEF InUse
  <2> QED
    BY <2>3 DEF Handled
<1> QED
  BY <1>3, <1>4, <1>5, <1>6, <1>7

LEMMA LoginOpensKeeps ==
    ASSUME JabberAssumption, JabberInv, LoginOpens
    PROVE  JabberInv'
<1> USE DEF JabberInv
<1>1. /\ logins # <<>> /\ logins[1].at = "open" /\ link[conn].phase = "closed" /\ Leaves
      /\ link' = [link EXCEPT ![conn] = [phase |-> "opening", want |-> logins[1].status]]
      /\ owed' = [owed EXCEPT ![conn] = 0]
      /\ UNCHANGED <<conn, handlers, registered, status, retries, actions, shown, mail, asked, hasty, trouble>>
  <2>1. Head(logins) = logins[1]
    BY DEF LoginOpens, At, JabberTypes
  <2> QED
    BY <2>1 DEF LoginOpens, At, dataVars, guiVars, ghostVars
<1>2. conn # 0 /\ conn \in Conns /\ logins[1] \in Logins
  <2>1. 1 \in DOMAIN logins
    BY <1>1 DEF JabberTypes
  <2> QED
    BY <1>1, <2>1 DEF Placed, JabberTypes
<1>3. logins' \in Seq(Logins) /\ Len(logins') = Len(logins) - 1 /\ Placed'
  BY <1>1, Left DEF JabberTypes
<1>4. [phase |-> "opening", want |-> logins[1].status] \in Links
  BY <1>2 DEF Links, Logins, Phases
<1>5. link' \in [Conns -> Links] /\ link'[conn].phase = "opening" /\ \A d \in Conns : d # conn => link'[d] = link[d]
  BY <1>1, <1>2, <1>4 DEF JabberTypes
<1>6. JabberTypes'
  BY <1>1, <1>3, <1>5 DEF JabberTypes
<1>7. Live(conn)'
  BY <1>1, <1>2, <1>5 DEF Live
<1>8. Backed'
  BY <1>1, <1>7 DEF Backed, Online
<1>9. ASSUME ~hasty' PROVE Single'
  <2>1. Single /\ \A d \in Conns : ~Live(d)
    BY <1>1, <1>9 DEF Single
  <2>2. \A d \in Conns : Live(d)' => d = conn'
    BY <2>1, <1>1, <1>5 DEF Live
  <2>3. Len(logins') = 0
    BY <2>1, <1>1, <1>3 DEF Single, JabberTypes
  <2> QED
    BY <2>2, <2>3, <1>3 DEF Single
<1>10. ASSUME ~hasty', "failed" \notin trouble' PROVE Handled'
  <2>1. Handled /\ InUse
    BY <1>1, <1>10 DEF InUse
  <2>2. InUse'
    BY <1>7 DEF InUse
  <2> QED
    BY <1>1, <2>1, <2>2 DEF Handled
<1> QED
  BY <1>3, <1>6, <1>8, <1>9, <1>10

(* A callback that moves a connection on, or lets it fail.                 *)
LEMMA MovesOnKeeps ==
    ASSUME JabberAssumption, JabberInv, NEW c \in Conns, NEW l \in Links, Live(c), ~Online(c),
           link' = [link EXCEPT ![c] = l],
           UNCHANGED <<conn, handlers, registered, logins, status, shown, mail, hasty>>,
           owed' \in [Conns -> Nat], actions' \in Seq(Statuses),
           \/ trouble' = trouble /\ l.phase # "closed"
           \/ trouble' = trouble \cup {"failed"}
    PROVE  JabberInv'
<1> USE DEF JabberInv
<1>1. link' \in [Conns -> Links] /\ link'[c] = l /\ \A d \in Conns : d # c => link'[d] = link[d]
  BY DEF JabberTypes
<1>2. JabberTypes' /\ Placed'
  BY <1>1 DEF JabberTypes, Placed
<1>3. l.phase \in {"opening", "open", "authenticating", "online"} \/ l.phase = "closed"
  BY DEF Links, Phases
<1>4. \A d \in Conns : Live(d)' => Live(d)
  BY <1>1 DEF Live
<1>5. l.phase # "closed" => \A d \in Conns : Live(d) => Live(d)'
  BY <1>1, <1>3 DEF Live
<1>6. Live(conn)' => Live(conn)
  BY <1>1, <1>4 DEF Live, JabberTypes
<1>7. l.phase # "closed" /\ Live(conn) => Live(conn)'
  BY <1>1, <1>5 DEF Live, JabberTypes
<1>8. Backed'
  <2>1. Online(conn) => Online(conn)'
    BY <1>1 DEF Online, JabberTypes
  <2>2. "failed" \notin trouble' => l.phase # "closed" /\ trouble' = trouble
    OBVIOUS
  <2>3. "lost" \in trouble => "lost" \in trouble'
    OBVIOUS
  <2> QED
    BY <1>7, <2>1, <2>2, <2>3 DEF Backed
<1>9. ASSUME ~hasty' PROVE Single'
  <2>1. Single
    BY <1>9
  <2> QED
    BY <1>4, <2>1 DEF Single
<1>10. ASSUME ~hasty', "failed" \notin trouble' PROVE Handled'
  <2>1. Handled /\ l.phase # "closed"
    BY <1>10
  <2> QED
    BY <1>6, <1>7, <2>1 DEF Handled, InUse
<1> QED
  BY <1>2, <1>8, <1>9, <1>10

LEMMA OpeningKeeps ==
    ASSUME JabberAssumption, JabberInv, NEW c \in Conns,
           Opened(c) \/ AuthenticationNotSent(c) \/ OpeningFails(c) \/ Authenticated(c)
    PROVE  JabberInv'
<1>1. JabberTypes /\ c # 0 /\ link[c] \in Links
  BY DEF JabberInv, JabberTypes, JabberAssumption
<1>2. Live(c) /\ ~Online(c)
  BY <1>1 DEF Opened, AuthenticationNotSent, OpeningFails, Authenticated, Live, Online
<1>3. \A phase \in Phases : /\ [link[c] EXCEPT !.phase = phase] \in Links
                            /\ [link[c] EXCEPT !.phase = phase].phase = phase
  BY <1>1 DEF Links
<1>4. CASE Opened(c)
  BY <1>1, <1>2, <1>3, <1>4, MovesOnKeeps DEF Opened, dataVars, guiVars, ghostVars, JabberTypes, Phases
<1>5. CASE AuthenticationNotSent(c)
  BY <1>1, <1>2, <1>3, <1>5, MovesOnKeeps
  DEF AuthenticationNotSent, Troubled, dataVars, guiVars, JabberTypes, Phases
<1>6. CASE OpeningFails(c)
  <2>1. NoLink \in Links
    BY DEF NoLink, Links, Phases, Statuses
  <2> QED
    BY <1>1, <1>2, <1>6, <2>1, MovesOnKeeps DEF OpeningFails, Troubled, dataVars, guiVars, JabberTypes
<1>7. CASE Authenticated(c)
  <2>1. owed' \in [Conns -> Nat] /\ actions' \in Seq(Statuses)
    <3>1. Open(conn) => conn \in Conns
      BY <1>1, ConnIsConn
    <3>2. link[c].want \in Statuses
      BY <1>1 DEF Links
    <3>3. actions' \in Seq(Statuses)
      <4>1. actions' = actions \/ actions' = Append(actions, link[c].want)
        BY <1>7 DEF Authenticated
      <4>2. actions \in Seq(Statuses)
        BY <1>1 DEF JabberTypes
      <4>3. Append(actions, link[c].want) \in Seq(Statuses)
        BY <3>2, <4>2
      <4> QED
        BY <4>1, <4>2, <4>3
    <3>4. owed' \in [Conns -> Nat]
      BY <1>1, <1>7, <3>1 DEF Authenticated, JabberTypes
    <3> QED
      BY <3>3, <3>4
  <2> QED
    BY <1>1, <1>2, <1>3, <1>7, <2>1, MovesOnKeeps DEF Authenticated, guiVars, ghostVars, Phases
<1> QED
  BY <1>4, <1>5, <1>6, <1>7

LEMMA RefusedKeeps ==
    ASSUME JabberAssumption, JabberInv, NEW c \in Conns, AuthenticationRefused(c)
    PROVE  JabberInv'
<1>1. JabberTypes /\ Live(c)
  BY DEF JabberInv, AuthenticationRefused, Live, JabberAssumption
<1> QED
  BY <1>1, GivesUpKeeps DEF AuthenticationRefused, Troubled, JabberTypes

LEMMA RosterKeeps ==
    ASSUME JabberAssumption, JabberInv, NEW c \in Conns, RosterArrives(c) \/ RosterRefused(c)
    PROVE  JabberInv'
<1>1. JabberTypes /\ Online(c) /\ owed[c] > 0 /\ conn' = conn /\ owed' = [owed EXCEPT ![c] = @ - 1]
  BY DEF JabberInv, RosterArrives, RosterRefused
<1>2. owed' \in [Conns -> Nat]
  BY <1>1 DEF JabberTypes
<1>3. CASE UNCHANGED <<link, handlers, registered, logins, status, shown, mail, actions, hasty>>
  <2>1. trouble' = trouble \/ trouble' = trouble \cup {"failed"}
    BY DEF RosterArrives, RosterRefused, Troubled, ghostVars
  <2>2. JabberTypes'
    BY <1>1, <1>2, <1>3, <2>1 DEF JabberTypes
  <2>3. Placed'
    BY <1>1, <1>3 DEF Placed, JabberInv
  <2>4. Backed'
    BY <1>1, <1>3, <2>1 DEF Backed, Online, Live, JabberInv
  <2>5. Single' = Single /\ Handled' = Handled
    BY <1>1, <1>3 DEF Single, Handled, InUse, Live
  <2> QED
    BY <1>3, <2>1, <2>2, <2>3, <2>4, <2>5 DEF JabberInv
<1>4. CASE RosterArrives(c) /\ c \in registered /\ actions # <<>>
  <2>1. ChangesStatus(Head(actions)) /\ actions' = Tail(actions) /\ UNCHANGED <<asked, hasty, trouble>>
    BY <1>4 DEF RosterArrives, ghostVars
  <2>2. Head(actions) \in Statuses /\ actions' \in Seq(Statuses)
    BY <1>1, <1>4, <2>1 DEF JabberTypes
  <2>3. ASSUME ~hasty' PROVE Online(conn)
    <3>1. Live(c) /\ Single
      BY <1>1, <2>1, <2>3 DEF Live, Online, JabberInv
    <3> QED
      BY <1>1, <3>1 DEF Single
  <2> QED
    BY <1>1, <1>2, <2>1, <2>2, <2>3, ChangesStatusKeeps DEF JabberTypes
<1> QED
  BY <1>3, <1>4 DEF RosterArrives, RosterRefused, dataVars, guiVars, ghostVars

LEMMA LostKeeps ==
    ASSUME JabberAssumption, JabberInv, NEW c \in Conns, Lost(c)
    PROVE  JabberInv'
<1> USE DEF JabberInv
<1>1. /\ Open(c) /\ Live(c) /\ trouble' = trouble \cup {"lost"}
      /\ UNCHANGED <<conn, owed, actions, shown, asked, hasty>>
  BY DEF Lost, Troubled, Open, Live
<1>2. CASE GivesUp(c) /\ UNCHANGED logins
  BY <1>1, <1>2, GivesUpKeeps DEF JabberTypes
<1>3. CASE Shuts(c) /\ Unregisters(c) /\ Spawns(status) /\ UNCHANGED <<status, mail>>
  <2>1. /\ logins' \in Seq(Logins) /\ Len(logins') = Len(logins) + 1 /\ logins' # <<>>
        /\ Placed'
        /\ logins = <<>> => logins'[1].at = "start"
    BY <1>1, <1>3, Spawned DEF JabberTypes
  <2>2. /\ link' \in [Conns -> Links] /\ link'[c].phase = "closed"
        /\ \A d \in Conns : d # c => link'[d] = link[d]
        /\ handlers' = FALSE /\ registered' = registered \ {c}
    <3>1. NoLink \in Links /\ NoLink.phase = "closed"
      BY DEF NoLink, Links, Phases, Statuses
    <3> QED
      BY <1>3, <3>1 DEF Shuts, Unregisters, JabberTypes
  <2>3. JabberTypes'
    BY <1>1, <1>3, <2>1, <2>2 DEF JabberTypes
  <2>4. Backed'
    BY <1>1, <1>3, <2>1 DEF Backed
  <2>5. ASSUME ~hasty' PROVE /\ Len(logins') = 1 /\ logins'[1].at = "start" /\ ~Live(conn)'
                             /\ \A d \in Conns : ~Live(d)'
    <3>1. Single /\ c = conn /\ logins = <<>>
      BY <1>1, <2>5 DEF Single
    <3>2. \A d \in Conns : ~Live(d)'
      BY <2>2, <3>1 DEF Single, Live
    <3> QED
      BY <1>1, <2>1, <2>2, <3>1, <3>2 DEF Live
  <2>6. ASSUME ~hasty' PROVE Single' /\ Handled'
    <3>1. Single'
      BY <2>5, <2>6 DEF Single
    <3>2. ~InUse'
      BY <2>5, <2>6 DEF InUse
    <3>3. ~handlers'
      BY <2>2
    <3> QED
      BY <3>1, <3>2, <3>3 DEF Handled
  <2> QED
    BY <2>1, <2>3, <2>4, <2>6
<1> QED
  BY <1>2, <1>3 DEF Lost

LEMMA JabberBegins == JabberAssumption /\ JabberInit => JabberInv
<1> SUFFICES ASSUME JabberAssumption, JabberInit PROVE JabberInv
  OBVIOUS
<1>1. NoLink \in Links /\ \A c \in Conns : link[c].phase = "closed"
  BY DEF NoLink, Links, Phases, Statuses, JabberInit
<1>2. JabberTypes
  <2>1. link \in [Conns -> Links] /\ owed \in [Conns -> Nat]
    BY <1>1 DEF JabberInit
  <2>2. logins \in Seq(Logins) /\ actions \in Seq(Statuses)
    BY DEF JabberInit
  <2> QED
    BY <2>1, <2>2 DEF JabberTypes, JabberInit, Statuses
<1>3. \A c \in Conns : ~Live(c)
  BY <1>1 DEF Live
<1>4. ~Live(conn)
  BY DEF Live, JabberInit
<1> QED
  BY <1>2, <1>3, <1>4 DEF JabberInv, Placed, Backed, Single, Handled, InUse, JabberInit

LEMMA JabberStutters == ASSUME JabberInv, UNCHANGED jabberVars PROVE JabberInv'
<1> USE DEF jabberVars, connVars, dataVars, guiVars, ghostVars
<1>1. JabberTypes' = JabberTypes
  BY DEF JabberTypes
<1>2. Placed' = Placed /\ Backed' = Backed
  BY DEF Placed, Backed, Online, Live
<1>3. Single' = Single /\ Handled' = Handled
  BY DEF Single, Handled, InUse, Live
<1> QED
  BY <1>1, <1>2, <1>3 DEF JabberInv

LEMMA JabberStep == JabberAssumption /\ JabberInv /\ [JabberNext]_jabberVars => JabberInv'
<1> SUFFICES ASSUME JabberAssumption, JabberInv, [JabberNext]_jabberVars PROVE JabberInv'
  OBVIOUS
<1>1. CASE UserAsks
  BY <1>1, AskKeeps, ReconfigureKeeps DEF UserAsks
<1>2. CASE LoginThread
  BY <1>2, LoginBeginsKeeps, LoginAgainKeeps, LoginRegistersKeeps, LoginOpensKeeps DEF LoginThread
<1>3. ASSUME NEW c \in Conns, Answers(c) PROVE JabberInv'
  BY <1>3, OpeningKeeps, RosterKeeps DEF Answers
<1> QED
  BY <1>1, <1>2, <1>3, ToldKeeps, LoginEndsKeeps, OpeningKeeps, RefusedKeeps, RosterKeeps,
     LostKeeps, JabberStutters DEF JabberNext

LEMMA JabberAlways == JabberAssumption => (JabberSpec => []JabberInv)
<1> SUFFICES ASSUME JabberAssumption PROVE JabberSpec => []JabberInv
  OBVIOUS
<1>1. JabberInit => JabberInv
  BY JabberBegins
<1>2. JabberInv /\ [JabberNext]_jabberVars => JabberInv'
  BY JabberStep
<1> QED
  BY <1>1, <1>2, PTL DEF JabberSpec

(* The connection in use is the only one and has its handlers, unless a    *)
(* status was asked for while a login was pending or an attempt failed.    *)
THEOREM HandlersCorrect == JabberAssumption => (JabberSpec => []HandlersFollow)
<1> SUFFICES ASSUME JabberAssumption PROVE JabberSpec => []HandlersFollow
  OBVIOUS
<1>1. JabberInv => HandlersFollow
  BY DEF JabberInv, HandlersFollow, Single, Handled, InUse, Live, Online
<1> QED
  BY <1>1, JabberAlways, PTL

(* Whenever nothing is under way and there is no connection the status is  *)
(* unavailable, in the program and in the GUI, unless one was lost and a   *)
(* later attempt failed.                                                   *)
THEOREM StatusCorrect == JabberAssumption => (JabberSpec => []StatusBacked)
<1> SUFFICES ASSUME JabberAssumption PROVE JabberSpec => []StatusBacked
  OBVIOUS
<1>1. JabberInv => StatusBacked
  <2> SUFFICES ASSUME JabberInv, Quiet, ~Online(conn), ~({"lost", "failed"} \subseteq trouble)
               PROVE  status = Off /\ shown = Off
    BY DEF StatusBacked
  <2>1. logins = <<>> /\ mail = 0 /\ \A c \in Conns : Live(c) => Online(c)
    BY DEF Quiet, Busy
  <2>2. ~Live(conn)
    BY <2>1 DEF Live, Online, JabberInv, JabberTypes
  <2> QED
    BY <2>1, <2>2 DEF JabberInv, Backed, JabberTypes
<1> QED
  BY <1>1, JabberAlways, PTL
=============================================================================
