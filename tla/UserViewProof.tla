----------------------------- MODULE UserViewProof -----------------------------
(***************************************************************************)
(* Proofs about the icons that blink in the list of contacts, and about    *)
(* what the list shows, for any protocols, contacts and number of timers,  *)
(* any settings and any depth of nested emissions.                         *)
(***************************************************************************)
EXTENDS UserView, SequenceTheorems, TLAPS

(* The calls on a stack; what they are and whose is left open.             *)
CallsOf(S) == [at : S, protocol : S, contact : S, status : BOOLEAN, stale : BOOLEAN]

Calls(st) == \E S : st \in Seq(CallsOf(S))

(* The calls st that wait to start a timer did so before, in old, at the   *)
(* same places, and what was stale has remained stale.                     *)
Waited(st, old) ==
    \A k \in DOMAIN st : st[k].at = "blink" =>
        /\ k \in DOMAIN old /\ old[k].at = "blink" /\ old[k].protocol = st[k].protocol
        /\ old[k].stale => st[k].stale

Follows(st, old) == Calls(st) /\ Waited(st, old)

LEMMA SameFollows ==
    ASSUME NEW st, Calls(st)
    PROVE  Follows(st, st)
BY DEF Follows, Waited

(* A call is put on the stack.                                             *)
LEMMA PushedFollows ==
    ASSUME NEW st, NEW old, Follows(st, old), NEW S, NEW f \in CallsOf(S)
    PROVE  /\ Calls(Append(st, f))
           /\ DOMAIN Append(st, f) = 1..(Len(st) + 1) /\ DOMAIN st = 1..Len(st) /\ Len(st) \in Nat
           /\ \A k \in DOMAIN st : Append(st, f)[k] = st[k]
           /\ Append(st, f)[Len(st) + 1] = f
           /\ f.at # "blink" => Follows(Append(st, f), old)
<1>1. PICK T : st \in Seq(CallsOf(T))
  BY DEF Follows, Calls
<1> DEFINE F == CallsOf(S \cup T)
<1>2. CallsOf(T) \subseteq F /\ f \in F
  BY DEF CallsOf
<1> HIDE DEF F
<1>3. st \in Seq(F)
  BY <1>1, <1>2, SeqMonotonic
<1>4. /\ Append(st, f) \in Seq(F) /\ Len(Append(st, f)) = Len(st) + 1
      /\ \A k \in 1..Len(st) : Append(st, f)[k] = st[k]
      /\ Append(st, f)[Len(st) + 1] = f
  BY <1>2, <1>3, AppendProperties
<1>5. /\ Len(st) \in Nat /\ DOMAIN st = 1..Len(st)
      /\ DOMAIN Append(st, f) = 1..(Len(st) + 1)
  BY <1>3, <1>4, LenProperties
<1>6. \A k \in DOMAIN Append(st, f) : k \in DOMAIN st \/ k = Len(st) + 1
  BY <1>5
<1>7. ASSUME f.at # "blink" PROVE Waited(Append(st, f), old)
  BY <1>4, <1>5, <1>6, <1>7 DEF Waited, Follows
<1>8. Calls(Append(st, f))
  BY <1>4 DEF Calls, F
<1> QED
  BY <1>4, <1>5, <1>7, <1>8 DEF Follows

(* A call returns.                                                         *)
LEMMA PoppedFollows ==
    ASSUME NEW st, Calls(st), st # <<>>
    PROVE  /\ Follows(Front(st), st)
           /\ Len(st) \in DOMAIN st /\ Last(st) = st[Len(st)]
           /\ DOMAIN Front(st) = 1..(Len(st) - 1) /\ Len(st) \in Nat
           /\ \A k \in DOMAIN Front(st) : k \in DOMAIN st /\ k # Len(st) /\ Front(st)[k] = st[k]
<1>1. PICK S : st \in Seq(CallsOf(S))
  BY DEF Calls
<1>2. Len(st) \in Nat \ {0} /\ DOMAIN st = 1..Len(st)
  BY <1>1, EmptySeq, LenProperties
<1> DEFINE F == CallsOf(S)
<1> HIDE DEF F
<1>3. \A k \in 1..(Len(st) - 1) : st[k] \in F
  BY <1>1, <1>2, ElementOfSeq DEF F
<1>4. /\ SubSeq(st, 1, Len(st) - 1) \in Seq(F)
      /\ Len(SubSeq(st, 1, Len(st) - 1)) = Len(st) - 1
      /\ \A k \in 1..(Len(st) - 1) : SubSeq(st, 1, Len(st) - 1)[k] = st[k]
  BY <1>2, <1>3, SubSeqProperties
<1>5. DOMAIN SubSeq(st, 1, Len(st) - 1) = 1..(Len(st) - 1)
  BY <1>4, LenProperties
<1>6. /\ DOMAIN Front(st) = 1..(Len(st) - 1) /\ Front(st) \in Seq(F)
      /\ \A k \in 1..(Len(st) - 1) : Front(st)[k] = st[k]
  BY <1>4, <1>5 DEF Front
<1>7. \A k \in DOMAIN Front(st) : k \in DOMAIN st /\ k # Len(st) /\ Front(st)[k] = st[k]
  BY <1>2, <1>6
<1>8. Calls(Front(st)) /\ Waited(Front(st), st)
  BY <1>6, <1>7 DEF Calls, Waited, F
<1> QED
  BY <1>2, <1>6, <1>7, <1>8 DEF Follows, Last

(* Some calls are spoiled.                                                 *)
LEMMA SpoiledFollows ==
    ASSUME NEW st, NEW old, Follows(st, old), NEW hit \in [DOMAIN st -> BOOLEAN]
    PROVE  Follows([i \in DOMAIN st |-> [st[i] EXCEPT !.stale = @ \/ hit[i]]], old)
<1>1. PICK S : st \in Seq(CallsOf(S))
  BY DEF Follows, Calls
<1> DEFINE new == [i \in DOMAIN st |-> [st[i] EXCEPT !.stale = @ \/ hit[i]]]
<1>2. Len(st) \in Nat /\ DOMAIN st = 1..Len(st)
  BY <1>1, LenProperties
<1>3. \A i \in DOMAIN st : st[i] \in CallsOf(S)
  BY <1>1, <1>2, ElementOfSeq
<1>4. ASSUME NEW i \in DOMAIN st
      PROVE  /\ new[i] \in CallsOf(S)
             /\ new[i].at = st[i].at /\ new[i].protocol = st[i].protocol
             /\ st[i].stale => new[i].stale
  BY <1>3 DEF CallsOf
<1>5. DOMAIN new = 1..Len(st)
  BY <1>2
<1>6. new \in Seq(CallsOf(S))
  <2>1. new = [i \in 1..Len(st) |-> new[i]] /\ \A i \in 1..Len(st) : new[i] \in CallsOf(S)
    BY <1>2, <1>4
  <2> HIDE DEF new
  <2> QED
    BY <1>2, <2>1, IsASeq
<1>7. Waited(new, old)
  BY <1>2, <1>4, <1>5 DEF Follows, Waited
<1> QED
  BY <1>6, <1>7 DEF Follows, Calls
(* What the view points to is freed.                                       *)
LEMMA IteratesSpoiled ==
    ASSUME NEW st, NEW old, Follows(st, old), NEW p, NEW new,
           new = [i \in DOMAIN st |-> [st[i] EXCEPT !.stale = @ \/ Iterates(p, st[i])]]
    PROVE  Follows(new, old)
<1> DEFINE hit == [i \in DOMAIN st |-> Iterates(p, st[i])]
<1>1. hit \in [DOMAIN st -> BOOLEAN]
  BY DEF Iterates
<1>2. \A i \in DOMAIN st : hit[i] = Iterates(p, st[i])
  OBVIOUS
<1> HIDE DEF hit
<1>3. new = [i \in DOMAIN st |-> [st[i] EXCEPT !.stale = @ \/ hit[i]]]
  BY <1>2, Zenon
<1> QED
  BY <1>1, <1>3, SpoiledFollows
LEMMA NotifySpoiled ==
    ASSUME NEW st, NEW old, Follows(st, old)
    PROVE  Follows(Spoils(st, LAMBDA f : f.at = "notify"), old)
<1> DEFINE hit == [i \in DOMAIN st |-> st[i].at = "notify"]
<1>1. hit \in [DOMAIN st -> BOOLEAN]
  OBVIOUS
<1>2. \A i \in DOMAIN st : hit[i] = (st[i].at = "notify")
  OBVIOUS
<1> HIDE DEF hit
<1>3. Spoils(st, LAMBDA f : f.at = "notify")
        = [i \in DOMAIN st |-> [st[i] EXCEPT !.stale = @ \/ hit[i]]]
  BY <1>2, Zenon DEF Spoils
<1> QED
  BY <1>1, <1>3, SpoiledFollows

(* What belongs to p is freed.                                             *)
LEMMA OwnSpoiled ==
    ASSUME NEW st, Calls(st), NEW p, NEW new,
           new = [i \in DOMAIN st |-> [st[i] EXCEPT !.stale = @ \/ st[i].protocol = p]]
    PROVE  Follows(new, st)
<1> DEFINE hit == [i \in DOMAIN st |-> st[i].protocol = p]
<1>1. hit \in [DOMAIN st -> BOOLEAN]
  OBVIOUS
<1>2. \A i \in DOMAIN st : hit[i] = (st[i].protocol = p)
  OBVIOUS
<1> HIDE DEF hit
<1>3. new = [i \in DOMAIN st |-> [st[i] EXCEPT !.stale = @ \/ hit[i]]]
  BY <1>2, Zenon
<1>4. Follows(st, st)
  BY SameFollows
<1> QED
  BY <1>1, <1>3, <1>4, SpoiledFollows

LEMMA CallOf ==
    ASSUME NEW at, NEW p, NEW c
    PROVE  /\ Call(at, p, c) \in CallsOf({at, p, c})
           /\ Call(at, p, c).at = at /\ Call(at, p, c).protocol = p /\ ~Call(at, p, c).stale
BY DEF Call, CallsOf

LEMMA CallFollows ==
    ASSUME NEW st, NEW old, Follows(st, old), NEW p, NEW c,
           NEW at \in {"notify", "register", "refresh"}
    PROVE  Follows(Append(st, Call(at, p, c)), old)
<1>1. Call(at, p, c) \in CallsOf({at, p, c}) /\ Call(at, p, c).at # "blink"
  BY CallOf
<1> QED
  BY <1>1, PushedFollows, Zenon

-----------------------------------------------------------------------------
(* Timers                                                                  *)

Waits(k, p) == waits[k].at = "blink" /\ waits[k].protocol = p

(* A protocol has at most one call that waits to start its timer, and no   *)
(* timer before, unless the protocol has unregistered since.               *)
Single ==
    \A p \in Networks : \A k \in DOMAIN waits : Waits(k, p) =>
        /\ \A l \in DOMAIN waits : Waits(l, p) => k = l
        /\ ~waits[k].stale => \A i \in DOMAIN sources : sources[i] # p

BlinkTypes ==
    /\ DOMAIN sources \subseteq Sources
    /\ \A i \in DOMAIN sources : sources[i] \in Networks \cup {Gone}
    /\ blinker \in [Networks -> Sources \cup {0}]
    /\ Calls(waits)
    /\ \A k \in DOMAIN waits : waits[k].at = "blink" => waits[k].protocol \in Networks

BlinkInv == BlinkTypes /\ BlinkersKnown /\ ("blink" \notin odd => Single)

(* Steps that start and stop no timer, and ask for no status to do so.     *)
LEMMA TimersRest ==
    ASSUME BlinkInv, Follows(waits', waits), UNCHANGED <<sources, blinker>>,
           "blink" \in odd => "blink" \in odd'
    PROVE  BlinkInv'
<1>1. BlinkTypes'
  BY DEF BlinkInv, BlinkTypes, Follows, Waited
<1>2. BlinkersKnown'
  BY DEF BlinkInv, BlinkersKnown
<1>3. ASSUME "blink" \notin odd' PROVE Single'
  <2>1. Single
    BY <1>3 DEF BlinkInv
  <2> SUFFICES ASSUME NEW p \in Networks, NEW k \in DOMAIN waits', Waits(k, p)'
               PROVE  /\ \A l \in DOMAIN waits' : Waits(l, p)' => k = l
                      /\ ~waits'[k].stale => \A i \in DOMAIN sources' : sources'[i] # p
    BY DEF Single
  <2>2. k \in DOMAIN waits /\ Waits(k, p) /\ (waits[k].stale => waits'[k].stale)
    BY DEF Follows, Waited, Waits
  <2>3. \A l \in DOMAIN waits' : Waits(l, p)' => l \in DOMAIN waits /\ Waits(l, p)
    BY DEF Follows, Waited, Waits
  <2> QED
    BY <2>1, <2>2, <2>3 DEF Single
<1> QED
  BY <1>1, <1>2, <1>3 DEF BlinkInv

(* Steps that stop the timer of p.                                         *)
LEMMA TimerStops ==
    ASSUME BlinkInv, Follows(waits', waits), NEW p \in Networks, UserAssumption,
           sources' = StopsBlinking(p), blinker' = [blinker EXCEPT ![p] = 0],
           "blink" \in odd => "blink" \in odd'
    PROVE  /\ BlinkInv'
           /\ "blink" \notin odd => \A i \in DOMAIN sources' : sources'[i] # p
<1>1. /\ DOMAIN sources' \subseteq DOMAIN sources
      /\ \A i \in DOMAIN sources' : sources'[i] = sources[i] /\ i # blinker[p]
  BY DEF StopsBlinking
<1>2. BlinkTypes'
  BY <1>1 DEF BlinkInv, BlinkTypes, Follows, Waited
<1>3. "blink" \notin odd => \A i \in DOMAIN sources' : sources'[i] # p
  BY <1>1 DEF BlinkInv, BlinkTypes, BlinkersKnown, UserAssumption
<1>4. BlinkersKnown'
  <2> SUFFICES ASSUME "blink" \notin odd', NEW i \in DOMAIN sources', sources'[i] # Gone
               PROVE  blinker'[sources'[i]] = i
    BY DEF BlinkersKnown
  <2>1. sources[i] # p /\ sources[i] \in Networks /\ blinker[sources[i]] = i
    BY <1>1, <1>3 DEF BlinkInv, BlinkTypes, BlinkersKnown
  <2> QED
    BY <1>1, <2>1 DEF BlinkInv, BlinkTypes
<1>5. ASSUME "blink" \notin odd' PROVE Single'
  <2>1. Single
    BY <1>5 DEF BlinkInv
  <2> SUFFICES ASSUME NEW q \in Networks, NEW k \in DOMAIN waits', Waits(k, q)'
               PROVE  /\ \A l \in DOMAIN waits' : Waits(l, q)' => k = l
                      /\ ~waits'[k].stale => \A i \in DOMAIN sources' : sources'[i] # q
    BY DEF Single
  <2>2. k \in DOMAIN waits /\ Waits(k, q) /\ (waits[k].stale => waits'[k].stale)
    BY DEF Follows, Waited, Waits
  <2>3. \A l \in DOMAIN waits' : Waits(l, q)' => l \in DOMAIN waits /\ Waits(l, q)
    BY DEF Follows, Waited, Waits
  <2> QED
    BY <1>1, <2>1, <2>2, <2>3 DEF Single
<1> QED
  BY <1>2, <1>3, <1>4, <1>5 DEF BlinkInv

-----------------------------------------------------------------------------
(* The steps                                                               *)

(* Steps about rows and pages.                                             *)
LEMMA RowStep ==
    ASSUME BlinkInv,
           \/ \E c \in Contacts :
                 AddContact(c) \/ RemoveContact(c) \/ \E on \in BOOLEAN : ContactChanges(c, on)
           \/ \E p \in Networks : Register(p)
           \/ NotifyEnds \/ BlinksGone \/ Registered \/ RefreshGoesOn
           \/ ShowHideInactive \/ Preferences
           \/ UNCHANGED viewVars
    PROVE  BlinkInv'
<1> USE DEF contacts, view, status
<1>1. Follows(waits, waits) /\ Calls(waits)
  BY SameFollows DEF BlinkInv, BlinkTypes
<1>2. waits # <<>> => Follows(Front(waits), waits)
  BY <1>1, PoppedFollows
<1> SUFFICES Follows(waits', waits) /\ UNCHANGED <<sources, blinker>>
             /\ ("blink" \in odd => "blink" \in odd')
  BY TimersRest
<1>3. ASSUME NEW kind, Faults(kind)
      PROVE  Follows(waits', waits) /\ UNCHANGED <<sources, blinker, odd>>
  BY <1>1, <1>3 DEF Faults
<1>4. ASSUME NEW p, NEW cs, ListChanges(p, cs)
      PROVE  Follows(waits', waits) /\ UNCHANGED <<sources, blinker, odd>>
  <2> DEFINE st == Spoils(waits, LAMBDA f : Iterates(p, f))
  <2>1. Follows(st, waits)
    <3>1. st = [i \in DOMAIN waits |-> [waits[i] EXCEPT !.stale = @ \/ Iterates(p, waits[i])]]
      BY Zenon DEF Spoils
    <3> QED
      BY <1>1, <3>1, IteratesSpoiled, Zenon
  <2> HIDE DEF st
  <2> QED
    BY <1>3, <1>4, <2>1 DEF ListChanges, st
<1>5. ASSUME NEW c \in Contacts, AddContact(c) \/ RemoveContact(c)
      PROVE  Follows(waits', waits) /\ UNCHANGED <<sources, blinker, odd>>
  BY <1>4, <1>5 DEF AddContact, RemoveContact
<1>6. ASSUME NEW c \in Contacts, NEW on \in BOOLEAN, ContactChanges(c, on)
      PROVE  Follows(waits', waits) /\ UNCHANGED <<sources, blinker, odd>>
  <2> DEFINE p == Of[c]
             cs == DOMAIN pages'[page[p]].rows
             st == Spoils(waits, LAMBDA f : Iterates(p, f) /\ f.contact = c /\ c \notin cs)
  <2>1. Follows(st, waits)
    <3> DEFINE hit == [i \in DOMAIN waits |->
                         Iterates(p, waits[i]) /\ waits[i].contact = c /\ c \notin cs]
    <3>1. hit \in [DOMAIN waits -> BOOLEAN]
      OBVIOUS
    <3>2. \A i \in DOMAIN waits :
             hit[i] = (Iterates(p, waits[i]) /\ waits[i].contact = c /\ c \notin cs)
      OBVIOUS
    <3> HIDE DEF hit
    <3>3. st = [i \in DOMAIN waits |-> [waits[i] EXCEPT !.stale = @ \/ hit[i]]]
      BY <3>2, Zenon DEF Spoils
    <3> HIDE DEF st
    <3> QED
      BY <1>1, <3>1, <3>3, SpoiledFollows
  <2> HIDE DEF st
  <2>2. Follows(Append(st, Call("notify", p, c)), waits)
    BY <2>1, CallFollows, Zenon
  <2> QED
    BY <1>3, <1>6, <2>1, <2>2 DEF ContactChanges, st
<1>7. ASSUME NotifyEnds
      PROVE  Follows(waits', waits) /\ UNCHANGED <<sources, blinker, odd>>
  BY <1>2, <1>3, <1>7 DEF NotifyEnds, At
<1>8. ASSUME BlinksGone
      PROVE  Follows(waits', waits) /\ UNCHANGED <<sources, blinker, odd>>
  BY <1>3, <1>8 DEF BlinksGone
<1>9. ASSUME NEW p \in Networks, Register(p)
      PROVE  Follows(waits', waits) /\ UNCHANGED <<sources, blinker>> /\ odd \subseteq odd'
  <2>1. Follows(Append(waits, Call("register", p, 0)), waits)
    BY <1>1, CallFollows, Zenon
  <2> QED
    BY <1>9, <2>1 DEF Register
<1>10. ASSUME Registered
       PROVE  Follows(waits', waits) /\ UNCHANGED <<sources, blinker, odd>>
  BY <1>2, <1>10 DEF Registered, At
<1>11. ASSUME NEW p, NEW pgs, NEW old, NEW t, NEW st, NEW icons, NEW box,
              Turn(p, pgs, old, t, st, icons, box), Follows(st, waits)
       PROVE  Follows(waits', waits)
  BY <1>11, CallFollows, Zenon DEF Turn
<1>12. ASSUME RefreshGoesOn
       PROVE  Follows(waits', waits) /\ UNCHANGED <<sources, blinker, odd>>
  <2> DEFINE p == Inner.protocol
             st == Spoils(Front(waits), LAMBDA f : Iterates(p, f))
  <2>1. waits # <<>>
    BY <1>12 DEF RefreshGoesOn, At
  <2>2. Follows(st, waits)
    <3> DEFINE rest == Front(waits)
    <3>1. st = [i \in DOMAIN rest |-> [rest[i] EXCEPT !.stale = @ \/ Iterates(p, rest[i])]]
      BY Zenon DEF Spoils
    <3>2. Follows(rest, waits)
      BY <1>2, <2>1
    <3> HIDE DEF rest
    <3> QED
      BY <3>1, <3>2, IteratesSpoiled, Zenon
  <2>3. CASE Inner.stale
    BY <1>3, <1>12, <2>3 DEF RefreshGoesOn
  <2>4. CASE ~Inner.stale
    <3>1. /\ \/ waits' = st
             \/ \E q, pgs, old, icons, box : Turn(q, pgs, old, tree, st, icons, box)
          /\ UNCHANGED <<sources, blinker, odd>>
      BY <1>12, <2>4, Zenon DEF RefreshGoesOn
    <3> HIDE DEF st
    <3> QED
      BY <1>11, <2>2, <3>1
  <2> QED
    BY <2>3, <2>4
<1>13. ASSUME NEW c, Refresh(c)
       PROVE  Follows(waits', waits) /\ UNCHANGED <<sources, blinker>> /\ odd \subseteq odd'
  <2> DEFINE st == Spoils(waits, LAMBDA f : f.at = "notify")
  <2>1. Follows(st, waits)
    BY <1>1, NotifySpoiled
  <2> HIDE DEF st
  <2> QED
    BY <1>11, <1>13, <2>1 DEF Refresh, st
<1>14. ASSUME ShowHideInactive \/ Preferences
       PROVE  Follows(waits', waits) /\ UNCHANGED <<sources, blinker>> /\ odd \subseteq odd'
  BY <1>13, <1>14 DEF ShowHideInactive, Preferences
<1>15. ASSUME UNCHANGED viewVars
       PROVE  Follows(waits', waits) /\ UNCHANGED <<sources, blinker, odd>>
  BY <1>1, <1>15 DEF viewVars
<1> QED
  BY <1>5, <1>6, <1>7, <1>8, <1>9, <1>10, <1>12, <1>14, <1>15

(* Steps that end a login: the timer stops.                                *)
LEMMA StatusStep ==
    ASSUME BlinkInv, UserAssumption, NEW p \in Networks,
           StatusChanged(p) \/ Disconnected(p) \/ WantsOffline(p)
    PROVE  BlinkInv'
<1> USE DEF contacts, view, status
<1>1. Follows(waits, waits) /\ Calls(waits)
  BY SameFollows DEF BlinkInv, BlinkTypes
<1>2. CASE StatusChanged(p)
  <2>1. /\ sources' = StopsBlinking(p) /\ blinker' = [blinker EXCEPT ![p] = 0]
        /\ odd \subseteq odd' /\ waits' = waits
    BY <1>2 DEF StatusChanged, ShowsStatus
  <2> QED
    BY <1>1, <2>1, TimerStops
<1>3. CASE WantsOffline(p)
  BY <1>1, <1>3, TimerStops DEF WantsOffline
<1>4. CASE Disconnected(p)
  <2>1. CASE Faults("stale")
    BY <1>1, <2>1, TimersRest DEF Faults
  <2>2. CASE ~Faults("stale")
    <3> DEFINE st == Spoils(waits, LAMBDA f : Iterates(p, f))
    <3>1. Follows(st, waits)
      <4>1. st = [i \in DOMAIN waits |-> [waits[i] EXCEPT !.stale = @ \/ Iterates(p, waits[i])]]
        BY Zenon DEF Spoils
      <4> QED
        BY <1>1, <4>1, IteratesSpoiled, Zenon
    <3>2. /\ ShowsStatus(p, "offline")
          /\ waits' = st \/ waits' = waits
      BY <1>4, <2>2, Zenon DEF Disconnected
    <3> HIDE DEF st
    <3>3. /\ sources' = StopsBlinking(p) /\ blinker' = [blinker EXCEPT ![p] = 0]
          /\ odd \subseteq odd'
      BY <3>2 DEF ShowsStatus
    <3> QED
      BY <1>1, <3>1, <3>2, <3>3, TimerStops
  <2> QED
    BY <2>1, <2>2
<1> QED
  BY <1>2, <1>3, <1>4

(* The user wants to be online: the timer stops, and the status is looked  *)
(* up before another one may start.                                        *)
LEMMA WantsOnlineStep ==
    ASSUME BlinkInv, UserAssumption, NEW p \in Networks, WantsOnline(p)
    PROVE  BlinkInv'
<1> DEFINE f == Call("blink", p, 0)
<1>1. /\ sources' = StopsBlinking(p) /\ blinker' = [blinker EXCEPT ![p] = 0]
      /\ waits' = Append(waits, f) /\ odd \subseteq odd'
      /\ "blink" \notin odd' => \A k \in DOMAIN waits : ~Waits(k, p)
  BY DEF WantsOnline, Waits
<1>2. f.at = "blink" /\ f.protocol = p /\ f \in CallsOf({"blink", p, 0})
  BY CallOf
<1> HIDE DEF f
<1>3. Follows(waits, waits)
  BY SameFollows DEF BlinkInv, BlinkTypes
<1>4. /\ Calls(waits')
      /\ DOMAIN waits' = 1..(Len(waits) + 1) /\ DOMAIN waits = 1..Len(waits) /\ Len(waits) \in Nat
      /\ \A k \in DOMAIN waits : waits'[k] = waits[k]
      /\ waits'[Len(waits) + 1] = f
  BY <1>1, <1>2, <1>3, PushedFollows
<1>5. \A k \in DOMAIN waits' : k \in DOMAIN waits \/ k = Len(waits) + 1
  BY <1>4
<1>6. /\ DOMAIN sources' \subseteq DOMAIN sources
      /\ \A i \in DOMAIN sources' : sources'[i] = sources[i] /\ i # blinker[p]
  BY <1>1 DEF StopsBlinking
<1>7. BlinkTypes'
  BY <1>1, <1>2, <1>4, <1>5, <1>6 DEF BlinkInv, BlinkTypes
<1>8. "blink" \notin odd => \A i \in DOMAIN sources' : sources'[i] # p
  BY <1>6 DEF BlinkInv, BlinkTypes, BlinkersKnown, UserAssumption
<1>9. BlinkersKnown'
  <2> SUFFICES ASSUME "blink" \notin odd', NEW i \in DOMAIN sources', sources'[i] # Gone
               PROVE  blinker'[sources'[i]] = i
    BY DEF BlinkersKnown
  <2>1. sources[i] # p /\ sources[i] \in Networks /\ blinker[sources[i]] = i
    BY <1>1, <1>6, <1>8 DEF BlinkInv, BlinkTypes, BlinkersKnown
  <2> QED
    BY <1>1, <1>6, <2>1 DEF BlinkInv, BlinkTypes
<1>10. ASSUME "blink" \notin odd' PROVE Single'
  <2>1. Single /\ \A k \in DOMAIN waits : ~Waits(k, p)
    BY <1>1, <1>10 DEF BlinkInv
  <2> SUFFICES ASSUME NEW q \in Networks, NEW k \in DOMAIN waits', Waits(k, q)'
               PROVE  /\ \A l \in DOMAIN waits' : Waits(l, q)' => k = l
                      /\ ~waits'[k].stale => \A i \in DOMAIN sources' : sources'[i] # q
    BY DEF Single
  <2>2. \A l \in DOMAIN waits : Waits(l, q)' <=> Waits(l, q)
    BY <1>4 DEF Waits
  <2>3. \A l \in DOMAIN waits' : l = Len(waits) + 1 => (Waits(l, q)' <=> q = p)
    BY <1>2, <1>4 DEF Waits
  <2>4. CASE q = p
    BY <1>1, <1>5, <1>8, <1>10, <2>1, <2>2, <2>4
  <2>5. CASE q # p
    BY <1>4, <1>5, <1>6, <2>1, <2>2, <2>3, <2>5 DEF Single
  <2> QED
    BY <2>4, <2>5
<1> QED
  BY <1>7, <1>9, <1>10 DEF BlinkInv

(* The status was looked up: a timer may start, for a protocol that had    *)
(* none, or for nobody.                                                    *)
LEMMA BlinksStep ==
    ASSUME BlinkInv, UserAssumption, Blinks
    PROVE  BlinkInv'
<1> DEFINE n == Len(waits)
           p == Inner.protocol
<1>1. waits # <<>> /\ waits' = Front(waits) /\ Inner.at = "blink" /\ odd' = odd
  BY DEF Blinks, At
<1>2. /\ Follows(waits', waits) /\ n \in Nat
      /\ n \in DOMAIN waits /\ Inner = waits[n] /\ n \notin DOMAIN waits'
      /\ \A k \in DOMAIN waits' : k \in DOMAIN waits /\ waits'[k] = waits[k]
  <2>1. Calls(waits)
    BY DEF BlinkInv, BlinkTypes
  <2>2. /\ Follows(Front(waits), waits)
        /\ Len(waits) \in DOMAIN waits /\ Last(waits) = waits[Len(waits)]
        /\ DOMAIN Front(waits) = 1..(Len(waits) - 1) /\ Len(waits) \in Nat
        /\ \A k \in DOMAIN Front(waits) :
              k \in DOMAIN waits /\ k # Len(waits) /\ Front(waits)[k] = waits[k]
    BY <1>1, <2>1, PoppedFollows, Zenon
  <2> QED
    BY <1>1, <2>2 DEF Inner
<1>3. p \in Networks /\ Waits(n, p)
  BY <1>1, <1>2 DEF BlinkInv, BlinkTypes, Waits
<1>4. CASE UNCHANGED <<sources, blinker>>
  BY <1>1, <1>2, <1>4, TimersRest
<1>5. ASSUME NEW i \in Sources \ DOMAIN sources,
             sources' = [j \in DOMAIN sources \cup {i} |->
                IF j # i THEN sources[j] ELSE IF Inner.stale THEN Gone ELSE p],
             blinker' = IF Inner.stale THEN blinker ELSE [blinker EXCEPT ![p] = i]
      PROVE  BlinkInv'
  <2> HIDE DEF n, p
  <2>1. /\ DOMAIN sources' = DOMAIN sources \cup {i}
        /\ \A j \in DOMAIN sources : sources'[j] = sources[j]
        /\ sources'[i] = IF Inner.stale THEN Gone ELSE p
    BY <1>5
  <2>2. BlinkTypes'
    BY <1>2, <1>3, <1>5, <2>1 DEF BlinkInv, BlinkTypes, Follows
  <2>3. ASSUME "blink" \notin odd, ~Inner.stale
        PROVE  \A j \in DOMAIN sources : sources[j] # p
    BY <1>2, <1>3, <2>3 DEF BlinkInv, Single
  <2>4. BlinkersKnown'
    <3> SUFFICES ASSUME "blink" \notin odd', NEW j \in DOMAIN sources', sources'[j] # Gone
                 PROVE  blinker'[sources'[j]] = j
      BY DEF BlinkersKnown
    <3>1. CASE j = i
      BY <1>3, <1>5, <2>1, <3>1 DEF BlinkInv, BlinkTypes
    <3>2. CASE j # i
      <4>1. j \in DOMAIN sources /\ sources'[j] = sources[j] /\ blinker[sources[j]] = j
        BY <1>1, <2>1, <3>2 DEF BlinkInv, BlinkersKnown
      <4>2. Inner.stale \/ sources[j] # p
        BY <1>1, <2>3, <4>1
      <4>3. sources[j] \in Networks
        BY <4>1 DEF BlinkInv, BlinkTypes
      <4> QED
        BY <1>3, <1>5, <4>1, <4>2, <4>3 DEF BlinkInv, BlinkTypes
    <3> QED
      BY <3>1, <3>2
  <2>5. ASSUME "blink" \notin odd' PROVE Single'
    <3>1. Single
      BY <1>1, <2>5 DEF BlinkInv
    <3> SUFFICES ASSUME NEW q \in Networks, NEW k \in DOMAIN waits', Waits(k, q)'
                 PROVE  /\ \A l \in DOMAIN waits' : Waits(l, q)' => k = l
                        /\ ~waits'[k].stale => \A j \in DOMAIN sources' : sources'[j] # q
      BY DEF Single
    <3>2. \A l \in DOMAIN waits' : Waits(l, q)' => l \in DOMAIN waits /\ Waits(l, q)
      BY <1>2 DEF Waits
    <3>3. q # p
      BY <1>2, <1>3, <3>1, <3>2 DEF Single
    <3>4. q # Gone
      BY DEF UserAssumption
    <3> QED
      BY <1>2, <2>1, <3>1, <3>2, <3>3, <3>4 DEF Single
  <2> QED
    BY <2>2, <2>4, <2>5 DEF BlinkInv
<1>6. CASE Inner.status
  BY <1>4, <1>6 DEF Blinks
<1>7. CASE ~Inner.status
  <2>1. \E i \in Sources \ DOMAIN sources :
           /\ sources' = [j \in DOMAIN sources \cup {i} |->
                 IF j # i THEN sources[j] ELSE IF Inner.stale THEN Gone ELSE p]
           /\ blinker' = IF Inner.stale THEN blinker ELSE [blinker EXCEPT ![p] = i]
    BY <1>7 DEF Blinks
  <2> HIDE DEF p
  <2> QED
    BY <1>5, <2>1
<1> QED
  BY <1>6, <1>7

(* A protocol unregisters: its timers are nobody's, and what waits to      *)
(* start one is stale.                                                     *)
LEMMA UnregisterStep ==
    ASSUME BlinkInv, UserAssumption, NEW p \in Networks, Unregister(p)
    PROVE  BlinkInv'
<1> USE DEF contacts, view, status
<1>1. Follows(waits, waits) /\ Calls(waits)
  BY SameFollows DEF BlinkInv, BlinkTypes
<1>2. CASE \E kind : Faults(kind)
  BY <1>1, <1>2, TimersRest DEF Faults
<1>3. CASE ~\E kind : Faults(kind)
  <2> DEFINE st == Spoils(waits, LAMBDA f : f.protocol = p)
  <2>1. /\ sources' = [i \in DOMAIN sources |-> IF sources[i] = p THEN Gone ELSE sources[i]]
        /\ blinker' = [blinker EXCEPT ![p] = 0]
        /\ waits' = st /\ odd' = odd
    BY <1>3, Zenon DEF Unregister
  <2>2. Follows(st, waits) /\ \A k \in DOMAIN st : st[k].protocol = p => st[k].stale
    <3>1. st = [i \in DOMAIN waits |-> [waits[i] EXCEPT !.stale = @ \/ waits[i].protocol = p]]
      BY Zenon DEF Spoils
    <3>2. Calls(waits) /\ p \in Networks
      BY <1>1
    <3> HIDE DEF st
    <3>3. Follows(st, waits)
      BY <3>1, <3>2, OwnSpoiled, Zenon
    <3>4. ASSUME NEW k \in DOMAIN st, st[k].protocol = p PROVE st[k].stale
      <4>1. PICK S : waits \in Seq(CallsOf(S))
        BY <3>2 DEF Calls
      <4>2. DOMAIN waits = 1..Len(waits) /\ \A i \in DOMAIN waits : waits[i] \in CallsOf(S)
        BY <4>1, LenProperties, ElementOfSeq
      <4>3. k \in DOMAIN waits
        BY <3>1, <3>4
      <4>4. waits[k] \in CallsOf(S)
        BY <4>2, <4>3
      <4>5. st[k] = [waits[k] EXCEPT !.stale = @ \/ waits[k].protocol = p]
        BY <3>1, <4>3, Zenon
      <4>6. waits[k].protocol = p
        BY <3>4, <4>4, <4>5 DEF CallsOf
      <4> QED
        BY <4>4, <4>5, <4>6 DEF CallsOf
    <3> QED
      BY <3>3, <3>4
  <2> HIDE DEF st
  <2>3. /\ DOMAIN sources' = DOMAIN sources
        /\ \A i \in DOMAIN sources : sources'[i] = IF sources[i] = p THEN Gone ELSE sources[i]
    BY <2>1
  <2>4. BlinkTypes'
    BY <2>1, <2>2, <2>3 DEF BlinkInv, BlinkTypes, Follows, Waited
  <2>5. BlinkersKnown'
    <3> SUFFICES ASSUME "blink" \notin odd', NEW i \in DOMAIN sources', sources'[i] # Gone
                 PROVE  blinker'[sources'[i]] = i
      BY DEF BlinkersKnown
    <3>1. i \in DOMAIN sources /\ sources[i] # p /\ sources'[i] = sources[i] /\ sources[i] # Gone
      BY <2>3
    <3>2. sources[i] \in Networks /\ blinker[sources[i]] = i
      BY <2>1, <3>1 DEF BlinkInv, BlinkTypes, BlinkersKnown
    <3> QED
      BY <2>1, <3>1, <3>2 DEF BlinkInv, BlinkTypes
  <2>6. ASSUME "blink" \notin odd' PROVE Single'
    <3>1. Single
      BY <2>1, <2>6 DEF BlinkInv
    <3> SUFFICES ASSUME NEW q \in Networks, NEW k \in DOMAIN waits', Waits(k, q)'
                 PROVE  /\ \A l \in DOMAIN waits' : Waits(l, q)' => k = l
                        /\ ~waits'[k].stale => \A i \in DOMAIN sources' : sources'[i] # q
      BY DEF Single
    <3>2. \A l \in DOMAIN waits' : Waits(l, q)' =>
             l \in DOMAIN waits /\ Waits(l, q) /\ (waits[l].stale => waits'[l].stale)
      BY <2>1, <2>2 DEF Follows, Waited, Waits
    <3>3. ~waits'[k].stale => q # p
      BY <2>1, <2>2 DEF Waits
    <3>4. q # Gone
      BY DEF UserAssumption
    <3> QED
      BY <2>3, <3>1, <3>2, <3>3, <3>4 DEF Single
  <2> QED
    BY <2>4, <2>5, <2>6 DEF BlinkInv
<1> QED
  BY <1>2, <1>3

LEMMA BlinkStep == UserAssumption /\ BlinkInv /\ [ViewNext]_viewVars => BlinkInv'
<1> SUFFICES ASSUME UserAssumption, BlinkInv, [ViewNext]_viewVars PROVE BlinkInv'
  OBVIOUS
<1> QED
  BY RowStep, StatusStep, WantsOnlineStep, BlinksStep, UnregisterStep, Zenon DEF ViewNext

LEMMA BlinkBegins == UserAssumption /\ ViewInit => BlinkInv
<1> SUFFICES ASSUME UserAssumption, ViewInit PROVE BlinkInv
  OBVIOUS
<1>1. waits = <<>> /\ sources = <<>> /\ blinker = [p \in Networks |-> 0]
  BY DEF ViewInit
<1>2. DOMAIN waits = {} /\ DOMAIN sources = {}
  BY <1>1
<1>3. Calls(waits)
  BY <1>1, EmptySeq DEF Calls
<1> QED
  BY <1>1, <1>2, <1>3 DEF BlinkInv, BlinkTypes, BlinkersKnown, Single

(* Every timer that makes an icon blink is the one its protocol knows and  *)
(* will stop, or that of a protocol that left, however the emissions of    *)
(* the view nest, unless the user asks to be online while his status is    *)
(* looked up for the same reason.                                          *)
THEOREM BlinkersCorrect == UserAssumption => (ViewSpec => []BlinkersKnown)
<1> SUFFICES ASSUME UserAssumption PROVE ViewSpec => []BlinkersKnown
  OBVIOUS
<1>1. BlinkInv => BlinkersKnown
  BY DEF BlinkInv
<1>2. ViewInit => BlinkInv
  BY BlinkBegins
<1>3. BlinkInv /\ [ViewNext]_viewVars => BlinkInv'
  BY BlinkStep
<1> QED
  BY <1>1, <1>2, <1>3, PTL DEF ViewSpec

-----------------------------------------------------------------------------
(* Sequences and rows                                                      *)

(* What is left of a sequence when entry i is removed.                     *)
LEMMA RemovedEntries ==
    ASSUME NEW S, NEW s \in Seq(S), NEW i \in DOMAIN s
    PROVE  /\ RemoveAt(s, i) \in Seq(S)
           /\ DOMAIN RemoveAt(s, i) = 1..(Len(s) - 1)
           /\ \A j \in 1..(Len(s) - 1) : RemoveAt(s, i)[j] = IF j < i THEN s[j] ELSE s[j + 1]
<1> DEFINE a == SubSeq(s, 1, i - 1)
           b == SubSeq(s, i + 1, Len(s))
<1>1. Len(s) \in Nat /\ i \in 1..Len(s) /\ \A j \in 1..Len(s) : s[j] \in S
  BY LenProperties, ElementOfSeq
<1>2. a \in Seq(S) /\ Len(a) = i - 1 /\ \A j \in 1..(i - 1) : a[j] = s[j]
  BY <1>1, SubSeqProperties
<1>3. b \in Seq(S) /\ Len(b) = Len(s) - i /\ \A j \in 1..(Len(s) - i) : b[j] = s[i + j]
  BY <1>1, SubSeqProperties
<1> HIDE DEF a, b
<1>4. Len(a) + Len(b) = Len(s) - 1
  BY <1>1, <1>2, <1>3
<1>5. /\ a \o b \in Seq(S) /\ Len(a \o b) = Len(s) - 1
      /\ \A j \in 1..(Len(s) - 1) : (a \o b)[j] = IF j <= Len(a) THEN a[j] ELSE b[j - Len(a)]
  <2>1. /\ a \o b \in Seq(S) /\ Len(a \o b) = Len(a) + Len(b)
        /\ \A j \in 1..(Len(a) + Len(b)) : (a \o b)[j] = IF j <= Len(a) THEN a[j] ELSE b[j - Len(a)]
    BY <1>2, <1>3, ConcatProperties
  <2> QED
    BY <1>4, <2>1
<1>6. DOMAIN (a \o b) = 1..(Len(s) - 1)
  BY <1>5, LenProperties
<1>7. ASSUME NEW j \in 1..(Len(s) - 1)
      PROVE  (a \o b)[j] = IF j < i THEN s[j] ELSE s[j + 1]
  <2>1. CASE j < i
    BY <1>1, <1>2, <1>5, <2>1
  <2>2. CASE ~(j < i)
    <3>1. j - (i - 1) \in 1..(Len(s) - i) /\ i + (j - (i - 1)) = j + 1 /\ ~(j <= i - 1)
      BY <1>1, <2>2
    <3>2. (a \o b)[j] = b[j - (i - 1)] /\ b[j - (i - 1)] = s[i + (j - (i - 1))]
      BY <1>2, <1>3, <1>5, <3>1
    <3> QED
      BY <2>2, <3>1, <3>2
  <2> QED
    BY <2>1, <2>2
<1> QED
  BY <1>5, <1>6, <1>7 DEF RemoveAt, a, b

Distinct(s) == \A i, j \in DOMAIN s : s[i] = s[j] => i = j

(* A protocol leaves the list of those that are known.                     *)
LEMMA RemovedFirst ==
    ASSUME NEW S, NEW s \in Seq(S), Distinct(s), NEW n \in DOMAIN s
    PROVE  RemoveFirst(s, s[n]) = RemoveAt(s, n)
<1>1. Len(s) \in Nat /\ DOMAIN s = 1..Len(s)
  BY LenProperties
<1> DEFINE I == {i \in 1..Len(s) : s[i] = s[n]}
<1>2. I = {n}
  BY <1>1 DEF Distinct
<1>3. Min(I) = n
  BY <1>1, <1>2 DEF Min
<1>4. SelectInSeq(s, LAMBDA v : v = s[n]) = IF I # {} THEN Min(I) ELSE 0
  BY DEF SelectInSeq
<1>5. \E i \in 1..Len(s) : s[i] = s[n]
  BY <1>1
<1>6. I # {}
  BY <1>2
<1> HIDE DEF I
<1> QED
  BY <1>3, <1>4, <1>5, <1>6 DEF RemoveFirst

(* What is to be seen depends only on those contacts.                      *)
LEMMA WantedElsewhere ==
    ASSUME NEW cs, NEW on, NEW new, \A c \in cs : c \in on <=> c \in new
    PROVE  Wanted(cs, on) = Wanted(cs, new)
<1> DEFINE D(o) == {c \in cs : config.showActive => c \in o}
<1>1. D(on) = D(new)
  OBVIOUS
<1>2. \A c \in D(on) : (c \in on) = (c \in new)
  OBVIOUS
<1>3. Wanted(cs, on) = [c \in D(on) |-> c \in on] /\ Wanted(cs, new) = [c \in D(new) |-> c \in new]
  BY DEF Wanted
<1> HIDE DEF D
<1> QED
  BY <1>1, <1>2, <1>3

(* Without contacts, nothing is to be seen.                                *)
LEMMA WantedOfNone ==
    ASSUME NEW on PROVE Wanted({}, on) = <<>>
BY DEF Wanted

(* gui_user_view_notify shows what there is to be seen after the change.   *)
LEMMA NotifiedWanted ==
    ASSUME NEW cs, NEW online1, NEW c \in cs, NEW on \in BOOLEAN, NEW new,
           new = IF on THEN online1 \cup {c} ELSE online1 \ {c}
    PROVE  Notified(Wanted(cs, online1), c, on) = Wanted(cs, new)
<1> DEFINE rows == Wanted(cs, online1)
           goal == Wanted(cs, new)
           kept == IF ~config.showActive THEN DOMAIN rows
                   ELSE IF on THEN DOMAIN rows \cup {c} ELSE DOMAIN rows \ {c}
<1>1. /\ rows = [d \in DOMAIN rows |-> d \in online1]
      /\ DOMAIN rows = {d \in cs : config.showActive => d \in online1}
  BY DEF Wanted
<1>2. /\ goal = [d \in DOMAIN goal |-> d \in new]
      /\ DOMAIN goal = {d \in cs : config.showActive => d \in new}
  BY DEF Wanted
<1>3. Notified(rows, c, on) = [d \in kept |-> IF d = c THEN on ELSE rows[d]]
  BY DEF Notified
<1>4. kept = DOMAIN goal
  BY <1>1, <1>2
<1>5. \A d \in DOMAIN goal : (IF d = c THEN on ELSE rows[d]) = (d \in new)
  BY <1>1, <1>2, <1>4
<1> HIDE DEF rows, goal, kept
<1> QED
  BY <1>2, <1>3, <1>4, <1>5 DEF rows, goal

(* Pages; what their rows are is left open.                                *)
PagesOf(R) == [protocol : Networks, rows : R]

Pages(pgs) == \E R : pgs \in Seq(PagesOf(R))

(* Pages are counted from 1, and each is of a protocol.                    *)
LEMMA PageTypes ==
    ASSUME NEW pgs, Pages(pgs)
    PROVE  /\ Len(pgs) \in Nat /\ DOMAIN pgs = 1..Len(pgs)
           /\ \A i \in DOMAIN pgs : pgs[i].protocol \in Networks
<1>1. PICK R : pgs \in Seq(PagesOf(R))
  BY DEF Pages
<1>2. Len(pgs) \in Nat /\ DOMAIN pgs = 1..Len(pgs)
  BY <1>1, LenProperties
<1>3. \A i \in DOMAIN pgs : pgs[i] \in PagesOf(R)
  BY <1>1, <1>2, ElementOfSeq
<1> QED
  BY <1>2, <1>3 DEF PagesOf

Filled(pgs, n, r) == [pgs EXCEPT ![n].rows = r]

(* Filling a page changes nothing of the others.                           *)
LEMMA PageFilled ==
    ASSUME NEW pgs, Pages(pgs), NEW n \in DOMAIN pgs, NEW r, NEW new, new = Filled(pgs, n, r)
    PROVE  /\ Pages(new) /\ DOMAIN new = DOMAIN pgs /\ Len(new) = Len(pgs)
           /\ \A i \in DOMAIN pgs : /\ new[i].protocol = pgs[i].protocol
                                    /\ new[i].rows = IF i = n THEN r ELSE pgs[i].rows
<1>1. PICK R : pgs \in Seq(PagesOf(R))
  BY DEF Pages
<1>2. Len(pgs) \in Nat /\ DOMAIN pgs = 1..Len(pgs)
  BY <1>1, LenProperties
<1>3. \A i \in DOMAIN pgs : pgs[i] \in PagesOf(R)
  BY <1>1, <1>2, ElementOfSeq
<1>4. /\ DOMAIN new = DOMAIN pgs
      /\ \A i \in DOMAIN pgs : new[i] = IF i = n THEN [pgs[i] EXCEPT !.rows = r] ELSE pgs[i]
      /\ new = [i \in DOMAIN pgs |-> new[i]]
  BY DEF Filled
<1>5. \A i \in DOMAIN pgs : /\ new[i] \in PagesOf(R \cup {r})
                            /\ new[i].protocol = pgs[i].protocol
                            /\ new[i].rows = IF i = n THEN r ELSE pgs[i].rows
  BY <1>3, <1>4 DEF PagesOf
<1> DEFINE F == PagesOf(R \cup {r})
<1>6. new = [i \in 1..Len(pgs) |-> new[i]] /\ \A i \in 1..Len(pgs) : new[i] \in F
  BY <1>2, <1>4, <1>5
<1> HIDE DEF F
<1>7. new \in Seq(F)
  <2>1. ASSUME NEW g, g = [i \in 1..Len(pgs) |-> g[i]], \A i \in 1..Len(pgs) : g[i] \in F
        PROVE  g \in Seq(F)
    BY <1>2, <2>1, IsASeq
  <2> QED
    BY <1>6, <2>1
<1>8. Len(new) = Len(pgs)
  <2>1. Len(new) \in Nat /\ DOMAIN new = 1..Len(new)
    BY <1>7, LenProperties
  <2>2. 1..Len(new) = 1..Len(pgs)
    BY <1>2, <1>4, <2>1
  <2>3. PICK a \in Nat, b \in Nat : a = Len(new) /\ b = Len(pgs)
    BY <1>2, <2>1
  <2>4. \A i \in Nat : i \in 1..a <=> i \in 1..b
    BY <2>2, <2>3
  <2>5. a = b
    BY <2>4
  <2> QED
    BY <2>3, <2>5
<1> QED
  BY <1>4, <1>5, <1>7, <1>8 DEF Pages, F

EmptyPage(p) == [protocol |-> p, rows |-> <<>>]

(* An empty page is added after the others.                                *)
LEMMA PageAdded ==
    ASSUME NEW pgs, Pages(pgs), NEW p \in Networks
    PROVE  LET new == Append(pgs, EmptyPage(p))
           IN  /\ Pages(new) /\ DOMAIN new = 1..(Len(pgs) + 1) /\ Len(new) = Len(pgs) + 1
               /\ \A i \in DOMAIN pgs : new[i] = pgs[i]
               /\ new[Len(pgs) + 1].protocol = p /\ new[Len(pgs) + 1].rows = <<>>
<1>1. PICK R : pgs \in Seq(PagesOf(R))
  BY DEF Pages
<1> DEFINE F == PagesOf(R \cup {<<>>})
           f == EmptyPage(p)
           new == Append(pgs, f)
<1>2. PagesOf(R) \subseteq F /\ f \in F
  BY DEF PagesOf, EmptyPage
<1>3. f.protocol = p /\ f.rows = <<>>
  BY DEF EmptyPage
<1> HIDE DEF F, f
<1>5. pgs \in Seq(F)
  BY <1>1, <1>2, SeqMonotonic
<1>6. /\ new \in Seq(F) /\ Len(new) = Len(pgs) + 1
      /\ \A i \in 1..Len(pgs) : new[i] = pgs[i]
      /\ new[Len(pgs) + 1] = f
  BY <1>2, <1>5, AppendProperties
<1>7. Pages(new) /\ DOMAIN new = 1..(Len(pgs) + 1) /\ DOMAIN pgs = 1..Len(pgs)
  BY <1>5, <1>6, LenProperties DEF Pages, F
<1> HIDE DEF new
<1>8. /\ Pages(new) /\ DOMAIN new = 1..(Len(pgs) + 1) /\ Len(new) = Len(pgs) + 1
      /\ \A i \in DOMAIN pgs : new[i] = pgs[i]
      /\ new[Len(pgs) + 1].protocol = p /\ new[Len(pgs) + 1].rows = <<>>
  BY <1>3, <1>6, <1>7
<1> QED
  BY <1>8 DEF new, f

(* A row is removed from the top of the tree, and those below move up.     *)
LEMMA PageTaken ==
    ASSUME NEW pgs, Pages(pgs), NEW n \in DOMAIN pgs
    PROVE  /\ Pages(RemoveAt(pgs, n))
           /\ DOMAIN RemoveAt(pgs, n) = 1..(Len(pgs) - 1)
           /\ \A j \in 1..(Len(pgs) - 1) : RemoveAt(pgs, n)[j] = IF j < n THEN pgs[j] ELSE pgs[j + 1]
<1>1. PICK R : pgs \in Seq(PagesOf(R))
  BY DEF Pages
<1> DEFINE F == PagesOf(R)
<1>2. pgs \in Seq(F)
  BY <1>1
<1> HIDE DEF F
<1> QED
  BY <1>2, RemovedEntries DEF Pages, F

-----------------------------------------------------------------------------
(* Calls that build                                                        *)

Building(st, k)  == k \in DOMAIN st /\ st[k].at \in {"register", "refresh"}
Refreshes(st, k) == k \in DOMAIN st /\ st[k].at = "refresh"
Registers(st, k) == k \in DOMAIN st /\ st[k].at = "register"

(* The calls that build are the same in both.                              *)
SameBuilding(st, old) ==
    \A k : (Building(st, k) <=> Building(old, k)) /\ (Building(old, k) => st[k] = old[k])

(* The calls that are hit are spoiled.                                     *)
Spoiled(st, hit) == [i \in DOMAIN st |-> [st[i] EXCEPT !.stale = @ \/ hit[i]]]

(* Spoiling calls changes only their stale.                                *)
LEMMA SpoiledBuilding ==
    ASSUME NEW st, Calls(st), NEW hit \in [DOMAIN st -> BOOLEAN], NEW new,
           new = Spoiled(st, hit)
    PROVE  /\ Calls(new) /\ DOMAIN new = DOMAIN st
           /\ \A k \in DOMAIN st : /\ new[k].at = st[k].at /\ new[k].protocol = st[k].protocol
                                   /\ new[k].status = st[k].status
                                   /\ new[k].stale = (st[k].stale \/ hit[k])
                                   /\ ~hit[k] => new[k] = st[k]
           /\ (\A k \in DOMAIN st : Building(st, k) => ~hit[k]) => SameBuilding(new, st)
<1>1. PICK S : st \in Seq(CallsOf(S))
  BY DEF Calls
<1>2. Len(st) \in Nat /\ DOMAIN st = 1..Len(st)
  BY <1>1, LenProperties
<1>3. \A i \in DOMAIN st : st[i] \in CallsOf(S)
  BY <1>1, <1>2, ElementOfSeq
<1>4. DOMAIN new = DOMAIN st /\ \A i \in DOMAIN st : new[i] = [st[i] EXCEPT !.stale = @ \/ hit[i]]
  BY DEF Spoiled
<1>5. ASSUME NEW k \in DOMAIN st
      PROVE  /\ new[k].at = st[k].at /\ new[k].protocol = st[k].protocol
             /\ new[k].status = st[k].status
             /\ new[k].stale = (st[k].stale \/ hit[k])
             /\ ~hit[k] => new[k] = st[k]
  BY <1>3, <1>4 DEF CallsOf
<1>6. Follows(st, st)
  BY SameFollows
<1>7. Calls(new)
  BY <1>6, SpoiledFollows DEF Follows, Spoiled
<1>8. ASSUME \A k \in DOMAIN st : Building(st, k) => ~hit[k] PROVE SameBuilding(new, st)
  BY <1>4, <1>5, <1>8 DEF SameBuilding, Building
<1> QED
  BY <1>4, <1>5, <1>7, <1>8

(* Iterators over the rows of p are spoiled, and no call that builds.      *)
LEMMA IteratorsSpoiled ==
    ASSUME NEW st, Calls(st), NEW p, NEW hit \in [DOMAIN st -> BOOLEAN], NEW new,
           new = Spoiled(st, hit), \A i \in DOMAIN st : hit[i] => Iterates(p, st[i])
    PROVE  Calls(new) /\ SameBuilding(new, st)
<1>1. \A k \in DOMAIN st : Building(st, k) => ~hit[k]
  BY DEF Building, Iterates
<1> QED
  BY <1>1, SpoiledBuilding

(* A call that does not build is put on the stack.                         *)
LEMMA OtherPushed ==
    ASSUME NEW st, NEW old, Calls(st), SameBuilding(st, old), NEW S, NEW f \in CallsOf(S),
           f.at \notin {"register", "refresh"}
    PROVE  SameBuilding(Append(st, f), old)
<1>1. Follows(st, st)
  BY SameFollows
<1>2. /\ DOMAIN Append(st, f) = 1..(Len(st) + 1) /\ DOMAIN st = 1..Len(st) /\ Len(st) \in Nat
      /\ \A k \in DOMAIN st : Append(st, f)[k] = st[k]
      /\ Append(st, f)[Len(st) + 1] = f
  BY <1>1, PushedFollows
<1>3. \A k : k \in DOMAIN Append(st, f) <=> (k \in DOMAIN st \/ k = Len(st) + 1)
  BY <1>2
<1> QED
  BY <1>2, <1>3 DEF SameBuilding, Building

(* A call that does not build returns.                                     *)
LEMMA OtherPopped ==
    ASSUME NEW st, Calls(st), st # <<>>, Last(st).at \notin {"register", "refresh"}
    PROVE  SameBuilding(Front(st), st)
<1>1. /\ Len(st) \in DOMAIN st /\ Last(st) = st[Len(st)]
      /\ DOMAIN Front(st) = 1..(Len(st) - 1) /\ Len(st) \in Nat
      /\ \A k \in DOMAIN Front(st) : k \in DOMAIN st /\ k # Len(st) /\ Front(st)[k] = st[k]
  BY PoppedFollows
<1>2. DOMAIN st = 1..Len(st)
  <2>1. PICK S : st \in Seq(CallsOf(S))
    BY DEF Calls
  <2> QED
    BY <2>1, LenProperties
<1>3. \A k \in DOMAIN st : k # Len(st) => k \in DOMAIN Front(st)
  BY <1>1, <1>2
<1> QED
  BY <1>1, <1>3 DEF SameBuilding, Building

-----------------------------------------------------------------------------
(* What the view shows                                                     *)

(* No protocol is known twice.  A refresh is alone among the calls that    *)
(* build, and no two register the same protocol, which is not known before. *)
Nested ==
    /\ known \in Seq(Networks) /\ Distinct(known)
    /\ \A k, l \in DOMAIN waits : Refreshes(waits, k) /\ Building(waits, l) => k = l
    /\ \A k, l \in DOMAIN waits :
          Registers(waits, k) /\ Registers(waits, l) /\ waits[k].protocol = waits[l].protocol => k = l
    /\ \A k \in DOMAIN waits :
          Registers(waits, k) => waits[k].protocol \in Networks \ Known /\ ~waits[k].status

(* The protocol whose page is being built has left: the refresh will never *)
(* return to an empty stack.                                               *)
Doomed == \E k \in DOMAIN waits : Refreshes(waits, k) /\ waits[k].stale

ViewTypes ==
    /\ known \in Seq(Networks) /\ Distinct(known)
    /\ Pages(pages) /\ page \in [Networks -> Nat]
    /\ userlist \in [Networks -> SUBSET Contacts]
    /\ \A p \in Networks : \A c \in userlist[p] : Of[c] = p
    /\ statusIcon \in [Networks -> {"none", "online", "offline"}]
    /\ boxes \in [Networks -> Nat]

(* What points to a page points to one of its protocol; it points to every *)
(* row of a tree, and to the only page of a notebook that is not empty.    *)
Placed ==
    /\ \A p \in Networks : page[p] = 0 \/ (HasPage(p) /\ pages[page[p]].protocol = p)
    /\ \A i \in DOMAIN pages : i # page[pages[i].protocol] => ~tree /\ pages[i].rows = <<>>

Bare(p)   == boxes[p] = 0 /\ statusIcon[p] = "none"
Iconed(p) == boxes[p] = 1 /\ statusIcon[p] = IF p \in up THEN "online" ELSE "offline"
Shown(p)  == HasPage(p) /\ pages[page[p]].rows = Wanted(userlist[p], Seen)

(* Nothing is left of a protocol that is not known, but for a row that is  *)
(* begun.                                                                  *)
Unlisted ==
    \A p \in Networks \ Known :
        /\ Bare(p) /\ userlist[p] = {} /\ p \notin up
        /\ page[p] # 0 => /\ tree /\ pages[page[p]].rows = <<>>
                          /\ \E k \in DOMAIN waits : Registers(waits, k) /\ waits[k].protocol = p

(* A refresh has built what comes before the protocol it waits for, and    *)
(* nothing of what comes after.                                            *)
Halfway(p, n) ==
    /\ known[n] = p /\ Bare(p)
    /\ tree => page[p] # 0
    /\ ~tree => page[p] = 0
    /\ \A j \in DOMAIN known :
          /\ j < n => Shown(known[j]) /\ Iconed(known[j])
          /\ j > n => page[known[j]] = 0 /\ Iconed(known[j])

AwaitsAt(k) ==
    /\ Registers(waits, k) /\ tree => page[waits[k].protocol] # 0
    /\ Refreshes(waits, k) =>
          /\ waits[k].status = (waits[k].protocol \in up)
          /\ \E n \in DOMAIN known : Halfway(waits[k].protocol, n)

Awaits == \A k \in DOMAIN waits : AwaitsAt(k)

Settled ==
    (\A k \in DOMAIN waits : ~Refreshes(waits, k)) => \A p \in Known : Shown(p) /\ Iconed(p)

Agrees == ViewTypes /\ Placed /\ Unlisted /\ Awaits /\ Settled

ShownInv == Nested /\ (Doomed \/ Agrees)

Overlaps == "refresh" \in odd \/ "status" \in odd

(* In a stack whose calls that build are the same.                         *)
LEMMA CallsKept ==
    ASSUME NEW st, NEW old, SameBuilding(st, old)
    PROVE  \A k : /\ Building(st, k) <=> Building(old, k)
                  /\ Refreshes(st, k) <=> Refreshes(old, k)
                  /\ Registers(st, k) <=> Registers(old, k)
                  /\ Building(old, k) => st[k] = old[k] /\ k \in DOMAIN old /\ k \in DOMAIN st
                  /\ (Refreshes(old, k) \/ Registers(old, k)) <=> Building(old, k)
BY DEF SameBuilding, Building, Refreshes, Registers

(* What is nested remains so as long as nobody builds or is registered.    *)
LEMMA NestedKept ==
    ASSUME Nested, SameBuilding(waits', waits), known' = known
    PROVE  Nested' /\ (Doomed => Doomed')
<1>1. Known' = Known
  BY DEF Known
<1>2. \A k : /\ Building(waits', k) <=> Building(waits, k)
             /\ Refreshes(waits', k) <=> Refreshes(waits, k)
             /\ Registers(waits', k) <=> Registers(waits, k)
             /\ Building(waits, k) => waits'[k] = waits[k] /\ k \in DOMAIN waits /\ k \in DOMAIN waits'
             /\ (Refreshes(waits, k) \/ Registers(waits, k)) <=> Building(waits, k)
  BY CallsKept
<1>3. \A k, l \in DOMAIN waits' : Refreshes(waits', k) /\ Building(waits', l) => k = l
  BY <1>2 DEF Nested
<1>4. ASSUME NEW k \in DOMAIN waits', NEW l \in DOMAIN waits', Registers(waits', k), Registers(waits', l),
             waits'[k].protocol = waits'[l].protocol
      PROVE  k = l
  BY <1>2, <1>4 DEF Nested
<1>5. ASSUME NEW k \in DOMAIN waits', Registers(waits', k)
      PROVE  waits'[k].protocol \in Networks \ Known /\ ~waits'[k].status
  BY <1>2, <1>5 DEF Nested
<1>6. Nested'
  <2>1. known' \in Seq(Networks) /\ Distinct(known')
    BY DEF Nested
  <2> QED
    BY <1>1, <1>3, <1>4, <1>5, <2>1 DEF Nested
<1>7. ASSUME Doomed PROVE Doomed'
  BY <1>2, <1>7 DEF Doomed
<1> QED
  BY <1>6, <1>7

(* Steps that touch at most what is shown of one protocol that is known,   *)
(* and build nothing.                                                      *)
LEMMA AgreesKept ==
    ASSUME Agrees, SameBuilding(waits', waits), NEW p \in Known,
           UNCHANGED <<config, tree, known, page, boxes>>,
           Pages(pages'), DOMAIN pages' = DOMAIN pages,
           \A i \in DOMAIN pages : /\ pages'[i].protocol = pages[i].protocol
                                   /\ i # page[p] => pages'[i].rows = pages[i].rows,
           userlist' \in [Networks -> SUBSET Contacts], \A c \in userlist'[p] : Of[c] = p,
           \A q \in Networks \ {p} : userlist'[q] = userlist[q],
           \A q \in Networks \ {p} : \A c \in userlist[q] : c \in Seen' <=> c \in Seen,
           Shown(p) => Shown(p)',
           statusIcon' \in [Networks -> {"none", "online", "offline"}],
           \A q \in Networks \ {p} : statusIcon'[q] = statusIcon[q] /\ (q \in up' <=> q \in up),
           Bare(p) => Bare(p)' /\ (p \in up' <=> p \in up),
           Iconed(p) => Iconed(p)'
    PROVE  Agrees'
<1>1. Known' = Known /\ Known = {known[j] : j \in DOMAIN known}
  BY DEF Known, ToSet
<1>2. /\ Len(known) \in Nat /\ DOMAIN known = 1..Len(known)
      /\ \A j \in DOMAIN known : known[j] \in Networks
  <2>1. known \in Seq(Networks)
    BY DEF Agrees, ViewTypes
  <2> QED
    BY <2>1, LenProperties, ElementOfSeq
<1>3. p \in Networks
  BY <1>1, <1>2
<1>4. \A q \in Networks : HasPage(q)' <=> HasPage(q)
  BY DEF HasPage
<1>5. \A k : /\ Building(waits', k) <=> Building(waits, k)
             /\ Refreshes(waits', k) <=> Refreshes(waits, k)
             /\ Registers(waits', k) <=> Registers(waits, k)
             /\ Building(waits, k) => waits'[k] = waits[k] /\ k \in DOMAIN waits /\ k \in DOMAIN waits'
             /\ (Refreshes(waits, k) \/ Registers(waits, k)) <=> Building(waits, k)
  BY CallsKept
<1>6. ViewTypes'
  <2>1. ASSUME NEW q \in Networks, NEW c \in userlist'[q] PROVE Of[c] = q
    BY <2>1 DEF Agrees, ViewTypes
  <2>2. ViewTypes
    BY DEF Agrees
  <2> QED
    BY <2>1, <2>2 DEF ViewTypes
<1>7. ASSUME NEW q \in Networks, page[q] # 0, q # p PROVE page[q] # page[p]
  BY <1>3, <1>7 DEF Agrees, Placed
<1>8. ASSUME NEW q \in Networks, Shown(q) PROVE Shown(q)'
  <2>1. CASE q # p
    <3>1. page[q] # 0 /\ page[q] \in DOMAIN pages
      BY <1>8 DEF Shown, HasPage, Agrees, ViewTypes, Pages, Placed, PageTypes
    <3>2. pages'[page[q]].rows = pages[page[q]].rows
      BY <1>7, <2>1, <3>1
    <3>3. Wanted(userlist[q], Seen)' = Wanted(userlist'[q], Seen')
      BY DEF Wanted
    <3>4. Wanted(userlist[q], Seen') = Wanted(userlist[q], Seen)
      BY <2>1, WantedElsewhere
    <3>5. userlist'[q] = userlist[q]
      BY <2>1
    <3> QED
      BY <1>4, <1>8, <3>2, <3>3, <3>4, <3>5 DEF Shown
  <2> QED
    BY <1>8, <2>1
<1>9. ASSUME NEW q \in Networks
      PROVE  /\ Bare(q) => Bare(q)' /\ (q \in up' <=> q \in up)
             /\ Iconed(q) => Iconed(q)'
  <2>1. CASE q # p
    BY <2>1 DEF Bare, Iconed
  <2> QED
    BY <2>1
<1>10. Placed'
  <2>1. \A q \in Networks : page[q] = 0 \/ (HasPage(q) /\ pages[page[q]].protocol = q)
    BY DEF Agrees, Placed
  <2>2. \A q \in Networks : page'[q] = 0 \/ (HasPage(q)' /\ pages'[page'[q]].protocol = q)
    BY <1>4, <2>1 DEF HasPage
  <2>3. ASSUME NEW i \in DOMAIN pages', i # page'[pages'[i].protocol]
        PROVE  ~tree /\ pages'[i].rows = <<>>
    <3>1. i # page[pages[i].protocol]
      BY <2>3
    <3>2. ~tree /\ pages[i].rows = <<>>
      BY <2>3, <3>1 DEF Agrees, Placed
    <3>3. ASSUME i = page[p] PROVE FALSE
      <4>1. HasPage(p)
        BY <2>3, <3>3 DEF HasPage
      <4>2. page[p] # 0
        BY <2>3, <3>3, PageTypes
      <4>3. pages[page[p]].protocol = p
        BY <1>3, <2>1, <4>2
      <4> QED
        BY <3>1, <3>3, <4>3
    <3> QED
      BY <2>3, <3>2, <3>3
  <2> QED
    BY <2>2, <2>3 DEF Placed
<1>11. Unlisted'
  <2> SUFFICES ASSUME NEW q \in Networks \ Known
               PROVE  /\ Bare(q)' /\ userlist'[q] = {} /\ q \notin up'
                      /\ page'[q] # 0 =>
                            /\ tree' /\ pages'[page'[q]].rows = <<>>
                            /\ \E k \in DOMAIN waits' : Registers(waits', k) /\ waits'[k].protocol = q
    BY <1>1 DEF Unlisted
  <2>1. /\ Bare(q) /\ userlist[q] = {} /\ q \notin up
        /\ page[q] # 0 => /\ tree /\ pages[page[q]].rows = <<>>
                          /\ \E k \in DOMAIN waits : Registers(waits, k) /\ waits[k].protocol = q
    BY DEF Agrees, Unlisted
  <2>2. q # p
    OBVIOUS
  <2>3. Bare(q)' /\ userlist'[q] = {} /\ q \notin up'
    BY <1>9, <2>1, <2>2
  <2>4. ASSUME page[q] # 0
        PROVE  /\ tree' /\ pages'[page'[q]].rows = <<>>
               /\ \E k \in DOMAIN waits' : Registers(waits', k) /\ waits'[k].protocol = q
    <3>1. page[q] # page[p] /\ page[q] \in DOMAIN pages
      BY <1>7, <2>2, <2>4 DEF Agrees, Placed, HasPage
    <3>2. \E k \in DOMAIN waits' : Registers(waits', k) /\ waits'[k].protocol = q
      BY <1>5, <2>1, <2>4
    <3> QED
      BY <2>1, <2>4, <3>1, <3>2
  <2> QED
    BY <2>3, <2>4
<1>12. ASSUME NEW q \in Networks, NEW n \in DOMAIN known, Halfway(q, n) PROVE Halfway(q, n)'
  <2>1. known'[n] = q /\ Bare(q)' /\ (tree' => page'[q] # 0) /\ (~tree' => page'[q] = 0)
    BY <1>9, <1>12 DEF Halfway
  <2>2. ASSUME NEW j \in DOMAIN known, j < n
        PROVE  Shown(known[j])' /\ Iconed(known[j])'
    <3>1. PICK q1 \in Networks : q1 = known[j]
      BY <1>2
    <3>2. Shown(q1) /\ Iconed(q1)
      BY <1>12, <2>2, <3>1 DEF Halfway
    <3>3. Shown(q1)' /\ Iconed(q1)' /\ known'[j] = q1
      BY <1>8, <1>9, <3>1, <3>2
    <3> QED
      BY <3>3
  <2>3. ASSUME NEW j \in DOMAIN known, j > n
        PROVE  (page[known[j]] = 0)' /\ Iconed(known[j])'
    <3>1. PICK q1 \in Networks : q1 = known[j]
      BY <1>2
    <3>2. page[q1] = 0 /\ Iconed(q1)
      BY <1>12, <2>3, <3>1 DEF Halfway
    <3>3. page'[q1] = 0 /\ Iconed(q1)' /\ known'[j] = q1
      BY <1>9, <3>1, <3>2
    <3> QED
      BY <3>3
  <2> QED
    BY <2>1, <2>2, <2>3 DEF Halfway
<1>13. Awaits'
  <2> SUFFICES ASSUME NEW k \in DOMAIN waits' PROVE AwaitsAt(k)'
    BY DEF Awaits
  <2>1. ASSUME Registers(waits', k), tree' PROVE page'[waits'[k].protocol] # 0
    BY <1>5, <2>1 DEF Agrees, Awaits, AwaitsAt
  <2>2. ASSUME Refreshes(waits', k)
        PROVE  \E q \in Networks : /\ q = waits'[k].protocol
                                   /\ waits'[k].status = (q \in up')
                                   /\ \E n \in DOMAIN known' : Halfway(q, n)'
    <3>1. k \in DOMAIN waits /\ Refreshes(waits, k) /\ waits'[k] = waits[k]
      BY <1>5, <2>2
    <3>2. PICK q : q = waits[k].protocol
      OBVIOUS
    <3>3. waits[k].status = (q \in up) /\ \E n \in DOMAIN known : Halfway(q, n)
      BY <3>1, <3>2 DEF Agrees, Awaits, AwaitsAt
    <3>4. PICK n \in DOMAIN known : Halfway(q, n)
      BY <3>3
    <3>5. q \in Networks /\ Bare(q)
      BY <1>2, <3>4 DEF Halfway
    <3>6. Halfway(q, n)'
      BY <1>12, <3>4, <3>5
    <3>7. q \in up' <=> q \in up
      BY <1>9, <3>5
    <3>8. waits'[k].protocol = q
      BY <3>1, <3>2
    <3> QED
      BY <3>1, <3>3, <3>5, <3>6, <3>7, <3>8
  <2> QED
    BY <2>1, <2>2 DEF AwaitsAt
<1>14. Settled'
  <2> SUFFICES ASSUME \A k \in DOMAIN waits' : ~Refreshes(waits', k), NEW q \in Known
               PROVE  Shown(q)' /\ Iconed(q)'
    BY <1>1 DEF Settled
  <2>1. \A k \in DOMAIN waits : ~Refreshes(waits, k)
    BY <1>5
  <2>2. Shown(q) /\ Iconed(q) /\ q \in Networks
    BY <1>1, <1>2, <2>1 DEF Agrees, Settled
  <2> QED
    BY <1>8, <1>9, <2>2
<1> QED
  BY <1>6, <1>10, <1>11, <1>13, <1>14 DEF Agrees

(* Steps that touch only the other calls on the stack.                     *)
LEMMA AgreesRests ==
    ASSUME Agrees, SameBuilding(waits', waits),
           UNCHANGED <<config, tree, known, pages, page, boxes, userlist, Seen, statusIcon, up>>
    PROVE  Agrees'
<1>1. Known' = Known
  BY DEF Known
<1>2. \A q : HasPage(q)' = HasPage(q) /\ Bare(q)' = Bare(q) /\ Iconed(q)' = Iconed(q)
  BY DEF HasPage, Bare, Iconed
<1>3. \A q : Shown(q)' = Shown(q)
  BY DEF Shown, HasPage, Wanted
<1>4. \A q, n : Halfway(q, n)' = Halfway(q, n)
  BY <1>2, <1>3 DEF Halfway
<1>5. \A k : /\ Building(waits', k) <=> Building(waits, k)
             /\ Refreshes(waits', k) <=> Refreshes(waits, k)
             /\ Registers(waits', k) <=> Registers(waits, k)
             /\ Building(waits, k) => waits'[k] = waits[k] /\ k \in DOMAIN waits /\ k \in DOMAIN waits'
             /\ (Refreshes(waits, k) \/ Registers(waits, k)) <=> Building(waits, k)
  BY CallsKept
<1>6. ViewTypes' /\ Placed'
  BY <1>2 DEF Agrees, ViewTypes, Placed
<1>7. Unlisted'
  BY <1>1, <1>2, <1>5 DEF Agrees, Unlisted
<1>8. Awaits'
  <2> SUFFICES ASSUME NEW k \in DOMAIN waits' PROVE AwaitsAt(k)'
    BY DEF Awaits
  <2>1. Registers(waits', k) \/ Refreshes(waits', k) =>
          k \in DOMAIN waits /\ waits'[k] = waits[k] /\ AwaitsAt(k)
    BY <1>5 DEF Agrees, Awaits
  <2> QED
    BY <1>4, <1>5, <2>1 DEF AwaitsAt
<1>9. Settled'
  BY <1>1, <1>2, <1>3, <1>5 DEF Agrees, Settled
<1> QED
  BY <1>6, <1>7, <1>8, <1>9 DEF Agrees

(* What a step may lead to, unless a refresh or a status overlapped.       *)
Right ==
    \/ viewFault # "none" /\ (viewFault \in {"gone", "hang"} \/ waits # <<>>)
    \/ viewFault = "none" /\ ShownInv

(* The inductive invariant: what is shown agrees with the contacts and the *)
(* status but for what the calls that wait have yet to build, until the    *)
(* protocol that a refresh waits for has left; then only the order of the  *)
(* calls is known, and that the refresh will end in a fault.               *)
ViewInv == ~Overlaps => Right

(* A known protocol is without a page only inside an emission.             *)
LEMMA Pageless ==
    ASSUME ShownInv, NEW p \in Known, ~HasPage(p)
    PROVE  waits # <<>>
<1> SUFFICES ASSUME waits = <<>> PROVE FALSE
  OBVIOUS
<1>1. DOMAIN waits = {}
  OBVIOUS
<1>2. Agrees
  BY <1>1 DEF ShownInv, Doomed
<1> QED
  BY <1>1, <1>2 DEF Agrees, Settled, Shown

(* A step into a fault is right inside an emission, or if the fault is one *)
(* that is tolerated.                                                      *)
LEMMA FaultRight ==
    ASSUME NEW kind, kind # "none", Faults(kind), kind \in {"gone", "hang"} \/ waits # <<>>
    PROVE  Right'
BY DEF Faults, Right

(* A step that builds nothing is right if what agrees agrees after it.     *)
LEMMA KeptRight ==
    ASSUME ShownInv, SameBuilding(waits', waits), known' = known, viewFault' = "none",
           Agrees => Agrees'
    PROVE  Right'
BY NestedKept DEF ShownInv, Right

(* A stack builds what it builds.                                          *)
LEMMA SameIsSame ==
    ASSUME NEW st PROVE SameBuilding(st, st)
BY DEF SameBuilding

(* Those that are known are the entries of the list.                       *)
LEMMA KnownNetworks ==
    ASSUME ViewTypes
    PROVE  /\ Len(known) \in Nat /\ DOMAIN known = 1..Len(known)
           /\ \A j \in DOMAIN known : known[j] \in Networks /\ known[j] \in Known
           /\ \A p \in Known : p \in Networks /\ \E j \in DOMAIN known : known[j] = p
<1>1. known \in Seq(Networks)
  BY DEF ViewTypes
<1>2. /\ Len(known) \in Nat /\ DOMAIN known = 1..Len(known)
      /\ \A j \in DOMAIN known : known[j] \in Networks
  BY <1>1, LenProperties, ElementOfSeq
<1> QED
  BY <1>2 DEF Known, ToSet

(* The contacts of p are others, and what is shown of p with them.         *)
LEMMA ListRight ==
    ASSUME UserAssumption, Calls(waits), ShownInv, NEW p \in Networks, NEW cs,
           Agrees => cs \in SUBSET Contacts /\ \A c \in cs \ userlist[p] : Of[c] = p,
           ListChanges(p, cs)
    PROVE  Right'
<1> USE DEF contacts, view, status
<1>1. viewFault = "none" /\ p \in Known
  BY DEF ListChanges, Dispatches, Works
<1>2. CASE ~HasPage(p)
  BY <1>1, <1>2, Pageless, FaultRight DEF ListChanges
<1>3. CASE HasPage(p)
  <2> DEFINE st == Spoils(waits, LAMBDA f : Iterates(p, f))
  <2>1. /\ userlist' = [userlist EXCEPT ![p] = cs]
        /\ online' = {c \in online : Of[c] = p => c \in cs} /\ blanked' = Others(p, blanked)
        /\ pages' = [pages EXCEPT ![page[p]].rows = Wanted(cs, online')]
        /\ waits' = st
        /\ UNCHANGED <<config, tree, known, page, statusIcon, up, boxes, viewFault>>
    BY <1>3, Zenon DEF ListChanges, WithRows
  <2>2. SameBuilding(st, waits)
    <3> DEFINE hit == [i \in DOMAIN waits |-> Iterates(p, waits[i])]
    <3>1. /\ hit \in [DOMAIN waits -> BOOLEAN]
          /\ \A i \in DOMAIN waits : hit[i] = Iterates(p, waits[i])
      BY DEF Iterates
    <3> HIDE DEF hit
    <3>2. st = Spoiled(waits, hit)
      BY <3>1, Zenon DEF Spoils, Spoiled
    <3> HIDE DEF st
    <3> QED
      BY <3>1, <3>2, IteratorsSpoiled
  <2> HIDE DEF st
  <2>3. ASSUME Agrees PROVE Agrees'
    <3>1. ViewTypes
      BY <2>3 DEF Agrees
    <3>2. /\ Pages(pages') /\ DOMAIN pages' = DOMAIN pages
          /\ \A i \in DOMAIN pages :
                /\ pages'[i].protocol = pages[i].protocol
                /\ pages'[i].rows = IF i = page[p] THEN Wanted(cs, online') ELSE pages[i].rows
      <4>1. PICK n, r : n = page[p] /\ r = Wanted(cs, online')
        OBVIOUS
      <4>2. Pages(pages) /\ n \in DOMAIN pages /\ pages' = Filled(pages, n, r)
        BY <1>3, <2>1, <3>1, <4>1 DEF HasPage, ViewTypes, Filled
      <4>3. /\ Pages(pages') /\ DOMAIN pages' = DOMAIN pages
            /\ \A i \in DOMAIN pages :
                  /\ pages'[i].protocol = pages[i].protocol
                  /\ pages'[i].rows = IF i = n THEN r ELSE pages[i].rows
        BY <4>2, PageFilled
      <4> QED
        BY <4>1, <4>3
    <3>3. /\ userlist' \in [Networks -> SUBSET Contacts] /\ \A c \in userlist'[p] : Of[c] = p
          /\ \A q \in Networks \ {p} : userlist'[q] = userlist[q]
          /\ userlist'[p] = cs
      BY <2>1, <2>3, <3>1 DEF ViewTypes
    <3>4. \A q \in Networks \ {p} : \A c \in userlist[q] : c \in Seen' <=> c \in Seen
      BY <2>1, <3>1 DEF ViewTypes, Seen, Others
    <3>5. Shown(p)'
      <4>1. Wanted(userlist[p], Seen)' = Wanted(cs, online')
        <5>1. Wanted(userlist[p], Seen)' = Wanted(cs, Seen')
          BY <2>1, <3>3 DEF Wanted
        <5>2. \A c \in cs : c \in online' <=> c \in Seen'
          BY <2>1, <3>3 DEF Seen, Others
        <5> QED
          BY <5>1, <5>2, WantedElsewhere
      <4> QED
        BY <1>3, <2>1, <3>2, <4>1 DEF Shown, HasPage
    <3>6. /\ Bare(p) => Bare(p)' /\ (p \in up' <=> p \in up)
          /\ Iconed(p) => Iconed(p)'
          /\ statusIcon' \in [Networks -> {"none", "online", "offline"}]
          /\ \A q \in Networks \ {p} : statusIcon'[q] = statusIcon[q] /\ (q \in up' <=> q \in up)
      BY <2>1, <3>1 DEF Bare, Iconed, ViewTypes
    <3>7. UNCHANGED <<config, tree, known, page, boxes>> /\ p \in Known
      BY <1>1, <2>1
    <3>8. \A i \in DOMAIN pages : /\ pages'[i].protocol = pages[i].protocol
                                  /\ i # page[p] => pages'[i].rows = pages[i].rows
      BY <3>2
    <3> QED
      BY <2>1, <2>2, <2>3, <3>2, <3>3, <3>4, <3>5, <3>6, <3>7, <3>8, AgreesKept
  <2> QED
    BY <1>1, <2>1, <2>2, <2>3, KeptRight
<1> QED
  BY <1>2, <1>3

(* A contact is another now, and so is its row.                            *)
LEMMA ContactRight ==
    ASSUME UserAssumption, Calls(waits), ShownInv, NEW c \in Contacts, NEW on \in BOOLEAN,
           ContactChanges(c, on)
    PROVE  Right'
<1> USE DEF contacts, view, status
<1> DEFINE p == Of[c]
           rows == pages[page[p]].rows
<1>1. viewFault = "none" /\ p \in Known /\ p \in Networks /\ c \in userlist[p]
  BY DEF ContactChanges, Dispatches, Works, UserAssumption
<1>2. CASE ~HasPage(p)
  BY <1>1, <1>2, Pageless, FaultRight DEF ContactChanges
<1>3. CASE HasPage(p)
  <2> DEFINE seen == DOMAIN pages'[page[p]].rows
             st == Spoils(waits, LAMBDA f : Iterates(p, f) /\ f.contact = c /\ c \notin seen)
  <2>0. online' = (IF on THEN online \cup {c} ELSE online \ {c}) /\ blanked' = blanked \ {c}
    BY <1>3, Zenon DEF ContactChanges
  <2>1. /\ pages' = [pages EXCEPT ![page[p]].rows = Notified(rows, c, on)]
        /\ waits' = st \/ waits' = Append(st, Call("notify", p, c))
        /\ UNCHANGED <<config, tree, known, page, userlist, statusIcon, up, boxes, viewFault>>
    BY <1>3, Zenon DEF ContactChanges, WithRows
  <2>s. Seen' = IF on THEN Seen \cup {c} ELSE Seen \ {c}
    BY <2>0 DEF Seen
  <2>2. SameBuilding(st, waits) /\ Calls(st)
    <3> DEFINE hit == [i \in DOMAIN waits |->
                         Iterates(p, waits[i]) /\ waits[i].contact = c /\ c \notin seen]
    <3>1. /\ hit \in [DOMAIN waits -> BOOLEAN]
          /\ \A i \in DOMAIN waits :
                hit[i] = (Iterates(p, waits[i]) /\ waits[i].contact = c /\ c \notin seen)
      BY DEF Iterates
    <3> HIDE DEF hit
    <3>2. st = Spoiled(waits, hit)
      BY <3>1, Zenon DEF Spoils, Spoiled
    <3>3. \A i \in DOMAIN waits : hit[i] => Iterates(p, waits[i])
      BY <3>1
    <3> HIDE DEF st, p, seen
    <3> QED
      BY <3>1, <3>2, <3>3, IteratorsSpoiled
  <2> HIDE DEF st
  <2>3. SameBuilding(waits', waits)
    <3>1. Call("notify", p, c) \in CallsOf({"notify", p, c}) /\ Call("notify", p, c).at = "notify"
      BY CallOf
    <3>2. SameBuilding(Append(st, Call("notify", p, c)), waits)
      BY <2>2, <3>1, OtherPushed
    <3> QED
      BY <2>1, <2>2, <3>2
  <2>4. ASSUME Agrees PROVE Agrees'
    <3>1. ViewTypes
      BY <2>4 DEF Agrees
    <3>2. /\ Pages(pages') /\ DOMAIN pages' = DOMAIN pages
          /\ \A i \in DOMAIN pages :
                /\ pages'[i].protocol = pages[i].protocol
                /\ pages'[i].rows = IF i = page[p] THEN Notified(rows, c, on) ELSE pages[i].rows
      <4>1. PICK n, r : n = page[p] /\ r = Notified(rows, c, on)
        OBVIOUS
      <4>2. Pages(pages) /\ n \in DOMAIN pages /\ pages' = Filled(pages, n, r)
        BY <1>3, <2>1, <3>1, <4>1 DEF HasPage, ViewTypes, Filled
      <4>3. /\ Pages(pages') /\ DOMAIN pages' = DOMAIN pages
            /\ \A i \in DOMAIN pages :
                  /\ pages'[i].protocol = pages[i].protocol
                  /\ pages'[i].rows = IF i = n THEN r ELSE pages[i].rows
        BY <4>2, PageFilled
      <4> QED
        BY <4>1, <4>3
    <3>3. /\ userlist' \in [Networks -> SUBSET Contacts] /\ \A d \in userlist'[p] : Of[d] = p
          /\ \A q \in Networks \ {p} : userlist'[q] = userlist[q]
          /\ userlist'[p] = userlist[p]
      BY <1>1, <2>1, <3>1 DEF ViewTypes
    <3>4. \A q \in Networks \ {p} : \A d \in userlist[q] : d \in Seen' <=> d \in Seen
      BY <2>s, <3>1 DEF ViewTypes
    <3>5. ASSUME Shown(p) PROVE Shown(p)'
      <4>1. rows = Wanted(userlist[p], Seen)
        BY <3>5 DEF Shown
      <4>2. Notified(rows, c, on) = Wanted(userlist[p], Seen')
        <5>1. on \in BOOLEAN /\ c \in userlist[p]
          BY <1>1
        <5>2. Seen' = IF on THEN Seen \cup {c} ELSE Seen \ {c}
          BY <2>s
        <5> HIDE DEF rows
        <5> QED
          BY <4>1, <5>1, <5>2, NotifiedWanted
      <4>3. Wanted(userlist[p], Seen)' = Wanted(userlist[p], Seen')
        BY <2>1 DEF Wanted
      <4> QED
        BY <1>3, <2>1, <3>2, <4>2, <4>3 DEF Shown, HasPage
    <3>6. /\ Bare(p) => Bare(p)' /\ (p \in up' <=> p \in up)
          /\ Iconed(p) => Iconed(p)'
          /\ statusIcon' \in [Networks -> {"none", "online", "offline"}]
          /\ \A q \in Networks \ {p} : statusIcon'[q] = statusIcon[q] /\ (q \in up' <=> q \in up)
      BY <2>1, <3>1 DEF Bare, Iconed, ViewTypes
    <3>7. UNCHANGED <<config, tree, known, page, boxes>> /\ p \in Known
      BY <1>1, <2>1
    <3>8. \A i \in DOMAIN pages : /\ pages'[i].protocol = pages[i].protocol
                                  /\ i # page[p] => pages'[i].rows = pages[i].rows
      BY <3>2
    <3> HIDE DEF p, rows
    <3> QED
      BY <2>3, <2>4, <3>2, <3>3, <3>4, <3>5, <3>6, <3>7, <3>8, AgreesKept
  <2> QED
    BY <1>1, <2>1, <2>3, <2>4, KeptRight
<1> QED
  BY <1>2, <1>3

(* Steps that touch neither what is shown nor the calls that build.        *)
LEMMA OtherRight ==
    ASSUME UserAssumption, Calls(waits), ShownInv,
           \/ NotifyEnds \/ Blinks \/ BlinksGone
           \/ \E p \in Networks : WantsOffline(p) \/ WantsOnline(p)
    PROVE  Right'
<1> USE DEF contacts, view, status
<1>1. ASSUME UNCHANGED <<config, tree, known, pages, page, boxes, userlist, Seen, statusIcon, up>>,
             SameBuilding(waits', waits), viewFault' = "none"
      PROVE  Right'
  BY <1>1, AgreesRests, KeptRight
<1>s. UNCHANGED <<online, blanked>> => UNCHANGED Seen
  BY DEF Seen
<1>2. CASE NotifyEnds
  <2>1. viewFault = "none" /\ waits # <<>> /\ Last(waits).at = "notify"
    BY <1>2 DEF NotifyEnds, At, Works, Inner
  <2>2. CASE Inner.stale
    BY <1>2, <2>1, <2>2, FaultRight DEF NotifyEnds
  <2>3. CASE ~Inner.stale
    <3>1. SameBuilding(Front(waits), waits)
      BY <2>1, OtherPopped
    <3> QED
      BY <1>1, <1>s, <1>2, <2>1, <2>3, <3>1 DEF NotifyEnds
  <2> QED
    BY <2>2, <2>3
<1>3. CASE Blinks
  <2>1. viewFault = "none" /\ waits # <<>> /\ Last(waits).at = "blink"
    BY <1>3 DEF Blinks, At, Works, Inner
  <2>2. SameBuilding(Front(waits), waits)
    BY <2>1, OtherPopped
  <2> QED
    BY <1>1, <1>s, <1>3, <2>1, <2>2 DEF Blinks
<1>4. CASE BlinksGone
  BY <1>4, FaultRight DEF BlinksGone, Gone
<1>5. ASSUME NEW p \in Networks, WantsOffline(p) PROVE Right'
  <2>1. viewFault = "none"
    BY <1>5 DEF WantsOffline, Dispatches, Works
  <2> QED
    BY <1>1, <1>s, <1>5, <2>1, SameIsSame DEF WantsOffline
<1>6. ASSUME NEW p \in Networks, WantsOnline(p) PROVE Right'
  <2>1. viewFault = "none"
    BY <1>6 DEF WantsOnline, Dispatches, Works
  <2>2. Call("blink", p, 0) \in CallsOf({"blink", p, 0}) /\ Call("blink", p, 0).at = "blink"
    BY CallOf
  <2>3. SameBuilding(Append(waits, Call("blink", p, 0)), waits)
    BY <2>2, SameIsSame, OtherPushed
  <2> QED
    BY <1>1, <1>s, <1>6, <2>1, <2>3 DEF WantsOnline
<1> QED
  BY <1>2, <1>3, <1>4, <1>5, <1>6

(* The status of p is another, and so is its icon, if there is one.        *)
LEMMA StatusRight ==
    ASSUME UserAssumption, Calls(waits), ShownInv, NEW p \in Networks, StatusChanged(p), ~Overlaps'
    PROVE  Right'
<1> USE DEF contacts, view, status
<1>1. /\ viewFault = "none" /\ p \in Known /\ up' = up \cup {p} /\ statusIcon[p] # "none"
      /\ statusIcon' = [statusIcon EXCEPT ![p] = "online"]
      /\ UNCHANGED <<config, tree, known, pages, page, boxes, userlist, Seen, waits, viewFault>>
  BY DEF StatusChanged, ShowsStatus, Overlaps, Dispatches, Works, Seen
<1>2. SameBuilding(waits', waits)
  BY <1>1, SameIsSame
<1>3. ASSUME Agrees PROVE Agrees'
  <2>1. ViewTypes
    BY <1>3 DEF Agrees
  <2>2. /\ Pages(pages') /\ DOMAIN pages' = DOMAIN pages
        /\ \A i \in DOMAIN pages : /\ pages'[i].protocol = pages[i].protocol
                                   /\ i # page[p] => pages'[i].rows = pages[i].rows
    BY <1>1, <2>1 DEF ViewTypes
  <2>3. /\ userlist' \in [Networks -> SUBSET Contacts] /\ \A c \in userlist'[p] : Of[c] = p
        /\ \A q \in Networks \ {p} : userlist'[q] = userlist[q]
        /\ \A q \in Networks \ {p} : \A c \in userlist[q] : c \in Seen' <=> c \in Seen
    BY <1>1, <2>1 DEF ViewTypes
  <2>4. Shown(p) => Shown(p)'
    BY <1>1 DEF Shown, HasPage, Wanted
  <2>5. /\ statusIcon' \in [Networks -> {"none", "online", "offline"}]
        /\ \A q \in Networks \ {p} : statusIcon'[q] = statusIcon[q] /\ (q \in up' <=> q \in up)
        /\ Bare(p) => Bare(p)' /\ (p \in up' <=> p \in up)
        /\ Iconed(p) => Iconed(p)'
    BY <1>1, <2>1 DEF ViewTypes, Bare, Iconed
  <2> QED
    BY <1>1, <1>2, <1>3, <2>2, <2>3, <2>4, <2>5, AgreesKept
<1> QED
  BY <1>1, <1>2, <1>3, KeptRight

(* The protocol is offline: so are its icon and its rows.                  *)
LEMMA DisconnectedRight ==
    ASSUME UserAssumption, Calls(waits), ShownInv, NEW p \in Networks, Disconnected(p), ~Overlaps'
    PROVE  Right'
<1> USE DEF contacts, view, status
<1>1. viewFault = "none" /\ p \in Known
  BY DEF Disconnected, Dispatches, Works
<1>2. CASE ~HasPage(p)
  BY <1>1, <1>2, Pageless, FaultRight DEF Disconnected
<1>3. CASE HasPage(p)
  <2> DEFINE rows == pages[page[p]].rows
             r  == IF config.showActive THEN <<>> ELSE [c \in DOMAIN rows |-> FALSE]
             st == Spoils(waits, LAMBDA f : Iterates(p, f))
  <2>1. /\ pages' = Filled(pages, page[p], r)
        /\ waits' = st \/ waits' = waits
        /\ up' = up \ {p} /\ ShowsStatus(p, "offline")
        /\ UNCHANGED <<config, tree, known, page, userlist, online, viewFault>>
        /\ blanked' = blanked \cup (online \ Others(p, online))
    <3>1. CASE config.showActive
      BY <1>3, <3>1, Zenon DEF Disconnected, WithRows, Filled
    <3>2. CASE ~config.showActive
      BY <1>3, <3>2, Zenon DEF Disconnected, WithRows, Filled
    <3> QED
      BY <3>1, <3>2
  <2>s. Seen' = Others(p, Seen)
    BY <2>1 DEF Seen, Others
  <2>2. /\ statusIcon' = [statusIcon EXCEPT ![p] = "offline"] /\ statusIcon[p] # "none"
        /\ boxes' = boxes
    BY <2>1 DEF ShowsStatus, Overlaps
  <2>3. SameBuilding(st, waits)
    <3> DEFINE hit == [i \in DOMAIN waits |-> Iterates(p, waits[i])]
    <3>1. /\ hit \in [DOMAIN waits -> BOOLEAN]
          /\ \A i \in DOMAIN waits : hit[i] = Iterates(p, waits[i])
      BY DEF Iterates
    <3> HIDE DEF hit
    <3>2. st = Spoiled(waits, hit)
      BY <3>1, Zenon DEF Spoils, Spoiled
    <3> HIDE DEF st
    <3> QED
      BY <3>1, <3>2, IteratorsSpoiled
  <2> HIDE DEF st
  <2>4. SameBuilding(waits', waits)
    BY <2>1, <2>3, SameIsSame
  <2>5. ASSUME Agrees PROVE Agrees'
    <3>1. ViewTypes
      BY <2>5 DEF Agrees
    <3>2. /\ Pages(pages') /\ DOMAIN pages' = DOMAIN pages
          /\ \A i \in DOMAIN pages :
                /\ pages'[i].protocol = pages[i].protocol
                /\ pages'[i].rows = IF i = page[p] THEN r ELSE pages[i].rows
      <4>1. Pages(pages) /\ page[p] \in DOMAIN pages
        BY <1>3, <3>1 DEF HasPage, ViewTypes
      <4> HIDE DEF r
      <4> QED
        BY <2>1, <4>1, PageFilled
    <3>3. /\ userlist' \in [Networks -> SUBSET Contacts] /\ \A c \in userlist'[p] : Of[c] = p
          /\ \A q \in Networks \ {p} : userlist'[q] = userlist[q]
          /\ \A q \in Networks \ {p} : \A c \in userlist[q] : c \in Seen' <=> c \in Seen
      BY <2>1, <2>s, <3>1 DEF ViewTypes, Others
    <3>4. ASSUME Shown(p) PROVE Shown(p)'
      <4>1. rows = Wanted(userlist[p], Seen)
        BY <3>4 DEF Shown
      <4>2. \A c \in userlist[p] : c \notin Seen'
        BY <2>s, <3>1 DEF ViewTypes, Others
      <4>3. r = Wanted(userlist[p], Seen')
        <5>1. CASE config.showActive
          <6>1. {d \in userlist[p] : config.showActive => d \in Seen'} = {}
            BY <4>2, <5>1
          <6> QED
            BY <5>1, <6>1 DEF Wanted
        <5>2. CASE ~config.showActive
          <6> DEFINE w == Wanted(userlist[p], Seen')
          <6>1. w = [d \in userlist[p] |-> d \in Seen'] /\ DOMAIN w = userlist[p]
            BY <5>2 DEF Wanted
          <6>2. \A d \in userlist[p] : (d \in Seen') = FALSE
            BY <4>2
          <6>3. r = [d \in userlist[p] |-> FALSE]
            BY <4>1, <5>2 DEF Wanted
          <6> HIDE DEF w, r
          <6> QED
            BY <6>1, <6>2, <6>3 DEF w
        <5> QED
          BY <5>1, <5>2
      <4>4. Wanted(userlist[p], Seen)' = Wanted(userlist[p], Seen')
        BY <2>1 DEF Wanted
      <4> HIDE DEF r
      <4> QED
        BY <1>3, <2>1, <3>2, <4>3, <4>4 DEF Shown, HasPage
    <3>5. /\ statusIcon' \in [Networks -> {"none", "online", "offline"}]
          /\ \A q \in Networks \ {p} : statusIcon'[q] = statusIcon[q] /\ (q \in up' <=> q \in up)
          /\ Bare(p) => Bare(p)' /\ (p \in up' <=> p \in up)
          /\ Iconed(p) => Iconed(p)'
      BY <2>1, <2>2, <3>1 DEF ViewTypes, Bare, Iconed
    <3>6. \A i \in DOMAIN pages : /\ pages'[i].protocol = pages[i].protocol
                                  /\ i # page[p] => pages'[i].rows = pages[i].rows
      BY <3>2
    <3> QED
      BY <1>1, <2>1, <2>2, <2>4, <2>5, <3>2, <3>3, <3>4, <3>5, <3>6, AgreesKept
  <2> QED
    BY <1>1, <2>1, <2>4, <2>5, KeptRight
<1> QED
  BY <1>2, <1>3

-----------------------------------------------------------------------------
(* Steps that build                                                        *)

(* Placed, of any pages.                                                   *)
PlacedIn(pgs, pg, t) ==
    /\ Pages(pgs) /\ pg \in [Networks -> Nat]
    /\ \A p \in Networks : pg[p] = 0 \/ (pg[p] \in DOMAIN pgs /\ pgs[pg[p]].protocol = p)
    /\ \A i \in DOMAIN pgs : i # pg[pgs[i].protocol] => ~t /\ pgs[i].rows = <<>>

(* Placed, of the pages as they are,                                       *)
LEMMA PlacedNow ==
    ASSUME ViewTypes, Placed PROVE PlacedIn(pages, page, tree)
BY DEF ViewTypes, Placed, PlacedIn, HasPage

(* and as they will be.                                                    *)
LEMMA PlacedNext ==
    ASSUME PlacedIn(pages', page', tree') PROVE Placed' /\ Pages(pages') /\ page' \in [Networks -> Nat]
BY DEF Placed, PlacedIn, HasPage

(* A row is begun, in a tree.                                              *)
Pointed(pg, pgs, t, p) == [pg EXCEPT ![p] = IF t THEN Len(pgs) + 1 ELSE 0]

(* Beginning a page keeps the others, and in a tree adds an empty row.     *)
LEMMA RowBegun ==
    ASSUME NEW pgs, NEW pg, NEW t, PlacedIn(pgs, pg, t), NEW p \in Networks, pg[p] = 0
    PROVE  LET new  == Begun(pgs, t, p)
               next == Pointed(pg, pgs, t, p)
           IN  /\ PlacedIn(new, next, t)
               /\ t => next[p] # 0 /\ next[p] \in DOMAIN new /\ new[next[p]].rows = <<>>
               /\ ~t => next[p] = 0
               /\ \A q \in Networks : q # p => next[q] = pg[q]
               /\ \A i \in DOMAIN pgs : i \in DOMAIN new /\ new[i] = pgs[i]
<1>n. PICK new, next : new = Begun(pgs, t, p) /\ next = Pointed(pg, pgs, t, p)
  OBVIOUS
<1> SUFFICES /\ PlacedIn(new, next, t)
             /\ t => next[p] # 0 /\ next[p] \in DOMAIN new /\ new[next[p]].rows = <<>>
             /\ ~t => next[p] = 0
             /\ \A q \in Networks : q # p => next[q] = pg[q]
             /\ \A i \in DOMAIN pgs : i \in DOMAIN new /\ new[i] = pgs[i]
  BY <1>n
<1>1. /\ Pages(pgs) /\ pg \in [Networks -> Nat] /\ Len(pgs) \in Nat /\ DOMAIN pgs = 1..Len(pgs)
      /\ \A i \in DOMAIN pgs : pgs[i].protocol \in Networks
  BY PageTypes DEF PlacedIn
<1>2. next \in [Networks -> Nat] /\ \A q \in Networks : q # p => next[q] = pg[q]
  BY <1>1, <1>n DEF Pointed
<1>3. CASE ~t
  <2>1. new = pgs /\ next = pg
    BY <1>1, <1>3, <1>n DEF Begun, Pointed
  <2> QED
    BY <1>1, <1>2, <1>3, <2>1
<1>4. CASE t
  <2>1. /\ Pages(new) /\ DOMAIN new = 1..(Len(pgs) + 1) /\ Len(new) = Len(pgs) + 1
        /\ \A i \in DOMAIN pgs : new[i] = pgs[i]
        /\ new[Len(pgs) + 1].protocol = p /\ new[Len(pgs) + 1].rows = <<>>
    <3>1. new = Append(pgs, EmptyPage(p))
      BY <1>4, <1>n DEF Begun, EmptyPage
    <3>2. LET add == Append(pgs, EmptyPage(p))
          IN  /\ Pages(add) /\ DOMAIN add = 1..(Len(pgs) + 1) /\ Len(add) = Len(pgs) + 1
              /\ \A i \in DOMAIN pgs : add[i] = pgs[i]
              /\ add[Len(pgs) + 1].protocol = p /\ add[Len(pgs) + 1].rows = <<>>
      BY <1>1, PageAdded
    <3> QED
      BY <3>1, <3>2
  <2>2. next[p] = Len(pgs) + 1
    BY <1>1, <1>4, <1>n DEF Pointed
  <2>3. \A i \in DOMAIN pgs : pgs[i].protocol # p /\ i = pg[pgs[i].protocol]
    BY <1>1, <1>4 DEF PlacedIn
  <2>4. \A q \in Networks : next[q] = 0 \/ (next[q] \in DOMAIN new /\ new[next[q]].protocol = q)
    <3> SUFFICES ASSUME NEW q \in Networks, next[q] # 0
                 PROVE  next[q] \in DOMAIN new /\ new[next[q]].protocol = q
      OBVIOUS
    <3>1. CASE q = p
      BY <1>1, <2>1, <2>2, <3>1
    <3>2. CASE q # p
      <4>1. pg[q] \in DOMAIN pgs /\ pgs[pg[q]].protocol = q /\ next[q] = pg[q]
        BY <1>2, <3>2 DEF PlacedIn
      <4> QED
        BY <1>1, <2>1, <4>1
    <3> QED
      BY <3>1, <3>2
  <2>5. \A i \in DOMAIN new : i = next[new[i].protocol]
    <3> SUFFICES ASSUME NEW i \in DOMAIN new PROVE i = next[new[i].protocol]
      OBVIOUS
    <3>1. CASE i \in DOMAIN pgs
      BY <1>1, <1>2, <2>1, <2>3, <3>1
    <3>2. CASE i = Len(pgs) + 1
      BY <2>1, <2>2, <3>2
    <3> QED
      BY <1>1, <2>1, <3>1, <3>2
  <2>6. PlacedIn(new, next, t)
    BY <1>2, <2>1, <2>4, <2>5 DEF PlacedIn
  <2>7. next[p] # 0 /\ next[p] \in DOMAIN new
    BY <1>1, <2>1, <2>2
  <2>8. \A i \in DOMAIN pgs : i \in DOMAIN new /\ new[i] = pgs[i]
    BY <1>1, <2>1
  <2>9. new[next[p]].rows = <<>>
    BY <2>1, <2>2
  <2> QED
    BY <1>2, <1>4, <2>6, <2>7, <2>8, <2>9
<1> QED
  BY <1>3, <1>4

(* What is shown of q remains.                                             *)
LEMMA ShownKept ==
    ASSUME NEW q, Shown(q), config' = config, userlist'[q] = userlist[q],
           page'[q] \in DOMAIN pages', pages'[page'[q]].rows = pages[page[q]].rows,
           \A c \in userlist[q] : c \in Seen' <=> c \in Seen
    PROVE  Shown(q)'
<1>1. Wanted(userlist[q], Seen)' = Wanted(userlist'[q], Seen')
  BY DEF Wanted
<1>2. Wanted(userlist[q], Seen') = Wanted(userlist[q], Seen)
  BY WantedElsewhere
<1> QED
  BY <1>1, <1>2 DEF Shown, HasPage

(* A protocol registers: its row, if it has one, is begun.                 *)
LEMMA RegisterRight ==
    ASSUME UserAssumption, Calls(waits), ShownInv, NEW p \in Networks, Register(p), ~Overlaps'
    PROVE  Right'
<1> USE DEF contacts, view, status
<1> DEFINE n == Len(waits) + 1
<1>1. /\ viewFault = "none" /\ p \notin Known /\ ~Waiting("refresh")
      /\ \A i \in DOMAIN waits : ~(waits[i].at = "register" /\ waits[i].protocol = p)
      /\ pages' = Begun(pages, tree, p)
      /\ page' = [page EXCEPT ![p] = IF tree THEN Len(pages) + 1 ELSE 0]
      /\ waits' = Append(waits, Call("register", p, 0))
      /\ UNCHANGED <<config, tree, known, userlist, Seen, up, statusIcon, boxes, viewFault>>
  BY DEF Register, Overlaps, Dispatches, Works, Seen
<1>2. Agrees /\ Nested /\ \A k \in DOMAIN waits : ~Refreshes(waits, k)
  BY <1>1 DEF ShownInv, Doomed, Waiting, Refreshes
<1>3. ViewTypes /\ Placed /\ Unlisted /\ Awaits /\ Settled
  BY <1>2 DEF Agrees
<1>4. /\ DOMAIN waits' = DOMAIN waits \cup {n} /\ n \notin DOMAIN waits
      /\ \A k \in DOMAIN waits : waits'[k] = waits[k]
      /\ waits'[n].at = "register" /\ waits'[n].protocol = p /\ waits'[n].status = (p \in up)
  <2>1. /\ Call("register", p, 0) \in CallsOf({"register", p, 0})
        /\ Call("register", p, 0).at = "register" /\ Call("register", p, 0).protocol = p
        /\ Call("register", p, 0).status = (p \in up)
    BY CallOf DEF Call
  <2>2. Follows(waits, waits)
    BY SameFollows
  <2>3. /\ DOMAIN waits' = 1..(Len(waits) + 1) /\ DOMAIN waits = 1..Len(waits) /\ Len(waits) \in Nat
        /\ \A k \in DOMAIN waits : waits'[k] = waits[k]
        /\ waits'[Len(waits) + 1] = Call("register", p, 0)
    BY <1>1, <2>1, <2>2, PushedFollows
  <2> QED
    BY <2>1, <2>3
<1> HIDE DEF n
<1>5. Known' = Known
  BY <1>1 DEF Known
<1>6. \A k : /\ Refreshes(waits', k) <=> Refreshes(waits, k)
             /\ Registers(waits', k) <=> (Registers(waits, k) \/ k = n)
             /\ Building(waits', k) <=> (Building(waits, k) \/ k = n)
             /\ Building(waits, k) <=> (Registers(waits, k) \/ Refreshes(waits, k))
             /\ Registers(waits, k) => k \in DOMAIN waits /\ waits'[k] = waits[k]
  BY <1>4 DEF Refreshes, Registers, Building
<1>7. p \notin up /\ page[p] = 0
  BY <1>1, <1>3 DEF Unlisted, Registers
<1>8. Nested'
  <2>1. \A k \in DOMAIN waits' : ~Refreshes(waits', k)
    BY <1>2, <1>4, <1>6 DEF Refreshes
  <2>2. ASSUME NEW k, NEW l, Registers(waits', k), Registers(waits', l),
               waits'[k].protocol = waits'[l].protocol
        PROVE  k = l
    <3>1. \A m : Registers(waits, m) => waits[m].protocol # p
      BY <1>1 DEF Registers
    <3> QED
      BY <1>2, <1>4, <1>6, <2>2, <3>1 DEF Nested
  <2>3. ASSUME NEW k, Registers(waits', k)
        PROVE  waits'[k].protocol \in Networks \ Known /\ ~waits'[k].status
    BY <1>1, <1>2, <1>4, <1>6, <1>7, <2>3 DEF Nested
  <2> QED
    BY <1>1, <1>2, <1>5, <2>1, <2>2, <2>3 DEF Nested
<1>9. /\ PlacedIn(pages', page', tree)
      /\ ~tree => page'[p] = 0
      /\ tree => page'[p] # 0 /\ page'[p] \in DOMAIN pages' /\ pages'[page'[p]].rows = <<>>
      /\ \A q \in Networks : q # p => page'[q] = page[q]
      /\ \A i \in DOMAIN pages : i \in DOMAIN pages' /\ pages'[i] = pages[i]
  <2>1. PlacedIn(pages, page, tree)
    BY <1>3, PlacedNow
  <2>2. page' = Pointed(page, pages, tree, p)
    BY <1>1 DEF Pointed
  <2>3. LET new  == Begun(pages, tree, p)
            next == Pointed(page, pages, tree, p)
        IN  /\ PlacedIn(new, next, tree)
            /\ tree => next[p] # 0 /\ next[p] \in DOMAIN new /\ new[next[p]].rows = <<>>
            /\ ~tree => next[p] = 0
            /\ \A q \in Networks : q # p => next[q] = page[q]
            /\ \A i \in DOMAIN pages : i \in DOMAIN new /\ new[i] = pages[i]
    BY <1>7, <2>1, RowBegun
  <2> QED
    BY <1>1, <2>2, <2>3
<1>10. Placed' /\ Pages(pages') /\ page' \in [Networks -> Nat]
  BY <1>1, <1>9, PlacedNext
<1>11. ViewTypes'
  BY <1>1, <1>3, <1>10 DEF ViewTypes
<1>12. Unlisted'
  <2> SUFFICES ASSUME NEW q \in Networks \ Known
               PROVE  /\ Bare(q)' /\ userlist'[q] = {} /\ q \notin up'
                      /\ page'[q] # 0 =>
                            /\ tree' /\ pages'[page'[q]].rows = <<>>
                            /\ \E k \in DOMAIN waits' : Registers(waits', k) /\ waits'[k].protocol = q
    BY <1>5 DEF Unlisted
  <2>1. Bare(q)' /\ userlist'[q] = {} /\ q \notin up'
    BY <1>1, <1>3 DEF Unlisted, Bare
  <2>2. CASE q = p
    BY <1>1, <1>4, <1>6, <1>9, <2>1, <2>2
  <2>3. ASSUME q # p, page'[q] # 0
        PROVE  /\ tree' /\ pages'[page'[q]].rows = <<>>
               /\ \E k \in DOMAIN waits' : Registers(waits', k) /\ waits'[k].protocol = q
    <3>1. page'[q] = page[q] /\ page[q] # 0
      BY <1>9, <2>3
    <3>2. /\ tree /\ pages[page[q]].rows = <<>>
          /\ \E k \in DOMAIN waits : Registers(waits, k) /\ waits[k].protocol = q
      BY <1>3, <3>1 DEF Unlisted
    <3>3. page[q] \in DOMAIN pages
      BY <1>3, <3>1 DEF Placed, HasPage
    <3> QED
      BY <1>1, <1>4, <1>6, <1>9, <3>1, <3>2, <3>3
  <2> QED
    BY <2>1, <2>2, <2>3
<1>13. Awaits'
  <2> SUFFICES ASSUME NEW k \in DOMAIN waits' PROVE AwaitsAt(k)'
    BY DEF Awaits
  <2>1. ~Refreshes(waits', k)
    BY <1>2, <1>6 DEF Refreshes
  <2>2. ASSUME Registers(waits', k), tree' PROVE page'[waits'[k].protocol] # 0
    <3>1. CASE k = n
      BY <1>1, <1>4, <1>9, <2>2, <3>1
    <3>2. CASE k # n
      <4>1. Registers(waits, k) /\ k \in DOMAIN waits /\ waits'[k] = waits[k]
        BY <1>6, <2>2, <3>2
      <4>2. page[waits[k].protocol] # 0 /\ waits[k].protocol # p /\ waits[k].protocol \in Networks
        BY <1>1, <1>2, <1>3, <2>2, <4>1 DEF Awaits, AwaitsAt, Registers, Nested
      <4> QED
        BY <1>9, <4>1, <4>2
    <3> QED
      BY <3>1, <3>2
  <2> QED
    BY <2>1, <2>2 DEF AwaitsAt
<1>14. Settled'
  <2> SUFFICES ASSUME NEW q \in Known PROVE Shown(q)' /\ Iconed(q)'
    BY <1>5 DEF Settled
  <2>1. Shown(q) /\ Iconed(q) /\ q \in Networks /\ q # p
    BY <1>1, <1>2, <1>3, KnownNetworks DEF Settled
  <2>2. page'[q] = page[q] /\ page[q] \in DOMAIN pages
    BY <1>9, <2>1 DEF Shown, HasPage
  <2>3. Shown(q)'
    BY <1>1, <1>9, <2>1, <2>2, ShownKept
  <2>4. Iconed(q)'
    BY <1>1, <2>1 DEF Iconed
  <2> QED
    BY <2>3, <2>4
<1> QED
  BY <1>1, <1>8, <1>10, <1>11, <1>12, <1>13, <1>14 DEF Agrees, ShownInv, Right

(* The call on top returns, the others wait.                               *)
LEMMA Popped ==
    ASSUME NEW st, Calls(st), st # <<>>
    PROVE  /\ Calls(Front(st))
           /\ Len(st) \in DOMAIN st /\ Last(st) = st[Len(st)]
           /\ DOMAIN Front(st) = DOMAIN st \ {Len(st)}
           /\ \A k \in DOMAIN Front(st) : Front(st)[k] = st[k]
<1>1. /\ Follows(Front(st), st) /\ Len(st) \in DOMAIN st /\ Last(st) = st[Len(st)]
      /\ DOMAIN Front(st) = 1..(Len(st) - 1) /\ Len(st) \in Nat
      /\ \A k \in DOMAIN Front(st) : k \in DOMAIN st /\ k # Len(st) /\ Front(st)[k] = st[k]
  BY PoppedFollows
<1>2. DOMAIN st = 1..Len(st)
  <2>1. PICK S : st \in Seq(CallsOf(S))
    BY DEF Calls
  <2> QED
    BY <2>1, LenProperties
<1>3. DOMAIN Front(st) = DOMAIN st \ {Len(st)}
  BY <1>1, <1>2
<1> QED
  BY <1>1, <1>3 DEF Follows

(* A call that waits for a status is put on the stack.                     *)
LEMMA Pushed ==
    ASSUME NEW st, Calls(st), NEW at, NEW p, NEW c
    PROVE  /\ Calls(Append(st, Call(at, p, c)))
           /\ Len(st) + 1 \notin DOMAIN st
           /\ DOMAIN Append(st, Call(at, p, c)) = DOMAIN st \cup {Len(st) + 1}
           /\ \A k \in DOMAIN st : Append(st, Call(at, p, c))[k] = st[k]
           /\ Append(st, Call(at, p, c))[Len(st) + 1] = Call(at, p, c)
<1>1. Call(at, p, c) \in CallsOf({at, p, c}) /\ Follows(st, st)
  BY CallOf, SameFollows
<1> DEFINE f == Call(at, p, c)
<1> HIDE DEF f
<1>2. f \in CallsOf({at, p, c})
  BY <1>1 DEF f
<1>3. /\ Calls(Append(st, f))
      /\ DOMAIN Append(st, f) = 1..(Len(st) + 1) /\ DOMAIN st = 1..Len(st) /\ Len(st) \in Nat
      /\ \A k \in DOMAIN st : Append(st, f)[k] = st[k]
      /\ Append(st, f)[Len(st) + 1] = f
  BY <1>1, <1>2, PushedFollows
<1>4. Len(st) + 1 \notin DOMAIN st /\ DOMAIN Append(st, f) = DOMAIN st \cup {Len(st) + 1}
  BY <1>3
<1> QED
  BY <1>3, <1>4 DEF f

(* A protocol comes to the list of those that are known.                   *)
LEMMA KnownAdded ==
    ASSUME NEW p \in Networks \ Known, known \in Seq(Networks), Distinct(known)
    PROVE  /\ Append(known, p) \in Seq(Networks) /\ Distinct(Append(known, p))
           /\ ToSet(Append(known, p)) = Known \cup {p}
<1>1. /\ Len(known) \in Nat /\ DOMAIN known = 1..Len(known)
      /\ \A j \in DOMAIN known : known[j] \in Networks /\ known[j] # p
  BY LenProperties, ElementOfSeq DEF Known, ToSet
<1> DEFINE new == Append(known, p)
<1>2. /\ new \in Seq(Networks) /\ Len(new) = Len(known) + 1
      /\ \A j \in 1..Len(known) : new[j] = known[j]
      /\ new[Len(known) + 1] = p
  BY AppendProperties
<1>3. DOMAIN new = 1..(Len(known) + 1)
  BY <1>2, LenProperties
<1> HIDE DEF new
<1>4. Distinct(new)
  <2> SUFFICES ASSUME NEW i \in DOMAIN new, NEW j \in DOMAIN new, new[i] = new[j] PROVE i = j
    BY DEF Distinct
  <2>1. i \in DOMAIN known \/ i = Len(known) + 1
    BY <1>1, <1>3
  <2>2. j \in DOMAIN known \/ j = Len(known) + 1
    BY <1>1, <1>3
  <2> QED
    BY <1>1, <1>2, <2>1, <2>2 DEF Distinct
<1>5. ToSet(new) = Known \cup {p}
  <2>1. \A j \in DOMAIN new : new[j] \in Known \cup {p}
    BY <1>1, <1>2, <1>3 DEF Known, ToSet
  <2>2. \A q \in Known \cup {p} : \E j \in DOMAIN new : new[j] = q
    <3> SUFFICES ASSUME NEW q \in Known \cup {p} PROVE \E j \in DOMAIN new : new[j] = q
      OBVIOUS
    <3>1. CASE q = p
      BY <1>1, <1>2, <1>3, <3>1
    <3>2. CASE q \in Known
      <4>1. PICK j \in DOMAIN known : known[j] = q
        BY <3>2 DEF Known, ToSet
      <4> QED
        BY <1>1, <1>2, <1>3, <4>1
    <3> QED
      BY <3>1, <3>2
  <2> QED
    BY <2>1, <2>2 DEF ToSet
<1> QED
  BY <1>2, <1>4, <1>5 DEF new

(* The page of p is complete, in a notebook.                               *)
LEMMA BuiltPlaced ==
    ASSUME PlacedIn(pages, page, tree), NEW p \in Networks,
           tree => page[p] # 0, ~tree => page[p] = 0
    PROVE  LET new  == Built(p)
               next == PageBuilt(p)
           IN  /\ PlacedIn(new, next, tree)
               /\ next[p] \in DOMAIN new
               /\ tree => next[p] = page[p]
               /\ ~tree => new[next[p]].rows = <<>>
               /\ \A q \in Networks : q # p => next[q] = page[q]
               /\ \A i \in DOMAIN pages : i \in DOMAIN new /\ new[i] = pages[i]
<1>n. PICK new, next : new = Built(p) /\ next = PageBuilt(p)
  OBVIOUS
<1> SUFFICES /\ PlacedIn(new, next, tree)
             /\ next[p] \in DOMAIN new
             /\ tree => next[p] = page[p]
             /\ ~tree => new[next[p]].rows = <<>>
             /\ \A q \in Networks : q # p => next[q] = page[q]
             /\ \A i \in DOMAIN pages : i \in DOMAIN new /\ new[i] = pages[i]
  BY <1>n
<1>1. CASE tree
  <2>1. new = pages /\ next = page
    BY <1>1, <1>n DEF Built, PageBuilt
  <2>2. page[p] \in DOMAIN pages
    BY <1>1 DEF PlacedIn
  <2> QED
    BY <1>1, <2>1, <2>2
<1>2. CASE ~tree
  <2>1. new = Append(pages, EmptyPage(p)) /\ next = [page EXCEPT ![p] = Len(pages) + 1]
    BY <1>2, <1>n DEF Built, PageBuilt, EmptyPage
  <2>2. page[p] = 0 /\ Pages(pages) /\ page \in [Networks -> Nat]
    BY <1>2 DEF PlacedIn
  <2>3. LET add == Append(pages, EmptyPage(p))
        IN  /\ Pages(add) /\ DOMAIN add = 1..(Len(pages) + 1) /\ Len(add) = Len(pages) + 1
            /\ \A i \in DOMAIN pages : add[i] = pages[i]
            /\ add[Len(pages) + 1].protocol = p /\ add[Len(pages) + 1].rows = <<>>
    BY <2>2, PageAdded
  <2>4. /\ Pages(new) /\ DOMAIN new = 1..(Len(pages) + 1)
        /\ \A i \in DOMAIN pages : new[i] = pages[i]
        /\ new[Len(pages) + 1].protocol = p /\ new[Len(pages) + 1].rows = <<>>
    BY <2>1, <2>3
  <2>5. /\ Len(pages) \in Nat /\ DOMAIN pages = 1..Len(pages)
        /\ \A i \in DOMAIN pages : pages[i].protocol \in Networks
    BY <2>2, PageTypes
  <2>6. /\ next \in [Networks -> Nat] /\ next[p] = Len(pages) + 1
        /\ \A q \in Networks : q # p => next[q] = page[q]
    BY <2>1, <2>2, <2>5
  <2>7. ASSUME NEW q \in Networks
        PROVE  next[q] = 0 \/ (next[q] \in DOMAIN new /\ new[next[q]].protocol = q)
    <3>1. CASE q = p
      BY <2>4, <2>5, <2>6, <3>1
    <3>2. CASE q # p
      BY <2>4, <2>5, <2>6, <3>2 DEF PlacedIn
    <3> QED
      BY <3>1, <3>2
  <2>8. ASSUME NEW i \in DOMAIN new, i # next[new[i].protocol]
        PROVE  new[i].rows = <<>>
    <3>1. CASE i = Len(pages) + 1
      BY <2>4, <3>1
    <3>2. CASE i \in DOMAIN pages
      <4>1. new[i] = pages[i] /\ pages[i].protocol \in Networks
        BY <2>4, <2>5, <3>2
      <4>2. i # page[pages[i].protocol]
        BY <2>2, <2>5, <2>6, <2>8, <3>2, <4>1
      <4> QED
        BY <3>2, <4>1, <4>2 DEF PlacedIn
    <3> QED
      BY <2>4, <2>5, <3>1, <3>2
  <2>9. \A i \in DOMAIN pages : i \in DOMAIN new /\ new[i] = pages[i]
    BY <2>4, <2>5
  <2>10. next[p] \in DOMAIN new /\ new[next[p]].rows = <<>>
    BY <2>4, <2>5, <2>6
  <2> QED
    BY <1>2, <2>4, <2>6, <2>7, <2>8, <2>9, <2>10 DEF PlacedIn
<1> QED
  BY <1>1, <1>2

(* The page of a protocol that registers is complete.                      *)
LEMMA RegisteredRight ==
    ASSUME UserAssumption, Calls(waits), ShownInv, Registered
    PROVE  Right'
<1> USE DEF contacts, view, status
<1>p. PICK n, p : n = Len(waits) /\ p = Inner.protocol
  OBVIOUS
<1>1. /\ viewFault = "none" /\ waits # <<>> /\ Inner.at = "register" /\ waits' = Front(waits)
      /\ pages' = Built(p) /\ page' = PageBuilt(p)
      /\ statusIcon' = [statusIcon EXCEPT ![p] = IF Inner.status THEN "online" ELSE "offline"]
      /\ boxes' = [boxes EXCEPT ![p] = @ + 1] /\ known' = Append(known, p)
      /\ UNCHANGED <<config, tree, userlist, Seen, up, viewFault>>
  BY <1>p DEF Registered, At, Works, IconBuilt, Seen
<1>2. /\ n \in DOMAIN waits /\ Inner = waits[n] /\ DOMAIN waits' = DOMAIN waits \ {n}
      /\ \A k \in DOMAIN waits' : waits'[k] = waits[k]
  BY <1>1, <1>p, Popped DEF Inner
<1>3. Registers(waits, n) /\ waits[n].protocol = p
  BY <1>1, <1>2, <1>p DEF Registers
<1>4. Nested /\ \A k \in DOMAIN waits : ~Refreshes(waits, k)
  BY <1>1, <1>2, <1>3 DEF ShownInv, Nested, Building, Refreshes, Registers
<1>5. Agrees
  BY <1>4 DEF ShownInv, Doomed
<1>6. ViewTypes /\ Placed /\ Unlisted /\ Awaits /\ Settled
  BY <1>5 DEF Agrees
<1>7. p \in Networks \ Known /\ ~Inner.status
  BY <1>2, <1>3, <1>4 DEF Nested
<1>8. /\ known' \in Seq(Networks) /\ Distinct(known') /\ Known' = Known \cup {p}
  BY <1>1, <1>6, <1>7, KnownAdded DEF ViewTypes, Known
<1>9. \A k : /\ Refreshes(waits', k) => Refreshes(waits, k)
             /\ Registers(waits', k) <=> (Registers(waits, k) /\ k # n)
             /\ Registers(waits', k) => k \in DOMAIN waits' /\ k \in DOMAIN waits /\ waits'[k] = waits[k]
                                        /\ waits[k].protocol # p
  BY <1>2, <1>3, <1>4 DEF Refreshes, Registers, Nested
<1>10. \A k \in DOMAIN waits' : ~Refreshes(waits', k)
  BY <1>2, <1>4, <1>9
<1>11. Nested'
  <2>1. ASSUME NEW k, NEW l, Registers(waits', k), Registers(waits', l),
               waits'[k].protocol = waits'[l].protocol
        PROVE  k = l
    BY <1>4, <1>9, <2>1 DEF Nested
  <2>2. ASSUME NEW k, Registers(waits', k)
        PROVE  waits'[k].protocol \in Networks \ Known' /\ ~waits'[k].status
    BY <1>4, <1>8, <1>9, <2>2 DEF Nested
  <2> QED
    BY <1>8, <1>10, <2>1, <2>2 DEF Nested
<1>12. /\ PlacedIn(pages', page', tree)
       /\ page'[p] \in DOMAIN pages' /\ pages'[page'[p]].rows = <<>>
       /\ \A q \in Networks : q # p => page'[q] = page[q]
       /\ \A i \in DOMAIN pages : i \in DOMAIN pages' /\ pages'[i] = pages[i]
  <2>1. PlacedIn(pages, page, tree)
    BY <1>6, PlacedNow
  <2>2. ASSUME tree
        PROVE  page[p] # 0 /\ page[p] \in DOMAIN pages /\ pages[page[p]].rows = <<>>
    <3>1. page[p] # 0
      BY <1>2, <1>3, <1>6, <2>2 DEF Awaits, AwaitsAt
    <3> QED
      BY <1>6, <1>7, <3>1 DEF Unlisted, Placed, HasPage
  <2>3. ~tree => page[p] = 0
    BY <1>6, <1>7 DEF Unlisted
  <2>4. LET new  == Built(p)
            next == PageBuilt(p)
        IN  /\ PlacedIn(new, next, tree)
            /\ next[p] \in DOMAIN new
            /\ tree => next[p] = page[p]
            /\ ~tree => new[next[p]].rows = <<>>
            /\ \A q \in Networks : q # p => next[q] = page[q]
            /\ \A i \in DOMAIN pages : i \in DOMAIN new /\ new[i] = pages[i]
    BY <1>7, <2>1, <2>2, <2>3, BuiltPlaced
  <2> QED
    BY <1>1, <2>2, <2>4
<1>13. Placed' /\ Pages(pages') /\ page' \in [Networks -> Nat]
  BY <1>1, <1>12, PlacedNext
<1>14. Bare(p) /\ userlist[p] = {} /\ p \notin up
  BY <1>6, <1>7 DEF Unlisted
<1>15. /\ Iconed(p)' /\ statusIcon' \in [Networks -> {"none", "online", "offline"}]
       /\ boxes' \in [Networks -> Nat]
       /\ \A q \in Networks : q # p => Bare(q)' = Bare(q) /\ Iconed(q)' = Iconed(q)
  BY <1>1, <1>6, <1>7, <1>14 DEF Bare, Iconed, ViewTypes
<1>16. ViewTypes'
  BY <1>1, <1>6, <1>8, <1>13, <1>15 DEF ViewTypes
<1>17. Unlisted'
  <2> SUFFICES ASSUME NEW q \in Networks \ Known, q # p
               PROVE  /\ Bare(q)' /\ userlist'[q] = {} /\ q \notin up'
                      /\ page'[q] # 0 =>
                            /\ tree' /\ pages'[page'[q]].rows = <<>>
                            /\ \E k \in DOMAIN waits' : Registers(waits', k) /\ waits'[k].protocol = q
    BY <1>8 DEF Unlisted
  <2>1. Bare(q)' /\ userlist'[q] = {} /\ q \notin up'
    BY <1>1, <1>6, <1>15 DEF Unlisted
  <2>2. ASSUME page'[q] # 0
        PROVE  /\ tree' /\ pages'[page'[q]].rows = <<>>
               /\ \E k \in DOMAIN waits' : Registers(waits', k) /\ waits'[k].protocol = q
    <3>1. page'[q] = page[q] /\ page[q] # 0
      BY <1>12, <2>2
    <3>2. /\ tree /\ pages[page[q]].rows = <<>>
          /\ \E k \in DOMAIN waits : Registers(waits, k) /\ waits[k].protocol = q
      BY <1>6, <3>1 DEF Unlisted
    <3>3. page[q] \in DOMAIN pages
      BY <1>6, <3>1 DEF Placed, HasPage
    <3>4. PICK k \in DOMAIN waits : Registers(waits, k) /\ waits[k].protocol = q
      BY <3>2
    <3>5. Registers(waits', k) /\ k \in DOMAIN waits' /\ waits'[k].protocol = q
      BY <1>3, <1>9, <3>4
    <3> QED
      BY <1>1, <1>12, <3>1, <3>2, <3>3, <3>5
  <2> QED
    BY <2>1, <2>2
<1>18. Awaits'
  <2> SUFFICES ASSUME NEW k \in DOMAIN waits' PROVE AwaitsAt(k)'
    BY DEF Awaits
  <2>1. ~Refreshes(waits', k)
    BY <1>10
  <2>2. ASSUME Registers(waits', k), tree' PROVE page'[waits'[k].protocol] # 0
    <3>1. Registers(waits, k) /\ k \in DOMAIN waits /\ waits'[k] = waits[k] /\ waits[k].protocol # p
      BY <1>9, <2>2
    <3>2. page[waits[k].protocol] # 0 /\ waits[k].protocol \in Networks
      BY <1>1, <1>4, <1>6, <2>2, <3>1 DEF Awaits, AwaitsAt, Nested
    <3> QED
      BY <1>12, <3>1, <3>2
  <2> QED
    BY <2>1, <2>2 DEF AwaitsAt
<1>19. Settled'
  <2> SUFFICES ASSUME NEW q \in Known \cup {p} PROVE Shown(q)' /\ Iconed(q)'
    BY <1>8 DEF Settled
  <2>1. CASE q = p
    <3>1. Wanted(userlist[p], Seen)' = <<>>
      <4>1. Wanted(userlist[p], Seen)' = Wanted(userlist'[p], Seen')
        BY <1>1 DEF Wanted
      <4> QED
        BY <1>1, <1>14, <4>1, WantedOfNone
    <3> QED
      BY <1>12, <1>15, <2>1, <3>1 DEF Shown, HasPage
  <2>2. CASE q \in Known
    <3>1. Shown(q) /\ Iconed(q) /\ q \in Networks /\ q # p
      BY <1>4, <1>6, <1>7, <2>2, KnownNetworks DEF Settled
    <3>2. page'[q] = page[q] /\ page[q] \in DOMAIN pages
      BY <1>12, <3>1 DEF Shown, HasPage
    <3>3. Shown(q)'
      BY <1>1, <1>12, <3>1, <3>2, ShownKept
    <3> QED
      BY <1>15, <3>1, <3>3
  <2> QED
    BY <2>1, <2>2
<1> QED
  BY <1>1, <1>11, <1>13, <1>16, <1>17, <1>18, <1>19 DEF Agrees, ShownInv, Right

(* Filling the page of a protocol leaves the pages where they are.         *)
LEMMA FilledPlaced ==
    ASSUME NEW pgs, NEW pg, NEW t, PlacedIn(pgs, pg, t), NEW p \in Networks,
           pg[p] \in DOMAIN pgs, NEW r
    PROVE  LET new == Filled(pgs, pg[p], r)
           IN  /\ PlacedIn(new, pg, t) /\ DOMAIN new = DOMAIN pgs /\ new[pg[p]].rows = r
               /\ \A i \in DOMAIN pgs : i # pg[p] => new[i].rows = pgs[i].rows
<1>n. PICK new : new = Filled(pgs, pg[p], r)
  OBVIOUS
<1> SUFFICES /\ PlacedIn(new, pg, t) /\ DOMAIN new = DOMAIN pgs /\ new[pg[p]].rows = r
             /\ \A i \in DOMAIN pgs : i # pg[p] => new[i].rows = pgs[i].rows
  BY <1>n
<1>1. /\ Pages(pgs) /\ Len(pgs) \in Nat /\ DOMAIN pgs = 1..Len(pgs)
      /\ \A i \in DOMAIN pgs : pgs[i].protocol \in Networks
  BY PageTypes DEF PlacedIn
<1>2. /\ Pages(new) /\ DOMAIN new = DOMAIN pgs
      /\ \A i \in DOMAIN pgs : /\ new[i].protocol = pgs[i].protocol
                               /\ new[i].rows = IF i = pg[p] THEN r ELSE pgs[i].rows
  BY <1>1, <1>n, PageFilled
<1>3. pgs[pg[p]].protocol = p
  BY <1>1 DEF PlacedIn
<1>4. ASSUME NEW i \in DOMAIN new, i # pg[new[i].protocol] PROVE ~t /\ new[i].rows = <<>>
  <2>1. i # pg[p] /\ i # pg[pgs[i].protocol]
    BY <1>2, <1>3, <1>4
  <2>2. ~t /\ pgs[i].rows = <<>>
    BY <1>2, <2>1 DEF PlacedIn
  <2> QED
    BY <1>2, <2>1, <2>2
<1>5. pg \in [Networks -> Nat]
      /\ \A q \in Networks : pg[q] = 0 \/ (pg[q] \in DOMAIN new /\ new[pg[q]].protocol = q)
  BY <1>2 DEF PlacedIn
<1>6. PlacedIn(new, pg, t)
  BY <1>2, <1>4, <1>5 DEF PlacedIn
<1> QED
  BY <1>2, <1>6

(* What a turn of the refresh makes of the pages that were built, the      *)
(* icons, and the calls below, none of which builds.                       *)
LEMMA TurnRight ==
    ASSUME NEW n \in DOMAIN known, NEW pgs, NEW old, NEW t, NEW st, NEW icons, NEW box,
           NEW p, p = known[n], ViewTypes, Turn(p, pgs, old, t, st, icons, box),
           tree' = t, viewFault' = "none", UNCHANGED <<known, userlist, up>>,
           PlacedIn(pgs, old, t), Calls(st), \A k : ~Building(st, k),
           icons \in [Networks -> {"none", "online", "offline"}], box \in [Networks -> Nat],
           statusIcon[p] # "none", box[p] = 1, old[p] = 0,
           \A q \in Networks \ Known : /\ box[q] = 0 /\ icons[q] = "none" /\ old[q] = 0
                                       /\ userlist[q] = {} /\ q \notin up,
           \A j \in DOMAIN known : j # n =>
              /\ box[known[j]] = 1
              /\ icons[known[j]] = IF known[j] \in up THEN "online" ELSE "offline"
              /\ j > n => old[known[j]] = 0
              /\ j < n => /\ old[known[j]] \in DOMAIN pgs
                          /\ pgs[old[known[j]]].rows = Wanted(userlist[known[j]], Seen)'
    PROVE  Right'
<1>1. /\ statusIcon' = [icons EXCEPT ![p] = "none"]
      /\ boxes' = [box EXCEPT ![p] = @ - 1]
      /\ pages' = Begun(pgs, t, p) /\ page' = Pointed(old, pgs, t, p)
      /\ waits' = Append(st, Call("refresh", p, 0))
  <2>1. page' = [old EXCEPT ![p] = IF t THEN Len(pgs) + 1 ELSE @] /\ old \in [Networks -> Nat]
    BY DEF Turn, PlacedIn
  <2>2. page' = Pointed(old, pgs, t, p)
    BY <2>1 DEF Pointed
  <2> QED
    BY <2>2 DEF Turn
<1>2. /\ Len(known) \in Nat /\ DOMAIN known = 1..Len(known)
      /\ \A j \in DOMAIN known : known[j] \in Networks /\ known[j] \in Known
      /\ \A q \in Known : q \in Networks /\ \E j \in DOMAIN known : known[j] = q
  BY KnownNetworks
<1>3. p \in Networks /\ p \in Known /\ Known' = Known
  BY <1>2 DEF Known
<1>4. \A j \in DOMAIN known : j # n => known[j] # p
  BY DEF ViewTypes, Distinct
<1>5. /\ PlacedIn(pages', page', t)
      /\ t => page'[p] # 0 /\ page'[p] \in DOMAIN pages' /\ pages'[page'[p]].rows = <<>>
      /\ ~t => page'[p] = 0
      /\ \A q \in Networks : q # p => page'[q] = old[q]
      /\ \A i \in DOMAIN pgs : i \in DOMAIN pages' /\ pages'[i] = pgs[i]
  <2>1. LET new  == Begun(pgs, t, p)
            next == Pointed(old, pgs, t, p)
        IN  /\ PlacedIn(new, next, t)
            /\ t => next[p] # 0 /\ next[p] \in DOMAIN new /\ new[next[p]].rows = <<>>
            /\ ~t => next[p] = 0
            /\ \A q \in Networks : q # p => next[q] = old[q]
            /\ \A i \in DOMAIN pgs : i \in DOMAIN new /\ new[i] = pgs[i]
    BY <1>3, RowBegun
  <2> QED
    BY <1>1, <2>1
<1>6. Placed' /\ Pages(pages') /\ page' \in [Networks -> Nat]
  BY <1>5, PlacedNext
<1>7. /\ statusIcon' \in [Networks -> {"none", "online", "offline"}]
      /\ boxes' \in [Networks -> Nat]
      /\ boxes'[p] = 0 /\ statusIcon'[p] = "none"
      /\ \A q \in Networks : q # p => boxes'[q] = box[q] /\ statusIcon'[q] = icons[q]
  BY <1>1, <1>3
<1>8. ViewTypes'
  BY <1>6, <1>7 DEF ViewTypes
<1>9. PICK m : m = Len(st) + 1
  OBVIOUS
<1>10. /\ m \in DOMAIN waits' /\ waits'[m] = Call("refresh", p, 0)
       /\ \A k : Building(waits', k) <=> k = m
       /\ \A k : Refreshes(waits', k) <=> k = m
       /\ \A k : ~Registers(waits', k)
       /\ waits'[m].protocol = p /\ waits'[m].status = (p \in up)
  <2>1. /\ Len(st) + 1 \notin DOMAIN st
        /\ DOMAIN waits' = DOMAIN st \cup {Len(st) + 1}
        /\ \A k \in DOMAIN st : waits'[k] = st[k]
        /\ waits'[Len(st) + 1] = Call("refresh", p, 0)
    BY <1>1, Pushed
  <2>2. /\ Call("refresh", p, 0).at = "refresh" /\ Call("refresh", p, 0).protocol = p
        /\ Call("refresh", p, 0).status = (p \in up)
    BY DEF Call
  <2> QED
    BY <1>9, <2>1, <2>2 DEF Building, Refreshes, Registers
<1>11. Nested'
  BY <1>8, <1>10 DEF Nested, ViewTypes
<1>12. Unlisted'
  <2> SUFFICES ASSUME NEW q \in Networks \ Known
               PROVE  Bare(q)' /\ userlist'[q] = {} /\ q \notin up' /\ page'[q] = 0
    BY <1>3 DEF Unlisted
  <2>1. q # p /\ q \in Networks
    BY <1>3
  <2>2. box[q] = 0 /\ icons[q] = "none" /\ old[q] = 0 /\ userlist[q] = {} /\ q \notin up
    OBVIOUS
  <2>3. boxes'[q] = 0 /\ statusIcon'[q] = "none"
    BY <1>7, <2>1, <2>2
  <2>4. page'[q] = 0
    BY <1>5, <2>1, <2>2
  <2> QED
    BY <2>2, <2>3, <2>4 DEF Bare
<1>13. ASSUME NEW j \in DOMAIN known, j # n
       PROVE  /\ Iconed(known[j])'
              /\ j < n => Shown(known[j])'
              /\ j > n => (page[known[j]] = 0)'
  <2>1. PICK q \in Networks : q = known[j] /\ q # p
    BY <1>2, <1>4, <1>13
  <2>2. boxes'[q] = 1 /\ statusIcon'[q] = IF q \in up THEN "online" ELSE "offline"
    BY <1>7, <1>13, <2>1
  <2>3. Iconed(q)'
    BY <2>2 DEF Iconed
  <2>4. ASSUME j < n PROVE Shown(q)'
    <3>1. old[q] \in DOMAIN pgs /\ pgs[old[q]].rows = Wanted(userlist[q], Seen)'
      BY <1>13, <2>1, <2>4
    <3>2. page'[q] \in DOMAIN pages' /\ pages'[page'[q]].rows = Wanted(userlist[q], Seen)'
      BY <1>5, <2>1, <3>1
    <3> QED
      BY <3>2 DEF Shown, HasPage
  <2>5. j > n => page'[q] = 0
    BY <1>5, <1>13, <2>1
  <2>6. known'[j] = q
    BY <2>1
  <2> QED
    BY <2>3, <2>4, <2>5, <2>6
<1>14. Halfway(p, n)'
  <2>1. known'[n] = p /\ Bare(p)' /\ (tree' => page'[p] # 0) /\ (~tree' => page'[p] = 0)
    BY <1>5, <1>7 DEF Bare
  <2> QED
    BY <1>2, <1>13, <2>1 DEF Halfway
<1>15. Awaits'
  <2> SUFFICES ASSUME NEW k \in DOMAIN waits' PROVE AwaitsAt(k)'
    BY DEF Awaits
  <2>1. CASE k = m
    BY <1>10, <1>14, <2>1 DEF AwaitsAt
  <2>2. CASE k # m
    BY <1>10, <2>2 DEF AwaitsAt
  <2> QED
    BY <2>1, <2>2
<1>16. Settled'
  BY <1>10 DEF Settled
<1> QED
  BY <1>6, <1>8, <1>11, <1>12, <1>15, <1>16 DEF Agrees, ShownInv, Right

(* The view is built anew.                                                 *)
LEMMA RefreshRight ==
    ASSUME UserAssumption, Calls(waits), ShownInv, NEW c, Refresh(c), ~Overlaps'
    PROVE  Right'
<1> USE DEF contacts, view, status
<1> DEFINE st   == Spoils(waits, LAMBDA f : f.at = "notify")
           dead == [q \in Networks |-> 0]
<1>1. /\ viewFault = "none" /\ viewFault' = "none" /\ ~Waiting("refresh") /\ ~Waiting("register")
      /\ config' = c /\ tree' = c.tree /\ UNCHANGED <<known, userlist, online, blanked, up>>
      /\ \/ /\ known = <<>> /\ pages' = <<>> /\ page' = dead /\ waits' = st
            /\ UNCHANGED <<statusIcon, boxes>>
         \/ known # <<>> /\ Turn(Head(known), <<>>, dead, c.tree, st, statusIcon, boxes)
  BY Zenon DEF Refresh, Overlaps, Dispatches, Works
<1>2. \A k : ~Building(waits, k)
  BY <1>1 DEF Waiting, Building
<1>3. Agrees
  BY <1>2 DEF ShownInv, Doomed, Building, Refreshes
<1>4. ViewTypes /\ Placed /\ Unlisted /\ Awaits /\ Settled
  BY <1>3 DEF Agrees
<1>5. Calls(st) /\ \A k : ~Building(st, k)
  <2> DEFINE hit == [i \in DOMAIN waits |-> waits[i].at = "notify"]
  <2>1. hit \in [DOMAIN waits -> BOOLEAN] /\ \A i \in DOMAIN waits : hit[i] = (waits[i].at = "notify")
    OBVIOUS
  <2> HIDE DEF hit
  <2>2. st = Spoiled(waits, hit)
    BY <2>1, Zenon DEF Spoils, Spoiled
  <2>3. \A k \in DOMAIN waits : Building(waits, k) => ~hit[k]
    BY <1>2
  <2> HIDE DEF st
  <2>4. Calls(st) /\ SameBuilding(st, waits)
    BY <2>1, <2>2, <2>3, SpoiledBuilding
  <2> QED
    BY <1>2, <2>4 DEF SameBuilding
<1> HIDE DEF st
<1>6. /\ Len(known) \in Nat /\ DOMAIN known = 1..Len(known)
      /\ \A j \in DOMAIN known : known[j] \in Networks /\ known[j] \in Known
      /\ \A q \in Known : q \in Networks /\ \E j \in DOMAIN known : known[j] = q
  BY <1>4, KnownNetworks
<1>7. PlacedIn(<<>>, dead, c.tree)
  <2>1. Pages(<<>>) /\ DOMAIN <<>> = {}
    BY EmptySeq DEF Pages
  <2> QED
    BY <2>1 DEF PlacedIn
<1>8. CASE known = <<>>
  <2>1. Known = {} /\ Known' = {} /\ known \in Seq(Networks)
    BY <1>1, <1>4, <1>8 DEF Known, ToSet, ViewTypes
  <2>2. known # <<>> => FALSE
    BY <1>8
  <2>3. pages' = <<>> /\ page' = dead /\ waits' = st /\ UNCHANGED <<statusIcon, boxes>>
    BY <1>1, <2>2
  <2>4. PlacedIn(pages', page', tree')
    BY <1>1, <1>7, <2>3
  <2>5. Placed' /\ Pages(pages') /\ page' \in [Networks -> Nat]
    BY <2>4, PlacedNext
  <2>6. ViewTypes'
    BY <1>1, <1>4, <2>3, <2>5 DEF ViewTypes
  <2>7. \A k : ~Building(waits', k) /\ ~Refreshes(waits', k) /\ ~Registers(waits', k)
    BY <1>5, <2>3 DEF Building, Refreshes, Registers
  <2>8. Nested'
    BY <2>6, <2>7 DEF Nested, ViewTypes
  <2>9. Unlisted'
    <3> SUFFICES ASSUME NEW q \in Networks
                 PROVE  Bare(q)' /\ userlist'[q] = {} /\ q \notin up' /\ page'[q] = 0
      BY <2>1 DEF Unlisted
    <3>1. Bare(q) /\ userlist[q] = {} /\ q \notin up
      BY <1>4, <2>1 DEF Unlisted
    <3> QED
      BY <1>1, <2>3, <3>1 DEF Bare
  <2>10. Awaits'
    BY <2>7 DEF Awaits, AwaitsAt
  <2>11. Settled'
    BY <2>1 DEF Settled
  <2> QED
    BY <1>1, <2>5, <2>6, <2>8, <2>9, <2>10, <2>11 DEF Agrees, ShownInv, Right
<1>9. CASE known # <<>>
  <2>1. PICK p, t : p = known[1] /\ t = c.tree
    OBVIOUS
  <2>2. 1 \in DOMAIN known /\ Head(known) = p
    <3>1. known \in Seq(Networks)
      BY <1>4 DEF ViewTypes
    <3>2. Len(known) # 0
      BY <1>9, <3>1, EmptySeq
    <3> QED
      BY <1>6, <2>1, <3>2
  <2>3. Turn(p, <<>>, dead, t, st, statusIcon, boxes)
    BY <1>1, <1>9, <2>1, <2>2
  <2>4. ASSUME NEW q \in Known PROVE boxes[q] = 1 /\ statusIcon[q] = IF q \in up THEN "online" ELSE "offline"
    BY <1>2, <1>4 DEF Settled, Iconed, Refreshes, Building
  <2>5. p \in Known /\ p \in Networks
    BY <1>6, <2>1, <2>2
  <2>6. statusIcon[p] # "none" /\ boxes[p] = 1 /\ dead[p] = 0
    BY <2>4, <2>5
  <2>7. \A q \in Networks \ Known : /\ boxes[q] = 0 /\ statusIcon[q] = "none" /\ dead[q] = 0
                                     /\ userlist[q] = {} /\ q \notin up
    BY <1>4 DEF Unlisted, Bare
  <2>8. \A j \in DOMAIN known : j # 1 =>
              /\ boxes[known[j]] = 1
              /\ statusIcon[known[j]] = IF known[j] \in up THEN "online" ELSE "offline"
              /\ j > 1 => dead[known[j]] = 0
              /\ j < 1 => /\ dead[known[j]] \in DOMAIN <<>>
                          /\ <<>>[dead[known[j]]].rows = Wanted(userlist[known[j]], Seen)'
    BY <1>6, <2>4
  <2>9. /\ statusIcon \in [Networks -> {"none", "online", "offline"}] /\ boxes \in [Networks -> Nat]
    BY <1>4 DEF ViewTypes
  <2>10. PlacedIn(<<>>, dead, t) /\ tree' = t /\ p = known[1]
    BY <1>1, <1>7, <2>1
  <2> HIDE DEF dead
  <2> QED
    BY <1>1, <1>4, <1>5, <2>2, <2>3, <2>6, <2>7, <2>8, <2>9, <2>10, TurnRight
<1> QED
  BY <1>8, <1>9

(* The refresh goes on with the page of p filled.                          *)
LEMMA GoesOnRight ==
    ASSUME UserAssumption, Calls(waits), ShownInv, RefreshGoesOn
    PROVE  Right'
<1> USE DEF contacts, view, status
<1>p. PICK top, p : top = Len(waits) /\ p = Inner.protocol
  OBVIOUS
<1>1. viewFault = "none" /\ waits # <<>> /\ Inner.at = "refresh"
  BY DEF RefreshGoesOn, At, Works
<1>2. CASE Inner.stale
  BY <1>1, <1>2, FaultRight DEF RefreshGoesOn
<1>3. CASE ~Inner.stale
  <2> DEFINE at    == PageBuilt(p)
             k     == CHOOSE i \in DOMAIN known : known[i] = p
             w     == Wanted(userlist[p], online)
             full  == [Built(p) EXCEPT ![at[p]].rows = w]
             st    == Spoils(Front(waits), LAMBDA f : Iterates(p, f))
             icons == [statusIcon EXCEPT ![p] = IF Inner.status THEN "online" ELSE "offline"]
             more  == [boxes EXCEPT ![p] = @ + 1]
  <2>1. /\ viewFault' = "none"
        /\ UNCHANGED <<config, tree, known, userlist, online, up>>
        /\ blanked' = Others(p, blanked)
        /\ IF k < Len(known) THEN Turn(known[k + 1], full, at, tree, st, icons, more)
           ELSE pages' = full /\ page' = at /\ waits' = st /\ statusIcon' = icons /\ boxes' = more
    BY <1>1, <1>3, <1>p DEF RefreshGoesOn
  <2>2. /\ top \in DOMAIN waits /\ Inner = waits[top] /\ DOMAIN Front(waits) = DOMAIN waits \ {top}
        /\ \A i \in DOMAIN Front(waits) : Front(waits)[i] = waits[i]
        /\ Calls(Front(waits))
    BY <1>1, <1>p, Popped DEF Inner
  <2>3. Refreshes(waits, top) /\ Nested /\ \A i : Building(waits, i) => i = top
    BY <1>1, <2>2 DEF Refreshes, Building, ShownInv, Nested
  <2>4. Agrees
    BY <1>3, <2>2, <2>3 DEF ShownInv, Doomed, Refreshes, Building
  <2>5. ViewTypes /\ Placed /\ Unlisted /\ Awaits
    BY <2>4 DEF Agrees
  <2>6. Calls(st) /\ \A i : ~Building(st, i)
    <3> DEFINE hit == [i \in DOMAIN Front(waits) |-> Iterates(p, Front(waits)[i])]
    <3>1. /\ hit \in [DOMAIN Front(waits) -> BOOLEAN]
          /\ \A i \in DOMAIN Front(waits) : hit[i] = Iterates(p, Front(waits)[i])
      BY DEF Iterates
    <3> HIDE DEF hit
    <3>2. st = Spoiled(Front(waits), hit)
      BY <3>1, Zenon DEF Spoils, Spoiled
    <3> HIDE DEF st
    <3>3. PICK rest : rest = Front(waits)
      OBVIOUS
    <3>4. Calls(rest) /\ st = Spoiled(rest, hit) /\ hit \in [DOMAIN rest -> BOOLEAN]
          /\ \A i \in DOMAIN rest : hit[i] => Iterates(p, rest[i])
      BY <2>2, <3>1, <3>2, <3>3
    <3>5. Calls(st) /\ SameBuilding(st, rest)
      BY <3>4, IteratorsSpoiled
    <3>6. \A i : ~Building(rest, i)
      BY <2>2, <2>3, <3>3 DEF Building
    <3> QED
      BY <3>5, <3>6 DEF SameBuilding
  <2> HIDE DEF st
  <2>7. /\ Len(known) \in Nat /\ DOMAIN known = 1..Len(known)
        /\ \A j \in DOMAIN known : known[j] \in Networks /\ known[j] \in Known
        /\ \A q \in Known : q \in Networks /\ \E j \in DOMAIN known : known[j] = q
    BY <2>5, KnownNetworks
  <2>8. PICK n \in DOMAIN known : Halfway(p, n) /\ Inner.status = (p \in up)
    <3>1. AwaitsAt(top) /\ p = waits[top].protocol
      BY <1>p, <2>2, <2>5 DEF Awaits
    <3> QED
      BY <2>2, <2>3, <3>1 DEF AwaitsAt
  <2>9. p \in Networks /\ p \in Known /\ known[n] = p /\ \A j \in DOMAIN known : known[j] = p => j = n
    BY <2>5, <2>7, <2>8 DEF Halfway, ViewTypes, Distinct
  <2>10. k = n
    BY <2>9
  <2> HIDE DEF k
  <2>11. /\ PlacedIn(full, at, tree) /\ at[p] \in DOMAIN full /\ full[at[p]].rows = w
         /\ \A q \in Networks : q # p => at[q] = page[q]
         /\ \A q \in Networks : q # p /\ page[q] \in DOMAIN pages =>
               at[q] \in DOMAIN full /\ full[at[q]].rows = pages[page[q]].rows
    <3>1. PlacedIn(pages, page, tree)
      BY <2>5, PlacedNow
    <3>2. (tree => page[p] # 0) /\ (~tree => page[p] = 0)
      BY <2>8 DEF Halfway
    <3>3. LET new  == Built(p)
              next == PageBuilt(p)
          IN  /\ PlacedIn(new, next, tree)
              /\ next[p] \in DOMAIN new
              /\ tree => next[p] = page[p]
              /\ ~tree => new[next[p]].rows = <<>>
              /\ \A q \in Networks : q # p => next[q] = page[q]
              /\ \A i \in DOMAIN pages : i \in DOMAIN new /\ new[i] = pages[i]
      BY <2>9, <3>1, <3>2, BuiltPlaced
    <3>4. PICK new : new = Built(p)
      OBVIOUS
    <3>5. full = Filled(new, at[p], w)
      BY <3>4 DEF Filled
    <3> HIDE DEF at, w, full
    <3>6. /\ PlacedIn(new, at, tree)
          /\ at[p] \in DOMAIN new
          /\ \A q \in Networks : q # p => at[q] = page[q]
          /\ \A i \in DOMAIN pages : i \in DOMAIN new /\ new[i] = pages[i]
      BY <3>3, <3>4 DEF at
    <3>7. LET res == Filled(new, at[p], w)
          IN  /\ PlacedIn(res, at, tree) /\ DOMAIN res = DOMAIN new /\ res[at[p]].rows = w
              /\ \A i \in DOMAIN new : i # at[p] => res[i].rows = new[i].rows
      BY <2>9, <3>6, FilledPlaced
    <3>8. /\ PlacedIn(full, at, tree) /\ DOMAIN full = DOMAIN new /\ full[at[p]].rows = w
          /\ \A i \in DOMAIN new : i # at[p] => full[i].rows = new[i].rows
      BY <3>5, <3>7
    <3>9. ASSUME NEW q \in Networks, q # p, page[q] \in DOMAIN pages
          PROVE  at[q] \in DOMAIN full /\ full[at[q]].rows = pages[page[q]].rows
      <4>1. at[q] = page[q] /\ at[q] \in DOMAIN new /\ new[at[q]] = pages[page[q]]
        BY <3>6, <3>9
      <4>2. at[q] # at[p]
        <5>1. at[q] # 0 /\ at[p] # 0
          <6>1. Pages(new)
            BY <3>6 DEF PlacedIn
          <6> QED
            BY <3>6, <4>1, <6>1, PageTypes
        <5>2. new[at[q]].protocol = q /\ new[at[p]].protocol = p
          BY <2>9, <3>6, <5>1 DEF PlacedIn
        <5> QED
          BY <3>9, <5>2
      <4> QED
        BY <3>8, <4>1, <4>2
    <3> QED
      BY <3>6, <3>8, <3>9
  <2>12. /\ icons \in [Networks -> {"none", "online", "offline"}] /\ more \in [Networks -> Nat]
         /\ icons[p] = IF p \in up THEN "online" ELSE "offline"
         /\ more[p] = 1
         /\ \A q \in Networks : q # p => icons[q] = statusIcon[q] /\ more[q] = boxes[q]
    <3>1. /\ statusIcon \in [Networks -> {"none", "online", "offline"}]
          /\ boxes \in [Networks -> Nat] /\ boxes[p] = 0
      BY <2>5, <2>8 DEF ViewTypes, Halfway, Bare
    <3>2. /\ icons \in [Networks -> {"none", "online", "offline"}]
          /\ icons[p] = IF Inner.status THEN "online" ELSE "offline"
          /\ \A q \in Networks : q # p => icons[q] = statusIcon[q]
      BY <2>9, <3>1
    <3>3. /\ more \in [Networks -> Nat] /\ more[p] = 1
          /\ \A q \in Networks : q # p => more[q] = boxes[q]
      BY <2>9, <3>1
    <3> HIDE DEF icons, more
    <3> QED
      BY <2>8, <3>2, <3>3
  <2>13. /\ Wanted(userlist[p], Seen)' = w
         /\ \A q \in Networks \ {p} : Wanted(userlist[q], Seen)' = Wanted(userlist[q], Seen)
    <3>1. \A q \in Networks : Wanted(userlist[q], Seen)' = Wanted(userlist[q], Seen')
      BY <2>1 DEF Wanted
    <3>2. \A q \in Networks : \A c \in userlist[q] : Of[c] = q
      BY <2>5 DEF ViewTypes
    <3>3. /\ \A c \in userlist[p] : c \in online <=> c \in Seen'
          /\ \A q \in Networks \ {p} : \A c \in userlist[q] : c \in Seen' <=> c \in Seen
      BY <2>1, <2>9, <3>2 DEF Seen, Others
    <3> QED
      BY <2>9, <3>1, <3>3, WantedElsewhere
  <2> HIDE DEF icons, more, full, at
  <2>14. ASSUME NEW q \in Networks \ Known
         PROVE  /\ more[q] = 0 /\ icons[q] = "none" /\ at[q] = 0
                /\ userlist[q] = {} /\ q \notin up
    <3>1. Bare(q) /\ userlist[q] = {} /\ q \notin up
      BY <2>5 DEF Unlisted
    <3>2. page[q] = 0
      BY <2>3, <2>5 DEF Unlisted, Refreshes, Registers, Building
    <3> QED
      BY <2>9, <2>11, <2>12, <3>1, <3>2 DEF Bare
  <2>15. ASSUME NEW j \in DOMAIN known
         PROVE  /\ more[known[j]] = 1
                /\ icons[known[j]] = IF known[j] \in up THEN "online" ELSE "offline"
                /\ j > n => at[known[j]] = 0
                /\ j <= n => /\ at[known[j]] \in DOMAIN full
                             /\ full[at[known[j]]].rows = Wanted(userlist[known[j]], Seen)'
    <3>1. PICK q \in Networks : q = known[j]
      BY <2>7
    <3>4. known'[j] = q
      BY <2>1, <3>1
    <3> SUFFICES /\ more[q] = 1
                 /\ icons[q] = IF q \in up THEN "online" ELSE "offline"
                 /\ j > n => at[q] = 0
                 /\ j <= n => at[q] \in DOMAIN full /\ full[at[q]].rows = Wanted(userlist[q], Seen)'
      BY <3>1, <3>4
    <3>2. CASE j = n
      <4>1. q = p /\ ~(j > n)
        BY <2>7, <2>9, <3>1, <3>2
      <4>2. more[q] = 1 /\ icons[q] = IF q \in up THEN "online" ELSE "offline"
        BY <2>12, <4>1
      <4>3. at[q] \in DOMAIN full /\ full[at[q]].rows = Wanted(userlist[q], Seen)'
        <5>1. at[p] \in DOMAIN full /\ full[at[p]].rows = w
          BY <2>11
        <5> QED
          BY <2>13, <4>1, <5>1
      <4> QED
        BY <4>1, <4>2, <4>3
    <3>3. CASE j # n
      <4>1. q # p
        BY <2>9, <3>1, <3>3
      <4>2. Iconed(q) /\ (j > n => page[q] = 0) /\ (j < n => Shown(q))
        BY <2>7, <2>8, <3>1, <3>3 DEF Halfway
      <4>3. more[q] = 1 /\ icons[q] = IF q \in up THEN "online" ELSE "offline"
        BY <2>12, <4>1, <4>2 DEF Iconed
      <4>4. j > n => at[q] = 0
        BY <2>11, <4>1, <4>2
      <4>5. ASSUME j < n
            PROVE  at[q] \in DOMAIN full /\ full[at[q]].rows = Wanted(userlist[q], Seen)'
        BY <2>11, <2>13, <4>1, <4>2, <4>5 DEF Shown, HasPage
      <4>6. j <= n => j < n
        BY <2>7, <3>3
      <4> QED
        BY <4>3, <4>4, <4>5, <4>6
    <3> QED
      BY <3>2, <3>3
  <2>16. CASE n < Len(known)
    <3>1. PICK m, q : m = n + 1 /\ q = known[m]
      OBVIOUS
    <3>2. m \in DOMAIN known /\ m > n /\ q \in Networks /\ q \in Known /\ q # p
      BY <2>7, <2>9, <2>16, <3>1
    <3>3. Turn(q, full, at, tree, st, icons, more)
      BY <2>1, <2>10, <2>16, <3>1
    <3>4. statusIcon[q] # "none" /\ more[q] = 1 /\ at[q] = 0
      <4>1. more[q] = 1 /\ at[q] = 0 /\ icons[q] # "none"
        BY <2>15, <3>1, <3>2
      <4> QED
        BY <2>12, <3>2, <4>1
    <3>5. \A j \in DOMAIN known : j # m =>
              /\ more[known[j]] = 1
              /\ icons[known[j]] = IF known[j] \in up THEN "online" ELSE "offline"
              /\ j > m => at[known[j]] = 0
              /\ j < m => /\ at[known[j]] \in DOMAIN full
                          /\ full[at[known[j]]].rows = Wanted(userlist[known[j]], Seen)'
      <4> SUFFICES ASSUME NEW j \in DOMAIN known
                   PROVE  /\ more[known[j]] = 1
                          /\ icons[known[j]] = IF known[j] \in up THEN "online" ELSE "offline"
                          /\ j > m => at[known[j]] = 0
                          /\ j < m => /\ at[known[j]] \in DOMAIN full
                                      /\ full[at[known[j]]].rows = Wanted(userlist[known[j]], Seen)'
        OBVIOUS
      <4>1. (j > m => j > n) /\ (j < m => j <= n)
        BY <2>7, <3>1
      <4> QED
        BY <2>15, <4>1
    <3>6. \A r \in Networks \ Known : /\ more[r] = 0 /\ icons[r] = "none" /\ at[r] = 0
                                      /\ userlist[r] = {} /\ r \notin up
      BY <2>14
    <3>7. PICK t : t = tree
      OBVIOUS
    <3>8. Turn(q, full, at, t, st, icons, more) /\ tree' = t /\ PlacedIn(full, at, t)
      BY <2>1, <2>11, <3>3, <3>7
    <3> QED
      BY <2>1, <2>5, <2>6, <2>12, <3>1, <3>2, <3>4, <3>5, <3>6, <3>8, TurnRight
  <2>17. CASE ~(n < Len(known))
    <3>1. pages' = full /\ page' = at /\ waits' = st /\ statusIcon' = icons /\ boxes' = more
      BY <2>1, <2>10, <2>17
    <3>2. Known' = Known
      BY <2>1 DEF Known
    <3>3. Placed' /\ Pages(pages') /\ page' \in [Networks -> Nat]
      BY <2>1, <2>11, <3>1, PlacedNext
    <3>4. ViewTypes'
      BY <2>1, <2>5, <2>12, <3>1, <3>3 DEF ViewTypes
    <3>5. \A i : ~Building(waits', i) /\ ~Refreshes(waits', i) /\ ~Registers(waits', i)
      BY <2>6, <3>1 DEF Building, Refreshes, Registers
    <3>6. Nested'
      BY <3>4, <3>5 DEF Nested, ViewTypes
    <3>7. Unlisted'
      <4> SUFFICES ASSUME NEW q \in Networks \ Known
                   PROVE  Bare(q)' /\ userlist'[q] = {} /\ q \notin up' /\ page'[q] = 0
        BY <3>2 DEF Unlisted
      <4> QED
        BY <2>1, <2>14, <3>1 DEF Bare
    <3>8. Awaits'
      BY <3>5 DEF Awaits, AwaitsAt
    <3>9. Settled'
      <4> SUFFICES ASSUME NEW q \in Known PROVE Shown(q)' /\ Iconed(q)'
        BY <3>2 DEF Settled
      <4>1. PICK j \in DOMAIN known : known[j] = q /\ known'[j] = q
        BY <2>1, <2>7
      <4>2. j <= n
        BY <2>7, <2>17
      <4>3. /\ more[q] = 1 /\ icons[q] = IF q \in up THEN "online" ELSE "offline"
            /\ at[q] \in DOMAIN full /\ full[at[q]].rows = Wanted(userlist[q], Seen)'
        BY <2>15, <4>1, <4>2
      <4>4. Iconed(q)'
        BY <2>1, <3>1, <4>3 DEF Iconed
      <4>5. Shown(q)'
        BY <3>1, <4>3 DEF Shown, HasPage
      <4> QED
        BY <4>4, <4>5
    <3> QED
      BY <2>1, <3>3, <3>4, <3>6, <3>7, <3>8, <3>9 DEF Agrees, ShownInv, Right
  <2> QED
    BY <2>16, <2>17
<1> QED
  BY <1>2, <1>3

(* Where the view points once the page of p is gone: in a tree, the last   *)
(* row of the protocol.                                                    *)
Rest(pgs, n, t) == IF t THEN RemoveAt(pgs, n) ELSE Filled(pgs, n, <<>>)

LastRow(rest, q) ==
    CHOOSE i \in DOMAIN rest : /\ rest[i].protocol = q
                               /\ \A j \in DOMAIN rest : rest[j].protocol = q => j <= i

Repointed(rest, pg, t, p) ==
    [q \in Networks |->
        IF q = p THEN 0
        ELSE IF t /\ \E i \in DOMAIN rest : rest[i].protocol = q THEN LastRow(rest, q)
        ELSE pg[q]]

(* A row is taken from a tree, which has one for each protocol.            *)
LEMMA RowGone ==
    ASSUME NEW pgs, NEW pg, NEW t, PlacedIn(pgs, pg, t), NEW p \in Networks, pg[p] \in DOMAIN pgs
    PROVE  t => LET rest == Rest(pgs, pg[p], t)
                    next == Repointed(rest, pg, t, p)
                IN  /\ PlacedIn(rest, next, t) /\ next[p] = 0
                    /\ \A q \in Networks : q # p =>
                          /\ pg[q] = 0 => next[q] = 0
                          /\ pg[q] \in DOMAIN pgs =>
                                next[q] \in DOMAIN rest /\ rest[next[q]].rows = pgs[pg[q]].rows
<1> HAVE t
<1>t. PICK rest, next, n : /\ rest = Rest(pgs, pg[p], t) /\ next = Repointed(rest, pg, t, p)
                           /\ n = pg[p]
  OBVIOUS
<1>n. rest = RemoveAt(pgs, n) /\ next = Repointed(rest, pg, t, p) /\ n = pg[p]
  BY <1>t DEF Rest
<1> SUFFICES /\ PlacedIn(rest, next, t) /\ next[p] = 0
             /\ \A q \in Networks : q # p =>
                   /\ pg[q] = 0 => next[q] = 0
                   /\ pg[q] \in DOMAIN pgs =>
                         next[q] \in DOMAIN rest /\ rest[next[q]].rows = pgs[pg[q]].rows
  BY <1>t
<1>1. /\ Pages(pgs) /\ pg \in [Networks -> Nat] /\ Len(pgs) \in Nat /\ DOMAIN pgs = 1..Len(pgs)
      /\ \A i \in DOMAIN pgs : pgs[i].protocol \in Networks /\ pg[pgs[i].protocol] = i
  BY PageTypes DEF PlacedIn
<1>2. /\ n \in 1..Len(pgs) /\ pgs[n].protocol = p
      /\ \A q \in Networks : pg[q] = 0 \/ (pg[q] \in DOMAIN pgs /\ pgs[pg[q]].protocol = q)
  BY <1>1, <1>n DEF PlacedIn
<1>3. /\ Pages(rest) /\ DOMAIN rest = 1..(Len(pgs) - 1)
      /\ \A j \in 1..(Len(pgs) - 1) : rest[j] = IF j < n THEN pgs[j] ELSE pgs[j + 1]
  BY <1>1, <1>n, PageTaken
<1>4. ASSUME NEW j \in DOMAIN rest
      PROVE  /\ rest[j].protocol \in Networks /\ rest[j].protocol # p
             /\ pg[rest[j].protocol] = IF j < n THEN j ELSE j + 1
  <2>1. PICK o \in DOMAIN pgs : o = (IF j < n THEN j ELSE j + 1) /\ rest[j] = pgs[o] /\ o # n
    BY <1>1, <1>2, <1>3
  <2> QED
    BY <1>1, <1>n, <2>1
<1>5. \A i, j \in DOMAIN rest : rest[i].protocol = rest[j].protocol => i = j
  <2> SUFFICES ASSUME NEW i \in DOMAIN rest, NEW j \in DOMAIN rest,
                      rest[i].protocol = rest[j].protocol
               PROVE  i = j
    OBVIOUS
  <2>1. (IF i < n THEN i ELSE i + 1) = (IF j < n THEN j ELSE j + 1)
    BY <1>4
  <2>2. i \in Nat /\ j \in Nat /\ n \in Nat
    BY <1>1, <1>2, <1>3
  <2> QED
    BY <2>1, <2>2
<1>6. ASSUME NEW i \in DOMAIN rest PROVE next[rest[i].protocol] = i
  <2>1. PICK q : q = rest[i].protocol
    OBVIOUS
  <2>2. q \in Networks /\ q # p
    BY <1>4, <2>1
  <2>3. next[q] = CHOOSE k \in DOMAIN rest :
                     rest[k].protocol = q /\ \A j \in DOMAIN rest : rest[j].protocol = q => j <= k
    <3>1. next[q] = LastRow(rest, q)
      BY <1>n, <2>1, <2>2 DEF Repointed
    <3> QED
      BY <3>1, Zenon DEF LastRow
  <2>4. \A k \in DOMAIN rest : rest[k].protocol = q => k = i
    BY <1>5, <2>1
  <2>5. i \in Nat
    BY <1>3
  <2>6. rest[i].protocol = q /\ \A j \in DOMAIN rest : rest[j].protocol = q => j <= i
    BY <2>1, <2>4, <2>5
  <2>7. next[q] = i
    BY <2>3, <2>4, <2>6
  <2> QED
    BY <2>1, <2>7
<1>7. ASSUME NEW q \in Networks, q # p, pg[q] # 0
      PROVE  /\ next[q] \in DOMAIN rest /\ rest[next[q]].protocol = q
             /\ rest[next[q]].rows = pgs[pg[q]].rows
  <2>1. PICK o \in DOMAIN pgs : o = pg[q] /\ o # n /\ pgs[o].protocol = q
    BY <1>2, <1>7
  <2>2. PICK i \in DOMAIN rest : rest[i] = pgs[o]
    <3>1. CASE o < n
      BY <1>1, <1>2, <1>3, <3>1
    <3>2. CASE ~(o < n)
      <4>1. o - 1 \in 1..(Len(pgs) - 1) /\ ~(o - 1 < n) /\ (o - 1) + 1 = o
        BY <1>1, <1>2, <2>1, <3>2
      <4> QED
        BY <1>3, <4>1
    <3> QED
      BY <3>1, <3>2
  <2>3. next[q] = i
    BY <1>6, <2>1, <2>2
  <2> QED
    BY <2>1, <2>2, <2>3
<1>8. ASSUME NEW q \in Networks, q # p, pg[q] = 0 PROVE next[q] = 0
  <2>1. ASSUME NEW i \in DOMAIN rest, rest[i].protocol = q PROVE FALSE
    BY <1>1, <1>3, <1>4, <1>8, <2>1
  <2> QED
    BY <1>8, <1>n, <2>1 DEF Repointed
<1>9. next[p] = 0
  BY <1>n DEF Repointed
<1>10. next \in [Networks -> Nat]
  <2>1. next = [q \in Networks |-> next[q]]
    BY <1>n DEF Repointed
  <2>2. \A q \in Networks : next[q] \in Nat
    BY <1>3, <1>7, <1>8, <1>9
  <2> QED
    BY <2>1, <2>2
<1>11. \A q \in Networks : next[q] = 0 \/ (next[q] \in DOMAIN rest /\ rest[next[q]].protocol = q)
  BY <1>7, <1>8, <1>9
<1>12. PlacedIn(rest, next, t)
  BY <1>3, <1>6, <1>10, <1>11 DEF PlacedIn
<1>13. ASSUME NEW q \in Networks, q # p
       PROVE  /\ pg[q] = 0 => next[q] = 0
              /\ pg[q] \in DOMAIN pgs =>
                    next[q] \in DOMAIN rest /\ rest[next[q]].rows = pgs[pg[q]].rows
  <2>1. pg[q] \in DOMAIN pgs => pg[q] # 0
    BY <1>1
  <2> QED
    BY <1>7, <1>8, <1>13, <2>1
<1> QED
  BY <1>9, <1>12, <1>13

(* A page is left behind in a notebook, empty.                             *)
LEMMA PageLeft ==
    ASSUME NEW pgs, NEW pg, NEW t, PlacedIn(pgs, pg, t), NEW p \in Networks, pg[p] \in DOMAIN pgs
    PROVE  ~t => LET rest == Rest(pgs, pg[p], t)
                     next == Repointed(rest, pg, t, p)
                 IN  /\ PlacedIn(rest, next, t) /\ next[p] = 0
                     /\ \A q \in Networks : q # p =>
                           /\ pg[q] = 0 => next[q] = 0
                           /\ pg[q] \in DOMAIN pgs =>
                                 next[q] \in DOMAIN rest /\ rest[next[q]].rows = pgs[pg[q]].rows
<1> HAVE ~t
<1>t. PICK rest, next, n : /\ rest = Rest(pgs, pg[p], t) /\ next = Repointed(rest, pg, t, p)
                           /\ n = pg[p]
  OBVIOUS
<1>n. rest = Filled(pgs, n, <<>>) /\ next = Repointed(rest, pg, t, p) /\ n = pg[p]
  BY <1>t DEF Rest
<1>e. PICK none : none = <<>>
  OBVIOUS
<1> SUFFICES /\ PlacedIn(rest, next, t) /\ next[p] = 0
             /\ \A q \in Networks : q # p =>
                   /\ pg[q] = 0 => next[q] = 0
                   /\ pg[q] \in DOMAIN pgs =>
                         next[q] \in DOMAIN rest /\ rest[next[q]].rows = pgs[pg[q]].rows
  BY <1>t
<1>1. /\ Pages(pgs) /\ pg \in [Networks -> Nat] /\ DOMAIN pgs = 1..Len(pgs)
      /\ \A i \in DOMAIN pgs : pgs[i].protocol \in Networks
      /\ \A i \in DOMAIN pgs : i # pg[pgs[i].protocol] => pgs[i].rows = <<>>
      /\ \A q \in Networks : pg[q] = 0 \/ (pg[q] \in DOMAIN pgs /\ pgs[pg[q]].protocol = q)
  BY PageTypes DEF PlacedIn
<1>2. n # 0 /\ pgs[n].protocol = p
  BY <1>1, <1>n
<1>3. /\ Pages(rest) /\ DOMAIN rest = DOMAIN pgs
      /\ \A i \in DOMAIN pgs : /\ rest[i].protocol = pgs[i].protocol
                               /\ rest[i].rows = IF i = n THEN none ELSE pgs[i].rows
  <2>1. n \in DOMAIN pgs /\ rest = Filled(pgs, n, none) /\ Pages(pgs)
    BY <1>1, <1>e, <1>n
  <2> QED
    BY <2>1, PageFilled
<1>4. next = [q \in Networks |-> IF q = p THEN 0 ELSE pg[q]]
  BY <1>n DEF Repointed
<1>5. /\ next \in [Networks -> Nat] /\ next[p] = 0
      /\ \A q \in Networks : q # p => next[q] = pg[q]
  BY <1>1, <1>4
<1>6. ASSUME NEW i \in DOMAIN rest, i # next[rest[i].protocol] PROVE rest[i].rows = <<>>
  <2>1. CASE i = n
    BY <1>3, <1>e, <2>1
  <2>2. CASE i # n
    <3>1. pgs[i].protocol # p => i # pg[pgs[i].protocol]
      BY <1>1, <1>3, <1>5, <1>6
    <3>2. i # pg[pgs[i].protocol] /\ i \in DOMAIN pgs
      BY <1>3, <1>n, <2>2, <3>1
    <3>3. pgs[i].rows = <<>>
      BY <1>1, <3>2
    <3> QED
      BY <1>3, <2>2, <3>3
  <2> QED
    BY <2>1, <2>2
<1>7. \A q \in Networks : next[q] = 0 \/ (next[q] \in DOMAIN rest /\ rest[next[q]].protocol = q)
  BY <1>1, <1>3, <1>5
<1>8. PlacedIn(rest, next, t)
  BY <1>3, <1>5, <1>6, <1>7 DEF PlacedIn
<1>9. \A q \in Networks : q # p /\ pg[q] \in DOMAIN pgs => pg[q] # n
  BY <1>1, <1>2
<1> QED
  BY <1>3, <1>5, <1>8, <1>9

(* Either way the others keep what they show.                              *)
LEMMA PageGone ==
    ASSUME NEW pgs, NEW pg, NEW t, PlacedIn(pgs, pg, t), NEW p \in Networks, pg[p] \in DOMAIN pgs
    PROVE  LET rest == Rest(pgs, pg[p], t)
               next == Repointed(rest, pg, t, p)
           IN  /\ PlacedIn(rest, next, t) /\ next[p] = 0
               /\ \A q \in Networks : q # p =>
                     /\ pg[q] = 0 => next[q] = 0
                     /\ pg[q] \in DOMAIN pgs =>
                           next[q] \in DOMAIN rest /\ rest[next[q]].rows = pgs[pg[q]].rows
BY RowGone, PageLeft

(* A protocol leaves, with its page, its icon and its contacts; a refresh  *)
(* that waits for it will never go on.                                     *)
LEMMA UnregisterRight ==
    ASSUME UserAssumption, Calls(waits), ShownInv, NEW p \in Networks, Unregister(p)
    PROVE  Right'
<1> USE DEF contacts, view, status
<1>1. viewFault = "none" /\ p \in Known
  BY DEF Unregister, Dispatches, Works
<1>2. CASE ~HasPage(p)
  BY <1>1, <1>2, Pageless, FaultRight DEF Unregister
<1>3. CASE Faults("hang")
  BY <1>3, FaultRight
<1>4. CASE HasPage(p) /\ ~Faults("hang")
  <2> DEFINE st == Spoils(waits, LAMBDA f : f.protocol = p)
  <2>1. /\ pages' = Rest(pages, page[p], tree)
        /\ page' = Repointed(Rest(pages, page[p], tree), page, tree, p)
        /\ known' = RemoveFirst(known, p)
        /\ userlist' = [userlist EXCEPT ![p] = {}]
        /\ online' = Others(p, online) /\ blanked' = Others(p, blanked) /\ up' = up \ {p}
        /\ statusIcon' = [statusIcon EXCEPT ![p] = "none"]
        /\ boxes' = [boxes EXCEPT ![p] = IF statusIcon[p] = "none" THEN @ ELSE @ - 1]
        /\ waits' = st
        /\ UNCHANGED <<config, tree, viewFault>>
    BY <1>4, Zenon DEF Unregister, Rest, Repointed, LastRow, WithRows, Filled
  <2>2. /\ DOMAIN st = DOMAIN waits
        /\ \A k \in DOMAIN waits :
              /\ st[k].at = waits[k].at /\ st[k].protocol = waits[k].protocol
              /\ st[k].status = waits[k].status
              /\ st[k].stale = (waits[k].stale \/ waits[k].protocol = p)
    <3> DEFINE hit == [i \in DOMAIN waits |-> waits[i].protocol = p]
    <3>1. /\ hit \in [DOMAIN waits -> BOOLEAN]
          /\ \A i \in DOMAIN waits : hit[i] = (waits[i].protocol = p)
      OBVIOUS
    <3> HIDE DEF hit
    <3>2. st = Spoiled(waits, hit)
      BY <3>1, Zenon DEF Spoils, Spoiled
    <3> HIDE DEF st
    <3>3. /\ DOMAIN st = DOMAIN waits
          /\ \A k \in DOMAIN waits :
                /\ st[k].at = waits[k].at /\ st[k].protocol = waits[k].protocol
                /\ st[k].status = waits[k].status
                /\ st[k].stale = (waits[k].stale \/ hit[k])
      BY <3>1, <3>2, SpoiledBuilding
    <3> QED
      BY <3>1, <3>3
  <2> HIDE DEF st
  <2>3. /\ DOMAIN waits' = DOMAIN waits
        /\ \A k \in DOMAIN waits :
              /\ waits'[k].protocol = waits[k].protocol /\ waits'[k].status = waits[k].status
              /\ waits'[k].stale = (waits[k].stale \/ waits[k].protocol = p)
        /\ \A k : /\ Building(waits', k) <=> Building(waits, k)
                  /\ Refreshes(waits', k) <=> Refreshes(waits, k)
                  /\ Registers(waits', k) <=> Registers(waits, k)
    BY <2>1, <2>2 DEF Building, Refreshes, Registers
  <2>4. Doomed => Doomed'
    BY <2>3 DEF Doomed, Refreshes
  <2>5. ASSUME NEW k \in DOMAIN waits, Refreshes(waits, k), waits[k].protocol = p PROVE Doomed'
    BY <2>3, <2>5 DEF Doomed
  <2>6. Nested /\ known \in Seq(Networks) /\ Distinct(known)
    BY DEF ShownInv, Nested
  <2>7. PICK m \in DOMAIN known : known[m] = p
    BY <1>1 DEF Known, ToSet
  <2>8. Len(known) \in Nat /\ DOMAIN known = 1..Len(known) /\ \A j \in DOMAIN known : known[j] \in Networks
    BY <2>6, LenProperties, ElementOfSeq
  <2>9. /\ known' \in Seq(Networks) /\ DOMAIN known' = 1..(Len(known) - 1)
        /\ \A j \in 1..(Len(known) - 1) : known'[j] = IF j < m THEN known[j] ELSE known[j + 1]
    <3>1. known' = RemoveAt(known, m)
      BY <2>1, <2>6, <2>7, RemovedFirst
    <3> QED
      BY <2>6, <3>1, RemovedEntries
  <2>10. ASSUME NEW j \in DOMAIN known'
         PROVE  \E o \in DOMAIN known : o = (IF j < m THEN j ELSE j + 1) /\ known'[j] = known[o] /\ o # m
    BY <2>8, <2>9
  <2>11. Distinct(known')
    <3> SUFFICES ASSUME NEW i \in DOMAIN known', NEW j \in DOMAIN known', known'[i] = known'[j]
                 PROVE  i = j
      BY DEF Distinct
    <3>1. (IF i < m THEN i ELSE i + 1) = (IF j < m THEN j ELSE j + 1)
      BY <2>6, <2>10 DEF Distinct
    <3> QED
      BY <2>8, <2>9, <3>1
  <2>12. Known' = Known \ {p}
    <3>1. Known = {known[j] : j \in DOMAIN known} /\ Known' = {known'[j] : j \in DOMAIN known'}
      BY DEF Known, ToSet
    <3>2. ASSUME NEW q \in Known' PROVE q \in Known /\ q # p
      BY <2>6, <2>7, <2>10, <3>1 DEF Distinct
    <3>3. ASSUME NEW q \in Known, q # p PROVE q \in Known'
      <4>1. PICK o \in DOMAIN known : known[o] = q /\ o # m
        BY <2>7, <3>1, <3>3
      <4>2. CASE o < m
        <5>1. o \in 1..(Len(known) - 1) /\ known'[o] = known[o]
          BY <2>8, <2>9, <4>2
        <5> QED
          BY <2>9, <3>1, <4>1, <5>1
      <4>3. CASE ~(o < m)
        <5>1. o - 1 \in 1..(Len(known) - 1) /\ ~(o - 1 < m) /\ (o - 1) + 1 = o
          BY <2>8, <4>1, <4>3
        <5>2. known'[o - 1] = known[o]
          BY <2>9, <5>1
        <5> QED
          BY <2>9, <3>1, <4>1, <5>1, <5>2
      <4> QED
        BY <4>2, <4>3
    <3> QED
      BY <3>2, <3>3
  <2>13. Nested'
    <3>1. \A k, l \in DOMAIN waits' : Refreshes(waits', k) /\ Building(waits', l) => k = l
      BY <2>3, <2>6 DEF Nested
    <3>2. \A k, l \in DOMAIN waits' :
             Registers(waits', k) /\ Registers(waits', l) /\ waits'[k].protocol = waits'[l].protocol => k = l
      BY <2>3, <2>6 DEF Nested
    <3>3. \A k \in DOMAIN waits' :
             Registers(waits', k) => waits'[k].protocol \in Networks \ Known' /\ ~waits'[k].status
      BY <2>3, <2>6, <2>12 DEF Nested
    <3> QED
      BY <2>9, <2>11, <3>1, <3>2, <3>3 DEF Nested
  <2>14. viewFault' = "none"
    BY <1>1, <2>1
  <2>15. ASSUME Agrees, \A k \in DOMAIN waits : Refreshes(waits, k) => waits[k].protocol # p
         PROVE  Agrees'
    <3>1. ViewTypes /\ Placed /\ Unlisted /\ Awaits /\ Settled
      BY <2>15 DEF Agrees
    <3>2. /\ PlacedIn(pages', page', tree) /\ page'[p] = 0
          /\ \A q \in Networks : q # p =>
                /\ page[q] = 0 => page'[q] = 0
                /\ page[q] \in DOMAIN pages =>
                      page'[q] \in DOMAIN pages' /\ pages'[page'[q]].rows = pages[page[q]].rows
      <4>1. PlacedIn(pages, page, tree) /\ page[p] \in DOMAIN pages
        BY <1>4, <3>1, PlacedNow DEF HasPage
      <4>2. LET rest == Rest(pages, page[p], tree)
                next == Repointed(rest, page, tree, p)
            IN  /\ PlacedIn(rest, next, tree) /\ next[p] = 0
                /\ \A q \in Networks : q # p =>
                      /\ page[q] = 0 => next[q] = 0
                      /\ page[q] \in DOMAIN pages =>
                            next[q] \in DOMAIN rest /\ rest[next[q]].rows = pages[page[q]].rows
        BY <4>1, PageGone
      <4> QED
        BY <2>1, <4>2
    <3>3. Placed' /\ Pages(pages') /\ page' \in [Networks -> Nat]
      BY <2>1, <3>2, PlacedNext
    <3>4. \A q \in Networks : q # p /\ page[q] # 0 => page'[q] # 0 /\ page[q] \in DOMAIN pages
      <4>1. \A q \in Networks : q # p /\ page[q] # 0 => page[q] \in DOMAIN pages /\ page'[q] \in DOMAIN pages'
        BY <3>1, <3>2 DEF Placed, HasPage
      <4>2. \A i \in DOMAIN pages' : i # 0
        BY <3>3, PageTypes
      <4> QED
        BY <4>1, <4>2
    <3>6. ASSUME NEW k \in DOMAIN waits, Refreshes(waits, k)
          PROVE  \E q \in Networks : /\ q = waits[k].protocol /\ q # p /\ waits[k].status = (q \in up)
                                     /\ \E n \in DOMAIN known : Halfway(q, n) /\ m < n
      <4>1. PICK q : q = waits[k].protocol /\ q # p
        BY <2>15, <3>6
      <4>2. waits[k].status = (q \in up) /\ \E n \in DOMAIN known : Halfway(q, n)
        BY <3>1, <3>6, <4>1 DEF Awaits, AwaitsAt
      <4>3. PICK n \in DOMAIN known : Halfway(q, n)
        BY <4>2
      <4>4. known[n] = q /\ q \in Networks /\ m # n
        BY <2>7, <2>8, <4>1, <4>3 DEF Halfway
      <4>5. ~(m > n)
        <5>1. m > n => page[known[m]] = 0
          BY <4>3 DEF Halfway
        <5>2. page[p] # 0
          BY <1>4, <3>1, PageTypes DEF HasPage, ViewTypes
        <5> QED
          BY <2>7, <5>1, <5>2
      <4> QED
        BY <2>8, <4>1, <4>2, <4>3, <4>4, <4>5
    <3>7. Iconed(p)
      <4>1. CASE \E k \in DOMAIN waits : Refreshes(waits, k)
        <5>1. PICK k \in DOMAIN waits : Refreshes(waits, k)
          BY <4>1
        <5>2. PICK q \in Networks, n \in DOMAIN known : Halfway(q, n) /\ m < n
          BY <3>6, <5>1
        <5>3. Iconed(known[m])
          BY <5>2 DEF Halfway
        <5> QED
          BY <2>7, <5>3
      <4>2. CASE \A k \in DOMAIN waits : ~Refreshes(waits, k)
        BY <1>1, <3>1, <4>2 DEF Settled
      <4> QED
        BY <4>1, <4>2
    <3>8. /\ statusIcon' \in [Networks -> {"none", "online", "offline"}]
          /\ boxes' \in [Networks -> Nat] /\ Bare(p)'
          /\ \A q \in Networks : q # p => boxes'[q] = boxes[q] /\ statusIcon'[q] = statusIcon[q]
      BY <2>1, <3>1, <3>7 DEF ViewTypes, Iconed, Bare
    <3>9. /\ userlist' \in [Networks -> SUBSET Contacts] /\ userlist'[p] = {}
          /\ \A q \in Networks : q # p => userlist'[q] = userlist[q]
      BY <2>1, <3>1 DEF ViewTypes
    <3>10. ViewTypes'
      <4>1. ASSUME NEW q \in Networks, NEW c \in userlist'[q] PROVE Of[c] = q
        BY <3>1, <3>9, <4>1 DEF ViewTypes
      <4> QED
        BY <2>9, <2>11, <3>3, <3>8, <3>9, <4>1 DEF ViewTypes
    <3>11. ASSUME NEW q \in Networks, q # p
           PROVE  /\ Bare(q) => Bare(q)'
                  /\ Iconed(q) => Iconed(q)'
                  /\ Shown(q) => Shown(q)'
                  /\ q \in up' <=> q \in up
      <4>1. boxes'[q] = boxes[q] /\ statusIcon'[q] = statusIcon[q] /\ (q \in up' <=> q \in up)
        BY <2>1, <3>8, <3>11
      <4>2. ASSUME Shown(q) PROVE Shown(q)'
        <5>1. userlist'[q] = userlist[q] /\ config' = config
          BY <2>1, <3>9, <3>11
        <5>2. \A c \in userlist[q] : c \in Seen' <=> c \in Seen
          BY <2>1, <3>1, <3>11 DEF ViewTypes, Seen, Others
        <5>3. page'[q] \in DOMAIN pages' /\ pages'[page'[q]].rows = pages[page[q]].rows
          BY <3>2, <3>11, <4>2 DEF Shown, HasPage
        <5> QED
          BY <4>2, <5>1, <5>2, <5>3, ShownKept
      <4> QED
        BY <4>1, <4>2 DEF Bare, Iconed
    <3>12. Unlisted'
      <4> SUFFICES ASSUME NEW q \in Networks, q \notin Known \/ q = p
                   PROVE  /\ Bare(q)' /\ userlist'[q] = {} /\ q \notin up'
                          /\ page'[q] # 0 =>
                                /\ tree' /\ pages'[page'[q]].rows = <<>>
                                /\ \E k \in DOMAIN waits' : Registers(waits', k) /\ waits'[k].protocol = q
        BY <2>12 DEF Unlisted
      <4>1. CASE q = p
        BY <2>1, <3>2, <3>8, <3>9, <4>1
      <4>2. CASE q # p
        <5>1. /\ Bare(q) /\ userlist[q] = {} /\ q \notin up
              /\ page[q] # 0 => /\ tree /\ pages[page[q]].rows = <<>>
                                /\ \E k \in DOMAIN waits : Registers(waits, k) /\ waits[k].protocol = q
          BY <3>1, <4>2 DEF Unlisted
        <5>2. Bare(q)' /\ userlist'[q] = {} /\ q \notin up'
          BY <3>9, <3>11, <4>2, <5>1
        <5>3. ASSUME page'[q] # 0
              PROVE  /\ tree' /\ pages'[page'[q]].rows = <<>>
                     /\ \E k \in DOMAIN waits' : Registers(waits', k) /\ waits'[k].protocol = q
          <6>1. page[q] # 0 /\ page[q] \in DOMAIN pages
            BY <3>2, <3>4, <4>2, <5>3
          <6>2. tree' /\ pages'[page'[q]].rows = <<>>
            BY <2>1, <3>2, <4>2, <5>1, <6>1
          <6>3. \E k \in DOMAIN waits' : Registers(waits', k) /\ waits'[k].protocol = q
            BY <2>3, <5>1, <6>1
          <6> QED
            BY <6>2, <6>3
        <5> QED
          BY <5>2, <5>3
      <4> QED
        BY <4>1, <4>2
    <3>13. Awaits'
      <4> SUFFICES ASSUME NEW k \in DOMAIN waits' PROVE AwaitsAt(k)'
        BY DEF Awaits
      <4>1. ASSUME Registers(waits', k), tree' PROVE page'[waits'[k].protocol] # 0
        <5>1. PICK q : q = waits[k].protocol
          OBVIOUS
        <5>2. k \in DOMAIN waits /\ Registers(waits, k) /\ waits'[k].protocol = q
          BY <2>3, <4>1, <5>1
        <5>3. q \in Networks \ Known
          BY <2>6, <5>1, <5>2 DEF Nested
        <5>4. q # p /\ page[q] # 0
          BY <1>1, <2>1, <3>1, <4>1, <5>1, <5>2, <5>3 DEF Awaits, AwaitsAt
        <5> QED
          BY <3>4, <5>2, <5>3, <5>4
      <4>2. ASSUME Refreshes(waits', k)
            PROVE  \E q \in Networks : /\ q = waits'[k].protocol
                                       /\ waits'[k].status = (q \in up')
                                       /\ \E n \in DOMAIN known' : Halfway(q, n)'
        <5>1. k \in DOMAIN waits /\ Refreshes(waits, k)
          BY <2>3, <4>2
        <5>2. PICK q \in Networks : /\ q = waits[k].protocol /\ q # p /\ waits[k].status = (q \in up)
                                    /\ \E n \in DOMAIN known : Halfway(q, n) /\ m < n
          BY <3>6, <5>1
        <5>3. PICK n \in DOMAIN known : Halfway(q, n) /\ m < n
          BY <5>2
        <5>4. PICK l : l = n - 1
          OBVIOUS
        <5>5. l \in DOMAIN known' /\ known'[l] = q
          <6>1. l \in 1..(Len(known) - 1) /\ ~(l < m) /\ l + 1 = n
            BY <2>8, <5>3, <5>4
          <6>2. known[n] = q
            BY <5>3 DEF Halfway
          <6> QED
            BY <2>9, <6>1, <6>2
        <5>6. Bare(q)' /\ (tree' => page'[q] # 0) /\ (~tree' => page'[q] = 0)
          <6>1. Bare(q) /\ (tree => page[q] # 0) /\ (~tree => page[q] = 0)
            BY <5>3 DEF Halfway
          <6>2. Bare(q)' /\ (page[q] = 0 => page'[q] = 0) /\ (page[q] # 0 => page'[q] # 0)
            BY <3>2, <3>4, <3>11, <5>2, <6>1
          <6> QED
            BY <2>1, <6>1, <6>2
        <5>7. ASSUME NEW j \in DOMAIN known'
              PROVE  /\ j < l => Shown(known[j])' /\ Iconed(known[j])'
                     /\ j > l => (page[known[j]] = 0)' /\ Iconed(known[j])'
          <6>1. PICK o \in DOMAIN known : o = (IF j < m THEN j ELSE j + 1) /\ known'[j] = known[o] /\ o # m
            BY <2>10
          <6>2. PICK r \in Networks : r = known[o]
            BY <2>8
          <6>3. known'[j] = r /\ r # p
            BY <2>6, <2>7, <6>1, <6>2 DEF Distinct
          <6>4. /\ o < n => Shown(r) /\ Iconed(r)
                /\ o > n => page[r] = 0 /\ Iconed(r)
            BY <5>3, <6>2 DEF Halfway
          <6>5. /\ o < n => Shown(r)' /\ Iconed(r)'
                /\ o > n => page'[r] = 0 /\ Iconed(r)'
            BY <3>2, <3>11, <6>3, <6>4
          <6>6. (j < l => o < n) /\ (j > l => o > n)
            BY <2>8, <2>9, <5>3, <5>4, <6>1
          <6> QED
            BY <6>3, <6>5, <6>6
        <5>8. Halfway(q, l)'
          BY <5>5, <5>6, <5>7 DEF Halfway
        <5>9. waits'[k].protocol = q /\ waits'[k].status = (q \in up')
          BY <2>3, <3>11, <5>1, <5>2
        <5> QED
          BY <5>5, <5>8, <5>9
      <4> QED
        BY <4>1, <4>2 DEF AwaitsAt
    <3>14. Settled'
      <4> SUFFICES ASSUME \A k \in DOMAIN waits' : ~Refreshes(waits', k), NEW q \in Known, q # p
                   PROVE  Shown(q)' /\ Iconed(q)'
        BY <2>12 DEF Settled
      <4>1. \A k \in DOMAIN waits : ~Refreshes(waits, k)
        BY <2>3
      <4>2. Shown(q) /\ Iconed(q) /\ q \in Networks
        BY <3>1, <4>1, KnownNetworks DEF Settled
      <4> QED
        BY <3>11, <4>2
    <3> QED
      BY <3>3, <3>10, <3>12, <3>13, <3>14 DEF Agrees
  <2>16. Doomed' \/ Agrees'
    BY <2>4, <2>5, <2>15 DEF ShownInv
  <2> QED
    BY <2>13, <2>14, <2>16 DEF ShownInv, Right
<1> QED
  BY <1>2, <1>3, <1>4

(* No step is taken after a fault, and what overlapped remains known.      *)
LEMMA StepWorks ==
    ASSUME ViewNext
    PROVE  Works /\ odd \subseteq odd'
<1> USE DEF contacts, view, status
<1>0. ASSUME NEW kind, Faults(kind) PROVE odd' = odd
  BY <1>0 DEF Faults
<1>1. ASSUME NEW p, NEW cs, ListChanges(p, cs) PROVE Works /\ odd' = odd
  BY <1>0, <1>1 DEF ListChanges, Dispatches
<1>2. ASSUME NEW c, AddContact(c) \/ RemoveContact(c) PROVE Works /\ odd' = odd
  BY <1>1, <1>2 DEF AddContact, RemoveContact
<1>3. ASSUME NEW c, NEW on, ContactChanges(c, on) PROVE Works /\ odd' = odd
  BY <1>0, <1>3 DEF ContactChanges, Dispatches
<1>4. ASSUME NEW p, StatusChanged(p) PROVE Works /\ odd \subseteq odd'
  BY <1>4 DEF StatusChanged, ShowsStatus, Dispatches
<1>5. ASSUME NEW p, Disconnected(p) PROVE Works /\ odd \subseteq odd'
  BY <1>0, <1>5 DEF Disconnected, ShowsStatus, Dispatches
<1>6. ASSUME NEW p, WantsOffline(p) \/ WantsOnline(p) PROVE Works /\ odd \subseteq odd'
  BY <1>6 DEF WantsOffline, WantsOnline, Dispatches
<1>7. ASSUME NEW p, Register(p) PROVE Works /\ odd \subseteq odd'
  BY <1>7 DEF Register, Dispatches
<1>8. ASSUME NEW p, Unregister(p) PROVE Works /\ odd' = odd
  BY <1>0, <1>8 DEF Unregister, Dispatches
<1>9. ASSUME NotifyEnds \/ Blinks \/ BlinksGone PROVE Works /\ odd' = odd
  BY <1>0, <1>9 DEF NotifyEnds, Blinks, BlinksGone, At, Dispatches
<1>10. ASSUME Registered \/ RefreshGoesOn PROVE Works /\ odd' = odd
  BY <1>0, <1>10 DEF Registered, RefreshGoesOn, At
<1>11. ASSUME NEW c, Refresh(c) PROVE Works /\ odd \subseteq odd'
  BY <1>11 DEF Refresh, Dispatches
<1>12. ASSUME ShowHideInactive \/ Preferences PROVE Works /\ odd \subseteq odd'
  BY <1>11, <1>12 DEF ShowHideInactive, Preferences
<1> QED
  BY <1>2, <1>3, <1>4, <1>5, <1>6, <1>7, <1>8, <1>9, <1>10, <1>12 DEF ViewNext

(* Each step keeps what is shown right.                                    *)
LEMMA ViewStep ==
    ASSUME UserAssumption, BlinkInv, ViewInv, [ViewNext]_viewVars
    PROVE  ViewInv'
<1>1. Calls(waits)
  BY DEF BlinkInv, BlinkTypes
<1>2. CASE UNCHANGED viewVars
  <2> SUFFICES ASSUME Right PROVE Right'
    BY <1>2 DEF ViewInv, Overlaps, viewVars
  <2>1. CASE viewFault # "none"
    BY <1>2, <2>1 DEF Right, viewVars
  <2>2. CASE viewFault = "none"
    <3>1. ShownInv /\ SameBuilding(waits', waits) /\ known' = known /\ viewFault' = "none"
      BY <1>2, <2>2, SameIsSame DEF Right, viewVars
    <3>2. Agrees => Agrees'
      BY <1>2, <3>1, AgreesRests DEF viewVars, contacts, view, status, Seen
    <3> QED
      BY <3>1, <3>2, KeptRight
  <2> QED
    BY <2>1, <2>2
<1>3. CASE ViewNext /\ ~Overlaps'
  <2>1. Works /\ odd \subseteq odd'
    BY <1>3, StepWorks
  <2>2. ShownInv
    BY <1>3, <2>1 DEF ViewInv, Right, Overlaps, Works
  <2>3. ASSUME NEW c \in Contacts, AddContact(c) \/ RemoveContact(c) PROVE Right'
    <3>1. PICK p \in Networks : p = Of[c]
      BY DEF UserAssumption
    <3>2. PICK cs : /\ cs = userlist[p] \cup {c} \/ cs = userlist[p] \ {c}
                    /\ ListChanges(p, cs)
      BY <2>3, <3>1 DEF AddContact, RemoveContact
    <3>3. Agrees => cs \in SUBSET Contacts /\ \A d \in cs \ userlist[p] : Of[d] = p
      BY <3>1, <3>2 DEF Agrees, ViewTypes
    <3> QED
      BY <1>1, <2>2, <3>2, <3>3, ListRight
  <2>4. ASSUME NEW c \in Contacts, NEW on \in BOOLEAN, ContactChanges(c, on) PROVE Right'
    BY <1>1, <2>2, <2>4, ContactRight
  <2>5. ASSUME NEW p \in Networks,
               StatusChanged(p) \/ Disconnected(p) \/ WantsOffline(p) \/ WantsOnline(p)
               \/ Register(p) \/ Unregister(p)
        PROVE  Right'
    BY <1>1, <1>3, <2>2, <2>5, StatusRight, DisconnectedRight, OtherRight, RegisterRight,
       UnregisterRight
  <2>6. ASSUME NotifyEnds \/ Blinks \/ BlinksGone \/ Registered \/ RefreshGoesOn PROVE Right'
    BY <1>1, <2>2, <2>6, OtherRight, RegisteredRight, GoesOnRight
  <2>7. ASSUME ShowHideInactive \/ Preferences PROVE Right'
    <3>1. PICK c : Refresh(c)
      BY <2>7 DEF ShowHideInactive, Preferences
    <3> QED
      BY <1>1, <1>3, <2>2, <3>1, RefreshRight
  <2>8. Right'
    BY <1>3, <2>3, <2>4, <2>5, <2>6, <2>7 DEF ViewNext
  <2> QED
    BY <2>8 DEF ViewInv
<1>4. CASE ViewNext /\ Overlaps'
  BY <1>4 DEF ViewInv
<1> QED
  BY <1>2, <1>3, <1>4

(* At first there is nothing to show.                                      *)
LEMMA ViewBegins ==
    ASSUME UserAssumption, ViewInit
    PROVE  ViewInv
<1>1. DOMAIN waits = {} /\ DOMAIN known = {} /\ DOMAIN pages = {} /\ Known = {}
  BY DEF ViewInit, Known, ToSet
<1>2. \A k : ~Refreshes(waits, k) /\ ~Registers(waits, k) /\ ~Building(waits, k)
  BY <1>1 DEF Refreshes, Registers, Building
<1>3. known \in Seq(Networks) /\ Distinct(known)
  BY <1>1, EmptySeq DEF ViewInit, Distinct
<1>4. Nested
  BY <1>1, <1>3 DEF Nested
<1>5. Pages(pages)
  BY EmptySeq DEF ViewInit, Pages
<1>6. ViewTypes
  BY <1>3, <1>5 DEF ViewInit, ViewTypes
<1>7. Placed
  BY <1>1 DEF ViewInit, Placed
<1>8. Unlisted
  BY DEF ViewInit, Unlisted, Bare
<1>9. Awaits /\ Settled
  BY <1>1 DEF Awaits, Settled
<1> QED
  BY <1>4, <1>6, <1>7, <1>8, <1>9 DEF ViewInit, ViewInv, Right, ShownInv, Agrees

(* What is invariant implies what is promised.                             *)
LEMMA ViewShows ==
    ASSUME ViewInv
    PROVE  ViewFollows
<1> SUFFICES ASSUME odd \subseteq {"blink"}
             PROVE  /\ viewFault \in {"none", "gone", "hang"} \/ waits # <<>>
                    /\ viewFault = "none" /\ waits = <<>> =>
                          \A p \in Known :
                             /\ HasPage(p) /\ boxes[p] = 1
                             /\ statusIcon[p] = IF p \in up THEN "online" ELSE "offline"
                             /\ \A i \in DOMAIN pages :
                                   pages[i].protocol = p =>
                                       pages[i].rows = IF i = page[p] THEN Wanted(userlist[p], Seen)
                                                       ELSE <<>>
  BY DEF ViewFollows
<1>1. Right
  BY DEF ViewInv, Overlaps
<1>2. viewFault \in {"none", "gone", "hang"} \/ waits # <<>>
  BY <1>1 DEF Right
<1>3. ASSUME viewFault = "none", waits = <<>>, NEW p \in Known
      PROVE  /\ HasPage(p) /\ boxes[p] = 1
             /\ statusIcon[p] = IF p \in up THEN "online" ELSE "offline"
             /\ \A i \in DOMAIN pages :
                   pages[i].protocol = p =>
                       pages[i].rows = IF i = page[p] THEN Wanted(userlist[p], Seen) ELSE <<>>
  <2>1. DOMAIN waits = {}
    BY <1>3
  <2>2. Placed /\ Settled
    BY <1>1, <1>3, <2>1 DEF Right, ShownInv, Doomed, Agrees
  <2>3. Shown(p) /\ Iconed(p)
    BY <2>1, <2>2 DEF Settled
  <2>4. ASSUME NEW i \in DOMAIN pages, pages[i].protocol = p
        PROVE  /\ i = page[p] => pages[i].rows = Wanted(userlist[p], Seen)
               /\ i # page[p] => pages[i].rows = <<>>
    BY <2>2, <2>3, <2>4 DEF Placed, Shown
  <2> QED
    BY <2>3, <2>4 DEF Shown, Iconed
<1> QED
  BY <1>2, <1>3

(* Between the callbacks the main window shows every protocol once, with   *)
(* its status and exactly the contacts to be seen, for any nesting of the  *)
(* emissions that build it, unless a refresh is begun while the view is    *)
(* built, or the status changes of a protocol whose icon is being built.   *)
(* Contacts that are online when their network says it was disconnected    *)
(* are blanked until they are told of again: the defect ViewFollows names. *)
THEOREM ViewCorrect == UserAssumption => (ViewSpec => []ViewFollows)
<1> SUFFICES ASSUME UserAssumption PROVE ViewSpec => []ViewFollows
  OBVIOUS
<1>1. ViewInit => BlinkInv /\ ViewInv
  BY BlinkBegins, ViewBegins
<1>2. BlinkInv /\ ViewInv /\ [ViewNext]_viewVars => (BlinkInv /\ ViewInv)'
  BY BlinkStep, ViewStep
<1>3. ViewInv => ViewFollows
  BY ViewShows
<1> QED
  BY <1>1, <1>2, <1>3, PTL DEF ViewSpec
=============================================================================
