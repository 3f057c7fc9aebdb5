------------------------------ MODULE RepoProof ------------------------------
(***************************************************************************)
(* Proofs about the repository, for any tables, keys, callbacks and        *)
(* requests and any depth of nested operations, and about the contacts of  *)
(* the Tlen plugin, which it lists, for any contacts and bounds.           *)
(***************************************************************************)
EXTENDS Repo, TlenContacts, SequenceTheorems, FiniteSetTheorems, TLAPS

(* What is left of a sequence when entry i is removed.                     *)
LEMMA RemovedEntries ==
    ASSUME NEW S, NEW s \in Seq(S), NEW i \in DOMAIN s
    PROVE  /\ RemoveAt(s, i) \in Seq(S)
           /\ DOMAIN RemoveAt(s, i) = 1..(Len(s) - 1)
           /\ \A j \in 1..(Len(s) - 1) : RemoveAt(s, i)[j] = IF j < i THEN s[j] ELSE s[j + 1]
<1> DEFINE a == SubSeq(s, 1, i - 1)
           b == SubSeq(s, i + 1, Len(s))
<1>1. Len(s) \in Nat /\ i \in 1..Len(s) /\ \A j \in 1..Len(s) : s[j] \in S
  BY LenProperties, ElementOfSeq
<1>2. a \in Seq(S) /\ Len(a) = i - 1 /\ \A j \in 1..(i - 1) : a[j] = s[j]
  BY <1>1, SubSeqProperties
<1>3. b \in Seq(S) /\ Len(b) = Len(s) - i /\ \A j \in 1..(Len(s) - i) : b[j] = s[i + j]
  BY <1>1, SubSeqProperties
<1> HIDE DEF a, b
<1>4. /\ a \o b \in Seq(S) /\ Len(a \o b) = Len(s) - 1
      /\ \A j \in 1..(Len(s) - 1) : (a \o b)[j] = IF j <= i - 1 THEN a[j] ELSE b[j - (i - 1)]
  <2>1. Len(a) + Len(b) = Len(s) - 1
    BY <1>1, <1>2, <1>3
  <2>2. /\ a \o b \in Seq(S) /\ Len(a \o b) = Len(a) + Len(b)
        /\ \A j \in 1..(Len(a) + Len(b)) : (a \o b)[j] = IF j <= Len(a) THEN a[j] ELSE b[j - Len(a)]
    BY <1>2, <1>3, ConcatProperties
  <2> QED
    BY <1>2, <2>1, <2>2
<1>5. RemoveAt(s, i) = a \o b
  BY DEF RemoveAt, a, b
<1>6. DOMAIN (a \o b) = 1..(Len(s) - 1)
  BY <1>4, LenProperties
<1>7. ASSUME NEW j \in 1..(Len(s) - 1)
      PROVE  (a \o b)[j] = IF j < i THEN s[j] ELSE s[j + 1]
  <2>1. CASE j < i
    BY <1>1, <1>2, <1>4, <2>1
  <2>2. CASE ~(j < i)
    <3>1. j - (i - 1) \in 1..(Len(s) - i) /\ i + (j - (i - 1)) = j + 1
      BY <1>1, <2>2
    <3>2. (a \o b)[j] = b[j - (i - 1)]
      <4>1. ~(j <= i - 1)
        BY <1>1, <2>2
      <4> QED
        BY <1>4, <4>1
    <3>3. b[j - (i - 1)] = s[i + (j - (i - 1))]
      BY <1>3, <3>1
    <3> QED
      BY <2>2, <3>1, <3>2, <3>3
  <2> QED
    BY <2>1, <2>2
<1> QED
  BY <1>4, <1>5, <1>6, <1>7

-----------------------------------------------------------------------------
(* Keys                                                                    *)

KeysInv == exists \in SUBSET Repos /\ values \in [Repos -> Seq(Keys)] /\ KeysUnique

(* ggadu_repo_add_value appends a key it did not find.                     *)
LEMMA AppendedKey ==
    ASSUME NEW s \in Seq(Keys), IsInjective(s), NEW k \in Keys, k \notin ToSet(s)
    PROVE  Append(s, k) \in Seq(Keys) /\ IsInjective(Append(s, k))
<1>1. Len(s) \in Nat /\ DOMAIN s = 1..Len(s)
  BY LenProperties
<1>2. /\ Append(s, k) \in Seq(Keys) /\ Append(s, k)[Len(s) + 1] = k
      /\ \A i \in 1..Len(s) : Append(s, k)[i] = s[i]
      /\ Len(Append(s, k)) = Len(s) + 1
  BY AppendProperties
<1>3. DOMAIN Append(s, k) = 1..(Len(s) + 1)
  BY <1>2, LenProperties
<1>4. \A i \in 1..Len(s) : s[i] # k
  BY <1>1 DEF ToSet
<1>5. \A i, j \in 1..Len(s) : s[i] = s[j] => i = j
  BY <1>1 DEF IsInjective
<1> QED
  BY <1>1, <1>2, <1>3, <1>4, <1>5 DEF IsInjective

LEMMA RemovedKey ==
    ASSUME NEW s \in Seq(Keys), IsInjective(s), NEW i \in DOMAIN s
    PROVE  RemoveAt(s, i) \in Seq(Keys) /\ IsInjective(RemoveAt(s, i))
<1>1. Len(s) \in Nat /\ i \in 1..Len(s) /\ DOMAIN s = 1..Len(s)
  BY LenProperties
<1>2. \A j, k \in 1..Len(s) : s[j] = s[k] => j = k
  BY <1>1 DEF IsInjective
<1> DEFINE t == RemoveAt(s, i)
<1>3. t \in Seq(Keys) /\ DOMAIN t = 1..(Len(s) - 1)
      /\ \A j \in 1..(Len(s) - 1) : t[j] = IF j < i THEN s[j] ELSE s[j + 1]
  BY RemovedEntries
<1> HIDE DEF t
<1>4. ASSUME NEW j \in 1..(Len(s) - 1), NEW k \in 1..(Len(s) - 1), t[j] = t[k] PROVE j = k
  <2>1. j + 1 \in 1..Len(s) /\ k + 1 \in 1..Len(s) /\ j \in 1..Len(s) /\ k \in 1..Len(s)
    BY <1>1
  <2>2. CASE j < i /\ k < i
    BY <1>2, <1>3, <1>4, <2>1, <2>2
  <2>3. CASE j < i /\ ~(k < i)
    BY <1>1, <1>2, <1>3, <1>4, <2>1, <2>3
  <2>4. CASE ~(j < i) /\ k < i
    BY <1>1, <1>2, <1>3, <1>4, <2>1, <2>4
  <2>5. CASE ~(j < i) /\ ~(k < i)
    BY <1>1, <1>2, <1>3, <1>4, <2>1, <2>5
  <2> QED
    BY <2>2, <2>3, <2>4, <2>5
<1>5. IsInjective(t)
  BY <1>3, <1>4 DEF IsInjective
<1> QED
  BY <1>3, <1>5 DEF t

LEMMA KeysStep == KeysInv /\ [Next]_vars => KeysInv'
<1> SUFFICES ASSUME KeysInv, [Next]_vars PROVE KeysInv'
  OBVIOUS
<1> USE DEF KeysInv
<1>1. CASE UNCHANGED tables
  BY <1>1 DEF tables, KeysUnique
<1>2. ASSUME NEW r \in Tables, RepoAdd(r) PROVE KeysInv'
  BY <1>2 DEF RepoAdd, KeysUnique, Repos
<1>3. ASSUME NEW r \in Repos, NEW k \in Keys, AddValue(r, k) PROVE KeysInv'
  <2>1. r \in exists /\ k \notin ToSet(values[r]) /\ exists' = exists
        /\ values' = [values EXCEPT ![r] = Append(@, k)]
    BY <1>3 DEF AddValue, Present
  <2>2. Append(values[r], k) \in Seq(Keys) /\ IsInjective(Append(values[r], k))
    BY <2>1, AppendedKey DEF KeysUnique
  <2> QED
    BY <2>1, <2>2 DEF KeysUnique
<1>4. CASE ValueDeleted
  <2> DEFINE r == Top.repo
  <2>1. PICK i \in DOMAIN values[r] : values' = [values EXCEPT ![r] = RemoveAt(@, i)]
    BY <1>4 DEF ValueDeleted
  <2>2. exists' = exists
    BY <1>4 DEF ValueDeleted
  <2> HIDE DEF r
  <2>3. CASE r \in Repos
    <3>1. RemoveAt(values[r], i) \in Seq(Keys) /\ IsInjective(RemoveAt(values[r], i))
      BY <2>1, <2>3, RemovedKey DEF KeysUnique
    <3>2. r \in exists
      BY <2>1, <2>3 DEF KeysUnique
    <3> QED
      BY <2>1, <2>2, <2>3, <3>1, <3>2 DEF KeysUnique
  <2>4. CASE r \notin Repos
    BY <2>1, <2>2, <2>4 DEF KeysUnique
  <2> QED
    BY <2>3, <2>4
<1>5. CASE RepoDeleted
  <2> DEFINE r == Top.repo
  <2>1. exists' = exists \ {r} /\ values' = [values EXCEPT ![r] = <<>>]
    BY <1>5 DEF RepoDeleted
  <2>2. <<>> \in Seq(Keys) /\ IsInjective(<<>>)
    BY EmptySeq DEF IsInjective
  <2> HIDE DEF r
  <2> QED
    BY <2>1, <2>2 DEF KeysUnique
<1>6. CASE CallWatch \/ NextLevel \/ CallbackReturns \/ UseAfterFree \/ NotifyReturns \/ WalkBegin
  BY <1>1, <1>6 DEF CallWatch, NextLevel, CallbackReturns, UseAfterFree, NotifyReturns, WalkBegin
<1>7. CASE WalkNext
  BY <1>1, <1>7 DEF WalkNext
<1>8. ASSUME NEW r \in Tables, NEW k \in Keys, ChangeValue(r, k) \/ DelValue(r, k)
      PROVE  KeysInv'
  BY <1>1, <1>8 DEF ChangeValue, DelValue
<1>9. ASSUME NEW q \in Requests, WatchAdd(q) \/ WatchDel(q) PROVE KeysInv'
  BY <1>1, <1>9 DEF WatchAdd, WatchDel
<1>10. ASSUME NEW q \in KeyRequests, WatchValueAdd(q) PROVE KeysInv'
  BY <1>1, <1>10 DEF WatchValueAdd
<1>11. ASSUME NEW r \in Tables, RepoDel(r) PROVE KeysInv'
  BY <1>1, <1>11 DEF RepoDel
<1>12. CASE UNCHANGED vars
  BY <1>1, <1>12 DEF vars, tables
<1> QED
  BY <1>2, <1>3, <1>4, <1>5, <1>6, <1>7, <1>8, <1>9, <1>10, <1>11, <1>12 DEF Next

(* No repo ever holds a key twice, and only repos that are there hold      *)
(* values: ggadu_repo_find_value and ggadu_repo_del_value mean one value,  *)
(* however notifications, scripts and deletions are nested.                *)
THEOREM KeysCorrect == Spec => []KeysUnique
<1>1. Init => KeysInv
  <2> SUFFICES ASSUME Init PROVE KeysInv
    OBVIOUS
  <2>1. <<>> \in Seq(Keys) /\ IsInjective(<<>>)
    BY EmptySeq DEF IsInjective
  <2> QED
    BY <2>1 DEF Init, KeysInv, KeysUnique, Repos
<1>2. KeysInv => KeysUnique
  BY DEF KeysInv
<1> QED
  BY <1>1, <1>2, KeysStep, PTL DEF Spec

-----------------------------------------------------------------------------
(* Watches                                                                 *)

One(ws)  == \A i, j \in DOMAIN ws : ws[i].callback = ws[j].callback => i = j
WatchInv == watches \in [Repos \cup {All} -> Seq(Watch)] /\ OneWatchEach

(* A second request of a callback widens its watch, the first adds one.    *)
LEMMA WidenedOne ==
    ASSUME NEW ws \in Seq(Watch), One(ws), NEW w \in Watch
    PROVE  Widen(ws, w) \in Seq(Watch) /\ One(Widen(ws, w))
<1>1. /\ Len(ws) \in Nat /\ DOMAIN ws = 1..Len(ws) /\ \A i \in 1..Len(ws) : ws[i] \in Watch
  BY LenProperties, ElementOfSeq
<1>2. CASE \E i \in DOMAIN ws : ws[i].callback = w.callback
  <2> DEFINE u(i) == IF ws[i].callback = w.callback
                     THEN [callback |-> w.callback, actions |-> ws[i].actions \cup w.actions,
                           types |-> ws[i].types \cup w.types]
                     ELSE ws[i]
             us == [i \in DOMAIN ws |-> u(i)]
  <2>1. ASSUME NEW i \in 1..Len(ws) PROVE u(i) \in Watch /\ u(i).callback = ws[i].callback
    BY <1>1 DEF Watch
  <2> HIDE DEF u
  <2>2. us \in [1..Len(ws) -> Watch]
    BY <1>1, <2>1
  <2>3. us \in Seq(Watch)
    BY <1>1, <2>2, SeqDef
  <2>4. One(us)
    BY <1>1, <2>1 DEF One
  <2>5. Widen(ws, w) = us
    BY <1>2 DEF Widen, u
  <2> QED
    BY <2>3, <2>4, <2>5
<1>3. CASE ~(\E i \in DOMAIN ws : ws[i].callback = w.callback)
  <2> DEFINE us == Append(ws, w)
  <2>1. /\ us \in Seq(Watch) /\ us[Len(ws) + 1] = w /\ Len(us) = Len(ws) + 1
        /\ \A i \in 1..Len(ws) : us[i] = ws[i]
    BY AppendProperties
  <2>2. Widen(ws, w) = us
    BY <1>3 DEF Widen
  <2> HIDE DEF us
  <2>3. DOMAIN us = 1..(Len(ws) + 1)
    BY <2>1, LenProperties
  <2>4. One(us)
    BY <1>1, <1>3, <2>1, <2>3 DEF One
  <2> QED
    BY <2>1, <2>2, <2>4
<1> QED
  BY <1>2, <1>3

(* A watch that loses bits stays its callback's only one, or goes.         *)
LEMMA NarrowedOne ==
    ASSUME NEW ws \in Seq(Watch), One(ws), NEW w \in Watch,
           \E j \in DOMAIN ws : ws[j].callback = w.callback
    PROVE  Narrow(ws, w) \in Seq(Watch) /\ One(Narrow(ws, w))
<1>1. /\ Len(ws) \in Nat /\ DOMAIN ws = 1..Len(ws) /\ \A i \in 1..Len(ws) : ws[i] \in Watch
  BY LenProperties, ElementOfSeq
<1> DEFINE First(j) == ws[j].callback = w.callback /\ \A k \in 1..(j - 1) : ws[k].callback # w.callback
           i == CHOOSE j \in DOMAIN ws : First(j)
           v == [callback |-> w.callback, actions |-> ws[i].actions \ w.actions,
                 types |-> ws[i].types \ w.types]
<1>2. i \in DOMAIN ws /\ ws[i].callback = w.callback
  <2>1. PICK j \in DOMAIN ws : ws[j].callback = w.callback
    OBVIOUS
  <2>2. \A k \in 1..(j - 1) : ws[k].callback # w.callback
    BY <1>1, <2>1 DEF One
  <2> QED
    BY <2>1, <2>2
<1>3. Narrow(ws, w) = IF v.actions = {} THEN RemoveAt(ws, i) ELSE [ws EXCEPT ![i] = v]
  BY DEF Narrow
<1> HIDE DEF i
<1>4. v \in Watch /\ v.callback = ws[i].callback
  BY <1>1, <1>2 DEF Watch
<1> HIDE DEF v
<1>5. CASE v.actions = {}
  <2> DEFINE us == RemoveAt(ws, i)
  <2>1. us \in Seq(Watch) /\ DOMAIN us = 1..(Len(ws) - 1)
        /\ \A j \in 1..(Len(ws) - 1) : us[j] = IF j < i THEN ws[j] ELSE ws[j + 1]
    BY <1>2, RemovedEntries
  <2> HIDE DEF us
  <2>2. ASSUME NEW j \in 1..(Len(ws) - 1), NEW k \in 1..(Len(ws) - 1),
               us[j].callback = us[k].callback
        PROVE  j = k
    <3> DEFINE at(n) == IF n < i THEN n ELSE n + 1
    <3>1. \A n \in 1..(Len(ws) - 1) : at(n) \in 1..Len(ws) /\ us[n] = ws[at(n)]
      BY <1>1, <2>1
    <3>2. at(j) = at(k)
      <4> HIDE DEF at
      <4> QED
        BY <1>1, <2>2, <3>1 DEF One
    <3> QED
      BY <1>1, <1>2, <3>2
  <2>3. One(us)
    BY <2>1, <2>2 DEF One
  <2>4. Narrow(ws, w) = us
    BY <1>3, <1>5 DEF us
  <2> QED
    BY <2>1, <2>3, <2>4
<1>6. CASE v.actions # {}
  <2> DEFINE us == [ws EXCEPT ![i] = v]
  <2>1. us \in [1..Len(ws) -> Watch] /\ \A j \in 1..Len(ws) : us[j].callback = ws[j].callback
    BY <1>1, <1>2, <1>4
  <2>2. Narrow(ws, w) = us
    BY <1>3, <1>6
  <2> HIDE DEF us
  <2>3. us \in Seq(Watch) /\ One(us)
    BY <1>1, <2>1, SeqDef DEF One
  <2> QED
    BY <2>2, <2>3
<1> QED
  BY <1>5, <1>6

LEMMA WatchStep == WatchInv /\ [Next]_vars => WatchInv'
<1> SUFFICES ASSUME WatchInv, [Next]_vars PROVE WatchInv'
  OBVIOUS
<1> USE DEF WatchInv
<1>1. CASE UNCHANGED watches
  BY <1>1 DEF OneWatchEach
<1>2. ASSUME NEW r \in Repos \cup {All}, NEW ws \in Seq(Watch), One(ws), Edit(r, ws) PROVE WatchInv'
  <2>1. CASE watches' = [watches EXCEPT ![r] = ws]
    BY <1>2, <2>1 DEF OneWatchEach, One
  <2> QED
    BY <1>1, <1>2, <2>1 DEF Edit
<1>3. ASSUME NEW r \in Repos \cup {All} PROVE watches[r] \in Seq(Watch) /\ One(watches[r])
  BY DEF OneWatchEach, One
<1>4. ASSUME NEW q \in Requests PROVE q.repo \in Repos \cup {All} /\ q.watch \in Watch
  BY <1>4, RequestsAssumption DEF Request
<1>5. ASSUME NEW q \in Requests, WatchAdd(q) PROVE WatchInv'
  <2>1. Edit(q.repo, Widen(watches[q.repo], q.watch))
    BY <1>5 DEF WatchAdd
  <2> QED
    BY <1>2, <1>3, <1>4, <2>1, WidenedOne
<1>6. ASSUME NEW q \in Requests, WatchDel(q) PROVE WatchInv'
  <2>1. Edit(q.repo, Narrow(watches[q.repo], q.watch))
    BY <1>6 DEF WatchDel
  <2>2. \E j \in DOMAIN watches[q.repo] : watches[q.repo][j].callback = q.watch.callback
    BY <1>6 DEF WatchDel, ToSet
  <2>3. Narrow(watches[q.repo], q.watch) \in Seq(Watch) /\ One(Narrow(watches[q.repo], q.watch))
    BY <1>3, <1>4, <2>2, NarrowedOne
  <2> QED
    BY <1>2, <1>4, <2>1, <2>3
<1>7. CASE RepoDeleted
  <2> DEFINE r == Top.repo
  <2>1. watches' = [watches EXCEPT ![r] = <<>>]
    BY <1>7 DEF RepoDeleted
  <2>2. <<>> \in Seq(Watch) /\ One(<<>>)
    BY EmptySeq DEF One
  <2> HIDE DEF r
  <2> QED
    BY <2>1, <2>2 DEF OneWatchEach, One
<1>8. CASE CallWatch \/ NextLevel \/ CallbackReturns \/ UseAfterFree \/ NotifyReturns \/ WalkBegin
  BY <1>1, <1>8 DEF CallWatch, NextLevel, CallbackReturns, UseAfterFree, NotifyReturns, WalkBegin
<1>9. CASE WalkNext
  BY <1>1, <1>9 DEF WalkNext
<1>10. CASE ValueDeleted
  BY <1>1, <1>10 DEF ValueDeleted
<1>11. ASSUME NEW r \in Tables, RepoAdd(r) \/ RepoDel(r) PROVE WatchInv'
  BY <1>1, <1>11 DEF RepoAdd, RepoDel
<1>12. ASSUME NEW r \in Repos, NEW k \in Keys, AddValue(r, k) PROVE WatchInv'
  BY <1>1, <1>12 DEF AddValue
<1>13. ASSUME NEW r \in Tables, NEW k \in Keys, ChangeValue(r, k) \/ DelValue(r, k) PROVE WatchInv'
  BY <1>1, <1>13 DEF ChangeValue, DelValue
<1>14. ASSUME NEW q \in KeyRequests, WatchValueAdd(q) PROVE WatchInv'
  BY <1>1, <1>14 DEF WatchValueAdd
<1>15. CASE UNCHANGED vars
  BY <1>1, <1>15 DEF vars
<1> QED
  BY <1>5, <1>6, <1>7, <1>8, <1>9, <1>10, <1>11, <1>12, <1>13, <1>14, <1>15 DEF Next

(* In every list of watches each callback has one: a second request widens *)
(* it, a removal narrows it, also when callbacks ask while it is walked.   *)
THEOREM WatchesCorrect == Spec => []OneWatchEach
<1>1. Init => WatchInv
  <2> SUFFICES ASSUME Init PROVE WatchInv
    OBVIOUS
  <2>1. <<>> \in Seq(Watch) /\ One(<<>>)
    BY EmptySeq DEF One
  <2> QED
    BY <2>1 DEF Init, WatchInv, OneWatchEach, One
<1>2. WatchInv => OneWatchEach
  BY DEF WatchInv
<1> QED
  BY <1>1, <1>2, WatchStep, PTL DEF Spec

(* However operations on the tables nest inside one another's callbacks,   *)
(* keys stay unique and a callback has one watch in each list.             *)
THEOREM TablesCorrect == Spec => []TablesSound
<1>1. KeysUnique /\ OneWatchEach => TablesSound
  BY DEF TablesSound
<1> QED
  BY <1>1, KeysCorrect, WatchesCorrect, PTL

-----------------------------------------------------------------------------
(***************************************************************************)
(* Whom a change is told to.  A notification walks lists that its own      *)
(* callbacks, and everything nested in them, extend, widen and free.  What *)
(* keeps it right is that a position in a list stays what it is: a         *)
(* callback that is due and was not told is still to come, and one that    *)
(* was told is recorded or behind.                                         *)
(***************************************************************************)
NotifyFrames ==
    [op : {"notify"}, repo : Repos, key : Keys \cup {NoKey}, acts : SUBSET (RepoMask \cup ValueMask),
     types : SUBSET Types, then : {"return", "del value", "del repo"}, level : {"key", "repo", "all"},
     pos : Nat, completed : SUBSET Callbacks, stale : BOOLEAN, due : SUBSET Callbacks,
     told : SUBSET Callbacks]
CallbackFrames == [op : {"callback"}, callback : Callbacks, stale : BOOLEAN]
WalkFrames     == [op : {"walk"}, repo : {Protocols}, key : Keys, visited : SUBSET Keys,
                   start : SUBSET Keys, stale : BOOLEAN]
Frames         == NotifyFrames \cup CallbackFrames \cup WalkFrames

(* Watches ws, of the repo or of all repos, hold one of callback cb that   *)
(* notification f has yet to reach.                                        *)
DueInRepo(f, cb, ws) ==
    /\ f.level # "all" /\ f.acts \cap {"DEL", "CHANGE"} # {}
    /\ \E i \in DOMAIN ws[f.repo] :
          /\ f.level = "repo" => i > f.pos
          /\ ws[f.repo][i].callback = cb /\ ws[f.repo][i].types \cap f.types # {}
DueInAll(f, cb, ws) ==
    \E i \in DOMAIN ws[All] :
        /\ f.level = "all" => i > f.pos
        /\ ws[All][i].callback = cb /\ Asks(ws[All][i], f.acts, f.types)
StillDue(f, cb, ws) == DueInRepo(f, cb, ws) \/ DueInAll(f, cb, ws)

Tells(f, ws) ==
    f.op = "notify" =>
        /\ f.acts \cap RepoMask # {}
        /\ f.then # "return" => f.repo \in Tables
        /\ f.completed \subseteq f.told
        /\ \A cb \in f.told \ f.completed :
              f.level = "all" /\ \E i \in DOMAIN ws[All] : i <= f.pos /\ ws[All][i].callback = cb
        /\ ~f.stale => \A cb \in f.due \ f.told : StillDue(f, cb, ws)

(* A walk has visited what the list holds up to where it is.               *)
Visits(f, ks) ==
    f.op = "walk" =>
        /\ f.key \in ToSet(ks)
        /\ \A i \in DOMAIN ks : ks[i] = f.key => \A j \in 1..i : ks[j] \in f.visited

Good(ws, ks) == {f \in Frames : Tells(f, ws) /\ Visits(f, ks)}

(* Nothing is called at the level of a key (see KeyWatchTold): there the   *)
(* notification is on top.                                                 *)
AtKey(f)    == f.op = "notify" /\ f.level = "key"
KeyOnTop(s) == \A i \in DOMAIN s : AtKey(s[i]) => i = Len(s)

Stacked(s, ws, ks) == s \in Seq(Good(ws, ks)) /\ KeyOnTop(s)
KeyWatch  == [callback : Callbacks, actions : SUBSET ValueMask, types : {{}}]
KeyTyped  == keyWatches \in [Repos -> [Keys -> Seq(KeyWatch)]]
Forgotten == \A r \in Repos \ exists : watches[r] = <<>>

TellInv == Stacked(stack, watches, values[Protocols]) /\ KeyTyped /\ Forgotten

-----------------------------------------------------------------------------
(* Stacks.                                                                 *)

LEMMA NoEntries == DOMAIN <<>> = {}
BY EmptySeq, LenProperties

(* Without its last element a sequence is one shorter.                     *)
LEMMA FrontLast ==
    ASSUME NEW S, NEW s \in Seq(S), s # <<>>
    PROVE  /\ Front(s) \in Seq(S) /\ Len(Front(s)) = Len(s) - 1
           /\ DOMAIN Front(s) = 1..(Len(s) - 1)
           /\ \A i \in 1..(Len(s) - 1) : Front(s)[i] = s[i]
<1>1. Len(s) \in Nat \ {0} /\ DOMAIN s = 1..Len(s)
  BY EmptySeq, LenProperties
<1>2. Len(s) \in DOMAIN s
  BY <1>1
<1>. QED
  BY <1>1, <1>2, SubSeqProperties DEF Front

LEMMA StackTop ==
    ASSUME NEW ws, NEW ks, NEW s, Stacked(s, ws, ks), s # <<>>
    PROVE  /\ Stacked(Front(s), ws, ks) /\ Last(s) \in Good(ws, ks)
           /\ DOMAIN Front(s) = 1..(Len(s) - 1) /\ Len(s) \in Nat \ {0}
           /\ Len(Front(s)) = Len(s) - 1
           /\ \A i \in DOMAIN Front(s) :
                 Front(s)[i] = s[i] /\ s[i] \in Good(ws, ks) /\ ~AtKey(s[i])
<1>1. s \in Seq(Good(ws, ks)) /\ Len(s) \in Nat \ {0} /\ DOMAIN s = 1..Len(s)
  BY EmptySeq, LenProperties DEF Stacked
<1>2. \A i \in 1..Len(s) : s[i] \in Good(ws, ks)
  BY <1>1, ElementOfSeq
<1>3. /\ Front(s) \in Seq(Good(ws, ks)) /\ Len(Front(s)) = Len(s) - 1
      /\ DOMAIN Front(s) = 1..(Len(s) - 1)
      /\ \A i \in 1..(Len(s) - 1) : Front(s)[i] = s[i]
  BY <1>1, FrontLast
<1>4. \A i \in 1..(Len(s) - 1) : i \in 1..Len(s) /\ i # Len(s)
  <2>1. Len(s) \in Nat \ {0}
    BY <1>1
  <2>. QED
    BY <2>1
<1>5. \A i \in 1..(Len(s) - 1) : ~AtKey(s[i])
  BY <1>1, <1>4 DEF Stacked, KeyOnTop
<1>6. KeyOnTop(Front(s))
  BY <1>3, <1>5 DEF KeyOnTop
<1>7. Last(s) \in Good(ws, ks)
  BY <1>1, <1>2 DEF Last
<1>. QED
  BY <1>1, <1>2, <1>3, <1>4, <1>5, <1>6, <1>7 DEF Stacked

LEMMA StackPushed ==
    ASSUME NEW ws, NEW ks, NEW s, Stacked(s, ws, ks), NEW f \in Good(ws, ks),
           \A i \in DOMAIN s : ~AtKey(s[i])
    PROVE  /\ Stacked(Append(s, f), ws, ks) /\ Len(Append(s, f)) = Len(s) + 1
           /\ Last(Append(s, f)) = f
           /\ ~AtKey(f) => \A i \in DOMAIN Append(s, f) : ~AtKey(Append(s, f)[i])
<1>1. s \in Seq(Good(ws, ks)) /\ Len(s) \in Nat /\ DOMAIN s = 1..Len(s)
  BY LenProperties DEF Stacked
<1> DEFINE t == Append(s, f)
<1>2. /\ t \in Seq(Good(ws, ks)) /\ Len(t) = Len(s) + 1
      /\ \A i \in 1..Len(s) : t[i] = s[i]
      /\ t[Len(s) + 1] = f
  BY <1>1, AppendProperties
<1>. HIDE DEF t
<1>3. DOMAIN t = 1..(Len(s) + 1)
  BY <1>2, LenProperties
<1>4. \A i \in DOMAIN t : i = Len(t) \/ ~AtKey(t[i])
  BY <1>1, <1>2, <1>3
<1>5. \A i \in DOMAIN t : ~AtKey(f) => ~AtKey(t[i])
  BY <1>1, <1>2, <1>3
<1>6. KeyOnTop(t)
  BY <1>4 DEF KeyOnTop
<1>7. Last(t) = f
  BY <1>2 DEF Last
<1>. QED
  BY <1>2, <1>5, <1>6, <1>7 DEF Stacked, t

LEMMA StackReplaced ==
    ASSUME NEW ws, NEW ks, NEW s, Stacked(s, ws, ks), s # <<>>, NEW f \in Good(ws, ks)
    PROVE  /\ Stacked(Append(Front(s), f), ws, ks) /\ Len(Append(Front(s), f)) = Len(s)
           /\ ~AtKey(f) => \A i \in DOMAIN Append(Front(s), f) : ~AtKey(Append(Front(s), f)[i])
<1>1. /\ Stacked(Front(s), ws, ks) /\ \A i \in DOMAIN Front(s) : ~AtKey(Front(s)[i])
      /\ Len(Front(s)) = Len(s) - 1 /\ Len(s) \in Nat
  BY StackTop
<1>. QED
  BY <1>1, StackPushed

(* The frames stay what they are, and are still good.                      *)
LEMMA StackKept ==
    ASSUME NEW ws, NEW ks, NEW s, Stacked(s, ws, ks), NEW ws2, NEW ks2,
           \A f \in Good(ws, ks) : f \in Good(ws2, ks2)
    PROVE  Stacked(s, ws2, ks2)
<1>1. /\ s \in Seq(Good(ws, ks)) /\ Len(s) \in Nat /\ DOMAIN s = 1..Len(s)
      /\ s = [i \in 1..Len(s) |-> s[i]]
  BY LenProperties, SeqDef DEF Stacked
<1>2. \A i \in 1..Len(s) : s[i] \in Good(ws2, ks2)
  BY <1>1, ElementOfSeq
<1>3. s \in [1..Len(s) -> Good(ws2, ks2)]
  BY <1>1, <1>2
<1>. QED
  BY <1>1, <1>3, SeqDef DEF Stacked

-----------------------------------------------------------------------------
(* Frames.                                                                 *)

LEMMA CallbackGood ==
    ASSUME NEW ws, NEW ks, NEW cb \in Callbacks
    PROVE  Callback(cb) \in Good(ws, ks) /\ ~AtKey(Callback(cb))
BY DEF Callback, Good, Frames, CallbackFrames, Tells, Visits, AtKey

LEMMA NotifyGood ==
    ASSUME NEW ks, WatchInv, NEW r \in Repos, NEW k \in Keys \cup {NoKey},
           NEW acts \in SUBSET (RepoMask \cup ValueMask), acts \cap RepoMask # {},
           NEW types \in SUBSET Types, NEW then \in {"return", "del value", "del repo"},
           then # "return" => r \in Tables,
           watches[r] # <<>> => acts \cap {"DEL", "CHANGE"} # {}
    PROVE  Notify(r, k, acts, types, then) \in Good(watches, ks)
<1> DEFINE f == Notify(r, k, acts, types, then)
<1>1. \A q \in Repos \cup {All} :
         /\ watches[q] \in Seq(Watch)
         /\ \A i \in DOMAIN watches[q] : watches[q][i] \in Watch
  BY ElementOfSeq, LenProperties DEF WatchInv
<1>2. Due(r, acts, types) \in SUBSET Callbacks
  <2>1. \A w \in ToSet(watches[r]) \cup ToSet(watches[All]) : w \in Watch
    BY <1>1 DEF ToSet
  <2>. QED
    BY <2>1 DEF Due, Watch
<1>3. f \in NotifyFrames
  BY <1>2 DEF Notify, NotifyFrames
<1>4. ASSUME NEW cb \in f.due PROVE StillDue(f, cb, watches)
  <2>0. f.level = "key" /\ f.acts = acts /\ f.types = types /\ f.repo = r
    BY DEF Notify
  <2>1. PICK w \in ToSet(watches[r]) \cup ToSet(watches[All]) : Asks(w, acts, types) /\ w.callback = cb
    BY <1>4 DEF Notify, Due
  <2>. HIDE DEF f
  <2>2. CASE w \in ToSet(watches[r])
    <3>1. PICK i \in DOMAIN watches[r] : watches[r][i] = w
      BY <2>2 DEF ToSet
    <3>2. watches[r] # <<>>
      BY <3>1, NoEntries
    <3>3. watches[f.repo][i].callback = cb /\ watches[f.repo][i].types \cap f.types # {}
      BY <2>0, <2>1, <3>1 DEF Asks
    <3>4. i \in DOMAIN watches[f.repo] /\ f.level = "key" /\ f.acts \cap {"DEL", "CHANGE"} # {}
      BY <2>0, <3>1, <3>2
    <3>. QED
      BY <3>3, <3>4 DEF StillDue, DueInRepo, DueInAll
  <2>3. CASE w \in ToSet(watches[All])
    <3>1. PICK i \in DOMAIN watches[All] : watches[All][i] = w
      BY <2>3 DEF ToSet
    <3>. QED
      BY <2>0, <2>1, <3>1 DEF StillDue, DueInRepo, DueInAll
  <2>. QED
    BY <2>1, <2>2, <2>3
<1>5. /\ f.op = "notify" /\ f.acts = acts /\ f.then = then /\ f.repo = r
      /\ f.completed = {} /\ f.told = {}
  BY DEF Notify
<1>. HIDE DEF f
<1>6. Tells(f, watches)
  BY <1>4, <1>5 DEF Tells
<1>. QED
  BY <1>3, <1>5, <1>6 DEF Good, Frames, Visits, f

(* Where an operation may be begun nothing is at the level of a key.       *)
LEMMA OpenStack ==
    ASSUME NEW ws, NEW ks, Stacked(stack, ws, ks), Open
    PROVE  \A i \in DOMAIN stack : ~AtKey(stack[i])
<1>1. stack \in Seq(Good(ws, ks)) /\ Len(stack) \in Nat /\ DOMAIN stack = 1..Len(stack)
  BY LenProperties DEF Stacked
<1>2. stack = <<>> \/ Top.op # "notify"
  BY DEF Open, TopIs
<1>3. stack # <<>> => Top = stack[Len(stack)]
  BY DEF Top, Last
<1>4. CASE stack = <<>>
  BY <1>4
<1>5. CASE stack # <<>>
  BY <1>2, <1>3, <1>5 DEF Stacked, KeyOnTop, AtKey
<1>. QED
  BY <1>4, <1>5

-----------------------------------------------------------------------------
(* The steps, one by one.                                                  *)

LEMMA SameGood ==
    ASSUME watches' = watches, values'[Protocols] = values[Protocols]
    PROVE  \A f \in Good(watches, values[Protocols]) : f \in Good(watches', values'[Protocols])
OBVIOUS

(* An operation that begins puts one frame on the stack.                   *)
LEMMA Begins ==
    ASSUME TellInv, Open, NEW f, stack' = Append(stack, f),
           f \in Good(watches', values'[Protocols]),
           \A g \in Good(watches, values[Protocols]) : g \in Good(watches', values'[Protocols])
    PROVE  /\ Stacked(stack', watches', values'[Protocols])
           /\ Len(stack') = Len(stack) + 1 /\ Last(stack') = f
<1>1. Stacked(stack, watches', values'[Protocols])
  BY StackKept DEF TellInv
<1>2. \A i \in DOMAIN stack : ~AtKey(stack[i])
  BY <1>1, OpenStack
<1>. QED
  BY <1>1, <1>2, StackPushed

LEMMA StackStays ==
    ASSUME TellInv, stack' = stack,
           \A g \in Good(watches, values[Protocols]) : g \in Good(watches', values'[Protocols])
    PROVE  Stacked(stack', watches', values'[Protocols])
BY StackKept DEF TellInv

LEMMA TablesStep ==
    ASSUME KeysInv, WatchInv, TellInv,
           \/ \E r \in Tables : RepoAdd(r) \/ RepoDel(r)
           \/ \E r \in Tables, k \in Keys : ChangeValue(r, k) \/ DelValue(r, k)
    PROVE  /\ TellInv'
           /\ Len(stack') = Len(stack) + 1 /\ Last(stack').op = "notify"
<1>1. /\ watches' = watches /\ values' = values /\ keyWatches' = keyWatches
      /\ Open /\ exists \subseteq exists'
  BY DEF RepoAdd, RepoDel, ChangeValue, DelValue, tables
<1>2. PICK f \in Good(watches, values[Protocols]) : stack' = Append(stack, f) /\ f.op = "notify"
  <2>1. ASSUME NEW r \in Tables, RepoAdd(r)
        PROVE  \E f \in Good(watches, values[Protocols]) :
                   stack' = Append(stack, f) /\ f.op = "notify"
    <3>1. r \in Repos /\ watches[r] = <<>>
      BY <2>1 DEF RepoAdd, TellInv, Forgotten, Repos
    <3>2. {"NEW"} \in SUBSET (RepoMask \cup ValueMask) /\ {"NEW"} \cap RepoMask # {}
      BY DEF RepoMask
    <3>3. Notify(r, NoKey, {"NEW"}, Types, "return") \in Good(watches, values[Protocols])
      BY <3>1, <3>2, NotifyGood
    <3>. QED
      BY <2>1, <3>3 DEF RepoAdd, Push, Notify
  <2>2. ASSUME NEW r \in Tables, NEW k \in Keys, ChangeValue(r, k) \/ DelValue(r, k)
        PROVE  \E f \in Good(watches, values[Protocols]) :
                   stack' = Append(stack, f) /\ f.op = "notify"
    <3>1. /\ {"CHANGE", "VALUE_CHANGE"} \in SUBSET (RepoMask \cup ValueMask)
          /\ {"CHANGE", "VALUE_DEL"} \in SUBSET (RepoMask \cup ValueMask)
          /\ "CHANGE" \in RepoMask /\ r \in Repos /\ {TypeIn(r)} \in SUBSET Types
      BY DEF RepoMask, ValueMask, Repos, TypeIn, Types
    <3>2. /\ Notify(r, k, {"CHANGE", "VALUE_CHANGE"}, {TypeIn(r)}, "return")
               \in Good(watches, values[Protocols])
          /\ Notify(r, k, {"CHANGE", "VALUE_DEL"}, {TypeIn(r)}, "del value")
               \in Good(watches, values[Protocols])
      BY <3>1, NotifyGood
    <3>. QED
      BY <2>2, <3>2 DEF ChangeValue, DelValue, Push, Notify
  <2>3. ASSUME NEW r \in Tables, RepoDel(r)
        PROVE  \E f \in Good(watches, values[Protocols]) :
                   stack' = Append(stack, f) /\ f.op = "notify"
    <3>1. /\ {"DEL", "VALUE_DEL"} \in SUBSET (RepoMask \cup ValueMask)
          /\ "DEL" \in RepoMask /\ r \in Repos
      BY DEF RepoMask, ValueMask, Repos
    <3>2. Notify(r, NoKey, {"DEL", "VALUE_DEL"}, Types, "del repo") \in Good(watches, values[Protocols])
      BY <3>1, NotifyGood
    <3>. QED
      BY <2>3, <3>2 DEF RepoDel, Push, Notify
  <2>. QED
    BY <2>1, <2>2, <2>3
<1>3. /\ Stacked(stack', watches', values'[Protocols])
      /\ Len(stack') = Len(stack) + 1 /\ Last(stack').op = "notify"
  BY <1>1, <1>2, Begins, SameGood
<1>4. KeyTyped' /\ Forgotten'
  BY <1>1 DEF TellInv, KeyTyped, Forgotten
<1>. QED
  BY <1>3, <1>4 DEF TellInv

(* What a walk has visited stays the beginning of the list.                *)
LEMMA AddStep ==
    ASSUME KeysInv, WatchInv, TellInv, NEW r \in Repos, NEW k \in Keys, AddValue(r, k)
    PROVE  /\ TellInv'
           /\ Len(stack') = Len(stack) + 1 /\ Last(stack').op = "notify"
<1>1. /\ watches' = watches /\ keyWatches' = keyWatches /\ exists' = exists
      /\ Open /\ k \notin ToSet(values[r])
      /\ values' = [values EXCEPT ![r] = Append(@, k)]
      /\ stack' = Append(stack, Notify(r, k, {"CHANGE", "VALUE_NEW"}, {TypeIn(r)}, "return"))
  BY DEF AddValue, Push, Present
<1>2. /\ {"CHANGE", "VALUE_NEW"} \in SUBSET (RepoMask \cup ValueMask)
      /\ "CHANGE" \in RepoMask /\ {TypeIn(r)} \in SUBSET Types
  BY DEF RepoMask, ValueMask, TypeIn, Types
<1>3. Notify(r, k, {"CHANGE", "VALUE_NEW"}, {TypeIn(r)}, "return") \in Good(watches, values'[Protocols])
  BY <1>2, NotifyGood
<1>4. ASSUME NEW f \in Good(watches, values[Protocols])
      PROVE  f \in Good(watches, values'[Protocols])
  <2>1. values[r] \in Seq(Keys) /\ Protocols \in Repos /\ values \in [Repos -> Seq(Keys)]
    BY DEF KeysInv, Repos
  <2>2. CASE r # Protocols
    BY <1>1, <1>4, <2>1, <2>2
  <2>3. CASE r = Protocols
    <3>1. values'[Protocols] = Append(values[Protocols], k)
      BY <1>1, <2>1, <2>3
    <3>. DEFINE ks == values[Protocols]
                ks2 == Append(ks, k)
    <3>2. /\ ks \in Seq(Keys) /\ Len(ks) \in Nat /\ DOMAIN ks = 1..Len(ks) /\ k \notin ToSet(ks)
      BY <1>1, <2>1, <2>3, LenProperties
    <3>3. /\ Len(ks2) = Len(ks) + 1 /\ ks2 \in Seq(Keys) /\ ks2[Len(ks) + 1] = k
          /\ \A i \in 1..Len(ks) : ks2[i] = ks[i]
      BY <3>2, AppendProperties
    <3>4. DOMAIN ks2 = 1..(Len(ks) + 1)
      BY <3>3, LenProperties
    <3>. HIDE DEF ks, ks2
    <3>5. f \in Frames /\ Tells(f, watches) /\ Visits(f, ks)
      BY DEF Good, ks
    <3>6. ASSUME f.op = "walk" PROVE Visits(f, ks2)
      <4>1. f.key \in ToSet(ks2) /\ f.key # k
        BY <3>2, <3>3, <3>4, <3>5, <3>6 DEF Visits, ToSet
      <4>2. ASSUME NEW i \in DOMAIN ks2, ks2[i] = f.key, NEW j \in 1..i
            PROVE  ks2[j] \in f.visited
        <5>1. i \in DOMAIN ks /\ ks[i] = f.key /\ j \in 1..Len(ks)
          BY <3>2, <3>3, <3>4, <4>1, <4>2
        <5>. QED
          BY <3>3, <3>5, <3>6, <4>2, <5>1 DEF Visits
      <4>. QED
        BY <4>1, <4>2 DEF Visits
    <3>7. Visits(f, ks2)
      BY <3>6 DEF Visits
    <3>. QED
      BY <3>1, <3>5, <3>7 DEF Good, ks, ks2
  <2>. QED
    BY <2>2, <2>3
<1>5. /\ Stacked(stack', watches', values'[Protocols])
      /\ Len(stack') = Len(stack) + 1
      /\ Last(stack') = Notify(r, k, {"CHANGE", "VALUE_NEW"}, {TypeIn(r)}, "return")
  BY <1>1, <1>3, <1>4, Begins
<1>6. KeyTyped' /\ Forgotten'
  BY <1>1 DEF TellInv, KeyTyped, Forgotten
<1>. QED
  BY <1>5, <1>6 DEF TellInv, Notify

(* A list whose watches keep their places and lose nothing.                *)
Wider(ws, us) ==
    \A i \in DOMAIN ws :
        /\ i \in DOMAIN us /\ us[i].callback = ws[i].callback
        /\ ws[i].actions \subseteq us[i].actions /\ ws[i].types \subseteq us[i].types

LEMMA WidenWider ==
    ASSUME NEW ws \in Seq(Watch), NEW w \in Watch
    PROVE  Wider(ws, Widen(ws, w))
<1>1. /\ Len(ws) \in Nat /\ DOMAIN ws = 1..Len(ws) /\ \A i \in 1..Len(ws) : ws[i] \in Watch
  BY LenProperties, ElementOfSeq
<1>2. CASE \E i \in DOMAIN ws : ws[i].callback = w.callback
  BY <1>2 DEF Widen, Wider
<1>3. CASE ~(\E i \in DOMAIN ws : ws[i].callback = w.callback)
  <2>1. /\ Append(ws, w) \in Seq(Watch) /\ Len(Append(ws, w)) = Len(ws) + 1
        /\ \A i \in 1..Len(ws) : Append(ws, w)[i] = ws[i]
    BY AppendProperties
  <2>2. DOMAIN Append(ws, w) = 1..(Len(ws) + 1)
    BY <2>1, LenProperties
  <2>3. Widen(ws, w) = Append(ws, w)
    BY <1>3 DEF Widen
  <2>. QED
    BY <1>1, <2>1, <2>2, <2>3 DEF Wider
<1>. QED
  BY <1>2, <1>3

(* What was due stays due, and what was told stays behind.                 *)
LEMMA WiderGood ==
    ASSUME NEW ws, NEW us, NEW ks, \A r \in Repos \cup {All} : Wider(ws[r], us[r]),
           NEW f \in Good(ws, ks)
    PROVE  f \in Good(us, ks)
<1>1. f \in Frames /\ Tells(f, ws) /\ Visits(f, ks)
  BY DEF Good
<1>2. CASE f.op = "notify"
  <2>1. f.repo \in Repos
    BY <1>1, <1>2 DEF Frames, NotifyFrames, CallbackFrames, WalkFrames
  <2>2. ASSUME NEW cb, StillDue(f, cb, ws) PROVE StillDue(f, cb, us)
    <3>1. Wider(ws[f.repo], us[f.repo]) /\ Wider(ws[All], us[All])
      BY <2>1
    <3>2. ASSUME f.level # "all", f.acts \cap {"DEL", "CHANGE"} # {},
                 NEW i \in DOMAIN ws[f.repo], f.level = "repo" => i > f.pos,
                 ws[f.repo][i].callback = cb, ws[f.repo][i].types \cap f.types # {}
          PROVE  StillDue(f, cb, us)
      BY <3>1, <3>2 DEF StillDue, DueInRepo, DueInAll, Wider
    <3>3. ASSUME NEW i \in DOMAIN ws[All], f.level = "all" => i > f.pos,
                 ws[All][i].callback = cb, Asks(ws[All][i], f.acts, f.types)
          PROVE  StillDue(f, cb, us)
      <4>1. Asks(us[All][i], f.acts, f.types)
        BY <3>1, <3>3 DEF Asks, Wider
      <4>. QED
        BY <3>1, <3>3, <4>1 DEF StillDue, DueInRepo, DueInAll, Wider
    <3>. QED
      BY <2>2, <3>2, <3>3 DEF StillDue, DueInRepo, DueInAll
  <2>3. ASSUME NEW cb \in f.told \ f.completed
        PROVE  f.level = "all" /\ \E i \in DOMAIN us[All] : i <= f.pos /\ us[All][i].callback = cb
    <3>1. f.level = "all"
      BY <1>1, <1>2 DEF Tells
    <3>2. PICK i \in DOMAIN ws[All] : i <= f.pos /\ ws[All][i].callback = cb
      BY <1>1, <1>2 DEF Tells
    <3>. QED
      BY <3>1, <3>2 DEF Wider
  <2>4. Tells(f, us)
    BY <1>1, <2>2, <2>3 DEF Tells
  <2>. QED
    BY <1>1, <2>4 DEF Good
<1>3. CASE f.op # "notify"
  BY <1>1, <1>3 DEF Good, Tells
<1>. QED
  BY <1>2, <1>3

LEMMA WatchAddStep ==
    ASSUME KeysInv, WatchInv, TellInv, NEW q \in Requests, WatchAdd(q)
    PROVE  TellInv'
<1>1. /\ q.repo \in exists \cup {All} /\ Edit(q.repo, Widen(watches[q.repo], q.watch))
      /\ exists' = exists /\ values' = values /\ keyWatches' = keyWatches /\ stack' = stack
  BY DEF WatchAdd, tables
<1>2. q.repo \in Repos \cup {All} /\ q.watch \in Watch
  BY RequestsAssumption DEF Request
<1>3. watches[q.repo] \in Seq(Watch) /\ watches \in [Repos \cup {All} -> Seq(Watch)]
  BY <1>2 DEF WatchInv
<1>4. ASSUME NEW r \in Repos \cup {All}
      PROVE  Wider(watches[r], watches'[r]) /\ (r # q.repo => watches'[r] = watches[r])
  <2>1. CASE r = q.repo /\ watches'[r] = Widen(watches[r], q.watch)
    BY <1>2, <1>3, <2>1, WidenWider
  <2>2. CASE watches'[r] = watches[r]
    BY <2>2 DEF Wider
  <2>. QED
    BY <1>1, <1>3, <2>1, <2>2 DEF Edit
<1>5. \A f \in Good(watches, values[Protocols]) : f \in Good(watches', values'[Protocols])
  BY <1>1, <1>4, WiderGood
<1>6. Stacked(stack', watches', values'[Protocols])
  BY <1>1, <1>5, StackStays
<1>7. KeyTyped' /\ Forgotten'
  <2>1. \A r \in Repos \ exists : r # q.repo
    BY <1>1, RepoNamesAssumption
  <2>. QED
    BY <1>1, <1>4, <2>1 DEF TellInv, KeyTyped, Forgotten
<1>. QED
  BY <1>6, <1>7 DEF TellInv

LEMMA EmptyStack ==
    ASSUME NEW ws, NEW ks
    PROVE  Stacked(<<>>, ws, ks)
BY EmptySeq, NoEntries DEF Stacked, KeyOnTop

(* Watches are removed when nothing is on the stack.                       *)
LEMMA WatchDelStep ==
    ASSUME KeysInv, WatchInv, TellInv, NEW q \in Requests, WatchDel(q)
    PROVE  TellInv'
<1>1. /\ q.repo \in exists \cup {All} /\ Edit(q.repo, Narrow(watches[q.repo], q.watch))
      /\ exists' = exists /\ values' = values /\ keyWatches' = keyWatches /\ stack' = <<>>
  BY DEF WatchDel, tables
<1>2. Stacked(stack', watches', values'[Protocols])
  BY <1>1, EmptyStack
<1>3. \A r \in Repos \ exists : watches'[r] = watches[r]
  <2>1. \A r \in Repos \ exists : r # q.repo
    BY <1>1, RepoNamesAssumption
  <2>. QED
    BY <1>1, <2>1 DEF Edit, WatchInv
<1>4. KeyTyped' /\ Forgotten'
  BY <1>1, <1>3 DEF TellInv, KeyTyped, Forgotten
<1>. QED
  BY <1>2, <1>4 DEF TellInv

LEMMA WidenTyped ==
    ASSUME NEW ws \in Seq(KeyWatch), NEW w \in KeyWatch
    PROVE  Widen(ws, w) \in Seq(KeyWatch)
<1>1. /\ Len(ws) \in Nat /\ DOMAIN ws = 1..Len(ws) /\ \A i \in 1..Len(ws) : ws[i] \in KeyWatch
  BY LenProperties, ElementOfSeq
<1>2. CASE \E i \in DOMAIN ws : ws[i].callback = w.callback
  <2>1. ASSUME NEW i \in 1..Len(ws)
        PROVE  [callback |-> w.callback, actions |-> ws[i].actions \cup w.actions,
                types |-> ws[i].types \cup w.types] \in KeyWatch
    BY <1>1, <2>1 DEF KeyWatch
  <2>2. Widen(ws, w) \in [1..Len(ws) -> KeyWatch]
    BY <1>1, <1>2, <2>1 DEF Widen
  <2>. QED
    BY <1>1, <2>2, SeqDef
<1>3. CASE ~(\E i \in DOMAIN ws : ws[i].callback = w.callback)
  BY <1>3, AppendProperties DEF Widen
<1>. QED
  BY <1>2, <1>3

LEMMA WatchValueAddStep ==
    ASSUME KeysInv, WatchInv, TellInv, NEW q \in KeyRequests, WatchValueAdd(q)
    PROVE  TellInv'
<1>. DEFINE w == [callback |-> q.callback, actions |-> q.actions, types |-> {}]
<1>1. /\ exists' = exists /\ values' = values /\ watches' = watches /\ stack' = stack
      /\ keyWatches' = [keyWatches EXCEPT ![q.repo][q.key] = Widen(@, w)]
  BY DEF WatchValueAdd, tables
<1>2. q.repo \in Repos /\ q.key \in Keys /\ w \in KeyWatch
  BY RequestsAssumption DEF KeyRequest, KeyWatch
<1>3. KeyTyped'
  <2>1. keyWatches \in [Repos -> [Keys -> Seq(KeyWatch)]]
    BY DEF TellInv, KeyTyped
  <2>2. Widen(keyWatches[q.repo][q.key], w) \in Seq(KeyWatch)
    BY <1>2, <2>1, WidenTyped
  <2>. HIDE DEF w
  <2>. QED
    BY <1>1, <1>2, <2>1, <2>2 DEF KeyTyped
<1>4. Stacked(stack', watches', values'[Protocols])
  BY <1>1, StackStays, SameGood
<1>5. Forgotten'
  BY <1>1 DEF TellInv, Forgotten
<1>. QED
  BY <1>3, <1>4, <1>5 DEF TellInv

LEMMA TopFrame ==
    ASSUME TellInv, stack # <<>>
    PROVE  /\ Top \in Frames /\ Tells(Top, watches) /\ Visits(Top, values[Protocols])
           /\ Top.op = "notify" => Top \in NotifyFrames
           /\ Top.op = "walk" => Top \in WalkFrames
<1>1. Top \in Good(watches, values[Protocols])
  BY StackTop DEF TellInv, Top
<1>2. Top \in Frames /\ Tells(Top, watches) /\ Visits(Top, values[Protocols])
  BY <1>1 DEF Good
<1>3. \A f \in Frames : /\ f.op = "notify" => f \in NotifyFrames
                        /\ f.op = "walk" => f \in WalkFrames
  BY DEF Frames, NotifyFrames, CallbackFrames, WalkFrames
<1>. QED
  BY <1>2, <1>3

(* Steps that change the stack alone.                                      *)
LEMMA StackOnly ==
    ASSUME TellInv, UNCHANGED <<tables, watches, keyWatches>>,
           Stacked(stack', watches, values[Protocols])
    PROVE  TellInv'
<1>1. exists' = exists /\ values' = values /\ watches' = watches /\ keyWatches' = keyWatches
  BY DEF tables
<1>2. Stacked(stack', watches', values'[Protocols])
  BY <1>1
<1>3. KeyTyped' /\ Forgotten'
  BY <1>1 DEF TellInv, KeyTyped, Forgotten
<1>. QED
  BY <1>2, <1>3 DEF TellInv

LEMMA Returns ==
    ASSUME TellInv, stack # <<>>, stack' = Front(stack), UNCHANGED <<tables, watches, keyWatches>>
    PROVE  TellInv' /\ Len(stack') = Len(stack) - 1
BY StackTop, StackOnly DEF TellInv

LEMMA WalkBeginStep ==
    ASSUME KeysInv, WatchInv, TellInv, WalkBegin
    PROVE  /\ TellInv'
           /\ Len(stack') = Len(stack) + 1 /\ Last(stack').op = "walk"
<1>. DEFINE ks == values[Protocols]
            f  == Walk(Protocols, Head(ks), {Head(ks)}, ToSet(ks))
<1>1. /\ UNCHANGED <<tables, watches, keyWatches>> /\ stack' = Append(stack, f)
      /\ stack = <<>> /\ ks # <<>>
  BY DEF WalkBegin, Push
<1>2. /\ ks \in Seq(Keys) /\ IsInjective(ks)
  BY DEF KeysInv, KeysUnique, Repos
<1>3. Len(ks) \in Nat /\ Len(ks) # 0 /\ DOMAIN ks = 1..Len(ks) /\ Head(ks) = ks[1]
  BY <1>1, <1>2, EmptySeq, LenProperties
<1>. HIDE DEF ks
<1>4. 1 \in DOMAIN ks /\ Head(ks) \in Keys /\ ToSet(ks) \in SUBSET Keys /\ Head(ks) \in ToSet(ks)
  BY <1>2, <1>3, ElementOfSeq DEF ToSet
<1>5. f \in Frames /\ f.op = "walk" /\ f.key = Head(ks) /\ f.visited = {Head(ks)}
  BY <1>4 DEF Walk, Frames, WalkFrames
<1>. HIDE DEF f
<1>6. \A i \in DOMAIN ks : ks[i] = f.key => i = 1
  BY <1>2, <1>3, <1>4, <1>5 DEF IsInjective
<1>7. Visits(f, ks)
  BY <1>3, <1>4, <1>5, <1>6 DEF Visits
<1>8. f \in Good(watches, ks)
  BY <1>5, <1>7 DEF Good, Tells
<1>9. Stacked(stack', watches, ks) /\ Len(stack') = Len(stack) + 1 /\ Last(stack') = f
  <2>1. Stacked(stack, watches, ks) /\ \A i \in DOMAIN stack : ~AtKey(stack[i])
    BY <1>1, EmptyStack, NoEntries
  <2>2. stack' = Append(stack, f)
    BY <1>1
  <2>. QED
    BY <1>8, <2>1, <2>2, StackPushed
<1>. QED
  BY <1>1, <1>5, <1>9, StackOnly DEF ks

(* A walk goes to the next key, and has visited all when there is none.    *)
LEMMA WalkNextStep ==
    ASSUME KeysInv, WatchInv, TellInv, WalkNext
    PROVE  /\ TellInv'
           /\ Len(stack') # Len(stack) + 1
           /\ Len(stack') < Len(stack) => ToSet(values[Top.repo]) \subseteq Top.visited
<1>. DEFINE ks == values[Protocols]
<1>1. /\ UNCHANGED <<tables, watches, keyWatches>> /\ stack # <<>> /\ Top.op = "walk"
  BY DEF WalkNext, TopIs
<1>2. Top \in WalkFrames /\ Tells(Top, watches) /\ Visits(Top, ks)
  BY <1>1, TopFrame
<1>3. Top.repo = Protocols
  BY <1>2 DEF WalkFrames
<1>4. PICK i \in DOMAIN ks :
         /\ ks[i] = Top.key
         /\ IF i = Len(ks) THEN stack' = Front(stack)
            ELSE Become([Top EXCEPT !.key = ks[i + 1], !.visited = @ \cup {ks[i + 1]}])
  BY <1>3 DEF WalkNext
<1>5. /\ ks \in Seq(Keys) /\ IsInjective(ks) /\ Len(ks) \in Nat /\ DOMAIN ks = 1..Len(ks)
      /\ \A j \in DOMAIN ks : ks[j] \in Keys
  BY LenProperties, ElementOfSeq DEF KeysInv, KeysUnique, Repos
<1>. HIDE DEF ks
<1>6. \A j \in 1..i : ks[j] \in Top.visited
  BY <1>1, <1>2, <1>4 DEF Visits
<1>7. CASE i = Len(ks)
  <2>1. ToSet(ks) \subseteq Top.visited
    BY <1>5, <1>6, <1>7 DEF ToSet
  <2>2. TellInv' /\ Len(stack') = Len(stack) - 1
    BY <1>1, <1>4, <1>7, Returns
  <2>3. Len(stack) \in Nat
    BY <1>1, StackTop DEF TellInv
  <2>. QED
    BY <1>3, <2>1, <2>2, <2>3 DEF ks
<1>8. CASE i # Len(ks)
  <2>. DEFINE f == [Top EXCEPT !.key = ks[i + 1], !.visited = @ \cup {ks[i + 1]}]
  <2>1. i + 1 \in DOMAIN ks /\ stack' = Append(Front(stack), f)
    BY <1>4, <1>5, <1>8 DEF Become
  <2>2. /\ f \in WalkFrames /\ f.op = "walk" /\ f.key = ks[i + 1]
        /\ f.visited = Top.visited \cup {ks[i + 1]}
    BY <1>2, <1>5, <2>1 DEF WalkFrames
  <2>. HIDE DEF f
  <2>3. \A j \in DOMAIN ks : ks[j] = f.key => j = i + 1
    BY <1>5, <2>1, <2>2 DEF IsInjective
  <2>4. \A j \in 1..(i + 1) : ks[j] \in f.visited
    BY <1>4, <1>5, <1>6, <2>2
  <2>5. Visits(f, ks)
    BY <2>1, <2>2, <2>3, <2>4 DEF Visits, ToSet
  <2>6. f \in Good(watches, ks)
    BY <2>2, <2>5 DEF Good, Tells, Frames
  <2>7. Stacked(stack', watches, ks) /\ Len(stack') = Len(stack)
    BY <1>1, <2>1, <2>6, StackReplaced DEF TellInv, ks
  <2>8. Len(stack) \in Nat
    BY <1>1, StackTop DEF TellInv
  <2>. QED
    BY <1>1, <2>7, <2>8, StackOnly DEF ks
<1>. QED
  BY <1>7, <1>8

(* What the walk of a notification has yet to reach, level by level.       *)
LEMMA ReachedAtKey ==
    ASSUME KeysInv, KeyTyped, NEW f \in NotifyFrames, f.level = "key"
    PROVE  Reached(f) = {}
<1>1. ASSUME Present(f.repo, f.key)
      PROVE  \A i \in DOMAIN keyWatches[f.repo][f.key] : keyWatches[f.repo][f.key][i].types = {}
  <2>1. f.repo \in Repos /\ f.key \in Keys
    <3>1. f.repo \in Repos /\ values[f.repo] \in Seq(Keys)
      BY DEF NotifyFrames, KeysInv
    <3>2. \A i \in DOMAIN values[f.repo] : values[f.repo][i] \in Keys
      BY <3>1, ElementOfSeq, LenProperties
    <3>. QED
      BY <1>1, <3>1, <3>2 DEF Present, ToSet
  <2>2. keyWatches[f.repo][f.key] \in Seq(KeyWatch)
    BY <2>1 DEF KeyTyped
  <2>3. \A i \in DOMAIN keyWatches[f.repo][f.key] : keyWatches[f.repo][f.key][i] \in KeyWatch
    BY <2>2, ElementOfSeq, LenProperties
  <2>. QED
    BY <2>3 DEF KeyWatch
<1>2. \/ WatchList(f) = <<>>
      \/ Present(f.repo, f.key) /\ WatchList(f) = keyWatches[f.repo][f.key]
  BY DEF WatchList
<1>3. \A i \in DOMAIN WatchList(f) : WatchList(f)[i].types = {}
  BY <1>1, <1>2, NoEntries
<1>. QED
  BY <1>3 DEF Reached, Matches

LEMMA ReachedAtRepo ==
    ASSUME Forgotten, NEW f \in NotifyFrames, Tells(f, watches), f.level = "repo",
           NEW cb, cb \notin f.told, DueInRepo(f, cb, watches)
    PROVE  \E i \in Reached(f) : i > f.pos /\ i \in DOMAIN watches[f.repo]
              /\ watches[f.repo][i].callback = cb /\ watches[f.repo][i].types \cap f.types # {}
<1>1. PICK i \in DOMAIN watches[f.repo] :
         i > f.pos /\ watches[f.repo][i].callback = cb /\ watches[f.repo][i].types \cap f.types # {}
  BY DEF DueInRepo
<1>2. f.repo \in exists
  BY <1>1, NoEntries DEF Forgotten, NotifyFrames
<1>3. WatchList(f) = watches[f.repo]
  BY <1>2 DEF WatchList, DueInRepo
<1>4. cb \notin f.completed
  BY DEF Tells, NotifyFrames
<1>5. Matches(f, watches[f.repo][i])
  BY <1>1, <1>4 DEF Matches
<1>. QED
  BY <1>1, <1>3, <1>5 DEF Reached

LEMMA ReachedAtAll ==
    ASSUME NEW f \in NotifyFrames, Tells(f, watches), f.level = "all",
           NEW cb, cb \notin f.told, DueInAll(f, cb, watches)
    PROVE  \E i \in Reached(f) : i > f.pos /\ i \in DOMAIN watches[All]
              /\ watches[All][i].callback = cb /\ Asks(watches[All][i], f.acts, f.types)
<1>1. PICK i \in DOMAIN watches[All] :
         /\ i > f.pos /\ watches[All][i].callback = cb
         /\ Asks(watches[All][i], f.acts, f.types)
  BY DEF DueInAll
<1>2. f.acts \cap RepoMask # {} /\ cb \notin f.completed
  BY DEF Tells, NotifyFrames
<1>3. WatchList(f) = watches[All]
  BY <1>2 DEF WatchList
<1>4. Matches(f, watches[All][i])
  BY <1>1, <1>2 DEF Matches, Asks
<1>. QED
  BY <1>1, <1>3, <1>4 DEF Reached

(* A change is told to all that asked for it: nothing is due that the walk *)
(* has not reached.                                                        *)
LEMMA TellsEveryone ==
    ASSUME TellInv
    PROVE  EveryoneTold
<1>. SUFFICES ASSUME TopIs("notify"), ~Top.stale, Top.level = "all", Reached(Top) = {},
                     NEW cb \in Top.due \ Top.told
              PROVE  FALSE
  BY DEF EveryoneTold
<1>1. Top \in NotifyFrames /\ Tells(Top, watches)
  BY TopFrame DEF TopIs
<1>2. DueInAll(Top, cb, watches)
  BY <1>1 DEF Tells, StillDue, DueInRepo, NotifyFrames
<1>. QED
  BY <1>1, <1>2, ReachedAtAll

LEMMA NextLevelStep ==
    ASSUME KeysInv, WatchInv, TellInv, NextLevel
    PROVE  TellInv' /\ Len(stack') = Len(stack)
<1>. DEFINE f == [Top EXCEPT !.level = IF @ = "key" THEN "repo" ELSE "all", !.pos = 0]
<1>1. /\ UNCHANGED <<tables, watches, keyWatches>> /\ stack # <<>> /\ Top.op = "notify"
      /\ stack' = Append(Front(stack), f)
      /\ ~Top.stale /\ Top.level # "all" /\ Reached(Top) = {}
  BY DEF NextLevel, TopIs, Become, ReadsFreed
<1>2. Top \in NotifyFrames /\ Tells(Top, watches)
  BY <1>1, TopFrame
<1>3. /\ f \in NotifyFrames /\ f.pos = 0
      /\ f.level = IF Top.level = "key" THEN "repo" ELSE "all"
      /\ f.op = "notify" /\ f.repo = Top.repo /\ f.acts = Top.acts /\ f.types = Top.types
      /\ f.then = Top.then /\ f.due = Top.due /\ f.told = Top.told
      /\ f.completed = Top.completed /\ f.stale = Top.stale
  BY <1>2 DEF NotifyFrames
<1>. HIDE DEF f
<1>4. ASSUME NEW cb \in f.due \ f.told PROVE StillDue(f, cb, watches)
  <2>1. StillDue(Top, cb, watches)
    BY <1>1, <1>2, <1>3 DEF Tells
  <2>2. CASE DueInAll(Top, cb, watches)
    <3>1. \A i \in DOMAIN watches[All] : i > 0
      BY LenProperties DEF WatchInv
    <3>. QED
      BY <1>3, <2>2, <3>1 DEF StillDue, DueInAll
  <2>3. CASE DueInRepo(Top, cb, watches)
    <3>1. Top.level = "key"
      <4>1. Top.level \in {"key", "repo"}
        BY <1>1, <1>2 DEF NotifyFrames
      <4>2. Top.level # "repo"
        BY <1>1, <1>2, <1>3, <2>3, ReachedAtRepo DEF TellInv
      <4>. QED
        BY <4>1, <4>2
    <3>2. \A i \in DOMAIN watches[f.repo] : i > 0
      <4>1. f.repo \in Repos \cup {All}
        BY <1>3 DEF NotifyFrames
      <4>. QED
        BY <4>1, LenProperties DEF WatchInv
    <3>. QED
      BY <1>3, <2>3, <3>1, <3>2 DEF StillDue, DueInRepo
  <2>. QED
    BY <2>1, <2>2, <2>3 DEF StillDue
<1>5. Tells(f, watches)
  BY <1>1, <1>2, <1>3, <1>4 DEF Tells
<1>6. f \in Good(watches, values[Protocols])
  BY <1>3, <1>5 DEF Good, Visits, Frames
<1>7. Stacked(stack', watches, values[Protocols]) /\ Len(stack') = Len(stack)
  BY <1>1, <1>6, StackReplaced DEF TellInv
<1>. QED
  BY <1>1, <1>7, StackOnly

(* A callback is called that was not told; it is not the last of those due *)
(* only if the others are further on.                                      *)
LEMMA CallWatchStep ==
    ASSUME KeysInv, WatchInv, TellInv, CallWatch
    PROVE  /\ TellInv'
           /\ \A cb \in Callbacks : Last(stack') = Callback(cb) => cb \notin Top.told
<1>1. /\ UNCHANGED <<tables, watches, keyWatches>> /\ stack # <<>> /\ Top.op = "notify"
      /\ ~(Top.stale /\ (Top.level = "all" => Reached(Top) = {}))
  BY DEF CallWatch, TopIs, ReadsFreed
<1>2. Top \in NotifyFrames /\ Tells(Top, watches)
  BY <1>1, TopFrame
<1>a. Top.repo \in Repos /\ Top.pos \in Nat
  BY <1>2 DEF NotifyFrames
<1>b. watches[Top.repo] \in Seq(Watch) /\ watches[All] \in Seq(Watch)
  BY <1>a DEF WatchInv
<1>c. DOMAIN watches[Top.repo] \subseteq Nat
  BY <1>b, LenProperties
<1>d. DOMAIN watches[All] \subseteq Nat
  BY <1>b, LenProperties
<1>3. PICK i \in Reached(Top) :
         /\ \A j \in Reached(Top) : i <= j
         /\ LET cb == WatchList(Top)[i].callback
            IN  stack' = Append(Front(stack),
                           [Top EXCEPT !.pos = i, !.told = @ \cup {cb},
                                       !.completed = IF Top.level = "all" THEN @ ELSE @ \cup {cb}])
                         \o <<Callback(cb)>>
  BY DEF CallWatch
<1>. DEFINE called == WatchList(Top)[i].callback
            f == [Top EXCEPT !.pos = i, !.told = @ \cup {called},
                             !.completed = IF Top.level = "all" THEN @ ELSE @ \cup {called}]
            s == Append(Front(stack), f)
<1>4. i \in DOMAIN WatchList(Top) /\ i > Top.pos /\ Matches(Top, WatchList(Top)[i])
  BY <1>3 DEF Reached
<1>5. Top.level \in {"repo", "all"}
  BY <1>2, <1>3, ReachedAtKey DEF TellInv, NotifyFrames
<1>6. /\ Top.level = "repo" => WatchList(Top) = watches[Top.repo]
      /\ Top.level = "all" => WatchList(Top) = watches[All]
  BY <1>4, NoEntries DEF WatchList
<1>7. i \in Nat /\ called \in Callbacks
  <2>1. WatchList(Top) \in Seq(Watch)
    BY <1>5, <1>6, <1>b
  <2>2. WatchList(Top)[i] \in Watch /\ i \in Nat
    BY <1>4, <2>1, ElementOfSeq, LenProperties
  <2>. QED
    BY <2>2 DEF Watch
<1>8. called \notin Top.completed
  BY <1>4, <1>5 DEF Matches
<1>9. called \notin Top.told
  <2>1. CASE Top.level = "repo"
    BY <1>2, <1>1, <1>8, <2>1 DEF Tells
  <2>2. CASE Top.level = "all"
    <3>1. ASSUME called \in Top.told PROVE FALSE
      <4>1. PICK j \in DOMAIN watches[All] : j <= Top.pos /\ watches[All][j].callback = called
        BY <1>1, <1>2, <1>8, <3>1 DEF Tells
      <4>2. i \in DOMAIN watches[All] /\ watches[All][i].callback = called
        BY <1>4, <1>6, <2>2
      <4>3. i = j
        BY <4>1, <4>2 DEF WatchInv, OneWatchEach
      <4>. QED
        BY <1>4, <1>7, <1>a, <4>1, <4>3
    <3>. QED
      BY <3>1
  <2>. QED
    BY <1>5, <2>1, <2>2
<1>10. stack' = s \o <<Callback(called)>>
  BY <1>3
<1>. HIDE DEF called
<1>11. /\ f \in NotifyFrames /\ f.pos = i /\ f.told = Top.told \cup {called}
       /\ f.completed = IF Top.level = "all" THEN Top.completed ELSE Top.completed \cup {called}
       /\ f.op = "notify" /\ f.repo = Top.repo /\ f.acts = Top.acts /\ f.types = Top.types
       /\ f.then = Top.then /\ f.due = Top.due /\ f.level = Top.level /\ f.stale = Top.stale
  BY <1>2, <1>7 DEF NotifyFrames
<1>. HIDE DEF f
<1>12. Tells(f, watches)
  <2>1. ASSUME ~f.stale, NEW cb \in f.due \ f.told PROVE StillDue(f, cb, watches)
    <3>1. StillDue(Top, cb, watches) /\ cb \notin Top.told /\ cb # called
      BY <1>1, <1>2, <1>11, <2>1 DEF Tells
    <3>2. CASE DueInRepo(Top, cb, watches)
      <4>1. Top.level = "repo"
        BY <1>5, <3>2 DEF DueInRepo
      <4>2. PICK j \in Reached(Top) :
               /\ j \in DOMAIN watches[Top.repo] /\ watches[Top.repo][j].callback = cb
               /\ watches[Top.repo][j].types \cap Top.types # {}
        BY <1>2, <3>1, <3>2, <4>1, ReachedAtRepo DEF TellInv
      <4>3. i <= j /\ i # j
        BY <1>3, <1>6, <3>1, <4>1, <4>2 DEF called
      <4>4. j \in Nat
        BY <1>c, <4>2
      <4>5. j > f.pos
        BY <1>7, <1>11, <4>3, <4>4
      <4>. QED
        BY <1>11, <3>2, <4>1, <4>2, <4>5 DEF StillDue, DueInRepo
    <3>3. CASE DueInAll(Top, cb, watches) /\ Top.level = "repo"
      BY <1>11, <3>3 DEF StillDue, DueInAll
    <3>4. CASE DueInAll(Top, cb, watches) /\ Top.level = "all"
      <4>1. PICK j \in Reached(Top) :
               /\ j \in DOMAIN watches[All] /\ watches[All][j].callback = cb
               /\ Asks(watches[All][j], Top.acts, Top.types)
        BY <1>2, <3>1, <3>4, ReachedAtAll
      <4>2. i <= j /\ i # j
        BY <1>3, <1>6, <3>1, <3>4, <4>1 DEF called
      <4>3. j \in Nat
        BY <1>d, <4>1
      <4>4. j > f.pos
        BY <1>7, <1>11, <4>2, <4>3
      <4>. QED
        BY <1>11, <4>1, <4>4 DEF StillDue, DueInAll
    <3>. QED
      BY <1>5, <3>1, <3>2, <3>3, <3>4 DEF StillDue
  <2>2. ASSUME NEW cb \in f.told \ f.completed
        PROVE  f.level = "all" /\ \E j \in DOMAIN watches[All] : j <= f.pos /\ watches[All][j].callback = cb
    <3>1. CASE cb = called
      <4>1. f.level = "all"
        BY <1>5, <1>11, <2>2, <3>1
      <4>2. i \in DOMAIN watches[All] /\ watches[All][i].callback = called
        BY <1>4, <1>6, <1>11, <4>1 DEF called
      <4>. QED
        BY <1>7, <1>11, <3>1, <4>1, <4>2
    <3>2. CASE cb # called
      <4>1. Top.level = "all"
        BY <1>1, <1>2, <1>11, <2>2, <3>2 DEF Tells
      <4>2. PICK j \in DOMAIN watches[All] : j <= Top.pos /\ watches[All][j].callback = cb
        BY <1>1, <1>2, <1>11, <2>2, <3>2 DEF Tells
      <4>3. j <= f.pos
        <5>1. j \in Nat
          BY <1>d
        <5>. QED
          BY <1>4, <1>7, <1>11, <1>a, <4>2, <5>1
      <4>. QED
        BY <1>11, <4>1, <4>2, <4>3
    <3>. QED
      BY <3>1, <3>2
  <2>. QED
    BY <1>1, <1>2, <1>5, <1>11, <2>1, <2>2 DEF Tells
<1>13. f \in Good(watches, values[Protocols]) /\ ~AtKey(f)
  BY <1>5, <1>11, <1>12 DEF Good, Visits, Frames, AtKey
<1>14. Stacked(s, watches, values[Protocols]) /\ \A j \in DOMAIN s : ~AtKey(s[j])
  BY <1>1, <1>13, StackReplaced DEF TellInv
<1>15. stack' = Append(s, Callback(called))
  <2>1. s \in Seq(Good(watches, values[Protocols]))
    BY <1>14 DEF Stacked
  <2>2. Callback(called) \in Good(watches, values[Protocols])
    BY <1>7, CallbackGood
  <2>. QED
    BY <1>10, <2>1, <2>2, AppendIsConcat
<1>. HIDE DEF s
<1>16. Stacked(stack', watches, values[Protocols]) /\ Last(stack') = Callback(called)
  BY <1>7, <1>14, <1>15, CallbackGood, StackPushed
<1>17. \A cb : Callback(cb) = Callback(called) => cb = called
  BY DEF Callback
<1>. QED
  BY <1>1, <1>9, <1>16, <1>17, StackOnly

(* What a deletion marks.                                                  *)
LEMMA StaleGood ==
    ASSUME NEW ws, NEW ks, NEW f \in Good(ws, ks)
    PROVE  LET g == [f EXCEPT !.stale = TRUE]
           IN  g \in Good(ws, ks) /\ g.stale /\ (AtKey(g) <=> AtKey(f))
<1>. DEFINE g == [f EXCEPT !.stale = TRUE]
<1>1. f \in Frames /\ Tells(f, ws) /\ Visits(f, ks)
  BY DEF Good
<1>2. CASE f \in NotifyFrames
  <2>1. /\ g \in NotifyFrames /\ g.stale /\ g.op = "notify" /\ f.op = "notify"
        /\ g.level = f.level /\ g.acts = f.acts /\ g.then = f.then /\ g.repo = f.repo
        /\ g.completed = f.completed /\ g.told = f.told /\ g.pos = f.pos
    BY <1>2 DEF NotifyFrames
  <2>. HIDE DEF g
  <2>2. Tells(g, ws)
    BY <1>1, <2>1 DEF Tells
  <2>. QED
    BY <2>1, <2>2 DEF Good, Frames, Visits, AtKey, g
<1>3. CASE f \in CallbackFrames
  <2>1. g \in CallbackFrames /\ g.stale /\ g.op = "callback" /\ f.op = "callback"
    BY <1>3 DEF CallbackFrames
  <2>. HIDE DEF g
  <2>. QED
    BY <2>1 DEF Good, Frames, Visits, Tells, AtKey, g
<1>4. CASE f \in WalkFrames
  <2>1. /\ g \in WalkFrames /\ g.stale /\ g.op = "walk" /\ f.op = "walk"
        /\ g.key = f.key /\ g.visited = f.visited
    BY <1>4 DEF WalkFrames
  <2>. HIDE DEF g
  <2>2. Visits(g, ks)
    BY <1>1, <2>1 DEF Visits
  <2>. QED
    BY <2>1, <2>2 DEF Good, Frames, Tells, AtKey, g
<1>. QED
  BY <1>1, <1>2, <1>3, <1>4 DEF Frames

LEMMA Marks ==
    ASSUME NEW us, NEW ks, NEW J, TellInv, stack # <<>>, PopMarking(J),
           \A i \in DOMAIN Front(stack) :
               IF i \in J THEN [stack[i] EXCEPT !.stale = TRUE] \in Good(us, ks)
               ELSE stack[i] \in Good(us, ks)
    PROVE  Stacked(stack', us, ks) /\ Len(stack') = Len(stack) - 1
<1>1. /\ DOMAIN Front(stack) = 1..(Len(stack) - 1) /\ Len(stack) \in Nat \ {0}
      /\ \A i \in DOMAIN Front(stack) :
            stack[i] \in Good(watches, values[Protocols]) /\ ~AtKey(stack[i])
  BY StackTop DEF TellInv
<1>2. Len(stack) - 1 \in Nat
  BY <1>1
<1>3. stack' = [i \in 1..(Len(stack) - 1) |->
                   IF i \in J THEN [stack[i] EXCEPT !.stale = TRUE] ELSE stack[i]]
  BY <1>1 DEF PopMarking
<1>4. ASSUME NEW i \in 1..(Len(stack) - 1)
      PROVE  stack'[i] \in Good(us, ks) /\ ~AtKey(stack'[i])
  <2>1. CASE i \in J
    BY <1>1, <1>3, <2>1, StaleGood
  <2>2. CASE i \notin J
    BY <1>1, <1>3, <2>2
  <2>. QED
    BY <2>1, <2>2
<1>5. stack' \in [1..(Len(stack) - 1) -> Good(us, ks)]
  BY <1>3, <1>4
<1>6. stack' \in Seq(Good(us, ks)) /\ DOMAIN stack' = 1..(Len(stack) - 1)
  BY <1>2, <1>5, SeqDef
<1>7. Len(stack') = Len(stack) - 1
  BY <1>2, <1>6, LenProperties
<1>. QED
  BY <1>4, <1>6, <1>7 DEF Stacked, KeyOnTop

LEMMA ValueDeletedStep ==
    ASSUME KeysInv, WatchInv, TellInv, ValueDeleted
    PROVE  TellInv' /\ Len(stack') = Len(stack) - 1
<1>1. stack # <<>> /\ Top.op = "notify" /\ Top.then = "del value"
  BY DEF ValueDeleted, Finished, TopIs
<1>2. Top.repo \in Tables
  BY <1>1, TopFrame DEF Tells
<1>3. /\ exists' = exists /\ watches' = watches
      /\ \E t : values' = [values EXCEPT ![Top.repo] = t]
      /\ keyWatches' = [keyWatches EXCEPT ![Top.repo][Top.key] = <<>>]
      /\ \E J : PopMarking(J)
  BY DEF ValueDeleted
<1>4. values'[Protocols] = values[Protocols]
  BY <1>2, <1>3, RepoNamesAssumption DEF KeysInv, Repos
<1>5. Stacked(stack', watches', values'[Protocols]) /\ Len(stack') = Len(stack) - 1
  <2>1. PICK J : PopMarking(J)
    BY <1>3
  <2>2. \A i \in DOMAIN Front(stack) : stack[i] \in Good(watches, values[Protocols])
    BY <1>1, StackTop DEF TellInv
  <2>. QED
    BY <1>1, <1>3, <1>4, <2>1, <2>2, StaleGood, Marks
<1>6. KeyTyped'
  BY <1>3, EmptySeq DEF TellInv, KeyTyped
<1>7. Forgotten'
  BY <1>3 DEF TellInv, Forgotten
<1>. QED
  BY <1>5, <1>6, <1>7 DEF TellInv

(* A table that goes takes its list of watches along: what was walking it  *)
(* is marked, and nothing else depends on it.                              *)
LEMMA DeletedGood ==
    ASSUME NEW ks, NEW r \in Tables, NEW us, us[All] = watches[All],
           \A q \in Repos \ {r} : us[q] = watches[q],
           NEW f \in Good(watches, ks), ~AtKey(f),
           f.stale \/ ~(f.op = "notify" /\ f.repo = r /\ f.level = "repo")
    PROVE  f \in Good(us, ks)
<1>1. f \in Frames /\ Tells(f, watches) /\ Visits(f, ks)
  BY DEF Good
<1>2. CASE f.op # "notify"
  BY <1>1, <1>2 DEF Good, Tells
<1>3. CASE f.op = "notify"
  <2>1. f.repo \in Repos /\ f.level \in {"key", "repo", "all"}
    BY <1>1, <1>3 DEF Frames, NotifyFrames, CallbackFrames, WalkFrames
  <2>2. ASSUME ~f.stale, NEW cb, StillDue(f, cb, watches) PROVE StillDue(f, cb, us)
    <3>1. f.level = "all" \/ us[f.repo] = watches[f.repo]
      BY <1>3, <2>1, <2>2 DEF AtKey
    <3>. QED
      BY <2>2, <3>1 DEF StillDue, DueInRepo, DueInAll
  <2>3. Tells(f, us)
    BY <1>1, <2>2 DEF Tells
  <2>. QED
    BY <1>1, <2>3 DEF Good
<1>. QED
  BY <1>2, <1>3

LEMMA RepoDeletedStep ==
    ASSUME KeysInv, WatchInv, TellInv, RepoDeleted
    PROVE  TellInv' /\ Len(stack') = Len(stack) - 1
<1>1. stack # <<>> /\ Top.op = "notify" /\ Top.then = "del repo"
  BY DEF RepoDeleted, Finished, TopIs
<1>2. PICK r \in Tables : r = Top.repo
  BY <1>1, TopFrame DEF Tells
<1>3. /\ exists' = exists \ {r}
      /\ values' = [values EXCEPT ![r] = <<>>]
      /\ watches' = [watches EXCEPT ![r] = <<>>]
      /\ keyWatches' = [keyWatches EXCEPT ![r] = [k \in Keys |-> <<>>]]
  BY <1>2 DEF RepoDeleted
<1>4. PICK J : /\ PopMarking(J)
               /\ \A i \in DOMAIN stack :
                     stack[i].op = "notify" /\ stack[i].repo = r /\ stack[i].level = "repo" => i \in J
  BY <1>2 DEF RepoDeleted
<1>5. r \in Repos /\ r # Protocols /\ All # r /\ watches \in [Repos \cup {All} -> Seq(Watch)]
  BY <1>2, RepoNamesAssumption DEF Repos, WatchInv
<1>6. /\ values'[Protocols] = values[Protocols]
      /\ watches'[All] = watches[All] /\ watches'[r] = <<>>
      /\ \A q \in Repos \ {r} : watches'[q] = watches[q]
  BY <1>3, <1>5 DEF KeysInv, Repos
<1>. DEFINE ks == values[Protocols]
<1>7. Stacked(stack', watches', ks) /\ Len(stack') = Len(stack) - 1
  <2>1. /\ DOMAIN Front(stack) = 1..(Len(stack) - 1) /\ Len(stack) \in Nat \ {0}
        /\ \A i \in DOMAIN Front(stack) : stack[i] \in Good(watches, ks) /\ ~AtKey(stack[i])
        /\ DOMAIN stack = 1..Len(stack)
    BY <1>1, StackTop, LenProperties DEF TellInv, Stacked
  <2>2. ASSUME NEW i \in DOMAIN Front(stack)
        PROVE  i \notin J => stack[i] \in Good(watches', ks)
    <3>1. i \in DOMAIN stack
      BY <2>1
    <3>. QED
      BY <1>4, <1>6, <2>1, <3>1, DeletedGood
  <2>3. ASSUME NEW i \in DOMAIN Front(stack)
        PROVE  [stack[i] EXCEPT !.stale = TRUE] \in Good(watches', ks)
    <3>. DEFINE g == [stack[i] EXCEPT !.stale = TRUE]
    <3>1. g \in Good(watches, ks) /\ g.stale /\ ~AtKey(g)
      BY <2>1, StaleGood
    <3>. HIDE DEF g
    <3>2. g \in Good(watches', ks)
      BY <1>6, <3>1, DeletedGood
    <3>. QED
      BY <3>2 DEF g
  <2>. QED
    BY <1>1, <1>4, <2>2, <2>3, Marks
<1>8. KeyTyped'
  BY <1>3, <1>5, EmptySeq DEF TellInv, KeyTyped
<1>9. Forgotten'
  BY <1>3, <1>6 DEF TellInv, Forgotten
<1>. QED
  BY <1>6, <1>7, <1>8, <1>9 DEF TellInv

-----------------------------------------------------------------------------
(* The two action properties, for one step.                                *)
Calls   == \A cb \in Callbacks :
              Len(stack') = Len(stack) + 1 /\ Last(stack') = Callback(cb) => cb \notin Top.told
WalkEnds == TopIs("walk") /\ Len(stack') < Len(stack) => ToSet(values[Top.repo]) \subseteq Top.visited

(* Steps that call no watcher and end no walk.                             *)
LEMMA Harmless ==
    ASSUME Len(stack') = Len(stack) + 1 => Last(stack').op # "callback",
           Len(stack') < Len(stack) => ~TopIs("walk")
    PROVE  Calls /\ WalkEnds
BY DEF Calls, WalkEnds, Callback

LEMMA TellStep ==
    ASSUME KeysInv, WatchInv, TellInv, [Next]_vars
    PROVE  TellInv' /\ Calls /\ WalkEnds
<1>0. Len(stack) \in Nat
  BY LenProperties DEF TellInv, Stacked
<1>1. CASE CallWatch
  <2>1. ~TopIs("walk")
    BY <1>1 DEF CallWatch, TopIs
  <2>. QED
    BY <1>1, <2>1, CallWatchStep DEF Calls, WalkEnds
<1>2. CASE NextLevel
  BY <1>0, <1>2, NextLevelStep, Harmless
<1>3. CASE CallbackReturns \/ NotifyReturns
  <2>1. /\ stack # <<>> /\ stack' = Front(stack) /\ ~TopIs("walk")
        /\ UNCHANGED <<tables, watches, keyWatches>>
    BY <1>3 DEF CallbackReturns, NotifyReturns, Finished, TopIs
  <2>. QED
    BY <1>0, <2>1, Returns, Harmless
<1>4. CASE UseAfterFree \/ UNCHANGED vars
  <2>1. stack' = stack /\ UNCHANGED <<tables, watches, keyWatches>>
    BY <1>4 DEF UseAfterFree, vars, tables
  <2>. QED
    BY <1>0, <2>1, StackOnly, Harmless DEF TellInv
<1>5. CASE ValueDeleted
  <2>1. ~TopIs("walk")
    BY <1>5 DEF ValueDeleted, Finished, TopIs
  <2>. QED
    BY <1>0, <1>5, <2>1, ValueDeletedStep, Harmless
<1>6. CASE RepoDeleted
  <2>1. ~TopIs("walk")
    BY <1>6 DEF RepoDeleted, Finished, TopIs
  <2>. QED
    BY <1>0, <1>6, <2>1, RepoDeletedStep, Harmless
<1>7. CASE \/ \E r \in Tables : RepoAdd(r) \/ RepoDel(r)
           \/ \E r \in Tables, k \in Keys : ChangeValue(r, k) \/ DelValue(r, k)
  BY <1>0, <1>7, TablesStep, Harmless
<1>8. CASE \E r \in Repos, k \in Keys : AddValue(r, k)
  BY <1>0, <1>8, AddStep, Harmless
<1>9. ASSUME NEW q \in Requests, WatchAdd(q) \/ WatchDel(q)
      PROVE  TellInv' /\ Calls /\ WalkEnds
  <2>1. stack' = stack
    BY <1>9 DEF WatchAdd, WatchDel
  <2>. QED
    BY <1>0, <1>9, <2>1, WatchAddStep, WatchDelStep, Harmless
<1>10. ASSUME NEW q \in KeyRequests, WatchValueAdd(q)
       PROVE  TellInv' /\ Calls /\ WalkEnds
  <2>1. stack' = stack
    BY <1>10 DEF WatchValueAdd
  <2>. QED
    BY <1>0, <1>10, <2>1, WatchValueAddStep, Harmless
<1>11. CASE WalkBegin
  BY <1>0, <1>11, WalkBeginStep, Harmless
<1>12. CASE WalkNext
  BY <1>12, WalkNextStep DEF Calls, WalkEnds
<1>. QED
  BY <1>1, <1>2, <1>3, <1>4, <1>5, <1>6, <1>7, <1>8, <1>9, <1>10, <1>11, <1>12 DEF Next

LEMMA TellInit == Init => KeysInv /\ WatchInv /\ TellInv
<1>. SUFFICES ASSUME Init PROVE KeysInv /\ WatchInv /\ TellInv
  OBVIOUS
<1>1. <<>> \in Seq(Keys) /\ IsInjective(<<>>) /\ <<>> \in Seq(Watch) /\ One(<<>>)
      /\ <<>> \in Seq(KeyWatch)
  BY EmptySeq, NoEntries DEF IsInjective, One
<1>2. KeysInv
  BY <1>1 DEF Init, KeysInv, KeysUnique, Repos
<1>3. WatchInv
  BY <1>1 DEF Init, WatchInv, OneWatchEach, One
<1>4. Stacked(stack, watches, values[Protocols])
  BY EmptyStack DEF Init
<1>5. KeyTyped /\ Forgotten
  BY <1>1 DEF Init, KeyTyped, Forgotten
<1>. QED
  BY <1>2, <1>3, <1>4, <1>5 DEF TellInv

LEMMA TellAlways == Spec => [](KeysInv /\ WatchInv /\ TellInv)
<1>1. KeysInv /\ WatchInv /\ TellInv /\ [Next]_vars => (KeysInv /\ WatchInv /\ TellInv)'
  BY KeysStep, WatchStep, TellStep
<1>. QED
  BY <1>1, TellInit, PTL DEF Spec

(* Whoever asked for a change before it was made is told of it, whatever   *)
(* the callbacks, scripts and deletions nested in the notification do to   *)
(* the lists it walks (ggadu_repo_watch_notify).                           *)
THEOREM EveryoneCorrect == Spec => []EveryoneTold
<1>1. TellInv => EveryoneTold
  BY TellsEveryone
<1>. QED
  BY <1>1, TellAlways, PTL

(* And told of it once, although its watches may be in two of the lists.   *)
THEOREM CallsCorrect == Spec => CalledOnce
<1>1. KeysInv /\ WatchInv /\ TellInv /\ [Next]_vars =>
        [\A cb \in Callbacks :
            Len(stack') = Len(stack) + 1 /\ Last(stack') = Callback(cb) => cb \notin Top.told]_vars
  BY TellStep DEF Calls
<1>. QED
  BY <1>1, TellAlways, PTL DEF Spec, CalledOnce

(* go_status of the docklet goes to every protocol there is when it ends,  *)
(* also to those added while it told the ones before.                      *)
THEOREM WalksCorrect == Spec => AllProtocolsVisited
<1>1. KeysInv /\ WatchInv /\ TellInv /\ [Next]_vars =>
        [TopIs("walk") /\ Len(stack') < Len(stack) => ToSet(values[Top.repo]) \subseteq Top.visited]_vars
  BY TellStep DEF WalkEnds
<1>. QED
  BY <1>1, TellAlways, PTL DEF Spec, AllProtocolsVisited

-----------------------------------------------------------------------------
(***************************************************************************)
(* The contacts of the Tlen plugin, which the repository lists.            *)
(***************************************************************************)
TlenEntries == [who : Tlenites, status : {"on", "off"}, shown : {"on", "off"}]

(* What is under way: what begins a login, the list, and presences.        *)
Opening   == [kind : {"roster", "status"}, what : {{}}]
Listing   == [kind : {"item"}, what : Tlenites] \cup [kind : {"end"}, what : {{}}]
Telling   == [kind : {"on", "off"}, what : Tlenites]
TlenAsked ==
    Opening \cup [kind : {"add", "remove"}, what : Tlenites] \cup [kind : {"search"}, what : Nat]
TlenTold  == Listing \cup Telling \cup [kind : {"found", "done"}, what : Nat]

TlenTypes ==
    /\ online \in BOOLEAN /\ announced \in BOOLEAN /\ call \in {"none", "fresh", "walked"}
    /\ userlist \in Seq(TlenEntries) /\ requests \in Seq(TlenAsked) /\ reports \in Seq(TlenTold)
    /\ atServer \subseteq Tlenites /\ IsFiniteSet(atServer) /\ present \subseteq Tlenites /\ searches \in Nat

(* Something of X is in s, is in s before something of Y, and what is in s *)
(* last of X is of Y.                                                      *)
Some(s, X)     == \E i \in DOMAIN s : s[i] \in X
Before(s, X, Y) == \E i, j \in DOMAIN s : i < j /\ s[i] \in X /\ s[j] \in Y
Finally(s, X, Y) ==
    \A i \in DOMAIN s : s[i] \in X /\ (\A j \in DOMAIN s : i < j => s[j] \notin X) => s[i] \in Y

(* Without a connection nothing is under way, and nobody is known.         *)
Parted ==
    ~online => /\ requests = <<>> /\ reports = <<>> /\ ~announced /\ call = "none"
               /\ Known \subseteq missed

(* A login asks for the list, gets it, and only then announces the user;   *)
(* before that nobody's presence is told.                                  *)
LoginOrder ==
    /\ Some(requests, Opening) => ~announced /\ ~Some(reports, Listing)
    /\ ~Before(requests, Opening, Opening)
    /\ Some(reports, Listing) => ~announced
    /\ ~Before(reports, {Note("end", {})}, Listing)
    /\ Some(reports, Telling) => announced

(* Whether c is listed will agree with the server.                         *)
Adding(c)   == {Note("add", c)}
Removing(c) == {Note("remove", c)}
Listed(c)   == {Note("item", c)}
Rostering   == {Note("roster", {})}
Removed(c) ==
    /\ Some(requests, Removing(c)) =>
          c \notin Known /\ ~Some(requests, Rostering) /\ ~Some(reports, Listed(c))
    /\ ~Before(requests, Removing(c), Adding(c)) /\ ~Before(requests, Removing(c), Removing(c))
Joined(c) ==
    /\ \A i, j \in EntriesOf(c) : i = j
    /\ Some(requests, Adding(c)) => c \in Known \/ Some(requests, Removing(c))
    /\ c \in Known => c \in atServer \/ Some(requests, Adding(c))
    /\ Some(reports, Listed(c)) => c \in atServer
    /\ online /\ c \in atServer \ Known =>
          Some(requests, Removing(c)) \/ Some(requests, Rostering) \/ Some(reports, Listed(c))

(* The last presence on its way, or the one that was told last, is so.     *)
PresenceOf(c) == {Note("on", c), Note("off", c)}
Right(c)      == {Note(IF c \in present THEN "on" ELSE "off", c)}
Followed(c) ==
    c \in Known =>
        /\ Some(reports, PresenceOf(c)) => c \in atServer
        /\ Finally(reports, PresenceOf(c), Right(c))
        /\ ~Some(reports, PresenceOf(c)) /\ c \notin missed =>
              \A i \in EntriesOf(c) :
                  userlist[i].status = "on" <=> announced /\ c \in atServer /\ c \in present

Agreed(c) == Removed(c) /\ Joined(c) /\ Followed(c)

(* The GUI looked since.                                                   *)
Looked == \A i \in DOMAIN userlist : userlist[i].who \notin untold => userlist[i].shown = userlist[i].status

(* Results are shown right after they were found.                          *)
Paired(s) ==
    \A i \in DOMAIN s : s[i].kind = "found" =>
        i + 1 \in DOMAIN s /\ s[i + 1] = Note("done", s[i].what)
Searching ==
    /\ Paired(reports)
    /\ \A r \in ToSet(results) \ cut : reports # <<>> /\ Head(reports) = Note("done", r)

TlenInv ==
    /\ TlenTypes /\ Parted /\ LoginOrder /\ Looked /\ Searching /\ ResultsFit
    /\ \A c \in Tlenites \ misled : Agreed(c)

(* What is left of s when the first goes.                                  *)
LEMMA FirstGone ==
    ASSUME NEW S, NEW s \in Seq(S), s # <<>>
    PROVE  /\ Head(s) \in S /\ Tail(s) \in Seq(S) /\ Len(s) \in Nat \ {0} /\ DOMAIN s = 1..Len(s)
           /\ Head(s) = s[1] /\ DOMAIN Tail(s) = 1..(Len(s) - 1)
           /\ \A i \in 1..(Len(s) - 1) : Tail(s)[i] = s[i + 1] /\ i + 1 \in 1..Len(s)
           /\ \A i \in 1..Len(s) : i = 1 \/ (i - 1 \in 1..(Len(s) - 1) /\ Tail(s)[i - 1] = s[i])
<1>1. PICK n : n = Len(s)
  OBVIOUS
<1>2. PICK t : t = Tail(s)
  OBVIOUS
<1>3. n \in Nat /\ DOMAIN s = 1..n /\ n # 0
  BY <1>1, LenProperties, EmptySeq
<1>4. /\ Head(s) \in S /\ t \in Seq(S) /\ Len(t) = n - 1 /\ \A i \in 1..(n - 1) : t[i] = s[i + 1]
      /\ Head(s) = s[1]
  BY <1>1, <1>2, HeadTailProperties
<1>5. DOMAIN t = 1..(n - 1)
  BY <1>4, LenProperties
<1>6. \A i \in 1..(n - 1) : i + 1 \in 1..n
  BY <1>3
<1>7. \A i \in 1..n : i = 1 \/ (i - 1 \in 1..(n - 1) /\ (i - 1) + 1 = i)
  BY <1>3
<1>8. \A i \in 1..n : i = 1 \/ (i - 1 \in 1..(n - 1) /\ t[i - 1] = s[i])
  BY <1>4, <1>7
<1> QED
  BY <1>1, <1>2, <1>3, <1>4, <1>5, <1>6, <1>8

LEMMA SomeFirst ==
    ASSUME NEW S, NEW s \in Seq(S), s # <<>>, NEW X
    PROVE  Some(s, X) <=> Head(s) \in X \/ Some(Tail(s), X)
<1>1. PICK n, t : n = Len(s) /\ t = Tail(s)
  OBVIOUS
<1>2. /\ n \in Nat \ {0} /\ DOMAIN s = 1..n /\ Head(s) = s[1] /\ DOMAIN t = 1..(n - 1)
      /\ \A i \in 1..(n - 1) : t[i] = s[i + 1] /\ i + 1 \in 1..n
      /\ \A i \in 1..n : i = 1 \/ (i - 1 \in 1..(n - 1) /\ t[i - 1] = s[i])
  BY <1>1, FirstGone
<1>3. 1 \in 1..n
  BY <1>2
<1> QED
  BY <1>1, <1>2, <1>3 DEF Some

LEMMA BeforeFirst ==
    ASSUME NEW S, NEW s \in Seq(S), s # <<>>, NEW X, NEW Y
    PROVE  /\ Before(Tail(s), X, Y) => Before(s, X, Y)
           /\ Head(s) \in X /\ Some(Tail(s), Y) => Before(s, X, Y)
<1>1. PICK n, t : n = Len(s) /\ t = Tail(s)
  OBVIOUS
<1>2. /\ n \in Nat \ {0} /\ DOMAIN s = 1..n /\ Head(s) = s[1] /\ DOMAIN t = 1..(n - 1)
      /\ \A i \in 1..(n - 1) : t[i] = s[i + 1] /\ i + 1 \in 1..n
  BY <1>1, FirstGone
<1>3. \A i, j \in 1..(n - 1) : i < j => i + 1 < j + 1
  BY <1>2
<1>4. \A j \in 1..(n - 1) : 1 < j + 1
  BY <1>2
<1>5. 1 \in 1..n
  BY <1>2
<1>6. Before(t, X, Y) => Before(s, X, Y)
  BY <1>2, <1>3 DEF Before
<1>7. Head(s) \in X /\ Some(t, Y) => Before(s, X, Y)
  BY <1>2, <1>4, <1>5 DEF Before, Some
<1> QED
  BY <1>1, <1>6, <1>7

LEMMA FinallyFirst ==
    ASSUME NEW S, NEW s \in Seq(S), s # <<>>, NEW X, NEW Y, Finally(s, X, Y)
    PROVE  /\ Finally(Tail(s), X, Y)
           /\ Head(s) \in X /\ ~Some(Tail(s), X) => Head(s) \in Y
<1>1. PICK n, t : n = Len(s) /\ t = Tail(s)
  OBVIOUS
<1>2. /\ n \in Nat \ {0} /\ DOMAIN s = 1..n /\ Head(s) = s[1] /\ DOMAIN t = 1..(n - 1)
      /\ \A i \in 1..(n - 1) : t[i] = s[i + 1] /\ i + 1 \in 1..n
      /\ \A i \in 1..n : i = 1 \/ (i - 1 \in 1..(n - 1) /\ t[i - 1] = s[i])
  BY <1>1, FirstGone
<1>3. ASSUME NEW i \in 1..(n - 1), t[i] \in X, \A j \in 1..(n - 1) : i < j => t[j] \notin X
      PROVE  t[i] \in Y
  <2>1. i + 1 \in 1..n /\ s[i + 1] \in X
    BY <1>2, <1>3
  <2>2. \A j \in 1..n : i + 1 < j => j # 1 /\ i < j - 1
    BY <1>2
  <2>3. \A j \in 1..n : i + 1 < j => s[j] \notin X
    BY <1>2, <1>3, <2>2
  <2>4. s[i + 1] \in Y
    BY <1>2, <2>1, <2>3 DEF Finally
  <2> QED
    BY <1>2, <2>4
<1>4. Finally(t, X, Y)
  BY <1>2, <1>3 DEF Finally
<1>5. ASSUME s[1] \in X, ~Some(t, X)
      PROVE  s[1] \in Y
  <2>1. \A j \in 1..n : 1 < j => s[j] \notin X
    <3>1. \A j \in 1..n : 1 < j => j # 1
      OBVIOUS
    <3> QED
      BY <1>2, <1>5, <3>1 DEF Some
  <2>2. 1 \in 1..n
    BY <1>2
  <2> QED
    BY <1>2, <1>5, <2>1, <2>2 DEF Finally
<1> QED
  BY <1>1, <1>2, <1>4, <1>5

(* What there is when more follows s.                                      *)
LEMMA MoreFollows ==
    ASSUME NEW S, NEW s \in Seq(S), NEW t \in Seq(S)
    PROVE  /\ s \o t \in Seq(S) /\ Len(s) \in Nat /\ Len(t) \in Nat
           /\ DOMAIN s = 1..Len(s) /\ DOMAIN t = 1..Len(t) /\ DOMAIN (s \o t) = 1..(Len(s) + Len(t))
           /\ \A i \in 1..Len(s) : i \in 1..(Len(s) + Len(t)) /\ (s \o t)[i] = s[i]
           /\ \A i \in 1..Len(t) :
                 Len(s) + i \in 1..(Len(s) + Len(t)) /\ (s \o t)[Len(s) + i] = t[i]
           /\ \A i \in 1..(Len(s) + Len(t)) :
                 i \in 1..Len(s) \/ (i - Len(s) \in 1..Len(t) /\ i = Len(s) + (i - Len(s)))
<1>1. PICK m, n, u : m = Len(s) /\ n = Len(t) /\ u = s \o t
  OBVIOUS
<1>2. m \in Nat /\ n \in Nat /\ DOMAIN s = 1..m /\ DOMAIN t = 1..n
  BY <1>1, LenProperties
<1>3. /\ u \in Seq(S) /\ Len(u) = m + n
      /\ \A i \in 1..(m + n) : u[i] = IF i <= m THEN s[i] ELSE t[i - m]
  BY <1>1, ConcatProperties
<1>4. DOMAIN u = 1..(m + n)
  BY <1>3, LenProperties
<1>5. \A i \in 1..m : i \in 1..(m + n) /\ i <= m
  BY <1>2
<1>6. \A i \in 1..n : m + i \in 1..(m + n) /\ ~(m + i <= m) /\ (m + i) - m = i
  BY <1>2
<1>7. \A i \in 1..(m + n) : i \in 1..m \/ (i - m \in 1..n /\ i = m + (i - m))
  BY <1>2
<1>8. \A i \in 1..m : u[i] = s[i]
  BY <1>3, <1>5
<1>9. \A i \in 1..n : u[m + i] = t[i]
  BY <1>3, <1>6
<1> QED
  BY <1>1, <1>2, <1>3, <1>4, <1>5, <1>6, <1>7, <1>8, <1>9

LEMMA SomeMore ==
    ASSUME NEW S, NEW s \in Seq(S), NEW t \in Seq(S), NEW X
    PROVE  Some(s \o t, X) <=> Some(s, X) \/ Some(t, X)
<1>1. PICK m, n, u : m = Len(s) /\ n = Len(t) /\ u = s \o t
  OBVIOUS
<1>2. /\ DOMAIN s = 1..m /\ DOMAIN t = 1..n /\ DOMAIN u = 1..(m + n)
      /\ \A i \in 1..m : i \in 1..(m + n) /\ u[i] = s[i]
      /\ \A i \in 1..n : m + i \in 1..(m + n) /\ u[m + i] = t[i]
      /\ \A i \in 1..(m + n) : i \in 1..m \/ (i - m \in 1..n /\ i = m + (i - m))
  BY <1>1, MoreFollows
<1>3. ASSUME NEW i \in 1..m, s[i] \in X
      PROVE  Some(u, X)
  BY <1>2, <1>3 DEF Some
<1>4. ASSUME NEW i \in 1..n, t[i] \in X
      PROVE  Some(u, X)
  BY <1>2, <1>4 DEF Some
<1>5. ASSUME NEW i \in 1..(m + n), u[i] \in X
      PROVE  Some(s, X) \/ Some(t, X)
  <2>1. CASE i \in 1..m
    BY <1>2, <1>5, <2>1 DEF Some
  <2>2. CASE i \notin 1..m
    <3>1. PICK k \in 1..n : i = m + k
      BY <1>2, <2>2
    <3>2. t[k] \in X
      BY <1>2, <1>5, <3>1
    <3> QED
      BY <1>2, <3>2 DEF Some
  <2> QED
    BY <2>1, <2>2
<1>6. Some(u, X) <=> Some(s, X) \/ Some(t, X)
  BY <1>2, <1>3, <1>4, <1>5 DEF Some
<1> QED
  BY <1>1, <1>6

LEMMA BeforeMore ==
    ASSUME NEW S, NEW s \in Seq(S), NEW t \in Seq(S), NEW X, NEW Y, Before(s \o t, X, Y)
    PROVE  Before(s, X, Y) \/ Before(t, X, Y) \/ (Some(s, X) /\ Some(t, Y))
<1>1. PICK m, n, u : m = Len(s) /\ n = Len(t) /\ u = s \o t
  OBVIOUS
<1>2. /\ m \in Nat /\ n \in Nat /\ DOMAIN s = 1..m /\ DOMAIN t = 1..n /\ DOMAIN u = 1..(m + n)
      /\ \A i \in 1..m : i \in 1..(m + n) /\ u[i] = s[i]
      /\ \A i \in 1..n : m + i \in 1..(m + n) /\ u[m + i] = t[i]
      /\ \A i \in 1..(m + n) : i \in 1..m \/ (i - m \in 1..n /\ i = m + (i - m))
  BY <1>1, MoreFollows
<1>3. PICK i, j \in 1..(m + n) : i < j /\ u[i] \in X /\ u[j] \in Y
  BY <1>1, <1>2 DEF Before
<1>4. CASE i \in 1..m /\ j \in 1..m
  BY <1>1, <1>2, <1>3, <1>4 DEF Before
<1>5. CASE i \in 1..m /\ j \notin 1..m
  <2>1. PICK k \in 1..n : j = m + k
    BY <1>2, <1>5
  <2>2. s[i] \in X /\ t[k] \in Y
    BY <1>2, <1>3, <1>5, <2>1
  <2>3. Some(s, X) /\ Some(t, Y)
    BY <1>2, <1>5, <2>2 DEF Some
  <2> QED
    BY <2>3
<1>6. CASE i \notin 1..m
  <2>1. j \notin 1..m /\ i - m < j - m
    BY <1>2, <1>3, <1>6
  <2>2. /\ i - m \in 1..n /\ j - m \in 1..n
        /\ t[i - m] \in X /\ t[j - m] \in Y
    BY <1>2, <1>3, <1>6, <2>1
  <2> QED
    BY <1>1, <1>2, <2>1, <2>2 DEF Before
<1> QED
  BY <1>4, <1>5, <1>6

LEMMA FinallyMore ==
    ASSUME NEW S, NEW s \in Seq(S), NEW t \in Seq(S), NEW X, NEW Y,
           Finally(t, X, Y), ~Some(t, X) => Finally(s, X, Y)
    PROVE  Finally(s \o t, X, Y)
<1>1. PICK m, n, u : m = Len(s) /\ n = Len(t) /\ u = s \o t
  OBVIOUS
<1>2. /\ m \in Nat /\ n \in Nat /\ DOMAIN s = 1..m /\ DOMAIN t = 1..n /\ DOMAIN u = 1..(m + n)
      /\ \A i \in 1..m : i \in 1..(m + n) /\ u[i] = s[i]
      /\ \A i \in 1..n : m + i \in 1..(m + n) /\ u[m + i] = t[i]
      /\ \A i \in 1..(m + n) : i \in 1..m \/ (i - m \in 1..n /\ i = m + (i - m))
  BY <1>1, MoreFollows
<1>3. SUFFICES ASSUME NEW i \in 1..(m + n), u[i] \in X,
                      \A j \in 1..(m + n) : i < j => u[j] \notin X
               PROVE  u[i] \in Y
  BY <1>1, <1>2 DEF Finally
<1>4. CASE i \in 1..m
  <2>1. \A j \in 1..n : i < m + j
    BY <1>2, <1>4
  <2>2. ~Some(t, X)
    BY <1>1, <1>2, <1>3, <2>1 DEF Some
  <2>3. \A j \in 1..m : i < j => s[j] \notin X
    BY <1>2, <1>3
  <2> QED
    BY <1>1, <1>2, <1>3, <1>4, <2>2, <2>3 DEF Finally
<1>5. CASE i \notin 1..m
  <2>1. PICK k \in 1..n : i = m + k
    BY <1>2, <1>5
  <2>2. \A j \in 1..n : k < j => i < m + j
    BY <1>2, <2>1
  <2>3. \A j \in 1..n : k < j => t[j] \notin X
    BY <1>2, <1>3, <2>2
  <2>4. u[i] = t[k]
    BY <1>2, <2>1
  <2> QED
    BY <1>1, <1>2, <1>3, <2>1, <2>3, <2>4 DEF Finally
<1> QED
  BY <1>4, <1>5

(* One more.                                                               *)
LEMMA OneMore ==
    ASSUME NEW S, NEW s \in Seq(S), NEW x \in S, NEW X, NEW Y
    PROVE  /\ Append(s, x) \in Seq(S) /\ Append(s, x) # <<>>
           /\ Some(Append(s, x), X) <=> Some(s, X) \/ x \in X
           /\ Before(Append(s, x), X, Y) => Before(s, X, Y) \/ (Some(s, X) /\ x \in Y)
<1>1. <<x>> \in Seq(S) /\ Append(s, x) = s \o <<x>> /\ Append(s, x) \in Seq(S) /\ Append(s, x) # <<>>
  BY AppendIsConcat, AppendProperties
<1>2. PICK t : t = <<x>>
  OBVIOUS
<1>3. DOMAIN t = {1} /\ t[1] = x
  BY <1>2
<1>4. Some(t, X) <=> x \in X
  BY <1>3 DEF Some
<1>5. Some(t, Y) <=> x \in Y
  BY <1>3 DEF Some
<1>6. ~Before(t, X, Y)
  BY <1>3 DEF Before
<1>7. Some(s \o t, X) <=> Some(s, X) \/ Some(t, X)
  BY <1>1, <1>2, SomeMore
<1>8. Before(s \o t, X, Y) => Before(s, X, Y) \/ Before(t, X, Y) \/ (Some(s, X) /\ Some(t, Y))
  BY <1>1, <1>2, BeforeMore
<1> QED
  BY <1>1, <1>2, <1>4, <1>5, <1>6, <1>7, <1>8

LEMMA NothingThere ==
    ASSUME NEW X, NEW Y
    PROVE  ~Some(<<>>, X) /\ ~Before(<<>>, X, Y) /\ Finally(<<>>, X, Y) /\ Paired(<<>>)
<1>1. DOMAIN <<>> = {}
  OBVIOUS
<1> QED
  BY <1>1 DEF Some, Before, Finally, Paired

LEMMA HeadStays ==
    ASSUME NEW S, NEW s \in Seq(S), NEW t \in Seq(S), s # <<>>
    PROVE  s \o t # <<>> /\ Head(s \o t) = Head(s)
<1>1. PICK k, u : k = Len(s) /\ u = s \o t
  OBVIOUS
<1>2. /\ k \in Nat \ {0} /\ Head(s) = s[1] /\ u \in Seq(S)
      /\ \A i \in 1..k : u[i] = s[i] /\ i \in DOMAIN u
  BY <1>1, FirstGone, MoreFollows
<1>3. 1 \in 1..k /\ DOMAIN <<>> = {}
  BY <1>2
<1>4. u # <<>> /\ u[1] = s[1]
  BY <1>2, <1>3
<1>5. Head(u) = u[1]
  BY <1>2, <1>4, FirstGone
<1> QED
  BY <1>1, <1>2, <1>4, <1>5

LEMMA PairedFirst ==
    ASSUME NEW s \in Seq(TlenTold), s # <<>>, Paired(s)
    PROVE  /\ Paired(Tail(s))
           /\ Head(s).kind = "found" => Tail(s) # <<>> /\ Head(Tail(s)) = Note("done", Head(s).what)
<1>1. PICK n, t : n = Len(s) /\ t = Tail(s)
  OBVIOUS
<1>2. /\ n \in Nat \ {0} /\ DOMAIN s = 1..n /\ Head(s) = s[1] /\ DOMAIN t = 1..(n - 1)
      /\ \A i \in 1..(n - 1) : t[i] = s[i + 1] /\ i + 1 \in 1..n
      /\ t \in Seq(TlenTold)
  BY <1>1, FirstGone
<1>3. ASSUME NEW i \in 1..(n - 1), t[i].kind = "found"
      PROVE  i + 1 \in 1..(n - 1) /\ t[i + 1] = Note("done", t[i].what)
  <2>1. i + 1 \in 1..n /\ s[i + 1] = t[i]
    BY <1>2
  <2>2. (i + 1) + 1 \in 1..n /\ s[(i + 1) + 1] = Note("done", t[i].what)
    BY <1>2, <1>3, <2>1 DEF Paired
  <2>3. i + 1 \in 1..(n - 1)
    BY <1>2, <2>2
  <2> QED
    BY <1>2, <2>2, <2>3
<1>4. Paired(t)
  BY <1>2, <1>3 DEF Paired
<1>5. ASSUME s[1].kind = "found"
      PROVE  t # <<>> /\ Head(t) = Note("done", s[1].what)
  <2>1. 1 \in 1..n
    BY <1>2
  <2>2. 1 + 1 \in 1..n /\ s[1 + 1] = Note("done", s[1].what)
    BY <1>2, <1>5, <2>1 DEF Paired
  <2>3. 1 \in 1..(n - 1) /\ t[1] = Note("done", s[1].what)
    BY <1>2, <2>2
  <2>4. t # <<>>
    BY <1>2, <2>3
  <2>5. Head(t) = t[1]
    BY <1>2, <2>4, FirstGone
  <2> QED
    BY <2>3, <2>4, <2>5
<1> QED
  BY <1>1, <1>2, <1>4, <1>5

LEMMA PairedMore ==
    ASSUME NEW s \in Seq(TlenTold), NEW t \in Seq(TlenTold), Paired(s), Paired(t)
    PROVE  Paired(s \o t)
<1>1. PICK m, n, u : m = Len(s) /\ n = Len(t) /\ u = s \o t
  OBVIOUS
<1>2. /\ m \in Nat /\ n \in Nat /\ DOMAIN s = 1..m /\ DOMAIN t = 1..n /\ DOMAIN u = 1..(m + n)
      /\ \A i \in 1..m : i \in 1..(m + n) /\ u[i] = s[i]
      /\ \A i \in 1..n : m + i \in 1..(m + n) /\ u[m + i] = t[i]
      /\ \A i \in 1..(m + n) : i \in 1..m \/ (i - m \in 1..n /\ i = m + (i - m))
  BY <1>1, MoreFollows
<1>3. SUFFICES ASSUME NEW i \in 1..(m + n), u[i].kind = "found"
               PROVE  i + 1 \in 1..(m + n) /\ u[i + 1] = Note("done", u[i].what)
  BY <1>1, <1>2 DEF Paired
<1>4. CASE i \in 1..m
  BY <1>2, <1>3, <1>4 DEF Paired
<1>5. CASE i \notin 1..m
  <2>1. PICK k \in 1..n : i = m + k
    BY <1>2, <1>5
  <2>2. k + 1 \in 1..n /\ t[k + 1] = Note("done", t[k].what) /\ u[i] = t[k]
    BY <1>2, <1>3, <2>1 DEF Paired
  <2>3. i + 1 = m + (k + 1)
    BY <1>2, <2>1
  <2> QED
    BY <1>2, <2>2, <2>3
<1> QED
  BY <1>4, <1>5

-----------------------------------------------------------------------------
(* What becomes of the list of contacts.                                   *)
Names(s)    == {s[i].who : i \in DOMAIN s}
Entered(s, c) == {i \in DOMAIN s : s[i].who = c}

LEMMA ListNow ==
    /\ Known = Names(userlist) /\ Known' = Names(userlist')
    /\ \A c : /\ EntriesOf(c) = Entered(userlist, c) /\ EntriesOf(c)' = Entered(userlist', c)
              /\ c \in Known <=> EntriesOf(c) # {}
<1>1. Known = Names(userlist) /\ Known' = Names(userlist')
  BY DEF Known, Names
<1>2. \A c : EntriesOf(c) = Entered(userlist, c) /\ EntriesOf(c)' = Entered(userlist', c)
  BY DEF EntriesOf, Entered
<1>3. \A c : c \in Known <=> EntriesOf(c) # {}
  BY DEF Known, EntriesOf
<1> QED
  BY <1>1, <1>2, <1>3

(* All entries stay, and the GUI looks.                                    *)
LEMMA ListLooked ==
    ASSUME NEW s \in Seq(TlenEntries), NEW t, t = Seen(s)
    PROVE  /\ t \in Seq(TlenEntries) /\ Names(t) = Names(s) /\ DOMAIN t = DOMAIN s
           /\ \A c : Entered(t, c) = Entered(s, c)
           /\ \A i \in DOMAIN s : /\ t[i].who = s[i].who /\ t[i].status = s[i].status
                                  /\ t[i].shown = t[i].status
<1>1. PICK n \in Nat : n = Len(s)
  BY LenProperties
<1>2. DOMAIN s = 1..n /\ \A i \in 1..n : s[i] \in TlenEntries
  BY <1>1, LenProperties, ElementOfSeq
<1>3. t = [i \in 1..n |-> [s[i] EXCEPT !.shown = s[i].status]]
  BY <1>2 DEF Seen
<1>4. ASSUME NEW i \in 1..n
      PROVE  /\ t[i] \in TlenEntries /\ t[i].who = s[i].who
             /\ t[i].status = s[i].status /\ t[i].shown = t[i].status
  <2>1. PICK e : e = s[i]
    OBVIOUS
  <2>2. e \in TlenEntries /\ t[i] = [e EXCEPT !.shown = e.status]
    BY <1>2, <1>3, <2>1
  <2> QED
    BY <2>1, <2>2 DEF TlenEntries
<1>5. t \in Seq(TlenEntries) /\ DOMAIN t = 1..n
  <2>1. t = [i \in 1..n |-> t[i]]
    BY <1>3
  <2>2. \A i \in 1..n : t[i] \in TlenEntries
    BY <1>4
  <2> QED
    BY <2>1, <2>2, IsASeq
<1>6. \A c : Entered(t, c) = Entered(s, c)
  BY <1>2, <1>4, <1>5 DEF Entered
<1>7. Names(t) = Names(s)
  BY <1>2, <1>4, <1>5 DEF Names
<1> QED
  BY <1>2, <1>4, <1>5, <1>6, <1>7

(* One more entry.                                                         *)
Extended(s, a) == Append(s, Entry(a))

LEMMA ListExtended ==
    ASSUME NEW s \in Seq(TlenEntries), NEW a \in Tlenites, NEW t, t = Extended(s, a)
    PROVE  /\ t \in Seq(TlenEntries) /\ Names(t) = Names(s) \cup {a} /\ DOMAIN s \subseteq DOMAIN t
           /\ \A c : c # a => Entered(t, c) = Entered(s, c)
           /\ a \notin Names(s) => \A i, j \in Entered(t, a) : i = j /\ t[i].status = "off"
           /\ \A i \in DOMAIN t : IF i \in DOMAIN s THEN t[i] = s[i]
                                  ELSE t[i].who = a /\ t[i].status = "off" /\ t[i].shown = "off"
<1>1. PICK n \in Nat : n = Len(s)
  BY LenProperties
<1>2. DOMAIN s = 1..n
  BY <1>1, LenProperties
<1>3. PICK e : e = Entry(a)
  OBVIOUS
<1>4. e \in TlenEntries /\ e.who = a /\ e.status = "off" /\ e.shown = "off"
  BY <1>3 DEF Entry, TlenEntries
<1>5. /\ t \in Seq(TlenEntries) /\ Len(t) = n + 1
      /\ \A i \in 1..n : t[i] = s[i]
      /\ t[n + 1] = e
  BY <1>1, <1>3, <1>4, AppendProperties DEF Extended
<1>6. DOMAIN t = 1..(n + 1)
  BY <1>5, LenProperties
<1>7. (\A i \in 1..(n + 1) : i \in 1..n \/ i = n + 1) /\ (\A i \in 1..n : i \in 1..(n + 1) /\ i # n + 1)
      /\ n + 1 \in 1..(n + 1)
  OBVIOUS
<1>8. Names(t) = Names(s) \cup {a}
  BY <1>2, <1>4, <1>5, <1>6, <1>7 DEF Names
<1>9. \A c : c # a => Entered(t, c) = Entered(s, c)
  BY <1>2, <1>4, <1>5, <1>6, <1>7 DEF Entered
<1>10. ASSUME a \notin Names(s), NEW i \in Entered(t, a)
       PROVE  i = n + 1
  BY <1>2, <1>5, <1>6, <1>7, <1>10 DEF Entered, Names
<1>11. a \notin Names(s) => \A i, j \in Entered(t, a) : i = j /\ t[i].status = "off"
  BY <1>4, <1>5, <1>10
<1>12. \A i \in DOMAIN t : IF i \in DOMAIN s THEN t[i] = s[i] ELSE t[i] = e
  BY <1>2, <1>5, <1>6, <1>7
<1> QED
  BY <1>2, <1>4, <1>5, <1>6, <1>7, <1>8, <1>9, <1>11, <1>12

(* One entry less.                                                         *)
LEMMA ListReduced ==
    ASSUME NEW s \in Seq(TlenEntries), NEW k \in DOMAIN s, NEW t, t = RemoveAt(s, k)
    PROVE  /\ t \in Seq(TlenEntries)
           /\ \A i \in DOMAIN t : \E j \in DOMAIN s \ {k} : t[i] = s[j]
           /\ \A j \in DOMAIN s \ {k} : \E i \in DOMAIN t : t[i] = s[j]
           /\ \A c : (\A i, j \in Entered(s, c) : i = j) => (\A i, j \in Entered(t, c) : i = j)
<1>1. PICK n \in Nat : n = Len(s)
  BY LenProperties
<1>2. DOMAIN s = 1..n /\ k \in 1..n
  BY <1>1, LenProperties
<1>3. /\ t \in Seq(TlenEntries) /\ DOMAIN t = 1..(n - 1)
      /\ \A j \in 1..(n - 1) : t[j] = IF j < k THEN s[j] ELSE s[j + 1]
  BY <1>1, RemovedEntries
<1>4. PICK from : from = [i \in 1..(n - 1) |-> IF i < k THEN i ELSE i + 1]
  OBVIOUS
<1>5. \A i \in 1..(n - 1) : from[i] \in (1..n) \ {k} /\ t[i] = s[from[i]]
  BY <1>2, <1>3, <1>4
<1>6. \A i, j \in 1..(n - 1) : from[i] = from[j] => i = j
  BY <1>2, <1>4
<1>7. ASSUME NEW j \in (1..n) \ {k}
      PROVE  \E i \in 1..(n - 1) : from[i] = j
  <2>1. CASE j < k
    <3>1. j \in 1..(n - 1) /\ from[j] = j
      BY <1>2, <1>4, <2>1
    <3> QED
      BY <3>1
  <2>2. CASE ~(j < k)
    <3>1. j - 1 \in 1..(n - 1) /\ from[j - 1] = j
      BY <1>2, <1>4, <2>2
    <3> QED
      BY <3>1
  <2> QED
    BY <2>1, <2>2
<1>8. ASSUME NEW c, \A i, j \in Entered(s, c) : i = j, NEW i \in Entered(t, c), NEW j \in Entered(t, c)
      PROVE  i = j
  <2>1. i \in 1..(n - 1) /\ j \in 1..(n - 1) /\ t[i].who = c /\ t[j].who = c
    BY <1>3, <1>8 DEF Entered
  <2>2. from[i] \in Entered(s, c) /\ from[j] \in Entered(s, c)
    BY <1>2, <1>5, <2>1 DEF Entered
  <2> QED
    BY <1>6, <1>8, <2>1, <2>2
<1>9. \A i \in DOMAIN t : \E j \in DOMAIN s \ {k} : t[i] = s[j]
  BY <1>2, <1>3, <1>5
<1>10. \A j \in DOMAIN s \ {k} : \E i \in DOMAIN t : t[i] = s[j]
  BY <1>2, <1>3, <1>5, <1>7
<1> QED
  BY <1>3, <1>8, <1>9, <1>10

(* A presence changes the entries of its contact only.                     *)
LEMMA ListTold ==
    ASSUME TlenTypes, Presence, NEW c, c = Head(reports).what
    PROVE  /\ userlist' \in Seq(TlenEntries) /\ DOMAIN userlist' = DOMAIN userlist
           /\ Known' = Known /\ \A d : EntriesOf(d)' = EntriesOf(d)
           /\ \A i \in DOMAIN userlist \ EntriesOf(c) : userlist'[i] = userlist[i]
           /\ (\A i, j \in EntriesOf(c) : i = j) => \A i \in EntriesOf(c) : userlist'[i].status = Head(reports).kind
           /\ call = "fresh" => \A i \in EntriesOf(c) : userlist'[i].shown = userlist'[i].status
<1>1. PICK n \in Nat : n = Len(userlist)
  BY LenProperties DEF TlenTypes
<1>2. DOMAIN userlist = 1..n /\ \A i \in 1..n : userlist[i] \in TlenEntries
  BY <1>1, LenProperties, ElementOfSeq DEF TlenTypes
<1>3. PICK first, kind :
         /\ first = {i \in EntriesOf(c) : \A j \in EntriesOf(c) : i <= j}
         /\ kind = Head(reports).kind
  OBVIOUS
<1>4. kind \in {"on", "off"} /\ first \subseteq EntriesOf(c) /\ EntriesOf(c) \subseteq 1..n
  BY <1>2, <1>3 DEF Presence, Event, EntriesOf
<1>5. PICK list : list = [i \in 1..n |-> IF i \in first THEN [userlist[i] EXCEPT !.status = kind]
                                         ELSE userlist[i]]
  OBVIOUS
<1>6. userlist' = [i \in 1..n |-> IF call = "fresh" /\ i \in EntriesOf(c)
                                  THEN [list[i] EXCEPT !.shown = list[i].status] ELSE list[i]]
  <2>1. list = [i \in DOMAIN userlist |->
                   IF i \in EntriesOf(Head(reports).what) /\ \A j \in EntriesOf(Head(reports).what) : i <= j
                   THEN [userlist[i] EXCEPT !.status = Head(reports).kind] ELSE userlist[i]]
    BY <1>2, <1>3, <1>5
  <2>2. DOMAIN list = 1..n
    BY <1>5
  <2>3. userlist' = [i \in DOMAIN list |-> IF call = "fresh" /\ i \in EntriesOf(Head(reports).what)
                                           THEN [list[i] EXCEPT !.shown = list[i].status] ELSE list[i]]
    BY <2>1 DEF Presence
  <2> QED
    BY <2>2, <2>3
<1>7. ASSUME NEW i \in 1..n
      PROVE  /\ list[i] \in TlenEntries /\ list[i].who = userlist[i].who
             /\ i \in first => list[i].status = kind
             /\ i \notin EntriesOf(c) => list[i] = userlist[i]
  <2>1. PICK e : e = userlist[i]
    OBVIOUS
  <2>2. e \in TlenEntries /\ list[i] = IF i \in first THEN [e EXCEPT !.status = kind] ELSE e
    BY <1>2, <1>5, <2>1
  <2>3. [e EXCEPT !.status = kind] \in TlenEntries
    BY <1>4, <2>2 DEF TlenEntries
  <2> QED
    BY <1>4, <2>1, <2>2, <2>3 DEF TlenEntries
<1>8. ASSUME NEW i \in 1..n
      PROVE  /\ userlist'[i] \in TlenEntries /\ userlist'[i].who = userlist[i].who
             /\ i \in first => userlist'[i].status = kind
             /\ i \notin EntriesOf(c) => userlist'[i] = userlist[i]
             /\ call = "fresh" /\ i \in EntriesOf(c) => userlist'[i].shown = userlist'[i].status
  <2>1. PICK e, g : e = list[i] /\ g = userlist'[i]
    OBVIOUS
  <2>2. e \in TlenEntries
    BY <1>7, <2>1
  <2>3. CASE call = "fresh" /\ i \in EntriesOf(c)
    <3>1. g = [e EXCEPT !.shown = e.status]
      BY <1>6, <2>1, <2>3
    <3>2. g \in TlenEntries /\ g.who = e.who /\ g.status = e.status /\ g.shown = g.status
      BY <2>2, <3>1 DEF TlenEntries
    <3> QED
      BY <1>7, <2>1, <2>3, <3>2
  <2>4. CASE ~(call = "fresh" /\ i \in EntriesOf(c))
    <3>1. g = e
      BY <1>6, <2>1, <2>4
    <3> QED
      BY <1>7, <2>1, <2>2, <2>4, <3>1
  <2> QED
    BY <2>3, <2>4
<1>9. userlist' \in Seq(TlenEntries) /\ DOMAIN userlist' = 1..n
  <2>1. userlist' = [i \in 1..n |-> userlist'[i]]
    BY <1>6
  <2>2. \A i \in 1..n : userlist'[i] \in TlenEntries
    BY <1>8
  <2> QED
    BY <2>1, <2>2, IsASeq
<1>10. \A d : EntriesOf(d)' = EntriesOf(d)
  BY <1>2, <1>8, <1>9 DEF EntriesOf
<1>11. Known' = Known
  BY <1>2, <1>8, <1>9 DEF Known
<1>12. ASSUME \A i, j \in EntriesOf(c) : i = j, NEW i \in EntriesOf(c)
       PROVE  userlist'[i].status = kind
  <2>1. i \in 1..n /\ i <= i
    BY <1>4
  <2>2. i \in first
    BY <1>3, <1>12, <2>1
  <2> QED
    BY <1>8, <2>1, <2>2
<1> QED
  BY <1>2, <1>3, <1>4, <1>8, <1>9, <1>10, <1>11, <1>12

-----------------------------------------------------------------------------
(* What becomes of what is under way.                                      *)

(* The server takes the first request.                                     *)
LEMMA RequestTaken ==
    ASSUME requests \in Seq(TlenAsked), requests # <<>>, requests' = Tail(requests), NEW c
    PROVE  /\ requests' \in Seq(TlenAsked) /\ Head(requests) \in TlenAsked
           /\ Some(requests, Adding(c)) <=> Head(requests) = Note("add", c) \/ Some(requests', Adding(c))
           /\ Some(requests, Removing(c)) <=>
                 Head(requests) = Note("remove", c) \/ Some(requests', Removing(c))
           /\ Some(requests, Rostering) <=>
                 Head(requests) = Note("roster", {}) \/ Some(requests', Rostering)
           /\ Some(requests, Opening) <=> Head(requests) \in Opening \/ Some(requests', Opening)
           /\ Before(requests', Removing(c), Adding(c)) => Before(requests, Removing(c), Adding(c))
           /\ Before(requests', Removing(c), Removing(c)) => Before(requests, Removing(c), Removing(c))
           /\ Before(requests', Opening, Opening) => Before(requests, Opening, Opening)
           /\ Head(requests) = Note("remove", c) /\ Some(requests', Adding(c)) =>
                 Before(requests, Removing(c), Adding(c))
           /\ Head(requests) = Note("remove", c) /\ Some(requests', Removing(c)) =>
                 Before(requests, Removing(c), Removing(c))
           /\ Head(requests) \in Opening /\ Some(requests', Opening) => Before(requests, Opening, Opening)
<1>1. requests' \in Seq(TlenAsked) /\ Head(requests) \in TlenAsked
  BY FirstGone
<1>2. /\ Some(requests, Adding(c)) <=> Head(requests) \in Adding(c) \/ Some(requests', Adding(c))
      /\ Some(requests, Removing(c)) <=> Head(requests) \in Removing(c) \/ Some(requests', Removing(c))
      /\ Some(requests, Rostering) <=> Head(requests) \in Rostering \/ Some(requests', Rostering)
      /\ Some(requests, Opening) <=> Head(requests) \in Opening \/ Some(requests', Opening)
  BY SomeFirst
<1>3. /\ Before(requests', Removing(c), Adding(c)) => Before(requests, Removing(c), Adding(c))
      /\ Head(requests) \in Removing(c) /\ Some(requests', Adding(c)) =>
            Before(requests, Removing(c), Adding(c))
  BY BeforeFirst
<1>4. /\ Before(requests', Removing(c), Removing(c)) => Before(requests, Removing(c), Removing(c))
      /\ Head(requests) \in Removing(c) /\ Some(requests', Removing(c)) =>
            Before(requests, Removing(c), Removing(c))
  BY BeforeFirst
<1>5. /\ Before(requests', Opening, Opening) => Before(requests, Opening, Opening)
      /\ Head(requests) \in Opening /\ Some(requests', Opening) => Before(requests, Opening, Opening)
  BY BeforeFirst
<1>6. /\ Head(requests) \in Adding(c) <=> Head(requests) = Note("add", c)
      /\ Head(requests) \in Removing(c) <=> Head(requests) = Note("remove", c)
      /\ Head(requests) \in Rostering <=> Head(requests) = Note("roster", {})
  BY DEF Adding, Removing, Rostering
<1> QED
  BY <1>1, <1>2, <1>3, <1>4, <1>5, <1>6

(* The plugin asks for something more.                                     *)
LEMMA RequestMade ==
    ASSUME requests \in Seq(TlenAsked), NEW x \in TlenAsked, requests' = Append(requests, x), NEW c
    PROVE  /\ requests' \in Seq(TlenAsked)
           /\ Some(requests', Adding(c)) <=> Some(requests, Adding(c)) \/ x = Note("add", c)
           /\ Some(requests', Removing(c)) <=> Some(requests, Removing(c)) \/ x = Note("remove", c)
           /\ Some(requests', Rostering) <=> Some(requests, Rostering) \/ x = Note("roster", {})
           /\ Some(requests', Opening) <=> Some(requests, Opening) \/ x \in Opening
           /\ Before(requests', Removing(c), Adding(c)) =>
                 \/ Before(requests, Removing(c), Adding(c))
                 \/ Some(requests, Removing(c)) /\ x = Note("add", c)
           /\ Before(requests', Removing(c), Removing(c)) =>
                 \/ Before(requests, Removing(c), Removing(c))
                 \/ Some(requests, Removing(c)) /\ x = Note("remove", c)
           /\ Before(requests', Opening, Opening) =>
                 Before(requests, Opening, Opening) \/ (Some(requests, Opening) /\ x \in Opening)
<1>1. /\ requests' \in Seq(TlenAsked)
      /\ Some(requests', Adding(c)) <=> Some(requests, Adding(c)) \/ x \in Adding(c)
  BY OneMore
<1>2. /\ Some(requests', Removing(c)) <=> Some(requests, Removing(c)) \/ x \in Removing(c)
      /\ Before(requests', Removing(c), Adding(c)) =>
            Before(requests, Removing(c), Adding(c)) \/ (Some(requests, Removing(c)) /\ x \in Adding(c))
  BY OneMore
<1>3. /\ Some(requests', Rostering) <=> Some(requests, Rostering) \/ x \in Rostering
      /\ Before(requests', Removing(c), Removing(c)) =>
            \/ Before(requests, Removing(c), Removing(c))
            \/ Some(requests, Removing(c)) /\ x \in Removing(c)
  BY OneMore
<1>4. /\ Some(requests', Opening) <=> Some(requests, Opening) \/ x \in Opening
      /\ Before(requests', Opening, Opening) =>
            Before(requests, Opening, Opening) \/ (Some(requests, Opening) /\ x \in Opening)
  BY OneMore
<1>5. /\ x \in Adding(c) <=> x = Note("add", c)
      /\ x \in Removing(c) <=> x = Note("remove", c)
      /\ x \in Rostering <=> x = Note("roster", {})
  BY DEF Adding, Removing, Rostering
<1> QED
  BY <1>1, <1>2, <1>3, <1>4, <1>5

(* The plugin takes the first report.                                      *)
LEMMA ReportHeard ==
    ASSUME reports \in Seq(TlenTold), reports # <<>>, reports' = Tail(reports), NEW c
    PROVE  /\ reports' \in Seq(TlenTold) /\ Head(reports) \in TlenTold
           /\ Some(reports, Listed(c)) <=> Head(reports) = Note("item", c) \/ Some(reports', Listed(c))
           /\ Some(reports, PresenceOf(c)) <=>
                 Head(reports) \in PresenceOf(c) \/ Some(reports', PresenceOf(c))
           /\ Some(reports, Listing) <=> Head(reports) \in Listing \/ Some(reports', Listing)
           /\ Some(reports, Telling) <=> Head(reports) \in Telling \/ Some(reports', Telling)
           /\ Before(reports', {Note("end", {})}, Listing) => Before(reports, {Note("end", {})}, Listing)
           /\ Head(reports) = Note("end", {}) /\ Some(reports', Listing) =>
                 Before(reports, {Note("end", {})}, Listing)
           /\ Finally(reports, PresenceOf(c), Right(c)) =>
                 /\ Finally(reports', PresenceOf(c), Right(c))
                 /\ Head(reports) \in PresenceOf(c) /\ ~Some(reports', PresenceOf(c)) =>
                       Head(reports) \in Right(c)
<1>1. reports' \in Seq(TlenTold) /\ Head(reports) \in TlenTold
  BY FirstGone
<1>2. /\ Some(reports, Listed(c)) <=> Head(reports) \in Listed(c) \/ Some(reports', Listed(c))
      /\ Some(reports, PresenceOf(c)) <=>
            Head(reports) \in PresenceOf(c) \/ Some(reports', PresenceOf(c))
      /\ Some(reports, Listing) <=> Head(reports) \in Listing \/ Some(reports', Listing)
      /\ Some(reports, Telling) <=> Head(reports) \in Telling \/ Some(reports', Telling)
  BY SomeFirst
<1>3. PICK X : X = {Note("end", {})}
  OBVIOUS
<1>4. /\ Before(reports', X, Listing) => Before(reports, X, Listing)
      /\ Head(reports) \in X /\ Some(reports', Listing) => Before(reports, X, Listing)
  BY BeforeFirst
<1>5. Finally(reports, PresenceOf(c), Right(c)) =>
         /\ Finally(reports', PresenceOf(c), Right(c))
         /\ Head(reports) \in PresenceOf(c) /\ ~Some(reports', PresenceOf(c)) =>
               Head(reports) \in Right(c)
  BY FinallyFirst
<1>6. /\ Head(reports) \in Listed(c) <=> Head(reports) = Note("item", c)
      /\ Head(reports) \in X <=> Head(reports) = Note("end", {})
  BY <1>3 DEF Listed
<1>7. /\ Before(reports', {Note("end", {})}, Listing) => Before(reports, {Note("end", {})}, Listing)
      /\ Head(reports) = Note("end", {}) /\ Some(reports', Listing) =>
            Before(reports, {Note("end", {})}, Listing)
  BY <1>3, <1>4, <1>6
<1>8. Some(reports, Listed(c)) <=> Head(reports) = Note("item", c) \/ Some(reports', Listed(c))
  BY <1>2, <1>6
<1> QED
  BY <1>1, <1>2, <1>5, <1>7, <1>8

(* The server sends more.                                                  *)
LEMMA ReportsSent ==
    ASSUME reports \in Seq(TlenTold), NEW t \in Seq(TlenTold), reports' = reports \o t, NEW c
    PROVE  /\ reports' \in Seq(TlenTold)
           /\ Some(reports', Listed(c)) <=> Some(reports, Listed(c)) \/ Some(t, Listed(c))
           /\ Some(reports', PresenceOf(c)) <=> Some(reports, PresenceOf(c)) \/ Some(t, PresenceOf(c))
           /\ Some(reports', Listing) <=> Some(reports, Listing) \/ Some(t, Listing)
           /\ Some(reports', Telling) <=> Some(reports, Telling) \/ Some(t, Telling)
           /\ Before(reports', {Note("end", {})}, Listing) =>
                 \/ Before(reports, {Note("end", {})}, Listing) \/ Before(t, {Note("end", {})}, Listing)
                 \/ Some(reports, {Note("end", {})}) /\ Some(t, Listing)
           /\ Finally(t, PresenceOf(c), Right(c)')
                 /\ (~Some(t, PresenceOf(c)) => Finally(reports, PresenceOf(c), Right(c)'))
              => Finally(reports', PresenceOf(c), Right(c)')
           /\ Paired(reports) /\ Paired(t) => Paired(reports')
           /\ Some(reports, {Note("end", {})}) => Some(reports, Listing)
<1>1. reports' \in Seq(TlenTold)
  BY MoreFollows
<1>2. /\ Some(reports', Listed(c)) <=> Some(reports, Listed(c)) \/ Some(t, Listed(c))
      /\ Some(reports', PresenceOf(c)) <=> Some(reports, PresenceOf(c)) \/ Some(t, PresenceOf(c))
      /\ Some(reports', Listing) <=> Some(reports, Listing) \/ Some(t, Listing)
      /\ Some(reports', Telling) <=> Some(reports, Telling) \/ Some(t, Telling)
  BY SomeMore
<1>3. PICK X : X = {Note("end", {})}
  OBVIOUS
<1>4. Before(reports', X, Listing) =>
         \/ Before(reports, X, Listing) \/ Before(t, X, Listing)
         \/ Some(reports, X) /\ Some(t, Listing)
  BY BeforeMore
<1>5. PICK R : R = Right(c)'
  OBVIOUS
<1>6. Finally(t, PresenceOf(c), R) /\ (~Some(t, PresenceOf(c)) => Finally(reports, PresenceOf(c), R))
         => Finally(reports', PresenceOf(c), R)
  BY FinallyMore
<1>7. Paired(reports) /\ Paired(t) => Paired(reports')
  BY PairedMore
<1>8. Note("end", {}) \in Listing
  BY DEF Note, Listing
<1>9. Some(reports, {Note("end", {})}) => Some(reports, Listing)
  BY <1>8 DEF Some
<1> QED
  BY <1>1, <1>2, <1>3, <1>4, <1>5, <1>6, <1>7, <1>9

(* All of some contacts in an order.                                       *)
LEMMA AllOf ==
    ASSUME NEW cs \in SUBSET Tlenites, IsFiniteSet(cs), NEW all \in SetToSeqs(cs)
    PROVE  \E n \in Nat : /\ all \in [1..n -> cs]
                          /\ \A c \in cs : \E i \in 1..n : all[i] = c
                          /\ n = 0 <=> cs = {}
<1>1. IsFiniteSet(cs)
  OBVIOUS
<1>2. PICK n \in Nat : n = Cardinality(cs)
  BY <1>1, FS_CardinalityType
<1>3. all \in [1..n -> cs] /\ \A i, j \in 1..n : i # j => all[i] # all[j]
  BY <1>2 DEF SetToSeqs
<1>4. IsFiniteSet(1..n) /\ Cardinality(1..n) = n
  <2>1. IsFiniteSet(1..n) /\ Cardinality(1..n) = IF 1 > n THEN 0 ELSE n - 1 + 1
    BY FS_Interval
  <2> QED
    BY <2>1
<1>5. all \in Injection(1..n, cs)
  BY <1>3 DEF Injection, IsInjective
<1>6. all \in Surjection(1..n, cs)
  BY <1>1, <1>2, <1>4, <1>5, FS_Injection
<1>7. \A c \in cs : \E i \in 1..n : all[i] = c
  BY <1>6 DEF Surjection
<1>8. n = 0 <=> cs = {}
  BY <1>1, <1>2, FS_EmptySet
<1> QED
  BY <1>3, <1>7, <1>8

(* The server tells the presence of some contacts.                         *)
LEMMA PresencesSent ==
    ASSUME TlenTypes, NEW cs \in SUBSET Tlenites, IsFiniteSet(cs), SendsPresence(cs), NEW c,
           NEW p, p = present'
    PROVE  /\ reports' \in Seq(TlenTold)
           /\ Some(reports', Listed(c)) <=> Some(reports, Listed(c))
           /\ Some(reports', PresenceOf(c)) <=> Some(reports, PresenceOf(c)) \/ c \in cs
           /\ Some(reports', Listing) <=> Some(reports, Listing)
           /\ Some(reports', Telling) => Some(reports, Telling) \/ cs # {}
           /\ Before(reports', {Note("end", {})}, Listing) => Before(reports, {Note("end", {})}, Listing)
           /\ c \in cs \/ Finally(reports, PresenceOf(c), Right(c)') =>
                 Finally(reports', PresenceOf(c), Right(c)')
           /\ Paired(reports) => Paired(reports')
           /\ reports # <<>> => reports' # <<>> /\ Head(reports') = Head(reports)
           /\ cs = {} /\ reports = <<>> => reports' = <<>>
<1>1. PICK all \in SetToSeqs(cs) :
         Sends([i \in DOMAIN all |-> Note(IF all[i] \in p THEN "on" ELSE "off", all[i])])
  BY DEF SendsPresence
<1>2. PICK n \in Nat : /\ all \in [1..n -> cs] /\ \A d \in cs : \E i \in 1..n : all[i] = d
                       /\ n = 0 <=> cs = {}
  BY AllOf
<1>3. PICK t : t = [i \in 1..n |-> Note(IF all[i] \in p THEN "on" ELSE "off", all[i])]
  OBVIOUS
<1>4. reports' = reports \o t
  BY <1>1, <1>2, <1>3 DEF Sends
<1>5. ASSUME NEW i \in 1..n
      PROVE  /\ t[i] \in Telling /\ t[i] \in TlenTold /\ t[i] \notin Listing /\ t[i].kind # "found"
             /\ t[i] # Note("item", c) /\ t[i] # Note("end", {})
             /\ t[i] \in PresenceOf(c) <=> all[i] = c
             /\ t[i] \in PresenceOf(c) => t[i] = Note(IF c \in p THEN "on" ELSE "off", c)
  <2>1. PICK k \in {"on", "off"}, d \in Tlenites :
           k = (IF all[i] \in p THEN "on" ELSE "off") /\ d = all[i]
    BY <1>2
  <2>2. PICK x : x = t[i]
    OBVIOUS
  <2>3. x = [kind |-> k, what |-> d]
    BY <1>3, <2>1, <2>2 DEF Note
  <2>4. x \in Telling /\ x \notin Listing /\ x.kind # "found"
    BY <2>3 DEF Telling, Listing
  <2>5. x # Note("item", c) /\ x # Note("end", {})
    BY <2>3 DEF Note
  <2>6. x \in PresenceOf(c) <=> d = c
    BY <2>3 DEF PresenceOf, Note
  <2>7. d = c => x = Note(IF c \in p THEN "on" ELSE "off", c)
    BY <2>1, <2>3 DEF Note
  <2> QED
    BY <2>1, <2>2, <2>4, <2>5, <2>6, <2>7 DEF TlenTold
<1>6. DOMAIN t = 1..n /\ t \in Seq(TlenTold)
  <2>1. t = [i \in 1..n |-> t[i]]
    BY <1>3
  <2>2. \A i \in 1..n : t[i] \in TlenTold
    BY <1>5
  <2> QED
    BY <1>3, <2>1, <2>2, IsASeq
<1>7. /\ ~Some(t, Listed(c)) /\ ~Some(t, Listing) /\ ~Before(t, {Note("end", {})}, Listing)
      /\ Paired(t)
  <2>1. ~Some(t, Listed(c))
    BY <1>5, <1>6 DEF Some, Listed
  <2>2. ~Some(t, Listing)
    BY <1>5, <1>6 DEF Some
  <2>3. ~Before(t, {Note("end", {})}, Listing)
    BY <1>5, <1>6 DEF Before
  <2>4. Paired(t)
    BY <1>5, <1>6 DEF Paired
  <2> QED
    BY <2>1, <2>2, <2>3, <2>4
<1>8. Some(t, PresenceOf(c)) <=> c \in cs
  <2>1. \A i \in 1..n : all[i] \in cs
    BY <1>2
  <2> QED
    BY <1>2, <1>5, <1>6, <2>1 DEF Some
<1>9. Some(t, Telling) => cs # {}
  <2>1. n = 0 => 1..n = {}
    OBVIOUS
  <2> QED
    BY <1>2, <1>6, <2>1 DEF Some
<1>10. Right(c)' = {Note(IF c \in p THEN "on" ELSE "off", c)}
  BY DEF Right
<1>11. Finally(t, PresenceOf(c), Right(c)')
  BY <1>5, <1>6, <1>10 DEF Finally
<1>12. reports \in Seq(TlenTold)
  BY DEF TlenTypes
<1>13. reports # <<>> => reports' # <<>> /\ Head(reports') = Head(reports)
  BY <1>4, <1>6, <1>12, HeadStays
<1>14. cs = {} /\ reports = <<>> => reports' = <<>>
  <2> SUFFICES ASSUME cs = {}, reports = <<>> PROVE reports' = <<>>
    OBVIOUS
  <2>1. n = 0
    BY <1>2
  <2>2. DOMAIN t = {}
    BY <1>6, <2>1
  <2>3. t = <<>>
    BY <1>6, <2>2, LenProperties, EmptySeq
  <2> QED
    BY <1>4, <2>3
<1> QED
  BY <1>4, <1>6, <1>7, <1>8, <1>9, <1>11, <1>12, <1>13, <1>14, ReportsSent

LEMMA NoneFinally == ASSUME NEW s, NEW X, NEW Y, ~Some(s, X) PROVE Finally(s, X, Y)
  BY DEF Some, Finally

(* The server sends something else than presences.                         *)
LEMMA OthersSent ==
    ASSUME TlenTypes, NEW t \in Seq(TlenTold), reports' = reports \o t, Paired(t),
           \A i \in DOMAIN t : t[i].kind \notin {"on", "off"}, NEW c, UNCHANGED present
    PROVE  /\ reports' \in Seq(TlenTold)
           /\ Some(reports', Listed(c)) <=> Some(reports, Listed(c)) \/ Some(t, Listed(c))
           /\ Some(reports', PresenceOf(c)) <=> Some(reports, PresenceOf(c))
           /\ Some(reports', Listing) <=> Some(reports, Listing) \/ Some(t, Listing)
           /\ Some(reports', Telling) => Some(reports, Telling)
           /\ Before(reports', {Note("end", {})}, Listing) =>
                 \/ Before(reports, {Note("end", {})}, Listing) \/ Before(t, {Note("end", {})}, Listing)
                 \/ Some(reports, Listing) /\ Some(t, Listing)
           /\ Finally(reports, PresenceOf(c), Right(c)) => Finally(reports', PresenceOf(c), Right(c))
           /\ Paired(reports) => Paired(reports')
           /\ reports # <<>> => reports' # <<>> /\ Head(reports') = Head(reports)
<1>1. reports \in Seq(TlenTold)
  BY DEF TlenTypes
<1>2. ~Some(t, PresenceOf(c)) /\ ~Some(t, Telling)
  BY DEF Some, PresenceOf, Telling, Note
<1>3. Finally(t, PresenceOf(c), Right(c))
  BY <1>2, NoneFinally
<1>4. Right(c)' = Right(c)
  BY DEF Right
<1>5. reports # <<>> => reports' # <<>> /\ Head(reports') = Head(reports)
  BY <1>1, HeadStays
<1> QED
  BY <1>1, <1>2, <1>3, <1>4, <1>5, ReportsSent

LEMMA RosterSent ==
    ASSUME TlenTypes, TakesRoster, NEW c
    PROVE  /\ reports' \in Seq(TlenTold)
           /\ Some(reports', Listed(c)) <=> Some(reports, Listed(c)) \/ c \in atServer
           /\ Some(reports', PresenceOf(c)) <=> Some(reports, PresenceOf(c))
           /\ Some(reports', Telling) => Some(reports, Telling)
           /\ Before(reports', {Note("end", {})}, Listing) =>
                 Before(reports, {Note("end", {})}, Listing) \/ Some(reports, Listing)
           /\ Finally(reports, PresenceOf(c), Right(c)) => Finally(reports', PresenceOf(c), Right(c))
           /\ Paired(reports) => Paired(reports')
           /\ reports # <<>> => reports' # <<>> /\ Head(reports') = Head(reports)
<1>1. PICK all \in SetToSeqs(atServer) :
         Sends(Append([i \in DOMAIN all |-> Note("item", all[i])], Note("end", {})))
  BY DEF TakesRoster
<1>2. atServer \in SUBSET Tlenites /\ IsFiniteSet(atServer)
  BY DEF TlenTypes
<1>3. PICK n \in Nat : all \in [1..n -> atServer] /\ \A d \in atServer : \E i \in 1..n : all[i] = d
  BY <1>1, <1>2, AllOf
<1>4. PICK items, end : items = [i \in 1..n |-> Note("item", all[i])] /\ end = Note("end", {})
  OBVIOUS
<1>5. PICK t : t = Append(items, end)
  OBVIOUS
<1>6. reports' = reports \o t
  BY <1>1, <1>3, <1>4, <1>5 DEF Sends
<1>7. ASSUME NEW i \in 1..n
      PROVE  /\ items[i] \in TlenTold /\ items[i].kind = "item"
             /\ items[i] # Note("end", {})
             /\ items[i] = Note("item", c) <=> all[i] = c
  <2>1. PICK d, x : d \in Tlenites /\ d = all[i] /\ x = items[i]
    BY <1>2, <1>3
  <2>2. x = [kind |-> "item", what |-> d]
    BY <1>4, <2>1 DEF Note
  <2>3. x \in TlenTold
    BY <2>1, <2>2 DEF TlenTold, Listing
  <2>4. x.kind = "item"
    BY <2>2
  <2>5. x # Note("end", {})
    BY <2>2 DEF Note
  <2>6. x = Note("item", c) <=> d = c
    BY <2>2 DEF Note
  <2> QED
    BY <2>1, <2>3, <2>4, <2>5, <2>6
<1>8. items \in Seq(TlenTold) /\ Len(items) = n
  <2>1. \A i \in 1..n : items[i] \in TlenTold
    BY <1>7
  <2>2. items = [i \in 1..n |-> items[i]]
    BY <1>4
  <2>3. items \in Seq(TlenTold)
    BY <2>1, <2>2, IsASeq
  <2> QED
    BY <1>4, <2>3
<1>9. end \in TlenTold /\ end.kind = "end" /\ end # Note("item", c)
  <2>1. end = [kind |-> "end", what |-> {}]
    BY <1>4 DEF Note
  <2> QED
    BY <2>1 DEF TlenTold, Listing, Note
<1>10. /\ t \in Seq(TlenTold) /\ DOMAIN t = 1..(n + 1) /\ t[n + 1] = end
       /\ \A i \in 1..n : t[i] = items[i]
  BY <1>5, <1>8, <1>9, AppendProperties, LenProperties
<1>11. /\ \A i \in 1..(n + 1) : i \in 1..n \/ i = n + 1
       /\ \A i \in 1..n : i \in 1..(n + 1)
       /\ \A i, j \in 1..(n + 1) : i < j => i \in 1..n
  OBVIOUS
<1>12. \A i \in DOMAIN t : t[i].kind \notin {"on", "off"}
  BY <1>7, <1>9, <1>10, <1>11
<1>13. Paired(t)
  BY <1>7, <1>9, <1>10, <1>11 DEF Paired
<1>14. ~Before(t, {Note("end", {})}, Listing)
  BY <1>7, <1>10, <1>11 DEF Before
<1>15. Some(t, Listed(c)) <=> c \in atServer
  <2>1. \A i \in 1..n : all[i] \in atServer
    BY <1>3
  <2>2. \A i \in 1..n : t[i] = Note("item", c) <=> all[i] = c
    BY <1>7, <1>10
  <2>3. Some(t, Listed(c)) => c \in atServer
    BY <1>9, <1>10, <1>11, <2>1, <2>2 DEF Some, Listed
  <2>4. c \in atServer => Some(t, Listed(c))
    BY <1>3, <1>10, <1>11, <2>2 DEF Some, Listed
  <2> QED
    BY <2>3, <2>4
<1>16. UNCHANGED present
  BY DEF TakesRoster, elsewhere
<1> QED
  BY <1>6, <1>10, <1>12, <1>13, <1>14, <1>15, <1>16, OthersSent

LEMMA ResultsSent ==
    ASSUME TlenTypes, TakesSearch, NEW c
    PROVE  /\ reports' \in Seq(TlenTold)
           /\ Some(reports', Listed(c)) <=> Some(reports, Listed(c))
           /\ Some(reports', PresenceOf(c)) <=> Some(reports, PresenceOf(c))
           /\ Some(reports', Listing) <=> Some(reports, Listing)
           /\ Some(reports', Telling) => Some(reports, Telling)
           /\ Before(reports', {Note("end", {})}, Listing) => Before(reports, {Note("end", {})}, Listing)
           /\ Finally(reports, PresenceOf(c), Right(c)) => Finally(reports', PresenceOf(c), Right(c))
           /\ Paired(reports) => Paired(reports')
           /\ reports # <<>> => reports' # <<>> /\ Head(reports') = Head(reports)
<1>1. PICK n : n = Head(requests).what
  OBVIOUS
<1>2. PICK found \in {<<>>, <<Note("found", n)>>} : Sends(Append(found, Note("done", n)))
  BY <1>1 DEF TakesSearch
<1>3. n \in Nat
  <2>1. requests # <<>> /\ Head(requests).kind = "search"
    BY DEF TakesSearch, Takes
  <2>2. Head(requests) \in TlenAsked
    BY <2>1, FirstGone DEF TlenTypes
  <2> QED
    BY <1>1, <2>1, <2>2 DEF TlenAsked, Opening
<1>4. PICK x, y : x = Note("found", n) /\ y = Note("done", n)
  OBVIOUS
<1>5. /\ x \in TlenTold /\ y \in TlenTold /\ x.kind = "found"
      /\ x \notin Listing /\ y \notin Listing /\ y.kind = "done" /\ x.what = n
      /\ x # Note("item", c) /\ y # Note("item", c)
  BY <1>3, <1>4 DEF Note, TlenTold, Listing
<1>6. PICK t \in {<<y>>, <<x, y>>} : reports' = reports \o t
  <2>1. CASE found = <<>>
    BY <1>2, <1>4, <2>1 DEF Sends
  <2>2. CASE found = <<x>>
    BY <1>2, <1>4, <2>2 DEF Sends
  <2> QED
    BY <1>2, <1>4, <2>1, <2>2
<1>7. t \in Seq(TlenTold)
  BY <1>5, <1>6
<1>8. DOMAIN t \in {{1}, {1, 2}} /\ \A i \in DOMAIN t : t[i] \in {x, y}
  BY <1>6
<1>9. /\ \A i \in DOMAIN t : t[i].kind \notin {"on", "off"}
      /\ ~Some(t, Listing) /\ ~Some(t, Listed(c))
      /\ ~Before(t, {Note("end", {})}, Listing)
  BY <1>5, <1>8 DEF Some, Before, Listed
<1>10. Paired(t)
  <2>1. CASE t = <<y>>
    <3>1. DOMAIN t = {1} /\ t[1] = y
      BY <2>1
    <3> QED
      BY <1>5, <3>1 DEF Paired
  <2>2. CASE t = <<x, y>>
    <3>1. DOMAIN t = 1..2 /\ t[1] = x /\ t[2] = y
      BY <2>2
    <3>2. t[2].kind # "found"
      BY <1>5, <3>1
    <3>3. \A i \in 1..2 : i = 1 \/ i = 2
      OBVIOUS
    <3> QED
      BY <1>4, <1>5, <3>1, <3>2, <3>3 DEF Paired
  <2> QED
    BY <1>6, <2>1, <2>2
<1>11. UNCHANGED present
  BY DEF TakesSearch, elsewhere
<1> QED
  BY <1>6, <1>7, <1>9, <1>10, <1>11, OthersSent

-----------------------------------------------------------------------------
(* What there is of a kind.                                                *)
LEMMA KindsOf ==
    ASSUME NEW c \in Tlenites
    PROVE  /\ Some(reports, Listed(c)) => Some(reports, Listing)
           /\ Some(reports, PresenceOf(c)) => Some(reports, Telling)
           /\ Some(requests, Rostering) => Some(requests, Opening)
<1>1. Listed(c) \subseteq Listing
  BY DEF Listed, Listing, Note
<1>2. PresenceOf(c) \subseteq Telling
  BY DEF PresenceOf, Telling, Note
<1>3. Rostering \subseteq Opening
  BY DEF Rostering, Opening, Note
<1> QED
  BY <1>1, <1>2, <1>3 DEF Some

LEMMA RequestIs ==
    ASSUME NEW x \in TlenAsked
    PROVE  /\ x.kind = "roster" => x = Note("roster", {}) /\ x \in Opening
           /\ x.kind = "status" => x = Note("status", {}) /\ x \in Opening
           /\ x.kind = "add" => x = Note("add", x.what) /\ x.what \in Tlenites /\ x \notin Opening
           /\ x.kind = "remove" => x = Note("remove", x.what) /\ x.what \in Tlenites /\ x \notin Opening
           /\ x.kind = "search" => x.what \in Nat /\ x \notin Opening
  BY DEF TlenAsked, Opening, Note

LEMMA RequestsAre ==
    /\ Note("roster", {}) \in TlenAsked /\ Note("roster", {}) \in Opening
    /\ Note("status", {}) \in TlenAsked /\ Note("status", {}) \in Opening
    /\ \A c \in Tlenites : /\ Note("add", c) \in TlenAsked /\ Note("add", c) \notin Opening
                           /\ Note("remove", c) \in TlenAsked /\ Note("remove", c) \notin Opening
    /\ \A n \in Nat : Note("search", n) \in TlenAsked /\ Note("search", n) \notin Opening
  BY DEF TlenAsked, Opening, Note

LEMMA ReportIs ==
    ASSUME NEW x \in TlenTold
    PROVE  /\ x.kind = "end" => x = Note("end", {}) /\ x \in Listing
           /\ x.kind = "item" => x = Note("item", x.what) /\ x.what \in Tlenites /\ x \in Listing
           /\ x.kind \in {"on", "off"} => x = Note(x.kind, x.what) /\ x.what \in Tlenites /\ x \in Telling
           /\ x.kind \in {"found", "done"} => x = Note(x.kind, x.what) /\ x.what \in Nat
           /\ x.kind \in {"end", "item", "on", "off", "found", "done"}
           /\ x \in Listing <=> x.kind \in {"end", "item"}
           /\ x \in Telling <=> x.kind \in {"on", "off"}
  BY DEF TlenTold, Listing, Telling, Note

LEMMA NotesDiffer ==
    \A k, l, x, y : Note(k, x) = Note(l, y) <=> k = l /\ x = y
  BY DEF Note

-----------------------------------------------------------------------------
(* A contact whom nothing of it is about.                                  *)
SameAsked(c) ==
    /\ Some(requests', Adding(c)) <=> Some(requests, Adding(c))
    /\ Some(requests', Removing(c)) <=> Some(requests, Removing(c))
    /\ Some(requests', Rostering) <=> Some(requests, Rostering)
    /\ Before(requests', Removing(c), Adding(c)) => Before(requests, Removing(c), Adding(c))
    /\ Before(requests', Removing(c), Removing(c)) => Before(requests, Removing(c), Removing(c))
SameTold(c) ==
    /\ Some(reports', Listed(c)) <=> Some(reports, Listed(c))
    /\ Some(reports', PresenceOf(c)) <=> Some(reports, PresenceOf(c))
    /\ Finally(reports, PresenceOf(c), Right(c)) => Finally(reports', PresenceOf(c), Right(c)')
SameList(c) ==
    /\ c \in Known' <=> c \in Known
    /\ (\A i, j \in EntriesOf(c) : i = j) => (\A i, j \in EntriesOf(c)' : i = j)
    /\ \A i \in EntriesOf(c)' : \E j \in EntriesOf(c) : userlist'[i].status = userlist[j].status
    /\ c \in missed => c \in missed'
SameThere(c) ==
    /\ c \in atServer' <=> c \in atServer
    /\ c \in present' <=> c \in present
    /\ announced' = announced

LEMMA JoinedStays ==
    ASSUME NEW c, Removed(c), Joined(c), SameAsked(c), SameList(c), online' => online,
           Some(reports', Listed(c)) <=> Some(reports, Listed(c)), c \in atServer' <=> c \in atServer
    PROVE  Removed(c)' /\ Joined(c)'
<1>1. Removed(c)'
  BY DEF Removed, SameAsked, SameList
<1>2. Joined(c)'
  BY DEF Joined, SameAsked, SameList
<1> QED
  BY <1>1, <1>2

LEMMA AgreedStays ==
    ASSUME NEW c, Agreed(c), SameAsked(c), SameTold(c), SameList(c), SameThere(c), online' => online
    PROVE  Agreed(c)'
<1>1. Removed(c)' /\ Joined(c)'
  BY JoinedStays DEF Agreed, SameTold, SameThere
<1>2. Followed(c)
  BY DEF Agreed
<1>3. Followed(c)'
  BY <1>2 DEF Followed, SameTold, SameList, SameThere
<1> QED
  BY <1>1, <1>3 DEF Agreed

-----------------------------------------------------------------------------
(* The steps.  Nothing changes but the call and the history of searches.   *)
LEMMA QuietKeeps ==
    ASSUME TlenInv, call' \in {"none", "fresh", "walked"}, ~online => call' = "none",
           UNCHANGED <<online, userlist, results, searches, presented, cut, atServer, present, announced,
                       requests, reports, misled, missed, untold>>
    PROVE  TlenInv'
<1>1. TlenTypes' /\ Parted'
  BY DEF TlenInv, TlenTypes, Parted, Known
<1>2. LoginOrder' /\ Looked'
  BY DEF TlenInv, LoginOrder, Looked, Some, Before
<1>3. Searching' /\ ResultsFit'
  BY DEF TlenInv, Searching, Paired, ResultsFit
<1>4. ASSUME NEW c \in Tlenites \ misled
      PROVE  Agreed(c)'
  <2>1. SameAsked(c) /\ SameThere(c)
    BY DEF SameAsked, SameThere
  <2>2. SameTold(c)
    BY DEF SameTold, Right
  <2>3. SameList(c)
    BY DEF SameList, Known, EntriesOf
  <2> QED
    BY <2>1, <2>2, <2>3, <1>4, AgreedStays DEF TlenInv
<1> QED
  BY <1>1, <1>2, <1>3, <1>4 DEF TlenInv

LEMMA CallKeeps ==
    ASSUME TlenInv, NoSession \/ Called \/ CallEnds
    PROVE  TlenInv'
<1>1. NoSession => TlenInv'
  BY QuietKeeps DEF TlenInv, TlenTypes, Parted, NoSession, searching, elsewhere, wire, judged
<1>2. Called => TlenInv'
  BY QuietKeeps DEF Called, searching, elsewhere, wire, judged
<1>3. CallEnds => TlenInv'
  BY QuietKeeps DEF CallEnds, searching, elsewhere, wire, judged
<1> QED
  BY <1>1, <1>2, <1>3

LEMMA SearchKeeps ==
    ASSUME TlenInv, Search
    PROVE  TlenInv'
<1>1. CASE ~online
  BY <1>1, CallKeeps DEF Search
<1>2. CASE online
  <2>1. PICK n : n = searches'
    OBVIOUS
  <2>2. /\ n = searches + 1 /\ requests' = Append(requests, Note("search", n))
        /\ UNCHANGED <<online, userlist, call, results, presented, cut, atServer, present, announced,
                       reports, misled, missed, untold>>
    BY <1>2, <2>1 DEF Search, AsksFor, elsewhere, judged
  <2>3. n \in Nat
    BY <2>2 DEF TlenInv, TlenTypes
  <2>4. Note("search", n) \in TlenAsked /\ Note("search", n) \notin Opening
    BY <2>3, RequestsAre
  <2>5. requests \in Seq(TlenAsked)
    BY DEF TlenInv, TlenTypes
  <2>6. /\ requests' \in Seq(TlenAsked)
        /\ Some(requests', Opening) <=> Some(requests, Opening)
        /\ Before(requests', Opening, Opening) => Before(requests, Opening, Opening)
    BY <2>2, <2>4, <2>5, RequestMade
  <2>7. TlenTypes' /\ Parted'
    BY <1>2, <2>1, <2>2, <2>3, <2>6 DEF TlenInv, TlenTypes, Parted
  <2>8. LoginOrder'
    BY <2>2, <2>6 DEF TlenInv, LoginOrder
  <2>9. Looked' /\ Searching' /\ ResultsFit'
    BY <2>2 DEF TlenInv, Looked, Searching, ResultsFit
  <2>10. ASSUME NEW c \in Tlenites \ misled
         PROVE  Agreed(c)'
    <3>1. SameAsked(c)
      BY <2>2, <2>4, <2>5, RequestMade, NotesDiffer DEF SameAsked
    <3>2. SameTold(c) /\ SameThere(c)
      BY <2>2 DEF SameTold, SameThere, Right
    <3>3. SameList(c)
      BY <2>2 DEF SameList, Known, EntriesOf
    <3> QED
      BY <2>2, <2>10, <3>1, <3>2, <3>3, AgreedStays DEF TlenInv
  <2> QED
    BY <2>2, <2>7, <2>8, <2>9, <2>10 DEF TlenInv
<1> QED
  BY <1>1, <1>2

(* Nothing was under way.                                                  *)
LEMMA LogsInKeeps ==
    ASSUME TlenInv, LogsIn
    PROVE  TlenInv'
<1>1. PICK x : x = Note("roster", {})
  OBVIOUS
<1>2. /\ ~online /\ online' = TRUE /\ requests' = Append(requests, x)
      /\ UNCHANGED <<userlist, call, results, searches, presented, cut, atServer, present, announced,
                     reports, misled, missed, untold>>
  BY <1>1 DEF LogsIn, AsksFor, searching, elsewhere, judged
<1>3. requests = <<>> /\ reports = <<>> /\ ~announced /\ Known \subseteq missed
  BY <1>2 DEF TlenInv, Parted
<1>4. x \in TlenAsked /\ x \in Opening /\ requests \in Seq(TlenAsked)
  BY <1>1, RequestsAre DEF TlenInv, TlenTypes
<1>5. requests' \in Seq(TlenAsked) /\ ~Before(requests', Opening, Opening)
  BY <1>2, <1>3, <1>4, RequestMade, NothingThere
<1>6. TlenTypes' /\ Parted'
  BY <1>2, <1>5 DEF TlenInv, TlenTypes, Parted
<1>7. LoginOrder'
  BY <1>2, <1>3, <1>5, NothingThere DEF TlenInv, LoginOrder
<1>8. Looked' /\ Searching' /\ ResultsFit'
  BY <1>2 DEF TlenInv, Looked, Searching, ResultsFit
<1>9. ASSUME NEW c \in Tlenites \ misled
      PROVE  Agreed(c)'
  <2>1. /\ ~Some(requests', Adding(c)) /\ ~Some(requests', Removing(c)) /\ Some(requests', Rostering)
        /\ ~Before(requests', Removing(c), Adding(c)) /\ ~Before(requests', Removing(c), Removing(c))
    BY <1>1, <1>2, <1>3, <1>4, RequestMade, NothingThere, NotesDiffer
  <2>2. /\ ~Some(reports', Listed(c)) /\ ~Some(reports', PresenceOf(c))
        /\ \A Y : Finally(reports', PresenceOf(c), Y)
    BY <1>2, <1>3, NothingThere
  <2>3. Known' = Known /\ EntriesOf(c)' = EntriesOf(c)
    BY <1>2 DEF Known, EntriesOf
  <2>4. Removed(c)'
    BY <2>1 DEF Removed
  <2>5. (\A i, j \in EntriesOf(c) : i = j) /\ (c \in Known => c \in atServer \/ Some(requests, Adding(c)))
    BY <1>9 DEF TlenInv, Agreed, Joined
  <2>6. ~Some(requests, Adding(c))
    BY <1>3, NothingThere
  <2>7. Joined(c)'
    BY <1>2, <2>1, <2>2, <2>3, <2>5, <2>6 DEF Joined
  <2>8. Followed(c)'
    BY <1>2, <1>3, <2>2, <2>3 DEF Followed
  <2> QED
    BY <2>4, <2>7, <2>8 DEF Agreed
<1> QED
  BY <1>2, <1>6, <1>7, <1>8, <1>9 DEF TlenInv

(* Whoever was being added when the connection ends is misled about.       *)
LEMMA EndsKeeps ==
    ASSUME TlenInv, LogsOut \/ Lost, call = "none"
    PROVE  TlenInv'
<1>1. /\ online' = FALSE /\ announced' = FALSE /\ requests' = <<>> /\ reports' = <<>>
      /\ misled' = misled \cup {c \in Tlenites : \E i \in DOMAIN requests : requests[i] = Note("add", c)}
      /\ missed' = Known /\ cut' = cut \cup ToSet(results)
      /\ UNCHANGED <<call, results, searches, presented, atServer, present>>
  BY DEF LogsOut, Lost, Ends
<1>2. userlist \in Seq(TlenEntries)
  BY DEF TlenInv, TlenTypes
<1>3. /\ userlist' \in Seq(TlenEntries) /\ Known' = Known /\ \A c : EntriesOf(c)' = EntriesOf(c)
      /\ Looked'
  <2>1. CASE LogsOut
    <3>1. userlist' = Seen(userlist)
      BY <2>1 DEF LogsOut
    <3> QED
      BY <1>2, <3>1, ListLooked, ListNow DEF Looked
  <2>2. CASE Lost
    <3>1. userlist' = userlist /\ untold' = untold
      BY <2>2 DEF Lost
    <3> QED
      BY <1>2, <3>1 DEF Known, EntriesOf, TlenInv, Looked
  <2> QED
    BY <2>1, <2>2
<1>4. <<>> \in Seq(TlenAsked) /\ <<>> \in Seq(TlenTold)
  OBVIOUS
<1>5. TlenTypes'
  BY <1>1, <1>3, <1>4 DEF TlenInv, TlenTypes
<1>6. Parted' /\ LoginOrder'
  BY <1>1, <1>3, NothingThere DEF Parted, LoginOrder
<1>7. Searching' /\ ResultsFit'
  BY <1>1, NothingThere DEF TlenInv, Searching, ResultsFit
<1>8. ASSUME NEW c \in Tlenites \ misled'
      PROVE  Agreed(c)'
  <2>1. c \notin misled /\ ~Some(requests, Adding(c))
    BY <1>1, <1>8 DEF Some, Adding
  <2>2. Joined(c)
    BY <1>8, <2>1 DEF TlenInv, Agreed
  <2>3. (\A i, j \in EntriesOf(c) : i = j) /\ (c \in Known => c \in atServer)
    BY <2>1, <2>2 DEF Joined
  <2>4. Removed(c)'
    BY <1>1, NothingThere DEF Removed
  <2>5. Joined(c)'
    BY <1>1, <1>3, <2>3, NothingThere DEF Joined
  <2>6. Followed(c)'
    BY <1>1, <1>3, NothingThere DEF Followed
  <2> QED
    BY <2>4, <2>5, <2>6 DEF Agreed
<1> QED
  BY <1>3, <1>5, <1>6, <1>7, <1>8 DEF TlenInv

LEMMA UnderWay ==
    ASSUME TlenTypes, NEW X
    PROVE  X \cap ToSet(requests \o reports) = {} <=> ~Some(requests, X) /\ ~Some(reports, X)
<1>1. PICK S : S = TlenAsked \cup TlenTold
  OBVIOUS
<1>2. requests \in Seq(S) /\ reports \in Seq(S)
  <2>1. \A T : T \subseteq S => Seq(T) \subseteq Seq(S)
    OBVIOUS
  <2> QED
    BY <1>1, <2>1 DEF TlenTypes
<1>3. Some(requests \o reports, X) <=> Some(requests, X) \/ Some(reports, X)
  BY <1>2, SomeMore
<1>4. X \cap ToSet(requests \o reports) = {} <=> ~Some(requests \o reports, X)
  BY DEF ToSet, Some
<1> QED
  BY <1>3, <1>4

(* Whoever is added and was not known is not announced.                    *)
LEMMA AddKeeps ==
    ASSUME TlenInv, NEW a \in Tlenites, AddContact(a)
    PROVE  TlenInv'
<1>1. CASE ~online
  BY <1>1, CallKeeps DEF AddContact
<1>2. CASE online
  <2>1. PICK x, t : x = Note("add", a) /\ t = Extended(userlist, a)
    OBVIOUS
  <2>2. /\ userlist' = Seen(t) /\ requests' = Append(requests, x)
        /\ misled' = IF a \in Known \/ Old(a) THEN misled \cup {a} ELSE misled
        /\ untold' = {} /\ missed' = missed \ {a}
        /\ UNCHANGED <<online, call, results, searches, presented, cut, atServer, present, announced,
                       reports>>
    BY <1>2, <2>1 DEF AddContact, AsksFor, searching, elsewhere, Extended
  <2>3. TlenTypes /\ userlist \in Seq(TlenEntries) /\ requests \in Seq(TlenAsked)
    BY DEF TlenInv, TlenTypes
  <2>4. x \in TlenAsked /\ x \notin Opening
    BY <2>1, RequestsAre
  <2>5. /\ t \in Seq(TlenEntries) /\ Names(t) = Names(userlist) \cup {a}
        /\ \A c : c # a => Entered(t, c) = Entered(userlist, c)
        /\ a \notin Names(userlist) => \A i, j \in Entered(t, a) : i = j /\ t[i].status = "off"
        /\ \A i \in DOMAIN userlist : i \in DOMAIN t /\ t[i] = userlist[i]
    <3>1. /\ t \in Seq(TlenEntries) /\ Names(t) = Names(userlist) \cup {a}
          /\ DOMAIN userlist \subseteq DOMAIN t
          /\ \A i \in DOMAIN t : IF i \in DOMAIN userlist THEN t[i] = userlist[i]
                                ELSE t[i].who = a /\ t[i].status = "off" /\ t[i].shown = "off"
      BY <2>1, <2>3, ListExtended
    <3>2. /\ \A c : c # a => Entered(t, c) = Entered(userlist, c)
          /\ a \notin Names(userlist) => \A i, j \in Entered(t, a) : i = j /\ t[i].status = "off"
      BY <2>1, <2>3, ListExtended
    <3> QED
      BY <3>1, <3>2
  <2>6. /\ userlist' \in Seq(TlenEntries) /\ Names(userlist') = Names(t) /\ DOMAIN userlist' = DOMAIN t
        /\ \A c : Entered(userlist', c) = Entered(t, c)
        /\ \A i \in DOMAIN t : /\ userlist'[i].who = t[i].who /\ userlist'[i].status = t[i].status
                               /\ userlist'[i].shown = userlist'[i].status
    BY <2>2, <2>5, ListLooked
  <2>7. /\ requests' \in Seq(TlenAsked)
        /\ Some(requests', Opening) <=> Some(requests, Opening)
        /\ Before(requests', Opening, Opening) => Before(requests, Opening, Opening)
    BY <2>2, <2>3, <2>4, RequestMade
  <2>8. TlenTypes' /\ Parted'
    BY <1>2, <2>2, <2>6, <2>7 DEF TlenInv, TlenTypes, Parted
  <2>9. LoginOrder'
    BY <2>2, <2>7 DEF TlenInv, LoginOrder
  <2>10. Looked'
    BY <2>6 DEF Looked
  <2>11. Searching' /\ ResultsFit'
    BY <2>2 DEF TlenInv, Searching, ResultsFit
  <2>12. ASSUME NEW c \in Tlenites \ misled', c # a
         PROVE  Agreed(c)'
    <3>1. c \notin misled
      BY <2>2, <2>12
    <3>2. SameAsked(c)
      BY <2>1, <2>2, <2>3, <2>4, <2>12, RequestMade, NotesDiffer DEF SameAsked
    <3>3. SameTold(c) /\ SameThere(c)
      BY <2>2 DEF SameTold, SameThere, Right
    <3>4. EntriesOf(c)' = EntriesOf(c) /\ (c \in Known' <=> c \in Known)
      BY <2>5, <2>6, <2>12, ListNow
    <3>5. \A i \in EntriesOf(c) : userlist'[i].status = userlist[i].status
      BY <2>5, <2>6 DEF EntriesOf
    <3>6. SameList(c)
      BY <2>2, <2>12, <3>4, <3>5 DEF SameList
    <3> QED
      BY <2>2, <2>12, <3>1, <3>2, <3>3, <3>6, AgreedStays DEF TlenInv
  <2>13. ASSUME a \notin misled'
         PROVE  Agreed(a)'
    <3>1. a \notin misled /\ a \notin Known /\ ~Old(a)
      BY <2>2, <2>13
    <3>2. Removed(a) /\ Joined(a)
      BY <3>1 DEF TlenInv, Agreed
    <3>3. ~Some(requests, Removing(a)) /\ ~Some(reports, PresenceOf(a))
      <4>1. PICK X : X = {Note("remove", a), Note("on", a), Note("off", a)}
        OBVIOUS
      <4>2. ~Some(requests, X) /\ ~Some(reports, X)
        BY <2>3, <3>1, <4>1, UnderWay DEF Old
      <4> QED
        BY <4>1, <4>2 DEF Some, Removing, PresenceOf
    <3>4. /\ Some(requests', Adding(a)) /\ ~Some(requests', Removing(a))
          /\ ~Before(requests', Removing(a), Adding(a)) /\ ~Before(requests', Removing(a), Removing(a))
      BY <2>1, <2>2, <2>3, <2>4, <3>2, <3>3, RequestMade, NotesDiffer DEF Removed
    <3>5. a \in Known' /\ \A i, j \in EntriesOf(a)' : i = j /\ userlist'[i].status = "off"
      <4>1. a \notin Names(userlist) /\ Known' = Names(userlist') /\ EntriesOf(a)' = Entered(userlist', a)
        BY <3>1, ListNow
      <4>2. \A i, j \in Entered(t, a) : i = j /\ t[i].status = "off"
        BY <2>5, <4>1
      <4>3. Entered(userlist', a) = Entered(t, a) /\ Entered(t, a) \subseteq DOMAIN t
        BY <2>6 DEF Entered
      <4> QED
        BY <2>5, <2>6, <4>1, <4>2, <4>3
    <3>6. ~(announced /\ a \in atServer)
      BY <1>2, <3>1, <3>2, <3>3, KindsOf DEF TlenInv, LoginOrder, Joined
    <3>7. Removed(a)'
      BY <3>4 DEF Removed
    <3>8. Joined(a)'
      BY <2>2, <3>2, <3>4, <3>5 DEF Joined
    <3>9. Finally(reports', PresenceOf(a), Right(a)')
      BY <2>2, <3>3, NoneFinally
    <3>10. Followed(a)'
      BY <2>2, <3>3, <3>5, <3>6, <3>9 DEF Followed
    <3> QED
      BY <3>7, <3>8, <3>10 DEF Agreed
  <2> QED
    BY <2>8, <2>9, <2>10, <2>11, <2>12, <2>13 DEF TlenInv
<1> QED
  BY <1>1, <1>2

(* Whoever is removed will not be listed again.                            *)
Reduced(s, k) == RemoveAt(s, k)

LEMMA RemoveKeeps ==
    ASSUME TlenInv, NEW k \in DOMAIN userlist, RemoveContact(k)
    PROVE  TlenInv'
<1>1. CASE ~online
  BY <1>1, CallKeeps DEF RemoveContact
<1>2. CASE online
  <2>1. PICK a, x, t : a = userlist[k].who /\ x = Note("remove", a) /\ t = Reduced(userlist, k)
    OBVIOUS
  <2>2. /\ userlist' = Seen(t) /\ requests' = Append(requests, x)
        /\ misled' = IF {Note("roster", {}), Note("item", a)} \cap ToSet(requests \o reports) = {}
                     THEN misled ELSE misled \cup {a}
        /\ untold' = {}
        /\ UNCHANGED <<online, call, results, searches, presented, cut, atServer, present, announced,
                       reports, missed>>
    BY <1>2, <2>1 DEF RemoveContact, AsksFor, searching, elsewhere, Reduced
  <2>3. TlenTypes /\ userlist \in Seq(TlenEntries) /\ requests \in Seq(TlenAsked)
    BY DEF TlenInv, TlenTypes
  <2>4. a \in Tlenites /\ x \in TlenAsked /\ x \notin Opening
    <3>1. userlist[k] \in TlenEntries
      BY <2>3, ElementOfSeq, LenProperties
    <3>2. a \in Tlenites
      BY <2>1, <3>1 DEF TlenEntries
    <3> QED
      BY <2>1, <3>2, RequestsAre
  <2>5. /\ t \in Seq(TlenEntries)
        /\ \A i \in DOMAIN t : \E j \in DOMAIN userlist \ {k} : t[i] = userlist[j]
        /\ \A j \in DOMAIN userlist \ {k} : \E i \in DOMAIN t : t[i] = userlist[j]
        /\ \A c : (\A i, j \in Entered(userlist, c) : i = j) => (\A i, j \in Entered(t, c) : i = j)
    BY <2>1, <2>3, ListReduced DEF Reduced
  <2>6. /\ userlist' \in Seq(TlenEntries) /\ Names(userlist') = Names(t) /\ DOMAIN userlist' = DOMAIN t
        /\ \A c : Entered(userlist', c) = Entered(t, c)
        /\ \A i \in DOMAIN t : /\ userlist'[i].who = t[i].who /\ userlist'[i].status = t[i].status
                               /\ userlist'[i].shown = userlist'[i].status
    BY <2>2, <2>5, ListLooked
  <2>7. /\ requests' \in Seq(TlenAsked)
        /\ Some(requests', Opening) <=> Some(requests, Opening)
        /\ Before(requests', Opening, Opening) => Before(requests, Opening, Opening)
    BY <2>2, <2>3, <2>4, RequestMade
  <2>8. TlenTypes' /\ Parted'
    BY <1>2, <2>2, <2>6, <2>7 DEF TlenInv, TlenTypes, Parted
  <2>9. LoginOrder'
    BY <2>2, <2>7 DEF TlenInv, LoginOrder
  <2>10. Looked'
    BY <2>6 DEF Looked
  <2>11. Searching' /\ ResultsFit'
    BY <2>2 DEF TlenInv, Searching, ResultsFit
  <2>12. ASSUME NEW c \in Tlenites \ misled', c # a
         PROVE  Agreed(c)'
    <3>1. c \notin misled
      BY <2>2, <2>12
    <3>2. SameAsked(c)
      BY <2>1, <2>2, <2>3, <2>4, <2>12, RequestMade, NotesDiffer DEF SameAsked
    <3>3. SameTold(c) /\ SameThere(c)
      BY <2>2 DEF SameTold, SameThere, Right
    <3>4. c \in Names(t) <=> c \in Names(userlist)
      BY <2>1, <2>5, <2>12 DEF Names
    <3>5. (\A i, j \in EntriesOf(c) : i = j) => (\A i, j \in EntriesOf(c)' : i = j)
      BY <2>5, <2>6, ListNow
    <3>6. \A i \in EntriesOf(c)' : \E j \in EntriesOf(c) : userlist'[i].status = userlist[j].status
      BY <2>5, <2>6 DEF EntriesOf
    <3>7. SameList(c)
      BY <2>2, <2>6, <3>4, <3>5, <3>6, ListNow DEF SameList
    <3> QED
      BY <2>2, <2>12, <3>1, <3>2, <3>3, <3>7, AgreedStays DEF TlenInv
  <2>13. ASSUME a \notin misled'
         PROVE  Agreed(a)'
    <3>1. a \notin misled /\ {Note("roster", {}), Note("item", a)} \cap ToSet(requests \o reports) = {}
      BY <2>2, <2>13
    <3>2. Removed(a) /\ Joined(a)
      BY <2>4, <3>1 DEF TlenInv, Agreed
    <3>3. ~Some(requests, Rostering) /\ ~Some(reports, Listed(a))
      <4>1. PICK X : X = {Note("roster", {}), Note("item", a)}
        OBVIOUS
      <4>2. ~Some(requests, X) /\ ~Some(reports, X)
        BY <2>3, <3>1, <4>1, UnderWay
      <4> QED
        BY <4>1, <4>2 DEF Some, Rostering, Listed
    <3>4. a \in Known /\ ~Some(requests, Removing(a))
      BY <2>1, <3>2 DEF Known, Removed
    <3>5. /\ Some(requests', Removing(a)) /\ ~Some(requests', Rostering)
          /\ ~Before(requests', Removing(a), Adding(a)) /\ ~Before(requests', Removing(a), Removing(a))
      BY <2>1, <2>2, <2>3, <2>4, <3>2, <3>3, <3>4, RequestMade, NotesDiffer DEF Removed
    <3>6. a \notin Known'
      <4>1. \A j \in DOMAIN userlist \ {k} : userlist[j].who # a
        BY <2>1, <3>2 DEF Joined, EntriesOf
      <4>2. a \notin Names(t)
        BY <2>5, <4>1 DEF Names
      <4> QED
        BY <2>6, <4>2, ListNow
    <3>7. EntriesOf(a)' = {}
      BY <3>6 DEF Known, EntriesOf
    <3>8. Removed(a)'
      BY <2>2, <3>3, <3>5, <3>6 DEF Removed
    <3>9. Joined(a)'
      BY <2>2, <3>2, <3>5, <3>6, <3>7 DEF Joined
    <3>10. Followed(a)'
      BY <3>6 DEF Followed
    <3> QED
      BY <3>8, <3>9, <3>10 DEF Agreed
  <2> QED
    BY <2>8, <2>9, <2>10, <2>11, <2>12, <2>13 DEF TlenInv
<1> QED
  BY <1>1, <1>2

-----------------------------------------------------------------------------
(* What the first report leaves, whatever it is.                           *)
LEMMA HeardRest ==
    ASSUME TlenInv, NEW kinds, Event(kinds)
    PROVE  /\ reports' \in Seq(TlenTold) /\ Head(reports) \in TlenTold
           /\ online /\ call # "none" /\ Head(reports).kind \in kinds
           /\ Some(reports', Listing) => ~announced /\ Some(reports, Listing)
           /\ Some(reports', Telling) => announced
           /\ ~Before(reports', {Note("end", {})}, Listing)
           /\ Paired(reports')
<1>1. /\ reports # <<>> /\ reports' = Tail(reports) /\ call # "none" /\ Head(reports).kind \in kinds
      /\ reports \in Seq(TlenTold)
  BY DEF Event, TlenInv, TlenTypes
<1>2. online
  BY <1>1 DEF TlenInv, Parted
<1>3. /\ reports' \in Seq(TlenTold) /\ Head(reports) \in TlenTold
      /\ Some(reports', Listing) => Some(reports, Listing)
      /\ Some(reports', Telling) => Some(reports, Telling)
      /\ Before(reports', {Note("end", {})}, Listing) => Before(reports, {Note("end", {})}, Listing)
  BY <1>1, ReportHeard
<1>4. Paired(reports')
  BY <1>1, PairedFirst DEF TlenInv, Searching
<1> QED
  BY <1>1, <1>2, <1>3, <1>4 DEF TlenInv, LoginOrder

(* A report that is about nobody's presence, nor lists him.                *)
LEMMA SameToldFirst ==
    ASSUME TlenInv, NEW kinds, Event(kinds), NEW c, UNCHANGED present,
           Head(reports) # Note("item", c), Head(reports) \notin PresenceOf(c)
    PROVE  SameTold(c)
<1>1. reports # <<>> /\ reports' = Tail(reports) /\ reports \in Seq(TlenTold)
  BY DEF Event, TlenInv, TlenTypes
<1>2. Right(c)' = Right(c)
  BY DEF Right
<1> QED
  BY <1>1, <1>2, ReportHeard DEF SameTold

LEMMA FoundKeeps ==
    ASSUME TlenInv, Found \/ EndOfSearch
    PROVE  TlenInv'
<1>1. PICK x : x = Head(reports)
  OBVIOUS
<1>2. /\ Event({"found", "done"}) /\ reports' = Tail(reports) /\ reports # <<>>
      /\ UNCHANGED <<online, userlist, call, searches, cut, atServer, present, announced, requests,
                     misled, missed, untold>>
  BY DEF Found, EndOfSearch, Event, elsewhere, judged
<1>3. /\ reports' \in Seq(TlenTold) /\ x \in TlenTold /\ online /\ x.kind \in {"found", "done"}
      /\ Some(reports', Listing) => ~announced /\ Some(reports, Listing)
      /\ Some(reports', Telling) => announced
      /\ ~Before(reports', {Note("end", {})}, Listing)
      /\ Paired(reports')
  BY <1>1, <1>2, HeardRest
<1>4. TlenTypes' /\ Parted'
  BY <1>2, <1>3 DEF TlenInv, TlenTypes, Parted
<1>5. LoginOrder'
  BY <1>2, <1>3 DEF TlenInv, LoginOrder
<1>6. Looked'
  BY <1>2 DEF TlenInv, Looked
<1>7. ASSUME NEW c \in Tlenites \ misled'
      PROVE  Agreed(c)'
  <2>1. x # Note("item", c) /\ x \notin PresenceOf(c)
    BY <1>3 DEF PresenceOf, Note
  <2>2. SameTold(c)
    BY <1>1, <1>2, <2>1, SameToldFirst
  <2>3. SameAsked(c) /\ SameThere(c)
    BY <1>2 DEF SameAsked, SameThere
  <2>4. SameList(c)
    BY <1>2 DEF SameList, Known, EntriesOf
  <2> QED
    BY <1>2, <1>7, <2>2, <2>3, <2>4, AgreedStays DEF TlenInv
<1>8. \A r \in ToSet(results) \ cut : x = Note("done", r)
  BY <1>1 DEF TlenInv, Searching
<1>9. CASE Found
  <2>1. x.kind = "found" /\ results' = Append(results, x.what) /\ presented' = presented
    BY <1>1, <1>9 DEF Found, Event
  <2>2. \A r \in ToSet(results) : r \in cut
    BY <1>8, <2>1 DEF Note
  <2>3. reports' # <<>> /\ Head(reports') = Note("done", x.what)
    BY <1>1, <1>2, <2>1, PairedFirst DEF TlenInv, Searching, TlenTypes
  <2>4. ToSet(results') \subseteq ToSet(results) \cup {x.what}
    BY <2>1 DEF ToSet
  <2>5. Searching'
    BY <1>2, <1>3, <2>2, <2>3, <2>4 DEF Searching
  <2>6. ResultsFit'
    BY <1>2, <2>1 DEF TlenInv, ResultsFit
  <2> QED
    BY <1>2, <1>4, <1>5, <1>6, <1>7, <2>5, <2>6 DEF TlenInv
<1>10. CASE EndOfSearch
  <2>1. /\ results' = <<>> /\ presented' = [search |-> x.what, found |-> ToSet(results)]
    BY <1>1, <1>10 DEF EndOfSearch
  <2>2. ToSet(results) \subseteq {x.what} \cup cut
    BY <1>8 DEF Note
  <2>3. ResultsFit'
    BY <1>2, <2>1, <2>2 DEF ResultsFit
  <2>4. ToSet(results') = {}
    BY <2>1 DEF ToSet
  <2>5. Searching'
    BY <1>3, <2>4 DEF Searching
  <2> QED
    BY <1>2, <1>4, <1>5, <1>6, <1>7, <2>3, <2>5 DEF TlenInv
<1> QED
  BY <1>9, <1>10

LEMMA PresenceKeeps ==
    ASSUME TlenInv, Presence
    PROVE  TlenInv'
<1>1. PICK x, a : x = Head(reports) /\ a = x.what
  OBVIOUS
<1>2. /\ Event({"on", "off"}) /\ reports' = Tail(reports) /\ reports # <<>> /\ call' = "walked"
      /\ missed' = missed \ {a} /\ untold' = IF call = "fresh" THEN untold \ {a} ELSE untold \cup {a}
      /\ UNCHANGED <<online, results, searches, presented, cut, atServer, present, announced, requests,
                     misled>>
  BY <1>1 DEF Presence, Event, searching, elsewhere
<1>3. /\ reports' \in Seq(TlenTold) /\ x \in TlenTold /\ online /\ x.kind \in {"on", "off"}
      /\ Some(reports', Listing) => ~announced /\ Some(reports, Listing)
      /\ Some(reports', Telling) => announced
      /\ ~Before(reports', {Note("end", {})}, Listing)
      /\ Paired(reports') /\ call # "none"
  BY <1>1, <1>2, HeardRest
<1>4. TlenTypes /\ reports \in Seq(TlenTold) /\ call \in {"fresh", "walked"}
  BY <1>3 DEF TlenInv, TlenTypes
<1>5. x = Note(x.kind, a) /\ a \in Tlenites
  BY <1>1, <1>3, ReportIs
<1>6. /\ userlist' \in Seq(TlenEntries) /\ DOMAIN userlist' = DOMAIN userlist
      /\ Known' = Known /\ \A d : EntriesOf(d)' = EntriesOf(d)
      /\ \A i \in DOMAIN userlist \ EntriesOf(a) : userlist'[i] = userlist[i]
      /\ (\A i, j \in EntriesOf(a) : i = j) => \A i \in EntriesOf(a) : userlist'[i].status = x.kind
      /\ call = "fresh" => \A i \in EntriesOf(a) : userlist'[i].shown = userlist'[i].status
  BY <1>1, <1>4, ListTold
<1>7. TlenTypes' /\ Parted'
  BY <1>2, <1>3, <1>6 DEF TlenInv, TlenTypes, Parted
<1>8. LoginOrder'
  BY <1>2, <1>3 DEF TlenInv, LoginOrder
<1>9. Looked'
  <2>1. SUFFICES ASSUME NEW i \in DOMAIN userlist, userlist'[i].who \notin untold'
                 PROVE  userlist'[i].shown = userlist'[i].status
    BY <1>6 DEF Looked
  <2>2. CASE i \in EntriesOf(a)
    <3>1. i \in EntriesOf(a)'
      BY <1>6, <2>2
    <3>2. userlist'[i].who = a
      BY <3>1 DEF EntriesOf
    <3> QED
      BY <1>2, <1>4, <1>6, <2>1, <2>2, <3>2
  <2>3. CASE i \notin EntriesOf(a)
    <3>1. userlist'[i] = userlist[i] /\ userlist[i].who # a
      BY <1>6, <2>3 DEF EntriesOf
    <3>2. userlist[i].who \notin untold
      BY <1>2, <2>1, <3>1
    <3> QED
      BY <3>1, <3>2 DEF TlenInv, Looked
  <2> QED
    BY <2>2, <2>3
<1>10. Searching' /\ ResultsFit'
  <2>1. \A r \in ToSet(results) \ cut : x = Note("done", r)
    BY <1>1 DEF TlenInv, Searching
  <2>2. \A r : x # Note("done", r)
    BY <1>3 DEF Note
  <2> QED
    BY <1>2, <1>3, <2>1, <2>2 DEF TlenInv, Searching, ResultsFit
<1>11. ASSUME NEW c \in Tlenites \ misled', c # a
       PROVE  Agreed(c)'
  <2>1. x # Note("item", c) /\ x \notin PresenceOf(c)
    BY <1>3, <1>5, <1>11 DEF PresenceOf, Note
  <2>2. SameTold(c)
    BY <1>1, <1>2, <2>1, SameToldFirst
  <2>3. SameAsked(c) /\ SameThere(c)
    BY <1>2 DEF SameAsked, SameThere
  <2>4. \A i \in EntriesOf(c) : i \in DOMAIN userlist /\ i \notin EntriesOf(a)
    BY <1>11 DEF EntriesOf
  <2>5. SameList(c)
    BY <1>2, <1>6, <1>11, <2>4 DEF SameList
  <2> QED
    BY <1>2, <1>11, <2>2, <2>3, <2>5, AgreedStays DEF TlenInv
<1>12. ASSUME a \notin misled'
       PROVE  Agreed(a)'
  <2>1. Removed(a) /\ Joined(a) /\ Followed(a)
    BY <1>2, <1>5, <1>12 DEF TlenInv, Agreed
  <2>2. x # Note("item", a) /\ x \in PresenceOf(a)
    BY <1>3, <1>5 DEF PresenceOf, Note
  <2>3. /\ Some(reports', Listed(a)) <=> Some(reports, Listed(a))
        /\ Some(reports, PresenceOf(a))
    BY <1>1, <1>2, <1>4, <2>2, ReportHeard
  <2>4. Finally(reports, PresenceOf(a), Right(a)) =>
           /\ Finally(reports', PresenceOf(a), Right(a))
           /\ ~Some(reports', PresenceOf(a)) => x \in Right(a)
    BY <1>1, <1>2, <1>4, <2>2, ReportHeard
  <2>5. announced
    BY <1>5, <2>3, KindsOf DEF TlenInv, LoginOrder
  <2>6. Removed(a)'
    BY <1>2, <1>6, <2>1, <2>3 DEF Removed
  <2>7. Joined(a)'
    BY <1>2, <1>6, <2>1, <2>3 DEF Joined
  <2>8. Right(a)' = Right(a)
    BY <1>2 DEF Right
  <2>9. x \in Right(a) => (x.kind = "on" <=> a \in present)
    BY <1>5 DEF Right, Note
  <2>10. ASSUME a \in Known
         PROVE  /\ a \in atServer /\ Finally(reports', PresenceOf(a), Right(a)')
                /\ ~Some(reports', PresenceOf(a)) =>
                      \A i \in EntriesOf(a) : userlist'[i].status = "on" <=> a \in present
    <3>1. a \in atServer /\ Finally(reports, PresenceOf(a), Right(a))
      BY <2>1, <2>3, <2>10 DEF Followed
    <3>2. \A i \in EntriesOf(a) : userlist'[i].status = x.kind
      BY <1>6, <2>1 DEF Joined
    <3> QED
      BY <2>4, <2>8, <2>9, <3>1, <3>2
  <2>11. Followed(a)'
    BY <1>2, <1>6, <2>5, <2>10 DEF Followed
  <2> QED
    BY <2>6, <2>7, <2>11 DEF Agreed
<1> QED
  BY <1>7, <1>8, <1>9, <1>10, <1>11, <1>12 DEF TlenInv

(* Whoever is listed is so before the user is announced.                   *)
LEMMA ItemKeeps ==
    ASSUME TlenInv, Item
    PROVE  TlenInv'
<1>1. PICK x, a : x = Head(reports) /\ a = x.what
  OBVIOUS
<1>2. /\ Event({"item"}) /\ reports' = Tail(reports) /\ reports # <<>>
      /\ UNCHANGED <<online, call, results, searches, presented, cut, atServer, present, announced,
                     requests, misled, untold>>
  BY <1>1 DEF Item, Event, searching, elsewhere
<1>3. /\ reports' \in Seq(TlenTold) /\ x \in TlenTold /\ online /\ x.kind \in {"item"}
      /\ Some(reports', Listing) => ~announced /\ Some(reports, Listing)
      /\ Some(reports', Telling) => announced
      /\ ~Before(reports', {Note("end", {})}, Listing)
      /\ Paired(reports')
  BY <1>1, <1>2, HeardRest
<1>4. reports \in Seq(TlenTold) /\ userlist \in Seq(TlenEntries)
  BY DEF TlenInv, TlenTypes
<1>5. x = Note("item", a) /\ a \in Tlenites
  BY <1>1, <1>3, ReportIs
<1>6. PICK t : t = Extended(userlist, a)
  OBVIOUS
<1>7. IF a \in Known THEN userlist' = userlist /\ missed' = missed
      ELSE userlist' = t /\ missed' = missed \ {a}
  BY <1>1, <1>6 DEF Item, Extended
<1>8. /\ t \in Seq(TlenEntries) /\ Names(t) = Names(userlist) \cup {a}
      /\ DOMAIN userlist \subseteq DOMAIN t
      /\ \A i \in DOMAIN t : IF i \in DOMAIN userlist THEN t[i] = userlist[i]
                             ELSE t[i].who = a /\ t[i].status = "off" /\ t[i].shown = "off"
  BY <1>4, <1>5, <1>6, ListExtended
<1>9. /\ \A c : c # a => Entered(t, c) = Entered(userlist, c)
      /\ a \notin Names(userlist) => \A i, j \in Entered(t, a) : i = j /\ t[i].status = "off"
  BY <1>4, <1>5, <1>6, ListExtended
<1>10. userlist' \in Seq(TlenEntries) /\ Looked'
  <2>1. CASE a \in Known
    BY <1>2, <1>4, <1>7, <2>1 DEF TlenInv, Looked
  <2>2. CASE a \notin Known
    <3>1. userlist' = t
      BY <1>7, <2>2
    <3>2. \A i \in DOMAIN t : t[i].who \notin untold => t[i].shown = t[i].status
      BY <1>8 DEF TlenInv, Looked
    <3> QED
      BY <1>2, <1>8, <3>1, <3>2 DEF Looked
  <2> QED
    BY <2>1, <2>2
<1>11. TlenTypes' /\ Parted'
  BY <1>2, <1>3, <1>10 DEF TlenInv, TlenTypes, Parted
<1>12. LoginOrder'
  BY <1>2, <1>3 DEF TlenInv, LoginOrder
<1>13. Searching' /\ ResultsFit'
  <2>1. \A r \in ToSet(results) \ cut : x = Note("done", r)
    BY <1>1 DEF TlenInv, Searching
  <2>2. \A r : x # Note("done", r)
    BY <1>3 DEF Note
  <2> QED
    BY <1>2, <1>3, <2>1, <2>2 DEF TlenInv, Searching, ResultsFit
<1>14. ASSUME NEW c \in Tlenites \ misled', c # a, Some(reports', Listed(c)) <=> Some(reports, Listed(c))
       PROVE  Agreed(c)'
  <2>1. x \notin PresenceOf(c)
    BY <1>5 DEF PresenceOf, Note
  <2>2. SameTold(c)
    <3>1. Right(c)' = Right(c)
      BY <1>2 DEF Right
    <3> QED
      BY <1>1, <1>2, <1>4, <1>14, <2>1, <3>1, ReportHeard DEF SameTold
  <2>3. SameAsked(c) /\ SameThere(c)
    BY <1>2 DEF SameAsked, SameThere
  <2>4. SameList(c)
    <3>1. CASE a \in Known
      BY <1>7, <3>1 DEF SameList, Known, EntriesOf
    <3>2. CASE a \notin Known
      <4>1. c # a /\ userlist' = t /\ missed' = missed \ {a}
        BY <1>7, <1>14, <3>2
      <4>2. EntriesOf(c)' = EntriesOf(c) /\ (c \in Known' <=> c \in Known)
        BY <1>8, <1>9, <4>1, ListNow
      <4>3. \A i \in EntriesOf(c) : userlist'[i] = userlist[i]
        BY <1>8, <4>1 DEF EntriesOf
      <4> QED
        BY <4>1, <4>2, <4>3 DEF SameList
    <3> QED
      BY <3>1, <3>2
  <2> QED
    BY <1>2, <1>14, <2>2, <2>3, <2>4, AgreedStays DEF TlenInv
<1>15. ASSUME NEW c \in Tlenites \ misled', c # a
       PROVE  Agreed(c)'
  <2>1. x # Note("item", c)
    BY <1>5, <1>15 DEF Note
  <2> QED
    BY <1>1, <1>2, <1>4, <1>14, <1>15, <2>1, ReportHeard
<1>16. ASSUME a \notin misled'
       PROVE  Agreed(a)'
  <2>1. Removed(a) /\ Joined(a) /\ Followed(a)
    BY <1>2, <1>5, <1>16 DEF TlenInv, Agreed
  <2>2. Some(reports, Listed(a)) /\ Some(reports, Listing)
    BY <1>1, <1>2, <1>4, <1>5, ReportHeard, KindsOf
  <2>3. ~announced /\ a \in atServer /\ ~Some(requests, Removing(a))
    BY <2>1, <2>2 DEF TlenInv, LoginOrder, Removed, Joined
  <2>4. ~Some(reports, PresenceOf(a))
    BY <1>5, <2>3, KindsOf DEF TlenInv, LoginOrder
  <2>5. x \notin PresenceOf(a)
    BY <1>5 DEF PresenceOf, Note
  <2>6. ~Some(reports', PresenceOf(a)) /\ (Some(reports', Listed(a)) => Some(reports, Listed(a)))
    BY <1>1, <1>2, <1>4, <2>4, <2>5, ReportHeard
  <2>7. /\ a \in Known' /\ \A i, j \in EntriesOf(a)' : i = j
        /\ a \notin missed' => \A i \in EntriesOf(a)' : userlist'[i].status # "on"
    <3>1. CASE a \in Known
      <4>1. userlist' = userlist /\ missed' = missed
        BY <1>7, <3>1
      <4>2. a \in Known' /\ EntriesOf(a)' = EntriesOf(a)
        BY <3>1, <4>1 DEF Known, EntriesOf
      <4>3. a \notin missed => \A i \in EntriesOf(a) : userlist[i].status # "on"
        BY <2>1, <2>3, <2>4, <3>1 DEF Followed
      <4> QED
        BY <2>1, <4>1, <4>2, <4>3 DEF Joined
    <3>2. CASE a \notin Known
      <4>1. userlist' = t /\ a \notin Names(userlist)
        BY <1>7, <3>2, ListNow
      <4>2. \A i, j \in Entered(t, a) : i = j /\ t[i].status = "off"
        BY <1>9, <4>1
      <4>3. Known' = Names(t) /\ EntriesOf(a)' = Entered(t, a)
        BY <4>1, ListNow
      <4> QED
        BY <1>8, <4>1, <4>2, <4>3
    <3> QED
      BY <3>1, <3>2
  <2>8. Removed(a)'
    BY <1>2, <2>1, <2>3 DEF Removed
  <2>9. Joined(a)'
    BY <1>2, <2>3, <2>7 DEF Joined
  <2>10. Finally(reports', PresenceOf(a), Right(a)')
    BY <2>6, NoneFinally
  <2>11. Followed(a)'
    BY <1>2, <2>3, <2>6, <2>7, <2>10 DEF Followed
  <2> QED
    BY <2>8, <2>9, <2>11 DEF Agreed
<1> QED
  BY <1>11, <1>12, <1>10, <1>13, <1>15, <1>16 DEF TlenInv

(* After the end of the list the user may be announced.                    *)
LEMMA EndRosterKeeps ==
    ASSUME TlenInv, EndRoster
    PROVE  TlenInv'
<1>1. PICK x, y : x = Head(reports) /\ y = Note("status", {})
  OBVIOUS
<1>2. /\ Event({"end"}) /\ reports' = Tail(reports) /\ reports # <<>>
      /\ requests' = Append(requests, y) /\ userlist' = Seen(userlist) /\ untold' = {}
      /\ UNCHANGED <<online, call, results, searches, presented, cut, atServer, present, announced,
                     misled, missed>>
  BY <1>1 DEF EndRoster, Event, AsksFor, searching, elsewhere
<1>3. /\ reports' \in Seq(TlenTold) /\ x \in TlenTold /\ online /\ x.kind \in {"end"}
      /\ Some(reports', Telling) => announced
      /\ ~Before(reports', {Note("end", {})}, Listing)
      /\ Paired(reports')
  BY <1>1, <1>2, HeardRest
<1>4. /\ reports \in Seq(TlenTold) /\ userlist \in Seq(TlenEntries) /\ requests \in Seq(TlenAsked)
      /\ y \in TlenAsked /\ y \in Opening
  BY <1>1, RequestsAre DEF TlenInv, TlenTypes
<1>5. x = Note("end", {}) /\ x \in Listing
  BY <1>1, <1>3, ReportIs
<1>6. Some(reports, Listing) /\ ~announced /\ ~Some(requests, Opening) /\ ~Some(reports', Listing)
  <2>1. Some(reports, Listing) /\ (Some(reports', Listing) => Before(reports, {Note("end", {})}, Listing))
    BY <1>1, <1>2, <1>4, <1>5, ReportHeard
  <2> QED
    BY <2>1 DEF TlenInv, LoginOrder
<1>7. /\ userlist' \in Seq(TlenEntries) /\ Known' = Known /\ DOMAIN userlist' = DOMAIN userlist
      /\ \A c : EntriesOf(c)' = EntriesOf(c)
      /\ \A i \in DOMAIN userlist : /\ userlist'[i].status = userlist[i].status
                                    /\ userlist'[i].shown = userlist'[i].status
  BY <1>2, <1>4, ListLooked, ListNow
<1>8. /\ requests' \in Seq(TlenAsked)
      /\ Before(requests', Opening, Opening) => Before(requests, Opening, Opening) \/ Some(requests, Opening)
  BY <1>2, <1>4, RequestMade
<1>9. TlenTypes' /\ Parted'
  BY <1>2, <1>3, <1>7, <1>8 DEF TlenInv, TlenTypes, Parted
<1>10. LoginOrder'
  BY <1>2, <1>3, <1>6, <1>8 DEF TlenInv, LoginOrder
<1>11. Looked'
  BY <1>7 DEF Looked
<1>12. Searching' /\ ResultsFit'
  <2>1. \A r \in ToSet(results) \ cut : x = Note("done", r)
    BY <1>1 DEF TlenInv, Searching
  <2>2. \A r : x # Note("done", r)
    BY <1>3 DEF Note
  <2> QED
    BY <1>2, <1>3, <2>1, <2>2 DEF TlenInv, Searching, ResultsFit
<1>13. ASSUME NEW c \in Tlenites \ misled'
       PROVE  Agreed(c)'
  <2>1. x # Note("item", c) /\ x \notin PresenceOf(c)
    BY <1>5 DEF PresenceOf, Note
  <2>2. SameTold(c)
    BY <1>1, <1>2, <2>1, SameToldFirst
  <2>3. SameAsked(c)
    BY <1>1, <1>2, <1>4, RequestMade, NotesDiffer DEF SameAsked
  <2>4. SameThere(c)
    BY <1>2 DEF SameThere
  <2>5. \A i \in EntriesOf(c) : i \in DOMAIN userlist
    BY DEF EntriesOf
  <2>6. SameList(c)
    BY <1>2, <1>7, <2>5 DEF SameList
  <2> QED
    BY <1>2, <1>13, <2>2, <2>3, <2>4, <2>6, AgreedStays DEF TlenInv
<1> QED
  BY <1>9, <1>10, <1>11, <1>12, <1>13 DEF TlenInv

-----------------------------------------------------------------------------
(* The server.  What the request it takes leaves, whatever it is.          *)
LEMMA TakenRest ==
    ASSUME TlenInv, NEW kind, Takes(kind)
    PROVE  /\ requests' \in Seq(TlenAsked) /\ Head(requests) \in TlenAsked /\ Head(requests).kind = kind
           /\ online
           /\ Some(requests', Opening) => Some(requests, Opening)
           /\ Head(requests) \in Opening => Some(requests, Opening) /\ ~Some(requests', Opening)
           /\ ~Before(requests', Opening, Opening)
<1>1. /\ requests # <<>> /\ requests' = Tail(requests) /\ Head(requests).kind = kind
      /\ requests \in Seq(TlenAsked)
  BY DEF Takes, TlenInv, TlenTypes
<1>2. /\ requests' \in Seq(TlenAsked) /\ Head(requests) \in TlenAsked
      /\ Some(requests, Opening) <=> Head(requests) \in Opening \/ Some(requests', Opening)
      /\ Before(requests', Opening, Opening) => Before(requests, Opening, Opening)
      /\ Head(requests) \in Opening /\ Some(requests', Opening) => Before(requests, Opening, Opening)
  BY <1>1, RequestTaken
<1> QED
  BY <1>1, <1>2 DEF TlenInv, Parted, LoginOrder

LEMMA SearchingStays ==
    ASSUME TlenInv, Paired(reports) => Paired(reports'),
           reports # <<>> => reports' # <<>> /\ Head(reports') = Head(reports),
           UNCHANGED <<results, cut>>
    PROVE  Searching'
BY DEF TlenInv, Searching

LEMMA TakesRosterKeeps ==
    ASSUME TlenInv, TakesRoster
    PROVE  TlenInv'
<1>1. PICK x : x = Head(requests)
  OBVIOUS
<1>2. /\ Takes("roster") /\ requests # <<>> /\ requests' = Tail(requests)
      /\ UNCHANGED <<online, userlist, call, results, searches, presented, cut, atServer, present,
                     announced, misled, missed, untold>>
  BY DEF TakesRoster, Takes, searching, elsewhere, judged
<1>3. TlenTypes /\ requests \in Seq(TlenAsked)
  BY DEF TlenInv, TlenTypes
<1>4. /\ requests' \in Seq(TlenAsked) /\ x \in TlenAsked /\ x.kind = "roster" /\ online
      /\ x \in Opening => Some(requests, Opening) /\ ~Some(requests', Opening)
      /\ ~Before(requests', Opening, Opening)
  BY <1>1, <1>2, TakenRest
<1>5. x = Note("roster", {}) /\ x \in Opening
  BY <1>4, RequestIs
<1>6. ~announced /\ ~Some(reports, Listing)
  BY <1>4, <1>5 DEF TlenInv, LoginOrder
<1>7. /\ reports' \in Seq(TlenTold)
      /\ Some(reports', Telling) => Some(reports, Telling)
      /\ Before(reports', {Note("end", {})}, Listing) =>
            Before(reports, {Note("end", {})}, Listing) \/ Some(reports, Listing)
      /\ Paired(reports) => Paired(reports')
      /\ reports # <<>> => reports' # <<>> /\ Head(reports') = Head(reports)
  BY <1>3, RosterSent
<1>8. TlenTypes' /\ Parted'
  BY <1>2, <1>4, <1>7 DEF TlenInv, TlenTypes, Parted
<1>9. LoginOrder'
  BY <1>2, <1>4, <1>5, <1>6, <1>7 DEF TlenInv, LoginOrder
<1>10. Looked' /\ ResultsFit'
  BY <1>2 DEF TlenInv, Looked, ResultsFit
<1>11. Searching'
  BY <1>2, <1>7, SearchingStays
<1>12. ASSUME NEW c \in Tlenites \ misled'
       PROVE  Agreed(c)'
  <2>1. Removed(c) /\ Joined(c) /\ Followed(c)
    BY <1>2, <1>12 DEF TlenInv, Agreed
  <2>2. /\ Some(requests', Adding(c)) <=> Some(requests, Adding(c))
        /\ Some(requests', Removing(c)) <=> Some(requests, Removing(c))
        /\ Some(requests, Rostering)
        /\ Before(requests', Removing(c), Adding(c)) => Before(requests, Removing(c), Adding(c))
        /\ Before(requests', Removing(c), Removing(c)) => Before(requests, Removing(c), Removing(c))
    BY <1>1, <1>2, <1>3, <1>5, RequestTaken, NotesDiffer
  <2>3. /\ Some(reports', Listed(c)) <=> Some(reports, Listed(c)) \/ c \in atServer
        /\ Some(reports', PresenceOf(c)) <=> Some(reports, PresenceOf(c))
        /\ Finally(reports, PresenceOf(c), Right(c)) => Finally(reports', PresenceOf(c), Right(c))
    BY <1>3, RosterSent
  <2>4. ~Some(requests, Removing(c))
    BY <2>1, <2>2 DEF Removed
  <2>5. Known' = Known /\ EntriesOf(c)' = EntriesOf(c) /\ Right(c)' = Right(c)
    BY <1>2 DEF Known, EntriesOf, Right
  <2>6. Removed(c)'
    BY <2>1, <2>2, <2>4 DEF Removed
  <2>7. Joined(c)'
    BY <1>2, <2>1, <2>2, <2>3, <2>4, <2>5 DEF Joined
  <2>8. Followed(c)'
    BY <1>2, <2>1, <2>3, <2>5 DEF Followed
  <2> QED
    BY <2>6, <2>7, <2>8 DEF Agreed
<1> QED
  BY <1>8, <1>9, <1>10, <1>11, <1>12 DEF TlenInv

(* Nobody's presence was told before the user is announced.                *)
LEMMA TakesStatusKeeps ==
    ASSUME TlenInv, TakesStatus
    PROVE  TlenInv'
<1>1. PICK x, cs : x = Head(requests) /\ cs = atServer \cap present
  OBVIOUS
<1>2. /\ Takes("status") /\ requests # <<>> /\ requests' = Tail(requests)
      /\ announced' = TRUE /\ SendsPresence(cs)
      /\ UNCHANGED <<online, userlist, call, results, searches, presented, cut, atServer, present,
                     misled, missed, untold>>
  BY <1>1 DEF TakesStatus, Takes, searching, judged
<1>3. TlenTypes /\ requests \in Seq(TlenAsked) /\ cs \in SUBSET Tlenites /\ IsFiniteSet(cs)
  BY <1>1, FS_Subset DEF TlenInv, TlenTypes
<1>4. /\ requests' \in Seq(TlenAsked) /\ x \in TlenAsked /\ x.kind = "status" /\ online
      /\ x \in Opening => Some(requests, Opening) /\ ~Some(requests', Opening)
      /\ ~Before(requests', Opening, Opening)
  BY <1>1, <1>2, TakenRest
<1>5. x = Note("status", {}) /\ x \in Opening
  BY <1>4, RequestIs
<1>6. ~announced /\ ~Some(reports, Listing) /\ ~Some(reports, Telling)
  BY <1>4, <1>5 DEF TlenInv, LoginOrder
<1>7. /\ reports' \in Seq(TlenTold)
      /\ Some(reports', Listing) <=> Some(reports, Listing)
      /\ Before(reports', {Note("end", {})}, Listing) => Before(reports, {Note("end", {})}, Listing)
      /\ Paired(reports) => Paired(reports')
      /\ reports # <<>> => reports' # <<>> /\ Head(reports') = Head(reports)
  BY <1>2, <1>3, PresencesSent
<1>8. TlenTypes' /\ Parted'
  BY <1>2, <1>4, <1>7 DEF TlenInv, TlenTypes, Parted
<1>9. LoginOrder'
  BY <1>2, <1>4, <1>5, <1>6, <1>7 DEF TlenInv, LoginOrder
<1>10. Looked' /\ ResultsFit'
  BY <1>2 DEF TlenInv, Looked, ResultsFit
<1>11. Searching'
  BY <1>2, <1>7, SearchingStays
<1>12. ASSUME NEW c \in Tlenites \ misled'
       PROVE  Agreed(c)'
  <2>1. Removed(c) /\ Joined(c) /\ Followed(c)
    BY <1>2, <1>12 DEF TlenInv, Agreed
  <2>2. SameAsked(c)
    BY <1>1, <1>2, <1>3, <1>5, RequestTaken, NotesDiffer DEF SameAsked
  <2>3. SameList(c)
    BY <1>2 DEF SameList, Known, EntriesOf
  <2>4. /\ Some(reports', Listed(c)) <=> Some(reports, Listed(c))
        /\ Some(reports', PresenceOf(c)) <=> Some(reports, PresenceOf(c)) \/ c \in cs
        /\ c \in cs \/ Finally(reports, PresenceOf(c), Right(c)') =>
              Finally(reports', PresenceOf(c), Right(c)')
    BY <1>2, <1>3, PresencesSent
  <2>5. Removed(c)' /\ Joined(c)'
    BY <1>2, <2>1, <2>2, <2>3, <2>4, JoinedStays
  <2>6. ~Some(reports, PresenceOf(c))
    BY <1>6, KindsOf
  <2>7. Finally(reports', PresenceOf(c), Right(c)')
    BY <2>4, <2>6, NoneFinally
  <2>8. Known' = Known /\ EntriesOf(c)' = EntriesOf(c)
    BY <1>2 DEF Known, EntriesOf
  <2>9. Followed(c)'
    BY <1>1, <1>2, <1>6, <2>1, <2>4, <2>6, <2>7, <2>8 DEF Followed
  <2> QED
    BY <2>5, <2>9 DEF Agreed
<1> QED
  BY <1>8, <1>9, <1>10, <1>11, <1>12 DEF TlenInv

LEMMA TakesAddKeeps ==
    ASSUME TlenInv, TakesAdd
    PROVE  TlenInv'
<1>1. PICK x, a, cs : x = Head(requests) /\ a = x.what /\ cs = IF announced THEN {a} \cap present ELSE {}
  OBVIOUS
<1>2. /\ Takes("add") /\ requests # <<>> /\ requests' = Tail(requests)
      /\ atServer' = atServer \cup {a} /\ SendsPresence(cs)
      /\ UNCHANGED <<online, userlist, call, results, searches, presented, cut, present, announced,
                     misled, missed, untold>>
  BY <1>1 DEF TakesAdd, Takes, searching, judged
<1>3. /\ requests' \in Seq(TlenAsked) /\ x \in TlenAsked /\ x.kind = "add" /\ online
      /\ Some(requests', Opening) => Some(requests, Opening)
      /\ ~Before(requests', Opening, Opening)
  BY <1>1, <1>2, TakenRest
<1>4. x = Note("add", a) /\ a \in Tlenites
  BY <1>1, <1>3, RequestIs
<1>5. /\ TlenTypes /\ requests \in Seq(TlenAsked) /\ cs \in SUBSET Tlenites /\ IsFiniteSet(cs)
      /\ IsFiniteSet(atServer')
  <2>1. IsFiniteSet({a}) /\ cs \subseteq {a}
    BY <1>1, FS_Singleton
  <2>2. IsFiniteSet(cs)
    BY <2>1, FS_Subset
  <2>3. IsFiniteSet(atServer \cup {a})
    BY <2>1, FS_Union DEF TlenInv, TlenTypes
  <2> QED
    BY <1>2, <1>4, <2>1, <2>2, <2>3 DEF TlenInv, TlenTypes
<1>6. /\ reports' \in Seq(TlenTold)
      /\ Some(reports', Listing) <=> Some(reports, Listing)
      /\ Some(reports', Telling) => Some(reports, Telling) \/ cs # {}
      /\ Before(reports', {Note("end", {})}, Listing) => Before(reports, {Note("end", {})}, Listing)
      /\ Paired(reports) => Paired(reports')
      /\ reports # <<>> => reports' # <<>> /\ Head(reports') = Head(reports)
  BY <1>2, <1>5, PresencesSent
<1>7. TlenTypes' /\ Parted'
  BY <1>2, <1>3, <1>4, <1>5, <1>6 DEF TlenInv, TlenTypes, Parted
<1>8. LoginOrder'
  BY <1>1, <1>2, <1>3, <1>6 DEF TlenInv, LoginOrder
<1>9. Looked' /\ ResultsFit'
  BY <1>2 DEF TlenInv, Looked, ResultsFit
<1>10. Searching'
  BY <1>2, <1>6, SearchingStays
<1>11. ASSUME NEW c \in Tlenites \ misled'
       PROVE  Agreed(c)'
  <2>1. Agreed(c) /\ Removed(c) /\ Joined(c) /\ Followed(c)
    BY <1>2, <1>11 DEF TlenInv, Agreed
  <2>2. Known' = Known /\ EntriesOf(c)' = EntriesOf(c) /\ Right(c)' = Right(c)
    BY <1>2 DEF Known, EntriesOf, Right
  <2>3. /\ Some(reports', Listed(c)) <=> Some(reports, Listed(c))
        /\ Some(reports', PresenceOf(c)) <=> Some(reports, PresenceOf(c)) \/ c \in cs
        /\ c \in cs \/ Finally(reports, PresenceOf(c), Right(c)') =>
              Finally(reports', PresenceOf(c), Right(c)')
    BY <1>2, <1>5, PresencesSent
  <2>4. SameList(c)
    BY <1>2 DEF SameList, Known, EntriesOf
  <2>5. CASE c # a
    <3>1. SameAsked(c)
      BY <1>1, <1>2, <1>4, <1>5, <2>5, RequestTaken, NotesDiffer DEF SameAsked
    <3>2. SameTold(c)
      BY <1>1, <2>2, <2>3, <2>5 DEF SameTold
    <3>3. SameThere(c)
      BY <1>2, <2>5 DEF SameThere
    <3> QED
      BY <1>2, <2>1, <2>4, <3>1, <3>2, <3>3, AgreedStays
  <2>6. CASE c = a
    <3>1. /\ Some(requests', Adding(c)) => Some(requests, Adding(c))
          /\ Some(requests, Adding(c))
          /\ Some(requests', Removing(c)) <=> Some(requests, Removing(c))
          /\ Some(requests', Rostering) <=> Some(requests, Rostering)
          /\ Before(requests', Removing(c), Adding(c)) => Before(requests, Removing(c), Adding(c))
          /\ Before(requests', Removing(c), Removing(c)) => Before(requests, Removing(c), Removing(c))
      BY <1>1, <1>2, <1>4, <1>5, <2>6, RequestTaken, NotesDiffer
    <3>2. Removed(c)'
      BY <2>1, <2>2, <2>3, <3>1 DEF Removed
    <3>3. c \in atServer'
      BY <1>2, <2>6
    <3>4. Joined(c)'
      BY <1>2, <2>1, <2>2, <2>3, <3>1, <3>3 DEF Joined
    <3>5. c \in Known => Finally(reports', PresenceOf(c), Right(c)')
      BY <2>1, <2>2, <2>3 DEF Followed
    <3>6. c \notin cs => ~(announced /\ c \in present)
      BY <1>1, <2>6
    <3>7. Followed(c)'
      BY <1>2, <2>1, <2>2, <2>3, <3>3, <3>5, <3>6 DEF Followed
    <3> QED
      BY <3>2, <3>4, <3>7 DEF Agreed
  <2> QED
    BY <2>5, <2>6
<1> QED
  BY <1>7, <1>8, <1>9, <1>10, <1>11 DEF TlenInv

LEMMA TakesRemoveKeeps ==
    ASSUME TlenInv, TakesRemove
    PROVE  TlenInv'
<1>1. PICK x, a : x = Head(requests) /\ a = x.what
  OBVIOUS
<1>2. /\ Takes("remove") /\ requests # <<>> /\ requests' = Tail(requests)
      /\ atServer' = atServer \ {a}
      /\ UNCHANGED <<online, userlist, call, results, searches, presented, cut, present, announced,
                     reports, misled, missed, untold>>
  BY <1>1 DEF TakesRemove, Takes, searching, judged
<1>3. /\ requests' \in Seq(TlenAsked) /\ x \in TlenAsked /\ x.kind = "remove" /\ online
      /\ Some(requests', Opening) => Some(requests, Opening)
      /\ ~Before(requests', Opening, Opening)
  BY <1>1, <1>2, TakenRest
<1>4. x = Note("remove", a) /\ a \in Tlenites
  BY <1>1, <1>3, RequestIs
<1>5. TlenTypes /\ requests \in Seq(TlenAsked) /\ IsFiniteSet(atServer')
  BY <1>2, FS_Subset DEF TlenInv, TlenTypes
<1>6. TlenTypes' /\ Parted'
  BY <1>2, <1>3, <1>5 DEF TlenInv, TlenTypes, Parted
<1>7. LoginOrder'
  BY <1>2, <1>3 DEF TlenInv, LoginOrder
<1>8. Looked' /\ Searching' /\ ResultsFit'
  BY <1>2 DEF TlenInv, Looked, Searching, ResultsFit
<1>9. ASSUME NEW c \in Tlenites \ misled'
      PROVE  Agreed(c)'
  <2>1. Agreed(c) /\ Removed(c) /\ Joined(c)
    BY <1>2, <1>9 DEF TlenInv, Agreed
  <2>2. Known' = Known /\ EntriesOf(c)' = EntriesOf(c) /\ Right(c)' = Right(c)
    BY <1>2 DEF Known, EntriesOf, Right
  <2>3. CASE c # a
    <3>1. SameAsked(c)
      BY <1>1, <1>2, <1>4, <1>5, <2>3, RequestTaken, NotesDiffer DEF SameAsked
    <3>2. SameTold(c)
      BY <1>2, <2>2 DEF SameTold
    <3>3. SameList(c) /\ SameThere(c)
      BY <1>2, <2>2, <2>3 DEF SameList, SameThere
    <3> QED
      BY <1>2, <2>1, <3>1, <3>2, <3>3, AgreedStays
  <2>4. CASE c = a
    <3>1. /\ Some(requests, Removing(c))
          /\ Before(requests', Removing(c), Adding(c)) => Before(requests, Removing(c), Adding(c))
          /\ Before(requests', Removing(c), Removing(c)) => Before(requests, Removing(c), Removing(c))
          /\ Some(requests', Adding(c)) => Before(requests, Removing(c), Adding(c))
          /\ Some(requests', Removing(c)) => Before(requests, Removing(c), Removing(c))
      BY <1>1, <1>2, <1>4, <1>5, <2>4, RequestTaken, NotesDiffer
    <3>2. /\ ~Some(requests', Adding(c)) /\ ~Some(requests', Removing(c))
          /\ c \notin Known /\ ~Some(reports, Listed(c))
      BY <2>1, <3>1 DEF Removed
    <3>3. Removed(c)'
      BY <2>1, <3>1, <3>2 DEF Removed
    <3>4. c \notin atServer'
      BY <1>2, <2>4
    <3>5. Joined(c)'
      BY <1>2, <2>1, <2>2, <3>2, <3>4 DEF Joined
    <3>6. Followed(c)'
      BY <2>2, <3>2 DEF Followed
    <3> QED
      BY <3>3, <3>5, <3>6 DEF Agreed
  <2> QED
    BY <2>3, <2>4
<1> QED
  BY <1>6, <1>7, <1>8, <1>9 DEF TlenInv

LEMMA TakesSearchKeeps ==
    ASSUME TlenInv, TakesSearch
    PROVE  TlenInv'
<1>1. PICK x : x = Head(requests)
  OBVIOUS
<1>2. /\ Takes("search") /\ requests # <<>> /\ requests' = Tail(requests)
      /\ UNCHANGED <<online, userlist, call, results, searches, presented, cut, atServer, present,
                     announced, misled, missed, untold>>
  BY DEF TakesSearch, Takes, searching, elsewhere, judged
<1>3. /\ requests' \in Seq(TlenAsked) /\ x \in TlenAsked /\ x.kind = "search" /\ online
      /\ Some(requests', Opening) => Some(requests, Opening)
      /\ ~Before(requests', Opening, Opening)
  BY <1>1, <1>2, TakenRest
<1>4. TlenTypes /\ requests \in Seq(TlenAsked)
  BY DEF TlenInv, TlenTypes
<1>5. /\ reports' \in Seq(TlenTold)
      /\ Some(reports', Listing) <=> Some(reports, Listing)
      /\ Some(reports', Telling) => Some(reports, Telling)
      /\ Before(reports', {Note("end", {})}, Listing) => Before(reports, {Note("end", {})}, Listing)
      /\ Paired(reports) => Paired(reports')
      /\ reports # <<>> => reports' # <<>> /\ Head(reports') = Head(reports)
  BY <1>4, ResultsSent
<1>6. TlenTypes' /\ Parted'
  BY <1>2, <1>3, <1>5 DEF TlenInv, TlenTypes, Parted
<1>7. LoginOrder'
  BY <1>2, <1>3, <1>5 DEF TlenInv, LoginOrder
<1>8. Looked' /\ ResultsFit'
  BY <1>2 DEF TlenInv, Looked, ResultsFit
<1>9. Searching'
  BY <1>2, <1>5, SearchingStays
<1>10. ASSUME NEW c \in Tlenites \ misled'
       PROVE  Agreed(c)'
  <2>1. x # Note("add", c) /\ x # Note("remove", c) /\ x # Note("roster", {})
    BY <1>3 DEF Note
  <2>2. SameAsked(c)
    BY <1>1, <1>2, <1>4, <2>1, RequestTaken DEF SameAsked
  <2>3. Known' = Known /\ EntriesOf(c)' = EntriesOf(c) /\ Right(c)' = Right(c)
    BY <1>2 DEF Known, EntriesOf, Right
  <2>4. SameTold(c)
    BY <1>4, <2>3, ResultsSent DEF SameTold
  <2>5. SameList(c) /\ SameThere(c)
    BY <1>2, <2>3 DEF SameList, SameThere
  <2> QED
    BY <1>2, <1>10, <2>2, <2>4, <2>5, AgreedStays DEF TlenInv
<1> QED
  BY <1>6, <1>7, <1>8, <1>9, <1>10 DEF TlenInv

LEMMA ElsewhereKeeps ==
    ASSUME TlenInv, NEW a \in Tlenites, RemovedByOthers(a)
    PROVE  TlenInv'
<1>1. /\ atServer' = atServer \ {a} /\ misled' = misled \cup {a}
      /\ UNCHANGED <<online, userlist, call, results, searches, presented, cut, present, announced,
                     requests, reports, missed, untold>>
  BY DEF RemovedByOthers, searching, wire
<1>2. TlenTypes' /\ Parted'
  <2>1. IsFiniteSet(atServer')
    BY <1>1, FS_Subset DEF TlenInv, TlenTypes
  <2> QED
    BY <1>1, <2>1 DEF TlenInv, TlenTypes, Parted, Known
<1>3. LoginOrder'
  BY <1>1 DEF TlenInv, LoginOrder
<1>4. Looked' /\ Searching' /\ ResultsFit'
  BY <1>1 DEF TlenInv, Looked, Searching, ResultsFit
<1>5. ASSUME NEW c \in Tlenites \ misled'
      PROVE  Agreed(c)'
  <2>1. c # a /\ Agreed(c)
    BY <1>1, <1>5 DEF TlenInv
  <2>2. SameAsked(c) /\ SameThere(c)
    BY <1>1, <2>1 DEF SameAsked, SameThere
  <2>3. SameTold(c)
    BY <1>1 DEF SameTold, Right
  <2>4. SameList(c)
    BY <1>1 DEF SameList, Known, EntriesOf
  <2> QED
    BY <1>1, <2>1, <2>2, <2>3, <2>4, AgreedStays
<1> QED
  BY <1>2, <1>3, <1>4, <1>5 DEF TlenInv

(* The last presence that is under way becomes the new one.                *)
LEMMA PresenceChangesKeeps ==
    ASSUME TlenInv, NEW a \in Tlenites, PresenceChanges(a)
    PROVE  TlenInv'
<1>1. PICK cs : cs = IF announced /\ a \in atServer THEN {a} ELSE {}
  OBVIOUS
<1>2. /\ present' = IF a \in present THEN present \ {a} ELSE present \cup {a}
      /\ SendsPresence(cs)
      /\ UNCHANGED <<online, userlist, call, results, searches, presented, cut, atServer, announced,
                     requests, misled, missed, untold>>
  BY <1>1 DEF PresenceChanges, searching, judged
<1>3. TlenTypes /\ cs \in SUBSET Tlenites /\ IsFiniteSet(cs)
  <2>1. IsFiniteSet({a}) /\ IsFiniteSet({})
    BY FS_Singleton, FS_EmptySet
  <2> QED
    BY <1>1, <2>1 DEF TlenInv
<1>4. /\ reports' \in Seq(TlenTold)
      /\ Some(reports', Listing) <=> Some(reports, Listing)
      /\ Some(reports', Telling) => Some(reports, Telling) \/ cs # {}
      /\ Before(reports', {Note("end", {})}, Listing) => Before(reports, {Note("end", {})}, Listing)
      /\ Paired(reports) => Paired(reports')
      /\ reports # <<>> => reports' # <<>> /\ Head(reports') = Head(reports)
      /\ cs = {} /\ reports = <<>> => reports' = <<>>
  BY <1>2, <1>3, PresencesSent
<1>5. TlenTypes'
  BY <1>2, <1>4 DEF TlenInv, TlenTypes
<1>6. Parted'
  BY <1>1, <1>2, <1>4 DEF TlenInv, Parted, Known
<1>7. LoginOrder'
  BY <1>1, <1>2, <1>4 DEF TlenInv, LoginOrder
<1>8. Looked' /\ ResultsFit'
  BY <1>2 DEF TlenInv, Looked, ResultsFit
<1>9. Searching'
  BY <1>2, <1>4, SearchingStays
<1>10. ASSUME NEW c \in Tlenites \ misled'
       PROVE  Agreed(c)'
  <2>1. Agreed(c) /\ Removed(c) /\ Joined(c) /\ Followed(c)
    BY <1>2, <1>10 DEF TlenInv, Agreed
  <2>2. Known' = Known /\ EntriesOf(c)' = EntriesOf(c)
    BY <1>2 DEF Known, EntriesOf
  <2>3. SameAsked(c) /\ SameList(c)
    BY <1>2, <2>2 DEF SameAsked, SameList
  <2>4. /\ Some(reports', Listed(c)) <=> Some(reports, Listed(c))
        /\ Some(reports', PresenceOf(c)) <=> Some(reports, PresenceOf(c)) \/ c \in cs
        /\ c \in cs \/ Finally(reports, PresenceOf(c), Right(c)') =>
              Finally(reports', PresenceOf(c), Right(c)')
    BY <1>2, <1>3, PresencesSent
  <2>5. CASE c # a
    <3>1. c \in present' <=> c \in present
      BY <1>2, <2>5
    <3>2. c \notin cs /\ Right(c)' = Right(c)
      BY <1>1, <2>5, <3>1 DEF Right
    <3>3. SameTold(c) /\ SameThere(c)
      BY <1>2, <2>4, <3>1, <3>2 DEF SameTold, SameThere
    <3> QED
      BY <1>2, <2>1, <2>3, <3>3, AgreedStays
  <2>6. CASE c = a
    <3>1. Removed(c)' /\ Joined(c)'
      BY <1>2, <2>1, <2>3, <2>4, JoinedStays
    <3>2. ASSUME c \in Known
          PROVE  Finally(reports', PresenceOf(c), Right(c)')
      <4>1. CASE c \in cs
        BY <2>4, <4>1
      <4>2. CASE c \notin cs
        <5>1. ~(announced /\ c \in atServer)
          BY <1>1, <2>6, <4>2
        <5>2. ~Some(reports, PresenceOf(c))
          BY <2>1, <3>2, <5>1, KindsOf DEF Followed, TlenInv, LoginOrder
        <5> QED
          BY <2>4, <5>2, NoneFinally
      <4> QED
        BY <4>1, <4>2
    <3>3. c \in cs => c \in atServer
      BY <1>1, <2>6
    <3>4. c \notin cs => ~(announced /\ c \in atServer)
      BY <1>1, <2>6
    <3>5. Followed(c)'
      BY <1>2, <2>1, <2>2, <2>4, <3>2, <3>3, <3>4 DEF Followed
    <3> QED
      BY <3>1, <3>5 DEF Agreed
  <2> QED
    BY <2>5, <2>6
<1> QED
  BY <1>2, <1>5, <1>6, <1>7, <1>8, <1>9, <1>10 DEF TlenInv
-----------------------------------------------------------------------------
LEMMA TlenBegins ==
    ASSUME ContactsInit
    PROVE  TlenInv
<1>1. /\ ~online /\ online = FALSE /\ announced = FALSE /\ userlist = <<>> /\ call = "none" /\ results = <<>>
      /\ searches = 0 /\ presented = [search |-> 0, found |-> {}] /\ atServer = Tlenites /\ present = {}
      /\ requests = <<>> /\ reports = <<>>
  BY DEF ContactsInit
<1>2. Known = {} /\ \A c : EntriesOf(c) = {}
  BY <1>1 DEF Known, EntriesOf
<1>3. <<>> \in Seq(TlenAsked) /\ <<>> \in Seq(TlenTold) /\ <<>> \in Seq(TlenEntries)
  OBVIOUS
<1>4. TlenTypes
  BY <1>1, <1>3, TlenitesAssumption DEF TlenTypes
<1>5. Parted
  BY <1>1, <1>2 DEF Parted
<1>6. LoginOrder
  BY <1>1, NothingThere DEF LoginOrder
<1>7. ToSet(results) = {}
  BY <1>1 DEF ToSet
<1>8. Looked /\ Searching /\ ResultsFit
  BY <1>1, <1>7, NothingThere DEF Looked, Searching, ResultsFit
<1>9. ASSUME NEW c \in Tlenites
      PROVE  Agreed(c)
  <2>1. Removed(c)
    BY <1>1, NothingThere DEF Removed
  <2>2. Joined(c)
    BY <1>1, <1>2, NothingThere DEF Joined
  <2>3. Followed(c)
    BY <1>2 DEF Followed
  <2> QED
    BY <2>1, <2>2, <2>3 DEF Agreed
<1> QED
  BY <1>4, <1>5, <1>6, <1>8, <1>9 DEF TlenInv

LEMMA TlenStep ==
    ASSUME TlenInv, [ContactsNext]_contactVars
    PROVE  TlenInv'
<1>1. CASE UNCHANGED contactVars
  <2>1. call' \in {"none", "fresh", "walked"} /\ (~online => call' = "none")
    BY <1>1 DEF contactVars, TlenInv, TlenTypes, Parted
  <2> QED
    BY <1>1, <2>1, QuietKeeps DEF contactVars
<1>2. CASE call = "none" /\ (LogsIn \/ LogsOut \/ Lost \/ Search)
  BY <1>2, LogsInKeeps, EndsKeeps, SearchKeeps
<1>3. CASE \E c \in Tlenites : AddContact(c) \/ RemovedByOthers(c) \/ PresenceChanges(c)
  BY <1>3, AddKeeps, ElsewhereKeeps, PresenceChangesKeeps
<1>4. CASE \E i \in DOMAIN userlist : RemoveContact(i)
  BY <1>4, RemoveKeeps
<1>5. CASE Called \/ Presence \/ Item \/ EndRoster \/ Found \/ EndOfSearch \/ CallEnds
  BY <1>5, CallKeeps, PresenceKeeps, ItemKeeps, EndRosterKeeps, FoundKeeps
<1>6. CASE TakesRoster \/ TakesStatus \/ TakesAdd \/ TakesRemove \/ TakesSearch
  BY <1>6, TakesRosterKeeps, TakesStatusKeeps, TakesAddKeeps, TakesRemoveKeeps, TakesSearchKeeps
<1> QED
  BY <1>1, <1>2, <1>3, <1>4, <1>5, <1>6 DEF ContactsNext

LEMMA TlenSettles ==
    ASSUME TlenInv
    PROVE  ContactsTold
<1>1. SUFFICES ASSUME online, announced, requests = <<>>, reports = <<>>, NEW c \in Tlenites \ misled
               PROVE  /\ c \in Known <=> c \in atServer
                      /\ c \in Known =>
                            /\ c \notin missed => (FirstEntry(c).status = "on" <=> c \in present)
                            /\ c \notin untold => FirstEntry(c).shown = FirstEntry(c).status
  BY DEF ContactsTold, AtRest
<1>2. Joined(c) /\ Followed(c)
  BY <1>1 DEF TlenInv, Agreed
<1>3. \A X : ~Some(requests, X) /\ ~Some(reports, X)
  BY <1>1, NothingThere
<1>4. c \in Known <=> c \in atServer
  BY <1>1, <1>2, <1>3 DEF Joined
<1>5. ASSUME c \in Known
      PROVE  /\ c \notin missed => (FirstEntry(c).status = "on" <=> c \in present)
             /\ c \notin untold => FirstEntry(c).shown = FirstEntry(c).status
  <2>1. PICK k \in DOMAIN userlist : userlist[k].who = c
    BY <1>5 DEF Known
  <2>2. EntriesOf(c) = {k} /\ k \in Nat
    <3>1. DOMAIN userlist \subseteq Nat
      BY LenProperties DEF TlenInv, TlenTypes
    <3> QED
      BY <1>2, <2>1, <3>1 DEF Joined, EntriesOf
  <2>3. FirstEntry(c) = userlist[k]
    <3>1. \E i \in EntriesOf(c) : \A j \in EntriesOf(c) : i <= j
      BY <2>2
    <3>2. (CHOOSE i \in EntriesOf(c) : \A j \in EntriesOf(c) : i <= j) \in EntriesOf(c)
      BY <3>1
    <3> QED
      BY <2>2, <3>2 DEF FirstEntry
  <2>4. c \notin missed => (userlist[k].status = "on" <=> c \in present)
    BY <1>1, <1>2, <1>3, <1>4, <1>5, <2>2 DEF Followed
  <2>5. c \notin untold => userlist[k].shown = userlist[k].status
    BY <2>1 DEF TlenInv, Looked
  <2> QED
    BY <2>3, <2>4, <2>5
<1> QED
  BY <1>4, <1>5

(* Once nothing is under way the list of the Tlen plugin is the server's,  *)
(* with the statuses of those who are there, and the GUI shows them, but   *)
(* for the contacts that ContactsTold names (tlen_plugin.c:145-512, 1110). *)
THEOREM ContactsCorrect == ContactsSpec => []ContactsTold
<1>1. ContactsInit => TlenInv
  BY TlenBegins
<1>2. TlenInv /\ [ContactsNext]_contactVars => TlenInv'
  BY TlenStep
<1>3. TlenInv => ContactsTold
  BY TlenSettles
<1> QED
  BY <1>1, <1>2, <1>3, PTL DEF ContactsSpec

(* Whom a search found is never shown as another one's result, as long as  *)
(* no connection ended since (tlen_plugin.c:473-495, 740-742).             *)
THEOREM ResultsCorrect == ContactsSpec => []ResultsFit
<1>1. ContactsInit => TlenInv
  BY TlenBegins
<1>2. TlenInv /\ [ContactsNext]_contactVars => TlenInv'
  BY TlenStep
<1>3. TlenInv => ResultsFit
  BY DEF TlenInv
<1> QED
  BY <1>1, <1>2, <1>3, PTL DEF ContactsSpec
=============================================================================
