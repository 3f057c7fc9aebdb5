---------------------------- MODULE SignalBusProof ----------------------------
(***************************************************************************)
(* Theorems about the signal bus, for every set of plugins, workers and    *)
(* emissions and every bound.                                              *)
(***************************************************************************)
EXTENDS SignalBus, SequenceTheorems, FiniteSetTheorems, TLAPS

(* Without its last element a sequence is one shorter, and the last        *)
(* element is one of the sequence's.                                       *)
LEMMA FrontLast ==
    ASSUME NEW S, NEW s \in Seq(S), s # <<>>
    PROVE  /\ Front(s) \in Seq(S)
           /\ Len(Front(s)) = Len(s) - 1
           /\ DOMAIN Front(s) = 1..(Len(s) - 1)
           /\ \A i \in 1..(Len(s) - 1) : Front(s)[i] = s[i]
           /\ Last(s) \in S
<1>1. Len(s) \in Nat \ {0} /\ DOMAIN s = 1..Len(s)
  BY EmptySeq, LenProperties
<1>2. Len(s) \in DOMAIN s
  BY <1>1
<1> QED
  BY <1>1, <1>2, SubSeqProperties, ElementOfSeq DEF Front, Last

(* The frames the actions build are frames.                                *)
LEMMA FrameTypes ==
    /\ \A p \in Plugins, s \in 0..MaxSignals, why \in {"start", "receive", "event", "destroy"} :
          Call(p, s, why) \in Frames
    /\ \A s \in SigIds, r \in SUBSET Plugins : Send(s, r) \in Frames
    /\ \A by \in {"boot", "thread"} : Flush(by) \in Frames
    /\ Drain \in Frames
BY DEF Frames, Call, Send, Flush, Drain

LEMMA FrameUpdates ==
    ASSUME NEW f \in Frames
    PROVE  /\ [f EXCEPT !.stale = TRUE] \in Frames
           /\ f.op = "send" =>
                /\ f.sig \in SigIds /\ f.rest \in SUBSET Plugins
                /\ [f EXCEPT !.drain = TRUE] \in Frames
                /\ \A r \in SUBSET Plugins :
                      /\ [f EXCEPT !.rest = r] \in Frames
                      /\ [f EXCEPT !.drain = FALSE, !.rest = r] \in Frames
           /\ f.op = "flush" => f.pos \in Nat /\ [f EXCEPT !.pos = @ + 1] \in Frames
           /\ f.op = "call" => f.plugin \in Plugins
<1>1. CASE f.op = "call"
  BY <1>1 DEF Frames
<1>2. CASE f.op = "send"
  BY <1>2 DEF Frames
<1>3. CASE f.op = "flush"
  <2>1. f \in [op : {"flush"}, by : {"boot", "thread"}, pos : Nat, stale : BOOLEAN]
    BY <1>3 DEF Frames
  <2>2. [f EXCEPT !.pos = @ + 1] \in [op : {"flush"}, by : {"boot", "thread"}, pos : Nat, stale : BOOLEAN]
    BY <2>1
  <2> QED
    BY <1>3, <2>1, <2>2 DEF Frames
<1>4. CASE f.op = "drain"
  BY <1>4 DEF Frames
<1> QED
  BY <1>1, <1>2, <1>3, <1>4 DEF Frames

(* A new signal takes the next identity and has the types of a signal.     *)
LEMMA NewSignalType ==
    ASSUME TypeOK, NEW e \in Emission,
           NEW st \in {"queue", "waiting", "running", "lost"}, NewSignal(e, st)
    PROVE  /\ Len(info) + 1 \in SigIds
           /\ info' \in Seq(Emission) /\ Len(info') <= MaxSignals
           /\ stage' \in [SigIds -> {"unborn", "queue", "waiting", "running", "ended", "lost"}]
           /\ payload' \in [SigIds -> {"none", "live", "freed"}]
           /\ seen' \in [SigIds -> SUBSET Plugins]
           /\ Len(info) + 1 \in DOMAIN info'
           /\ \A s \in Seq(DOMAIN info) : s \in Seq(DOMAIN info')
<1>1. Len(info) \in Nat /\ Len(info) < MaxSignals
  BY LenProperties DEF TypeOK, NewSignal
<1>2. Len(info) + 1 \in SigIds
  BY <1>1, BoundsAssumption DEF SigIds
<1>3. info' = Append(info, e)
  BY DEF NewSignal
<1>4. info' \in Seq(Emission) /\ Len(info') = Len(info) + 1
  BY <1>3, AppendProperties DEF TypeOK
<1>5. Len(info') <= MaxSignals
  BY <1>1, <1>4, BoundsAssumption
<1>6. stage' \in [SigIds -> {"unborn", "queue", "waiting", "running", "ended", "lost"}]
  BY <1>2 DEF TypeOK, NewSignal
<1>7. payload' \in [SigIds -> {"none", "live", "freed"}]
  BY <1>2 DEF TypeOK, NewSignal
<1>8. seen' \in [SigIds -> SUBSET Plugins]
  BY DEF TypeOK, NewSignal
<1>9. DOMAIN info = 1..Len(info) /\ DOMAIN info' = 1..(Len(info) + 1)
  BY <1>4, LenProperties DEF TypeOK
<1>10. \A s \in Seq(DOMAIN info) : s \in Seq(DOMAIN info')
  BY <1>1, <1>9, SeqMonotonic
<1> QED
  BY <1>1, <1>2, <1>4, <1>5, <1>6, <1>7, <1>8, <1>9, <1>10

(* The plugins a delivery is headed for are plugins.                       *)
LEMMA RestType ==
    ASSUME TypeOK
    PROVE  /\ Loaded \in SUBSET Plugins
           /\ \A e \in Emission : FirstRest(e.dest) \in SUBSET Plugins
           /\ \A p : NextNode(p) \in SUBSET Plugins
<1>1. Loaded \in SUBSET Plugins
  BY ElementOfSeq, LenProperties DEF TypeOK, Loaded, ToSet
<1>2. \A e \in Emission : e.dest \in Destination
  BY DEF Emission
<1>3. \A e \in Emission : e.dest.who \in SUBSET Plugins
  BY <1>2 DEF Destination
<1>4. \A ps \in SUBSET Plugins : Foremost(ps) \in SUBSET Plugins
  BY DEF Foremost
<1>5. \A p : {q \in Loaded : Before(p, q)} \in SUBSET Plugins
  BY <1>1
<1>6. \A e \in Emission : FirstRest(e.dest) \in SUBSET Plugins
  BY <1>1, <1>3, <1>4 DEF FirstRest
<1>7. \A p : NextNode(p) \in SUBSET Plugins
  BY <1>4, <1>5 DEF NextNode
<1> QED
  BY <1>1, <1>6, <1>7

(* The frame on top of a non-empty stack, and the stack below it.          *)
LEMMA StackTop ==
    ASSUME TypeOK, stack # <<>>
    PROVE  /\ Top \in Frames
           /\ Front(stack) \in Seq(Frames)
           /\ \A f \in Frames : Append(Front(stack), f) \in Seq(Frames)
           /\ \A f, g \in Frames : Front(stack) \o <<f, g>> \in Seq(Frames)
<1>1. Top \in Frames /\ Front(stack) \in Seq(Frames)
  BY FrontLast DEF TypeOK, Top
<1>2. \A f, g \in Frames : <<f, g>> \in Seq(Frames)
  OBVIOUS
<1> QED
  BY <1>1, <1>2, AppendProperties, ConcatProperties

(* Popping the stack and marking frames of it leaves a stack.              *)
LEMMA MarkedStack ==
    ASSUME TypeOK, stack # <<>>, NEW J, PopMarking(J)
    PROVE  stack' \in Seq(Frames)
<1>a. stack \in Seq(Frames)
  BY DEF TypeOK
<1>b. Len(stack) \in Nat /\ Len(stack) # 0 /\ DOMAIN stack = 1..Len(stack)
  BY <1>a, LenProperties, EmptySeq
<1>1. /\ DOMAIN Front(stack) = 1..(Len(stack) - 1)
      /\ Len(stack) - 1 \in Nat
      /\ DOMAIN stack = 1..Len(stack)
  BY <1>a, <1>b, FrontLast
<1>2. \A i \in 1..(Len(stack) - 1) : stack[i] \in Frames
  BY <1>1, ElementOfSeq DEF TypeOK
<1>3. \A i \in 1..(Len(stack) - 1) : [stack[i] EXCEPT !.stale = TRUE] \in Frames
  BY <1>2, FrameUpdates
<1>4. stack' \in [1..(Len(stack) - 1) -> Frames]
  BY <1>1, <1>2, <1>3 DEF PopMarking
<1> QED
  BY <1>1, <1>4, SeqDef

(* A sequence without one of its elements.                                 *)
LEMMA RemoveAtType ==
    ASSUME NEW S, NEW s \in Seq(S), NEW i \in DOMAIN s
    PROVE  RemoveAt(s, i) \in Seq(S)
<1>1. Len(s) \in Nat /\ i \in 1..Len(s)
  BY LenProperties
<1>2. SubSeq(s, 1, i - 1) \in Seq(S) /\ SubSeq(s, i + 1, Len(s)) \in Seq(S)
  BY <1>1, ElementOfSeq, SubSeqProperties
<1> QED
  BY <1>2, ConcatProperties DEF RemoveAt

(* A step that changes nothing but whose names are registered.             *)
LEMMA Idles ==
    ASSUME UNCHANGED vars \/ Register
    PROVE  /\ boot' = boot /\ loaded' = loaded /\ started' = started /\ allLoaded' = allLoaded
           /\ waiting' = waiting /\ stack' = stack
           /\ info' = info /\ stage' = stage /\ payload' = payload /\ seen' = seen
           /\ queue' = queue /\ pipe' = pipe /\ writer' = writer /\ reader' = reader
           /\ fault' = fault
  BY DEF Register, vars, pluginVars, sigVars, threadVars

(* Every step of the bus keeps every variable in its type.                 *)
LEMMA TypeStep ==
    ASSUME TypeOK, [Next]_vars
    PROVE  TypeOK'
<1>a. /\ \A p \in Plugins, s \in 0..MaxSignals : 
            /\ Append(stack, Call(p, s, "start")) \in Seq(Frames)
            /\ Append(stack, Call(p, s, "event")) \in Seq(Frames)
            /\ Append(stack, Call(p, s, "destroy")) \in Seq(Frames)
      /\ Append(stack, Flush("boot")) \in Seq(Frames)
      /\ Append(stack, Flush("thread")) \in Seq(Frames)
      /\ Append(stack, Drain) \in Seq(Frames)
  BY FrameTypes, AppendProperties DEF TypeOK
<1>b. 0 \in 0..MaxSignals
  BY BoundsAssumption
<1>c. \A p \in ToSet(Modules) : p \in Plugins
  BY ModulesAssumption, ElementOfSeq DEF ToSet
<1>d. stack # <<>> => Front(stack) \in Seq(Frames)
  BY FrontLast DEF TypeOK
<1> USE DEF TypeOK
<1>1. CASE LoadModule
  <2>1. Len(loaded) < Len(Modules) => Modules[Len(loaded) + 1] \in Plugins
    BY ModulesAssumption, LenProperties, ElementOfSeq
  <2>2. loaded' \in Seq(Plugins)
    <3>1. CASE Len(loaded) < Len(Modules)
      <4>1. Append(loaded, Modules[Len(loaded) + 1]) \in Seq(Plugins)
        BY <2>1, <3>1, AppendProperties
      <4> QED
        BY <1>1, <3>1, <4>1 DEF LoadModule
    <3>2. CASE ~(Len(loaded) < Len(Modules))
      BY <1>1, <3>2 DEF LoadModule
    <3> QED
      BY <3>1, <3>2
  <2>3. boot' \in {"load", "start"}
    BY <1>1 DEF LoadModule
  <2> QED
    BY <1>1, <2>2, <2>3 DEF LoadModule, sigVars, threadVars
<1>2. CASE StartModule
  <2>1. PICK p \in ToSet(Modules) :
           /\ started' = started \cup {p}
           /\ IF p \in Loaded THEN Push(Call(p, 0, "start")) /\ UNCHANGED fault
              ELSE fault' = "use_after_free" /\ UNCHANGED stack
    BY <1>2 DEF StartModule, Push
  <2>2. stack' \in Seq(Frames) /\ started' \in SUBSET Plugins
    BY <1>a, <1>b, <1>c, <2>1 DEF Push
  <2> QED
    BY <1>2, <2>1, <2>2 DEF StartModule, sigVars, threadVars
<1>3. CASE BootFlush
  BY <1>3, <1>a DEF BootFlush, Push, sigVars, threadVars
<1>4. CASE Emit
  <2>1. PICK e \in Emissions : EmitUnregistered(e) \/ EmitNow(e) \/ EmitLater(e)
    BY <1>4 DEF Emit
  <2>2. e \in Emission
    BY EmissionsAssumption
  <2>3. UNCHANGED <<pluginVars, threadVars, fault>>
    BY <1>4 DEF Emit
  <2>4. CASE EmitUnregistered(e)
    BY <2>2, <2>3, <2>4, NewSignalType DEF EmitUnregistered, pluginVars, threadVars
  <2>5. CASE EmitNow(e)
    <3>1. Len(info) + 1 \in SigIds
      BY <2>2, <2>5, NewSignalType DEF EmitNow
    <3>2. Send(Len(info) + 1, FirstRest(e.dest)) \in Frames
      BY <2>2, <3>1, RestType, FrameTypes
    <3>3. <<Drain, Send(Len(info) + 1, FirstRest(e.dest))>> \in Seq(Frames)
      BY <3>2, FrameTypes
    <3>4. stack' \in Seq(Frames)
      BY <2>5, <3>3, ConcatProperties DEF EmitNow
    <3> QED
      BY <2>2, <2>3, <2>5, <3>4, NewSignalType DEF EmitNow, pluginVars, threadVars
  <2>6. CASE EmitLater(e)
    <3>1. Len(info) + 1 \in SigIds
      BY <2>2, <2>6, NewSignalType DEF EmitLater
    <3>2. waiting \in Seq(DOMAIN info') /\ Len(info) + 1 \in DOMAIN info'
      BY <2>2, <2>6, NewSignalType DEF EmitLater
    <3>3. waiting' \in Seq(DOMAIN info')
      BY <2>6, <3>2, AppendProperties DEF EmitLater
    <3> QED
      BY <1>a, <2>2, <2>3, <2>6, <3>3, NewSignalType DEF EmitLater, Push, pluginVars, threadVars
  <2> QED
    BY <2>1, <2>4, <2>5, <2>6
<1>5. CASE Deliver
  <2> DEFINE wide == info[Top.sig].dest.kind = "all"
  <2>1. /\ stack # <<>> /\ Top.op = "send" /\ Top \in Frames
        /\ Top.sig \in SigIds /\ Top.rest \in SUBSET Plugins
    BY <1>5, StackTop, FrameUpdates DEF Deliver, TopIs
  <2>2. PICK p \in Foremost(Top.rest) :
           LET on == IF wide THEN [Top EXCEPT !.drain = TRUE] ELSE [Top EXCEPT !.rest = @ \ {p}]
           IN  IF wide /\ p = info[Top.sig].src
               THEN Become(on) /\ UNCHANGED seen
               ELSE /\ stack' = Front(stack) \o <<on, Call(p, Top.sig, "receive")>>
                    /\ seen' = [seen EXCEPT ![Top.sig] = @ \cup {p}]
    BY <1>5 DEF Deliver
  <2>3. p \in Plugins
    BY <2>1 DEF Foremost
  <2> DEFINE on == IF wide THEN [Top EXCEPT !.drain = TRUE] ELSE [Top EXCEPT !.rest = @ \ {p}]
  <2>4. on \in Frames
    BY <2>1, FrameUpdates
  <2>5. Call(p, Top.sig, "receive") \in Frames
    BY <2>1, <2>3, FrameTypes, BoundsAssumption DEF SigIds
  <2>6. /\ Append(Front(stack), on) \in Seq(Frames)
        /\ Front(stack) \o <<on, Call(p, Top.sig, "receive")>> \in Seq(Frames)
    BY <2>1, <2>4, <2>5, StackTop
  <2>7. /\ [seen EXCEPT ![Top.sig] = @ \cup {p}] \in [SigIds -> SUBSET Plugins]
        /\ seen \in [SigIds -> SUBSET Plugins]
    BY <2>1, <2>3
  <2>8. \/ stack' = Append(Front(stack), on) /\ seen' = seen
        \/ /\ stack' = Front(stack) \o <<on, Call(p, Top.sig, "receive")>>
           /\ seen' = [seen EXCEPT ![Top.sig] = @ \cup {p}]
    BY <2>2 DEF Become
  <2> HIDE DEF on
  <2>9. stack' \in Seq(Frames) /\ seen' \in [SigIds -> SUBSET Plugins]
    BY <2>6, <2>7, <2>8
  <2> QED
    BY <1>5, <2>9 DEF Deliver, pluginVars, threadVars
<1>6. CASE NextReceiver
  <2>1. /\ stack # <<>> /\ Top.op = "send" /\ Top \in Frames
    BY <1>6, StackTop DEF NextReceiver, TopIs
  <2>2. PICK p \in Top.rest : Become([Top EXCEPT !.drain = FALSE, !.rest = NextNode(p)])
    BY <1>6 DEF NextReceiver
  <2>4. NextNode(p) \in SUBSET Plugins
    BY <2>1, RestType
  <2>5. stack' \in Seq(Frames)
    BY <2>1, <2>2, <2>4, FrameUpdates, StackTop DEF Become
  <2> QED
    BY <1>6, <2>5 DEF NextReceiver, pluginVars, sigVars, threadVars
<1>7. CASE UnknownDestination
  <2>1. Top.sig \in SigIds
    BY <1>7, StackTop, FrameUpdates DEF UnknownDestination, TopIs
  <2> QED
    BY <1>7, <2>1 DEF UnknownDestination, pluginVars, threadVars
<1>8. CASE EndSend
  <2>1. Top.sig \in SigIds /\ stack' \in Seq(Frames)
    BY <1>8, <1>d, StackTop, FrameUpdates DEF EndSend, TopIs, Pop
  <2> QED
    BY <1>8, <2>1 DEF EndSend, pluginVars, threadVars
<1>9. CASE UseAfterFree
  BY <1>9 DEF UseAfterFree, Fail, pluginVars, sigVars, threadVars
<1>10. CASE EndDrain
  BY <1>10, <1>d DEF EndDrain, TopIs, Pop, pluginVars, sigVars, threadVars
<1>11. CASE FlushNext
  <2> DEFINE s    == waiting[Top.pos + 1]
             next == [Top EXCEPT !.pos = @ + 1]
  <2>1. stack # <<>> /\ Top \in Frames /\ Top.pos \in Nat /\ next \in Frames
    BY <1>11, StackTop, FrameUpdates DEF FlushNext, TopIs
  <2>2. s \in DOMAIN info
    BY <1>11, <2>1, ElementOfSeq, LenProperties DEF FlushNext
  <2>3. s \in SigIds /\ info[s] \in Emission
    BY <2>2, ElementOfSeq, LenProperties, BoundsAssumption DEF SigIds
  <2>4. Send(s, FirstRest(info[s].dest)) \in Frames
    BY <2>3, RestType, FrameTypes
  <2>5. /\ Append(Front(stack), next) \in Seq(Frames)
        /\ Front(stack) \o <<next, Send(s, FirstRest(info[s].dest))>> \in Seq(Frames)
    BY <2>1, <2>4, StackTop
  <2> HIDE DEF s, next
  <2>6. \/ /\ stage' = [stage EXCEPT ![s] = "running"]
           /\ stack' = Front(stack) \o <<next, Send(s, FirstRest(info[s].dest))>>
           /\ UNCHANGED <<payload, fault>>
        \/ /\ stage' = [stage EXCEPT ![s] = "ended"]
           /\ payload' = [payload EXCEPT ![s] = "freed"]
           /\ stack' = Append(Front(stack), next)
           /\ UNCHANGED fault
        \/ fault' = "use_after_free" /\ UNCHANGED <<stage, payload, stack>>
    BY <1>11 DEF FlushNext, Become, s, next
  <2>7. /\ stack' \in Seq(Frames)
        /\ stage' \in [SigIds -> {"unborn", "queue", "waiting", "running", "ended", "lost"}]
        /\ payload' \in [SigIds -> {"none", "live", "freed"}]
        /\ fault' \in {"none", "use_after_free", "double_free"}
    BY <2>3, <2>5, <2>6
  <2> QED
    BY <1>11, <2>7 DEF FlushNext, pluginVars, threadVars
<1>12. CASE FlushEnd
  <2>1. stack # <<>> /\ PopMarking({i \in DOMAIN stack : stack[i].op = "flush"})
    BY <1>12 DEF FlushEnd, TopIs
  <2>2. stack' \in Seq(Frames)
    BY <2>1, MarkedStack
  <2>3. waiting' \in Seq(DOMAIN info) /\ allLoaded' \in BOOLEAN
    BY <1>12, EmptySeq DEF FlushEnd
  <2>4. boot' \in {"load", "start", "flush", "loop"} /\ reader' \in {"idle", "pop", "read", "flush"}
    BY <1>12 DEF FlushEnd
  <2> QED
    BY <1>12, <2>2, <2>3, <2>4 DEF FlushEnd, sigVars
<1>13. CASE Event
  <2>1. stack' \in Seq(Frames)
    BY <1>13, <1>a, <1>b DEF Event, Push
  <2> QED
    BY <1>13, <2>1 DEF Event, pluginVars, sigVars, threadVars
<1>14. CASE Return
  <2>1. CASE Top.why = "destroy"
    <3>1. PICK i \in DOMAIN loaded : loaded' = RemoveAt(loaded, i)
      BY <1>14, <2>1 DEF Return
    <3>2. loaded' \in Seq(Plugins)
      BY <3>1, RemoveAtType
    <3>3. \E J : PopMarking(J)
      BY <1>14, <2>1 DEF Return
    <3>4. stack' \in Seq(Frames)
      BY <1>14, <3>3, MarkedStack DEF Return, TopIs
    <3> QED
      BY <1>14, <3>2, <3>4 DEF Return, sigVars, threadVars
  <2>2. CASE Top.why # "destroy"
    <3>1. stack' \in Seq(Frames)
      BY <1>14, <1>d, <2>2 DEF Return, TopIs, Pop
    <3> QED
      BY <1>14, <2>2, <3>1 DEF Return, sigVars, threadVars
  <2> QED
    BY <2>1, <2>2
<1>15. CASE Unload
  <2>1. stack' \in Seq(Frames)
    BY <1>15, <1>a, <1>b, PluginsAssumption DEF Unload, Push
  <2> QED
    BY <1>15, <2>1 DEF Unload, pluginVars, sigVars, threadVars
<1>16. CASE Load
  <2>1. PICK p \in ToSet(Modules) :
           /\ loaded' = Append(loaded, p)
           /\ started' = started \cup {p}
           /\ Push(Call(p, 0, "start"))
    BY <1>16 DEF Load
  <2>2. loaded' \in Seq(Plugins) /\ started' \in SUBSET Plugins /\ stack' \in Seq(Frames)
    BY <1>a, <1>b, <1>c, <2>1, AppendProperties DEF Push
  <2> QED
    BY <1>16, <2>2 DEF Load, sigVars, threadVars
<1>17. CASE DispatchReader
  BY <1>17 DEF DispatchReader, pluginVars, sigVars
<1>18. CASE PopSignal
  <2>1. Head(queue) \in DOMAIN info /\ Tail(queue) \in Seq(DOMAIN info)
    BY <1>18, HeadTailProperties DEF PopSignal
  <2>2. waiting' \in Seq(DOMAIN info)
    BY <1>18, <2>1, AppendProperties DEF PopSignal
  <2> QED
    BY <1>18, <2>1, <2>2 DEF PopSignal, pluginVars
<1>19. CASE ReadByte
  BY <1>19 DEF ReadByte, pluginVars, sigVars
<1>20. CASE QueueEmpty
  BY <1>20, <1>a DEF QueueEmpty, Push, pluginVars, sigVars
<1>21. ASSUME NEW w \in Workers, WorkerPush(w)
       PROVE  TypeOK'
  <2>1. PICK e \in WorkerEmissions : NewSignal(e, "queue")
    BY <1>21 DEF WorkerPush
  <2>2. e \in Emission
    BY EmissionsAssumption
  <2>3. /\ Len(info) + 1 \in SigIds /\ Len(info) + 1 \in DOMAIN info'
        /\ queue \in Seq(DOMAIN info') /\ waiting \in Seq(DOMAIN info')
    BY <2>1, <2>2, NewSignalType
  <2>4. queue' \in Seq(DOMAIN info') /\ writer' \in [Workers -> 0..MaxSignals]
    BY <1>21, <2>3, AppendProperties, BoundsAssumption DEF WorkerPush, SigIds
  <2> QED
    BY <1>21, <2>1, <2>2, <2>3, <2>4, NewSignalType DEF WorkerPush, pluginVars
<1>22. ASSUME NEW w \in Workers, WorkerWrite(w)
       PROVE  TypeOK'
  BY <1>22, <1>b DEF WorkerWrite, pluginVars, sigVars
<1>23. CASE UNCHANGED vars \/ Register
  <2>1. registered' \in SUBSET Plugins
    BY <1>23, StackTop DEF Register, Frames, vars, pluginVars, TopIs
  <2> QED
    BY <1>23, <2>1, Idles
<1> QED
  BY <1>1, <1>2, <1>3, <1>4, <1>5, <1>6, <1>7, <1>8, <1>9, <1>10, <1>11, <1>12, <1>13,
     <1>14, <1>15, <1>16, <1>17, <1>18, <1>19, <1>20, <1>21, <1>22, <1>23 DEF Next

(* The bus is type-correct.                                                *)
THEOREM TypeCorrect == Spec => []TypeOK
<1>1. Init => TypeOK
  <2> SUFFICES ASSUME Init PROVE TypeOK
    OBVIOUS
  <2>1. /\ loaded \in Seq(Plugins) /\ stack \in Seq(Frames) /\ info \in Seq(Emission)
        /\ waiting \in Seq(DOMAIN info) /\ queue \in Seq(DOMAIN info) /\ Len(info) = 0
    BY EmptySeq DEF Init
  <2>2. /\ stage \in [SigIds -> {"unborn", "queue", "waiting", "running", "ended", "lost"}]
        /\ payload \in [SigIds -> {"none", "live", "freed"}]
        /\ seen \in [SigIds -> SUBSET Plugins]
    BY DEF Init
  <2>3. Len(info) <= MaxSignals /\ writer \in [Workers -> 0..MaxSignals]
    BY <2>1, BoundsAssumption DEF Init
  <2> QED
    BY <2>1, <2>2, <2>3 DEF Init, TypeOK
<1>2. TypeOK /\ [Next]_vars => TypeOK'
  BY TypeStep
<1> QED
  BY <1>1, <1>2, PTL DEF Spec

-----------------------------------------------------------------------------
(* The workers between their push and their write.                         *)
Writing == {w \in Workers : writer[w] # 0}

LEMMA WritingCount ==
    IsFiniteSet(Writing) /\ Cardinality(Writing) \in Nat
BY WorkersAssumption, FS_Subset, FS_CardinalityType DEF Writing

(* A worker that begins or ends writing changes their number by one.       *)
LEMMA WritingStep ==
    ASSUME TypeOK, NEW w \in Workers, NEW s, writer' = [writer EXCEPT ![w] = s]
    PROVE  /\ writer[w] = 0 /\ s # 0 => Cardinality(Writing') = Cardinality(Writing) + 1
           /\ writer[w] # 0 /\ s = 0 => Cardinality(Writing') = Cardinality(Writing) - 1
<1>1. CASE writer[w] = 0 /\ s # 0
  <2>1. Writing' = Writing \cup {w} /\ w \notin Writing
    BY <1>1 DEF Writing, TypeOK
  <2> QED
    BY <1>1, <2>1, WritingCount, FS_AddElement
<1>2. CASE writer[w] # 0 /\ s = 0
  <2>1. Writing' = Writing \ {w} /\ w \in Writing
    BY <1>2 DEF Writing, TypeOK
  <2> QED
    BY <1>2, <2>1, WritingCount, FS_RemoveElement
<1> QED
  BY <1>1, <1>2

(* No wake-up is lost: bytes written and to be written match the queue.    *)
THEOREM WakeUp == Spec => []PipeMatchesQueue
<1> DEFINE Reading == IF reader = "read" THEN 1 ELSE 0
           Inv     == pipe + Cardinality(Writing) = Len(queue) + Reading
<1>1. Init => Inv
  <2> SUFFICES ASSUME Init PROVE Inv
    OBVIOUS
  <2>1. Writing = {}
    BY DEF Init, Writing
  <2>2. Cardinality(Writing) = 0 /\ Len(queue) = 0
    BY <2>1, FS_EmptySet, EmptySeq DEF Init
  <2> QED
    BY <2>2 DEF Init
<1>2. TypeOK /\ Inv /\ [Next]_vars => Inv'
  <2> SUFFICES ASSUME TypeOK, Inv, [Next]_vars PROVE Inv'
    OBVIOUS
  <2>1. pipe \in Nat /\ Len(queue) \in Nat /\ Cardinality(Writing) \in Nat
    BY WritingCount, LenProperties DEF TypeOK
  <2>2. CASE UNCHANGED <<queue, pipe, writer>> /\ Reading' = Reading
    BY <2>2 DEF Writing
  <2>3. CASE PopSignal
    <3>1. Len(queue') = Len(queue) - 1 /\ Reading = 0 /\ Reading' = 1
      BY <2>3, HeadTailProperties DEF PopSignal, TypeOK
    <3>2. UNCHANGED <<pipe, Writing>>
      BY <2>3 DEF PopSignal, Writing
    <3> QED
      BY <2>1, <3>1, <3>2
  <2>4. CASE ReadByte
    <3>1. pipe' = pipe - 1 /\ Reading = 1 /\ Reading' = 0
      BY <2>4 DEF ReadByte
    <3>2. UNCHANGED <<queue, Writing>>
      BY <2>4 DEF ReadByte, Writing
    <3> QED
      BY <2>1, <3>1, <3>2
  <2>5. ASSUME NEW w \in Workers, WorkerPush(w)
        PROVE  Inv'
    <3>1. Len(info) \in Nat
      BY LenProperties DEF TypeOK
    <3>2. /\ Len(info) + 1 # 0 /\ writer[w] = 0
          /\ writer' = [writer EXCEPT ![w] = Len(info) + 1]
      BY <2>5, <3>1 DEF WorkerPush
    <3>4. Cardinality(Writing') = Cardinality(Writing) + 1
      BY <3>2, WritingStep
    <3>3. Len(queue') = Len(queue) + 1 /\ pipe' = pipe /\ Reading' = Reading
      BY <2>5, AppendProperties DEF WorkerPush, TypeOK
    <3> QED
      BY <2>1, <3>3, <3>4
  <2>6. ASSUME NEW w \in Workers, WorkerWrite(w)
        PROVE  Inv'
    <3>1. Cardinality(Writing') = Cardinality(Writing) - 1
      BY <2>6, WritingStep DEF WorkerWrite
    <3>2. queue' = queue /\ pipe' = pipe + 1 /\ Reading' = Reading
      BY <2>6 DEF WorkerWrite
    <3> QED
      BY <2>1, <3>1, <3>2
  <2>7. CASE LoadModule \/ StartModule \/ BootFlush \/ Emit \/ Deliver \/ NextReceiver
    BY <2>2, <2>7 DEF LoadModule, StartModule, BootFlush, Emit, Deliver, NextReceiver, threadVars
  <2>8. CASE UnknownDestination \/ EndSend \/ UseAfterFree \/ EndDrain \/ FlushNext
    BY <2>2, <2>8 DEF UnknownDestination, EndSend, UseAfterFree, Fail, EndDrain, FlushNext, threadVars
  <2>9. CASE FlushEnd
    BY <2>2, <2>9 DEF FlushEnd, Running
  <2>10. CASE Event \/ Return \/ Unload \/ Load
    BY <2>2, <2>10 DEF Event, Return, Unload, Load, threadVars
  <2>11. CASE DispatchReader \/ QueueEmpty
    BY <2>2, <2>11 DEF DispatchReader, QueueEmpty
  <2>12. CASE UNCHANGED vars \/ Register
    BY <2>2, <2>12, Idles DEF threadVars
  <2> QED
    BY <2>3, <2>4, <2>5, <2>6, <2>7, <2>8, <2>9, <2>10, <2>11, <2>12 DEF Next
<1>3. Inv => PipeMatchesQueue
  BY DEF PipeMatchesQueue, Writing
<1> QED
  BY <1>1, <1>2, <1>3, TypeCorrect, PTL DEF Spec

(* The consequences of WakeUp that matter: the blocking read of the GUI    *)
(* thread always returns, because its byte is there or a worker is about   *)
(* to write it; and a signal in the queue is announced in the same sense.  *)
ReadReturns      == reader = "read" => pipe > 0 \/ Writing # {}
QueueIsAnnounced == queue # <<>> => pipe > 0 \/ Writing # {}

THEOREM NoLostWakeup == Spec => [](ReadReturns /\ QueueIsAnnounced)
<1>1. TypeOK /\ PipeMatchesQueue => ReadReturns /\ QueueIsAnnounced
  <2> SUFFICES ASSUME TypeOK, PipeMatchesQueue PROVE ReadReturns /\ QueueIsAnnounced
    OBVIOUS
  <2>1. pipe \in Nat /\ Len(queue) \in Nat /\ (queue # <<>> => Len(queue) > 0)
    BY LenProperties, EmptySeq DEF TypeOK
  <2>2. Writing = {} => Cardinality(Writing) = 0
    BY FS_EmptySet
  <2>3. Writing = {} => pipe = Len(queue) + (IF reader = "read" THEN 1 ELSE 0)
    BY <2>1, <2>2 DEF PipeMatchesQueue, Writing
  <2> QED
    BY <2>1, <2>3 DEF ReadReturns, QueueIsAnnounced
<1> QED
  BY <1>1, TypeCorrect, WakeUp, PTL

-----------------------------------------------------------------------------
(* The bus implements the mailbox.  What makes it so is the order in which *)
(* thread signals are kept: those in the queue and those in the waiting    *)
(* list in the order of their numbers, the waiting ones before the others, *)
(* and every flush that is under way has begun all of the part of the list *)
(* it has walked.                                                          *)
Posted(m, s) == s \in DOMAIN m /\ m[s] \in WorkerEmissions

Queued ==
    /\ \A i \in DOMAIN queue : stage[queue[i]] = "queue" /\ Posted(info, queue[i])
    /\ \A i, j \in DOMAIN queue : i < j => queue[i] < queue[j]
    /\ \A s \in SigIds : stage[s] = "queue" => \E i \in DOMAIN queue : queue[i] = s

Waits ==
    /\ \A i, j \in DOMAIN waiting :
          i < j /\ Posted(info, waiting[i]) /\ Posted(info, waiting[j]) => waiting[i] < waiting[j]
    /\ \A s \in SigIds :
          Posted(info, s) /\ stage[s] = "waiting" => \E i \in DOMAIN waiting : waiting[i] = s

WaitsBeforeQueued ==
    \A i \in DOMAIN waiting, j \in DOMAIN queue :
        Posted(info, waiting[i]) => waiting[i] < queue[j]

Walked(f) ==
    f.op = "flush" /\ ~f.stale =>
        /\ f.pos <= Len(waiting)
        /\ \A i \in DOMAIN waiting : i <= f.pos => stage[waiting[i]] # "waiting"

OrderInv ==
    /\ Queued /\ Waits /\ WaitsBeforeQueued
    /\ \A k \in DOMAIN stack : Walked(stack[k])

Awaits(s) == stage[s] \in {"queue", "waiting"}

(* Numbers of signals.                                                     *)
LEMMA Numbers ==
    ASSUME TypeOK
    PROVE  /\ \A i \in DOMAIN queue : queue[i] \in DOMAIN info /\ queue[i] \in SigIds
           /\ \A i \in DOMAIN waiting : waiting[i] \in DOMAIN info /\ waiting[i] \in SigIds
           /\ DOMAIN info = 1..Len(info) /\ Len(info) \in Nat /\ DOMAIN info \subseteq SigIds
           /\ DOMAIN waiting = 1..Len(waiting) /\ Len(waiting) \in Nat
           /\ DOMAIN queue = 1..Len(queue) /\ Len(queue) \in Nat
           /\ SigIds \subseteq Nat
<1>1. DOMAIN info = 1..Len(info) /\ Len(info) \in Nat /\ DOMAIN info \subseteq SigIds
  BY LenProperties, BoundsAssumption DEF TypeOK, SigIds
<1>2. /\ \A i \in DOMAIN queue : queue[i] \in DOMAIN info
      /\ \A i \in DOMAIN waiting : waiting[i] \in DOMAIN info
  BY ElementOfSeq, LenProperties DEF TypeOK
<1>3. /\ DOMAIN waiting = 1..Len(waiting) /\ Len(waiting) \in Nat
      /\ DOMAIN queue = 1..Len(queue) /\ Len(queue) \in Nat
  BY LenProperties DEF TypeOK
<1> QED
  BY <1>1, <1>2, <1>3 DEF SigIds

(* A number is put at the end of one of the lists.                         *)
LEMMA Extended ==
    ASSUME NEW q \in Seq(Nat), NEW n \in Nat
    PROVE  /\ Append(q, n) \in Seq(Nat) /\ Len(Append(q, n)) = Len(q) + 1
           /\ DOMAIN Append(q, n) = 1..(Len(q) + 1) /\ Append(q, n)[Len(q) + 1] = n
           /\ \A i \in DOMAIN q : Append(q, n)[i] = q[i] /\ i \in DOMAIN Append(q, n)
           /\ \A i \in DOMAIN Append(q, n) : i \in DOMAIN q \/ i = Len(q) + 1
<1>1. /\ Append(q, n) \in Seq(Nat) /\ Len(Append(q, n)) = Len(q) + 1
      /\ \A i \in 1..Len(q) : Append(q, n)[i] = q[i]
      /\ Append(q, n)[Len(q) + 1] = n
  BY AppendProperties
<1>2. /\ DOMAIN q = 1..Len(q) /\ Len(q) \in Nat
      /\ DOMAIN Append(q, n) = 1..(Len(q) + 1)
  BY <1>1, LenProperties
<1> QED
  BY <1>1, <1>2

LEMMA ListsOfNumbers ==
    ASSUME TypeOK
    PROVE  queue \in Seq(Nat) /\ waiting \in Seq(Nat)
BY Numbers, SeqDef DEF TypeOK

(* A frame that is no flush, or one that has yet to begin.                 *)
Fresh(f) == f.op = "flush" /\ ~f.stale => f.pos = 0

LEMMA FreshFrames ==
    /\ \A p, s, why : Fresh(Call(p, s, why))
    /\ \A s, r : Fresh(Send(s, r))
    /\ \A by : Fresh(Flush(by))
    /\ Fresh(Drain)
BY DEF Fresh, Call, Send, Flush, Drain

LEMMA FrameFields ==
    ASSUME NEW f \in Frames
    PROVE  /\ [f EXCEPT !.stale = TRUE].stale = TRUE
           /\ f.op = "send" =>
                /\ [f EXCEPT !.drain = TRUE].op = "send"
                /\ \A r : /\ [f EXCEPT !.rest = r].op = "send"
                          /\ [f EXCEPT !.drain = FALSE, !.rest = r].op = "send"
           /\ f.op = "flush" =>
                /\ [f EXCEPT !.pos = @ + 1].op = "flush"
                /\ [f EXCEPT !.pos = @ + 1].pos = f.pos + 1
                /\ [f EXCEPT !.pos = @ + 1].stale = f.stale
<1>1. CASE f.op = "call"
  BY <1>1 DEF Frames
<1>2. CASE f.op = "send"
  BY <1>2 DEF Frames
<1>3. CASE f.op = "flush"
  BY <1>3 DEF Frames
<1>4. CASE f.op = "drain"
  BY <1>4 DEF Frames
<1> QED
  BY <1>1, <1>2, <1>3, <1>4 DEF Frames

(* Every frame of t is fresh or one of the stack's.                        *)
OfStack(f) == \E l \in DOMAIN stack : stack[l] = f
Adds(t)    == \A k \in DOMAIN t : Fresh(t[k]) \/ OfStack(t[k])

LEMMA AppendElements ==
    ASSUME NEW S, NEW s \in Seq(S), NEW f \in S
    PROVE  \A k \in DOMAIN Append(s, f) :
              Append(s, f)[k] = f \/ (k \in DOMAIN s /\ Append(s, f)[k] = s[k])
BY AppendProperties, LenProperties

LEMMA ConcatElements ==
    ASSUME NEW S, NEW s \in Seq(S), NEW f \in S, NEW g \in S
    PROVE  \A k \in DOMAIN (s \o <<f, g>>) :
              \/ (s \o <<f, g>>)[k] \in {f, g}
              \/ k \in DOMAIN s /\ (s \o <<f, g>>)[k] = s[k]
<1>1. <<f, g>> \in Seq(S) /\ Len(<<f, g>>) = 2
  OBVIOUS
<1>2. Len(s) \in Nat /\ DOMAIN s = 1..Len(s)
  BY LenProperties
<1>3. /\ s \o <<f, g>> \in Seq(S) /\ Len(s \o <<f, g>>) = Len(s) + 2
      /\ \A k \in 1..(Len(s) + 2) :
            (s \o <<f, g>>)[k] = IF k <= Len(s) THEN s[k] ELSE <<f, g>>[k - Len(s)]
  BY <1>1, <1>2, ConcatProperties
<1>4. DOMAIN (s \o <<f, g>>) = 1..(Len(s) + 2)
  BY <1>3, LenProperties
<1>5. ASSUME NEW k \in 1..(Len(s) + 2), ~(k <= Len(s))
      PROVE  <<f, g>>[k - Len(s)] \in {f, g}
  <2>1. k - Len(s) = 1 \/ k - Len(s) = 2
    BY <1>2, <1>5
  <2> QED
    BY <2>1
<1> QED
  BY <1>2, <1>3, <1>4, <1>5

LEMMA AddsFrames ==
    ASSUME TypeOK
    PROVE  /\ Adds(stack)
           /\ \A f \in Frames : Fresh(f) => Adds(Append(stack, f))
           /\ \A f, g \in Frames : Fresh(f) /\ Fresh(g) => Adds(stack \o <<f, g>>)
           /\ stack # <<>> =>
                /\ OfStack(Top) /\ Adds(Front(stack))
                /\ \A f \in Frames : Fresh(f) => Adds(Append(Front(stack), f))
                /\ \A f, g \in Frames :
                      Fresh(f) /\ Fresh(g) => Adds(Front(stack) \o <<f, g>>)
                /\ \A J : PopMarking(J) => Adds(stack')
<1>0. stack \in Seq(Frames)
  BY DEF TypeOK
<1>1. Adds(stack)
  BY DEF Adds, OfStack
<1>2. ASSUME NEW f \in Frames, Fresh(f) PROVE Adds(Append(stack, f))
  BY <1>0, <1>2, AppendElements DEF Adds, OfStack
<1>3. ASSUME NEW f \in Frames, NEW g \in Frames, Fresh(f), Fresh(g)
      PROVE  Adds(stack \o <<f, g>>)
  BY <1>0, <1>3, ConcatElements DEF Adds, OfStack
<1>4. ASSUME stack # <<>>
      PROVE  /\ OfStack(Top) /\ Adds(Front(stack)) /\ Front(stack) \in Seq(Frames)
             /\ \A k \in DOMAIN Front(stack) :
                   k \in DOMAIN stack /\ Front(stack)[k] = stack[k] /\ stack[k] \in Frames
  <2>1. /\ Front(stack) \in Seq(Frames) /\ DOMAIN Front(stack) = 1..(Len(stack) - 1)
        /\ \A i \in 1..(Len(stack) - 1) : Front(stack)[i] = stack[i]
    BY <1>0, <1>4, FrontLast
  <2>2. Len(stack) \in Nat \ {0} /\ DOMAIN stack = 1..Len(stack)
    BY <1>0, <1>4, EmptySeq, LenProperties
  <2>3. OfStack(Top)
    BY <2>2 DEF OfStack, Top, Last
  <2>4. \A k \in DOMAIN Front(stack) : k \in DOMAIN stack /\ Front(stack)[k] = stack[k]
    BY <2>1, <2>2
  <2> QED
    BY <1>0, <2>1, <2>3, <2>4, ElementOfSeq, <2>2 DEF Adds, OfStack
<1>5. ASSUME stack # <<>>, NEW f \in Frames, Fresh(f) PROVE Adds(Append(Front(stack), f))
  BY <1>4, <1>5, AppendElements DEF Adds, OfStack
<1>6. ASSUME stack # <<>>, NEW f \in Frames, NEW g \in Frames, Fresh(f), Fresh(g)
      PROVE  Adds(Front(stack) \o <<f, g>>)
  BY <1>4, <1>6, ConcatElements DEF Adds, OfStack
<1>7. ASSUME stack # <<>>, NEW J, PopMarking(J) PROVE Adds(stack')
  <2>1. \A k \in DOMAIN Front(stack) : Fresh([stack[k] EXCEPT !.stale = TRUE])
    BY <1>4, <1>7, FrameFields DEF Fresh
  <2> QED
    BY <2>1, <1>4, <1>7 DEF PopMarking, Adds, OfStack
<1> QED
  BY <1>1, <1>2, <1>3, <1>4, <1>5, <1>6, <1>7

(* Frames that are added have walked nothing.                              *)
LEMMA AddsWalked ==
    ASSUME TypeOK, OrderInv, NEW t, Adds(t)
    PROVE  \A k \in DOMAIN t : Walked(t[k])
<1>1. Len(waiting) \in Nat
  BY Numbers
<1>2. \A f : Fresh(f) => Walked(f)
  BY <1>1 DEF Fresh, Walked
<1> QED
  BY <1>2 DEF Adds, OfStack, OrderInv

-----------------------------------------------------------------------------
(* Steps that begin no thread signal and post none.                        *)

Mail == <<Box, Taken>>

LEMMA SameMail ==
    ASSUME \A s \in SigIds : Posted(info', s) <=> Posted(info, s),
           \A s \in SigIds : Posted(info, s) => (Awaits(s)' <=> Awaits(s))
    PROVE  UNCHANGED Mail
BY DEF Mail, Box, Taken, Awaits, FromWorker, Posted

(* Nothing but the call stack changes, or a signal ends that has begun.    *)
Quiet ==
    /\ UNCHANGED <<queue, waiting, info>> /\ Adds(stack')
    /\ \/ UNCHANGED stage
       \/ \E s \in SigIds : stage[s] = "running" /\ stage' = [stage EXCEPT ![s] = "ended"]

LEMMA QuietOrder ==
    ASSUME TypeOK, OrderInv, Quiet
    PROVE  OrderInv' /\ UNCHANGED Mail
<1>1. \A s \in SigIds : \/ stage'[s] = stage[s]
                        \/ stage[s] = "running" /\ stage'[s] = "ended"
  BY DEF Quiet, TypeOK
<1>2. queue' = queue /\ waiting' = waiting /\ info' = info
  BY DEF Quiet
<1>3. \A s : Posted(info', s) <=> Posted(info, s)
  BY <1>2 DEF Posted
<1>4. UNCHANGED Mail
  BY <1>1, <1>3, SameMail DEF Awaits
<1>5. Queued'
  <2>1. \A i \in DOMAIN queue : stage'[queue[i]] = "queue" /\ Posted(info', queue[i])
    BY <1>1, <1>3, Numbers DEF OrderInv, Queued
  <2>2. \A s \in SigIds : stage'[s] = "queue" => stage[s] = "queue"
    BY <1>1
  <2>. QED
    BY <2>1, <2>2, <1>2 DEF OrderInv, Queued
<1>6. Waits' /\ WaitsBeforeQueued'
  BY <1>1, <1>2, <1>3, Numbers DEF OrderInv, Waits, WaitsBeforeQueued
<1>7. ASSUME NEW k \in DOMAIN stack' PROVE Walked(stack[k])'
  <2>1. Walked(stack'[k])
    BY AddsWalked DEF Quiet
  <2>2. \A i \in DOMAIN waiting : stage[waiting[i]] # "waiting" => stage'[waiting[i]] # "waiting"
    BY <1>1, Numbers
  <2> QED
    BY <1>2, <2>1, <2>2 DEF Walked
<1> QED
  BY <1>4, <1>5, <1>6, <1>7 DEF OrderInv

(* A new signal has the next number, and is not on any list yet.           *)
LEMMA NewNumber ==
    ASSUME TypeOK, NEW e \in Emission, NEW st \in {"queue", "waiting", "running", "lost"},
           NewSignal(e, st)
    PROVE  /\ Len(info) + 1 \in SigIds /\ Len(info) + 1 \notin DOMAIN info
           /\ \A s \in DOMAIN info : s < Len(info) + 1
           /\ stage' = [stage EXCEPT ![Len(info) + 1] = st]
           /\ stage'[Len(info) + 1] = st
           /\ Posted(info', Len(info) + 1) <=> e \in WorkerEmissions
           /\ \A s \in SigIds : s # Len(info) + 1 =>
                 (Posted(info', s) <=> Posted(info, s)) /\ stage'[s] = stage[s]
<1>1. Len(info) + 1 \in SigIds
  BY NewSignalType
<1>2. DOMAIN info = 1..Len(info) /\ Len(info) \in Nat
  BY Numbers
<1>3. info' = Append(info, e) /\ stage' = [stage EXCEPT ![Len(info) + 1] = st]
  BY DEF NewSignal
<1>4. /\ DOMAIN info' = 1..(Len(info) + 1) /\ info'[Len(info) + 1] = e
      /\ \A i \in 1..Len(info) : info'[i] = info[i]
  BY <1>2, <1>3, AppendProperties, LenProperties DEF TypeOK
<1>5. \A s \in SigIds : s # Len(info) + 1 => (Posted(info', s) <=> Posted(info, s)) /\ stage'[s] = stage[s]
  <2>1. \A s \in SigIds : s # Len(info) + 1 => (s \in DOMAIN info' <=> s \in DOMAIN info)
    BY <1>2, <1>4, Numbers
  <2> QED
    BY <2>1, <1>2, <1>3, <1>4 DEF Posted, TypeOK
<1>6. stage'[Len(info) + 1] = st
  BY <1>1, <1>3 DEF TypeOK
<1>7. Posted(info', Len(info) + 1) <=> e \in WorkerEmissions
  BY <1>2, <1>4 DEF Posted
<1> QED
  BY <1>1, <1>2, <1>3, <1>5, <1>6, <1>7

(* The GUI thread emits a signal: it is no thread signal, and goes to the  *)
(* end of the waiting list or on no list.                                  *)
LEMMA EmitOrder ==
    ASSUME TypeOK, OrderInv, NEW e \in Emissions, UNCHANGED queue, Adds(stack'),
           \/ NewSignal(e, "lost") /\ UNCHANGED waiting
           \/ NewSignal(e, "running") /\ UNCHANGED waiting
           \/ NewSignal(e, "waiting") /\ waiting' = Append(waiting, Len(info) + 1)
    PROVE  OrderInv' /\ UNCHANGED Mail
<1>n. PICK n : n = Len(info) + 1
  OBVIOUS
<1>1. /\ n \in SigIds /\ n \notin DOMAIN info
      /\ stage'[n] \notin {"queue"} /\ ~Posted(info', n) /\ ~Posted(info, n)
      /\ \A s \in SigIds : s # n => (Posted(info', s) <=> Posted(info, s)) /\ stage'[s] = stage[s]
  <2>1. e \in Emission /\ e \notin WorkerEmissions
    BY EmissionsAssumption
  <2> QED
    BY <2>1, <1>n, NewNumber DEF Posted
<1>2. \A s \in DOMAIN info : s # n /\ stage'[s] = stage[s] /\ (Posted(info', s) <=> Posted(info, s))
  BY <1>1, Numbers
<1>3. UNCHANGED Mail
  <2>1. \A s \in SigIds : Posted(info', s) <=> Posted(info, s)
    BY <1>1
  <2>2. \A s \in SigIds : Posted(info, s) => (Awaits(s)' <=> Awaits(s))
    BY <1>1 DEF Awaits
  <2> QED
    BY <2>1, <2>2, SameMail
<1>4. \/ waiting' = waiting
      \/ /\ waiting' = Append(waiting, n) /\ Len(waiting') = Len(waiting) + 1
         /\ DOMAIN waiting' = 1..(Len(waiting) + 1) /\ waiting'[Len(waiting) + 1] = n
         /\ \A i \in DOMAIN waiting : waiting'[i] = waiting[i]
  BY <1>n, <1>1, Numbers, ListsOfNumbers, Extended
<1>5. /\ DOMAIN waiting \subseteq DOMAIN waiting' /\ Len(waiting) <= Len(waiting')
      /\ \A i \in DOMAIN waiting : waiting'[i] = waiting[i]
      /\ \A i \in DOMAIN waiting' : i \in DOMAIN waiting \/ waiting'[i] = n
  BY <1>4, Numbers
<1>6. Queued'
  BY <1>1, <1>2, Numbers DEF OrderInv, Queued
<1>7. Waits'
  <2>1. ASSUME NEW i \in DOMAIN waiting', NEW j \in DOMAIN waiting', i < j,
               Posted(info', waiting'[i]), Posted(info', waiting'[j])
        PROVE  waiting'[i] < waiting'[j]
    <3>1. i \in DOMAIN waiting /\ j \in DOMAIN waiting
      BY <2>1, <1>1, <1>5
    <3> QED
      BY <3>1, <2>1, <1>2, <1>5, Numbers DEF OrderInv, Waits
  <2>2. ASSUME NEW s \in SigIds, Posted(info', s), stage'[s] = "waiting"
        PROVE  \E i \in DOMAIN waiting' : waiting'[i] = s
    <3>1. s # n /\ Posted(info, s) /\ stage[s] = "waiting"
      BY <2>2, <1>1
    <3>2. PICK i \in DOMAIN waiting : waiting[i] = s
      BY <3>1 DEF OrderInv, Waits
    <3> QED
      BY <3>2, <1>5
  <2> QED
    BY <2>1, <2>2 DEF Waits
<1>8. WaitsBeforeQueued'
  <2>1. ASSUME NEW i \in DOMAIN waiting', NEW j \in DOMAIN queue, Posted(info', waiting'[i])
        PROVE  waiting'[i] < queue[j]
    <3>1. i \in DOMAIN waiting
      BY <2>1, <1>1, <1>5
    <3> QED
      BY <3>1, <2>1, <1>2, <1>5, Numbers DEF OrderInv, WaitsBeforeQueued
  <2> QED
    BY <2>1 DEF WaitsBeforeQueued
<1>9. ASSUME NEW k \in DOMAIN stack' PROVE Walked(stack[k])'
  <2> DEFINE f == stack'[k]
  <2>1. Walked(f) /\ (Fresh(f) \/ OfStack(f))
    BY AddsWalked DEF Adds
  <2>2. ASSUME f.op = "flush", ~f.stale
        PROVE  /\ f.pos <= Len(waiting')
               /\ \A i \in DOMAIN waiting' : i <= f.pos => stage'[waiting'[i]] # "waiting"
    <3>1. /\ f.pos <= Len(waiting)
          /\ \A i \in DOMAIN waiting : i <= f.pos => stage[waiting[i]] # "waiting"
      BY <2>1, <2>2 DEF Walked
    <3>2. f.pos \in Nat
      <4>1. \A l \in DOMAIN stack : stack[l] \in Frames
        BY ElementOfSeq DEF TypeOK
      <4> QED
        <5> HIDE DEF f
        <5>1. f.pos = 0 \/ f \in Frames
          BY <4>1, <2>1, <2>2 DEF Fresh, OfStack
        <5>2. f \in Frames => f.pos \in Nat
          BY <2>2, FrameUpdates
        <5> QED
          BY <5>1, <5>2
    <3> HIDE DEF f
    <3>3. \A i \in DOMAIN waiting' : i <= f.pos => i \in DOMAIN waiting
      BY <3>1, <3>2, <1>4, Numbers
    <3> QED
      BY <3>1, <3>2, <3>3, <1>2, <1>5, Numbers
  <2> QED
    BY <2>2 DEF Walked
<1> QED
  BY <1>3, <1>6, <1>7, <1>8, <1>9 DEF OrderInv

(* A thread posts a signal.                                                *)
LEMMA PushOrder ==
    ASSUME TypeOK, OrderInv, NEW w \in Workers, WorkerPush(w)
    PROVE  OrderInv' /\ M!Post
<1>n. PICK n : n = Len(info) + 1
  OBVIOUS
<1>0. PICK e \in WorkerEmissions : NewSignal(e, "queue")
  BY DEF WorkerPush
<1>1. /\ n \in SigIds /\ n \notin DOMAIN info /\ \A s \in DOMAIN info : s < n
      /\ stage'[n] = "queue" /\ Posted(info', n) /\ ~Posted(info, n)
      /\ \A s \in SigIds : s # n => (Posted(info', s) <=> Posted(info, s)) /\ stage'[s] = stage[s]
  <2>1. e \in Emission
    BY EmissionsAssumption
  <2> QED
    BY <2>1, <1>0, <1>n, NewNumber DEF Posted
<1>2. /\ queue' = Append(queue, n) /\ waiting' = waiting /\ stack' = stack
  BY <1>n DEF WorkerPush
<1>3. \A s \in DOMAIN info : s # n /\ stage'[s] = stage[s] /\ (Posted(info', s) <=> Posted(info, s))
  BY <1>1, Numbers
<1>4. /\ DOMAIN queue' = 1..(Len(queue) + 1) /\ queue'[Len(queue) + 1] = n
      /\ \A i \in DOMAIN queue : queue'[i] = queue[i] /\ i \in DOMAIN queue'
      /\ \A i \in DOMAIN queue' : i \in DOMAIN queue \/ i = Len(queue) + 1
  BY <1>1, <1>2, Numbers, ListsOfNumbers, Extended
<1>5. Queued'
  <2>1. \A i \in DOMAIN queue' : stage'[queue'[i]] = "queue" /\ Posted(info', queue'[i])
    BY <1>1, <1>3, <1>4, Numbers DEF OrderInv, Queued
  <2>2. ASSUME NEW i \in DOMAIN queue', NEW j \in DOMAIN queue', i < j
        PROVE  queue'[i] < queue'[j]
    <3>1. i \in DOMAIN queue
      BY <2>2, <1>4, Numbers
    <3>2. CASE j \in DOMAIN queue
      BY <3>1, <3>2, <2>2, <1>4 DEF OrderInv, Queued
    <3>3. CASE j = Len(queue) + 1
      BY <3>1, <3>3, <1>1, <1>4, Numbers
    <3> QED
      BY <3>2, <3>3, <1>4
  <2>3. \A s \in SigIds : stage'[s] = "queue" => \E i \in DOMAIN queue' : queue'[i] = s
    <3>1. Len(queue) + 1 \in DOMAIN queue'
      BY <1>4, Numbers
    <3> QED
      BY <3>1, <1>1, <1>4 DEF OrderInv, Queued
  <2> QED
    BY <2>1, <2>2, <2>3 DEF Queued
<1>6. Waits'
  BY <1>1, <1>2, <1>3, Numbers DEF OrderInv, Waits
<1>7. WaitsBeforeQueued'
  <2>1. ASSUME NEW i \in DOMAIN waiting, NEW j \in DOMAIN queue', Posted(info', waiting[i])
        PROVE  waiting[i] < queue'[j]
    <3>1. Posted(info, waiting[i]) /\ waiting[i] \in DOMAIN info
      BY <2>1, <1>3, Numbers
    <3>2. CASE j \in DOMAIN queue
      BY <3>1, <3>2, <1>4 DEF OrderInv, WaitsBeforeQueued
    <3>3. CASE j = Len(queue) + 1
      BY <3>1, <3>3, <1>1, <1>4
    <3> QED
      BY <3>2, <3>3, <1>4
  <2> QED
    BY <2>1, <1>2 DEF WaitsBeforeQueued
<1>8. ASSUME NEW k \in DOMAIN stack' PROVE Walked(stack[k])'
  <2>1. Walked(stack[k])
    BY <1>2 DEF OrderInv
  <2> QED
    BY <2>1, <1>2, <1>3, Numbers DEF Walked
<1>9. M!Post
  <2>1. \A s \in Box \cup Taken : s \in DOMAIN info /\ s # n
    BY <1>1 DEF Box, Taken, FromWorker, Posted
  <2>2. \A s \in Box \cup Taken : s < n
    BY <2>1, <1>1
  <2>3. Box' = Box \cup {n}
    BY <1>1 DEF Box, FromWorker, Posted
  <2>4. Taken' = Taken
    BY <1>1 DEF Taken, FromWorker, Posted
  <2> QED
    BY <2>2, <2>3, <2>4, <1>1 DEF M!Post
<1> QED
  BY <1>5, <1>6, <1>7, <1>8, <1>9 DEF OrderInv

(* thread_signal_test_chan moves the oldest signal of the queue to the end *)
(* of the waiting list.                                                    *)
LEMMA PopOrder ==
    ASSUME TypeOK, OrderInv, PopSignal
    PROVE  OrderInv' /\ UNCHANGED Mail
<1> DEFINE h == Head(queue)
<1>1. /\ queue # <<>> /\ waiting' = Append(waiting, h) /\ queue' = Tail(queue)
      /\ stage' = [stage EXCEPT ![h] = "waiting"] /\ info' = info /\ stack' = stack
  BY DEF PopSignal
<1>2. /\ Len(queue) \in Nat \ {0} /\ h = queue[1] /\ 1 \in DOMAIN queue
      /\ DOMAIN queue' = 1..(Len(queue) - 1)
      /\ \A i \in DOMAIN queue' : i + 1 \in DOMAIN queue /\ queue'[i] = queue[i + 1]
  <2>1. Len(queue) \in Nat \ {0} /\ DOMAIN queue = 1..Len(queue)
    BY <1>1, EmptySeq, LenProperties DEF TypeOK
  <2>2. /\ h = queue[1] /\ Tail(queue) \in Seq(DOMAIN info) /\ Len(Tail(queue)) = Len(queue) - 1
        /\ \A i \in 1..Len(Tail(queue)) : Tail(queue)[i] = queue[i + 1]
    BY <1>1, HeadTailProperties DEF TypeOK
  <2>3. DOMAIN queue' = 1..(Len(queue) - 1)
    BY <1>1, <2>2, LenProperties
  <2> QED
    BY <1>1, <2>1, <2>2, <2>3
<1>3. h \in DOMAIN info /\ h \in SigIds /\ stage[h] = "queue" /\ Posted(info, h)
  BY <1>2, Numbers DEF OrderInv, Queued
<1> HIDE DEF h
<1>4. /\ stage'[h] = "waiting" /\ \A s \in SigIds : s # h => stage'[s] = stage[s]
  BY <1>1, <1>3 DEF TypeOK
<1>5. \A s : Posted(info', s) <=> Posted(info, s)
  BY <1>1 DEF Posted
<1>6. /\ DOMAIN waiting' = 1..(Len(waiting) + 1) /\ waiting'[Len(waiting) + 1] = h
      /\ Len(waiting') = Len(waiting) + 1
      /\ \A i \in DOMAIN waiting : waiting'[i] = waiting[i] /\ i \in DOMAIN waiting'
      /\ \A i \in DOMAIN waiting' : i \in DOMAIN waiting \/ i = Len(waiting) + 1
  BY <1>1, <1>3, Numbers, ListsOfNumbers, Extended
<1>7. UNCHANGED Mail
  BY <1>3, <1>4, <1>5, SameMail DEF Awaits
<1>8. \A i \in DOMAIN queue' : h < queue'[i] /\ queue'[i] \in SigIds /\ queue'[i] # h
  <2>1. ASSUME NEW i \in DOMAIN queue' PROVE h < queue[i + 1] /\ queue[i + 1] \in SigIds
    <3>1. 1 < i + 1
      BY <1>2
    <3> QED
      BY <3>1, <1>2, Numbers DEF OrderInv, Queued
  <2> QED
    BY <2>1, <1>2, <1>3, Numbers
<1>9. Queued'
  <2>1. \A i \in DOMAIN queue' : stage'[queue'[i]] = "queue" /\ Posted(info', queue'[i])
    BY <1>2, <1>4, <1>5, <1>8 DEF OrderInv, Queued
  <2>2. ASSUME NEW i \in DOMAIN queue', NEW j \in DOMAIN queue', i < j
        PROVE  queue'[i] < queue'[j]
    <3>1. i + 1 < j + 1 /\ i + 1 \in DOMAIN queue /\ j + 1 \in DOMAIN queue
      BY <2>2, <1>2
    <3> QED
      BY <3>1, <1>2 DEF OrderInv, Queued
  <2>3. ASSUME NEW s \in SigIds, stage'[s] = "queue"
        PROVE  \E i \in DOMAIN queue' : queue'[i] = s
    <3>1. s # h /\ stage[s] = "queue"
      BY <2>3, <1>4
    <3>2. PICK i \in DOMAIN queue : queue[i] = s
      BY <3>1 DEF OrderInv, Queued
    <3>3. i - 1 \in DOMAIN queue' /\ (i - 1) + 1 = i
      BY <3>1, <3>2, <1>2, Numbers
    <3> QED
      BY <3>2, <3>3, <1>2
  <2> QED
    BY <2>1, <2>2, <2>3 DEF Queued
<1>10. \A i \in DOMAIN waiting : Posted(info, waiting[i]) => waiting[i] < h
  BY <1>2 DEF OrderInv, WaitsBeforeQueued
<1>11. Waits'
  <2>1. ASSUME NEW i \in DOMAIN waiting', NEW j \in DOMAIN waiting', i < j,
               Posted(info', waiting'[i]), Posted(info', waiting'[j])
        PROVE  waiting'[i] < waiting'[j]
    <3>1. i \in DOMAIN waiting /\ Posted(info, waiting[i])
      BY <2>1, <1>5, <1>6, Numbers
    <3>2. CASE j \in DOMAIN waiting
      BY <3>1, <3>2, <2>1, <1>5, <1>6 DEF OrderInv, Waits
    <3>3. CASE j = Len(waiting) + 1
      BY <3>1, <3>3, <1>6, <1>10
    <3> QED
      BY <3>2, <3>3, <1>6
  <2>2. \A s \in SigIds :
            Posted(info', s) /\ stage'[s] = "waiting" => \E i \in DOMAIN waiting' : waiting'[i] = s
    <3>1. Len(waiting) + 1 \in DOMAIN waiting'
      BY <1>6, Numbers
    <3> QED
      BY <3>1, <1>4, <1>5, <1>6 DEF OrderInv, Waits
  <2> QED
    BY <2>1, <2>2 DEF Waits
<1>12. WaitsBeforeQueued'
  <2>1. ASSUME NEW i \in DOMAIN waiting', NEW j \in DOMAIN queue', Posted(info', waiting'[i])
        PROVE  waiting'[i] < queue'[j]
    <3>1. CASE i \in DOMAIN waiting
      BY <3>1, <2>1, <1>2, <1>5, <1>6 DEF OrderInv, WaitsBeforeQueued
    <3>2. CASE i = Len(waiting) + 1
      BY <3>2, <1>6, <1>8
    <3> QED
      BY <3>1, <3>2, <1>6
  <2> QED
    BY <2>1 DEF WaitsBeforeQueued
<1>13. ASSUME NEW k \in DOMAIN stack' PROVE Walked(stack[k])'
  <2>1. stack'[k] = stack[k] /\ k \in DOMAIN stack /\ Walked(stack[k]) /\ stack[k] \in Frames
    BY <1>1, ElementOfSeq DEF OrderInv, TypeOK
  <2> DEFINE f == stack[k]
  <2>2. ASSUME f.op = "flush", ~f.stale
        PROVE  /\ f.pos <= Len(waiting')
               /\ \A i \in DOMAIN waiting' : i <= f.pos => stage'[waiting'[i]] # "waiting"
    <3>1. /\ f.pos <= Len(waiting) /\ f.pos \in Nat
          /\ \A i \in DOMAIN waiting : i <= f.pos => stage[waiting[i]] # "waiting"
      BY <2>1, <2>2, FrameUpdates DEF Walked
    <3> HIDE DEF f
    <3>2. ASSUME NEW i \in DOMAIN waiting', i <= f.pos PROVE stage'[waiting'[i]] # "waiting"
      <4>1. i \in DOMAIN waiting
        BY <3>1, <3>2, <1>6, Numbers
      <4>2. waiting[i] # h
        <5>1. Posted(info, waiting[i]) => waiting[i] < h
          BY <4>1, <1>10
        <5>2. ~(h < h)
          BY <1>3, Numbers
        <5> QED
          BY <5>1, <5>2, <1>3
      <4> QED
        BY <4>1, <4>2, <3>1, <3>2, <1>4, <1>6, Numbers
    <3> QED
      BY <3>1, <3>2, <1>6, Numbers
  <2> QED
    BY <2>1, <2>2 DEF Walked
<1> QED
  BY <1>7, <1>9, <1>11, <1>12, <1>13 DEF OrderInv

(* flush_queued_signals goes on to the next signal of the list.  If it is  *)
(* a thread signal nobody has begun, it is the oldest of those: the ones   *)
(* before it in the list are begun, the ones after it and those in the     *)
(* queue have been posted later.                                           *)
LEMMA OldestFirst ==
    ASSUME TypeOK, OrderInv, NEW f \in Frames, f.op = "flush", ~f.stale, Walked(f),
           f.pos + 1 \in DOMAIN waiting, stage[waiting[f.pos + 1]] = "waiting",
           Posted(info, waiting[f.pos + 1]), NEW n \in Box
    PROVE  waiting[f.pos + 1] <= n
<1> DEFINE s == waiting[f.pos + 1]
<1>1. n \in SigIds /\ Posted(info, n) /\ stage[n] \in {"queue", "waiting"}
  BY DEF Box, FromWorker, Posted
<1>2. s \in Nat /\ n \in Nat /\ f.pos \in Nat
  BY <1>1, FrameUpdates, Numbers
<1>3. CASE stage[n] = "queue"
  <2>1. PICK j \in DOMAIN queue : queue[j] = n
    BY <1>1, <1>3 DEF OrderInv, Queued
  <2>2. s < queue[j]
    BY <2>1 DEF OrderInv, WaitsBeforeQueued
  <2> QED
    BY <2>1, <2>2, <1>2
<1>4. CASE stage[n] = "waiting"
  <2>1. PICK i \in DOMAIN waiting : waiting[i] = n
    BY <1>1, <1>4 DEF OrderInv, Waits
  <2>2. ~(i <= f.pos)
    BY <2>1, <1>4 DEF Walked
  <2>3. i = f.pos + 1 \/ f.pos + 1 < i
    BY <2>2, <1>2, Numbers
  <2>4. f.pos + 1 < i => s < waiting[i]
    BY <2>1, <1>1 DEF OrderInv, Waits
  <2> QED
    BY <2>1, <2>3, <2>4, <1>2
<1> QED
  BY <1>1, <1>3, <1>4

LEMMA FlushNextOrder ==
    ASSUME TypeOK, OrderInv, FlushNext
    PROVE  OrderInv' /\ (M!Take \/ UNCHANGED Mail)
<1>s. PICK s : s = waiting[Top.pos + 1]
  OBVIOUS
<1>f. PICK f : f = [Top EXCEPT !.pos = @ + 1]
  OBVIOUS
<1>1. /\ stack # <<>> /\ Top \in Frames /\ Top.op = "flush" /\ ~Top.stale /\ OfStack(Top)
      /\ Walked(Top) /\ Top.pos \in Nat /\ Top.pos + 1 \in DOMAIN waiting
  <2>1. stack # <<>> /\ Top.op = "flush" /\ ~Top.stale /\ Top.pos < Len(waiting)
    BY DEF FlushNext, TopIs
  <2>2. Top \in Frames /\ OfStack(Top)
    BY <2>1, StackTop, AddsFrames
  <2>3. Top.pos \in Nat
    BY <2>1, <2>2, FrameUpdates
  <2>4. Walked(Top)
    BY <2>2 DEF OfStack, OrderInv
  <2> QED
    BY <2>1, <2>2, <2>3, <2>4, Numbers
<1>2. s \in SigIds /\ s \in DOMAIN info
  BY <1>s, <1>1, Numbers
<1>3. UNCHANGED <<queue, waiting, info>>
  BY DEF FlushNext, threadVars
<1>4. CASE UNCHANGED <<stage, stack>>
  <2>1. Quiet
    BY <1>3, <1>4, AddsFrames DEF Quiet
  <2> QED
    BY <2>1, QuietOrder
<1>5. ASSUME NEW st \in {"running", "ended"}, stage[s] \in {"waiting", "running"},
             stage' = [stage EXCEPT ![s] = st],
             \A k \in DOMAIN stack' : stack'[k] = f \/ Fresh(stack'[k]) \/ OfStack(stack'[k])
      PROVE  OrderInv' /\ (M!Take \/ UNCHANGED Mail)
  <2>1. stage'[s] = st /\ \A n \in SigIds : n # s => stage'[n] = stage[n]
    BY <1>2, <1>5 DEF TypeOK
  <2>2. Queued'
    <3>1. \A i \in DOMAIN queue : stage'[queue[i]] = "queue" /\ Posted(info, queue[i])
      BY <2>1, <1>5, Numbers DEF OrderInv, Queued
    <3>2. \A n \in SigIds : stage'[n] = "queue" => stage[n] = "queue"
      BY <2>1
    <3> QED
      BY <3>1, <3>2, <1>3 DEF OrderInv, Queued
  <2>3. \A n \in SigIds : stage'[n] = "waiting" => stage[n] = "waiting"
    BY <2>1
  <2>4. Waits' /\ WaitsBeforeQueued'
    BY <2>3, <1>3 DEF OrderInv, Waits, WaitsBeforeQueued
  <2>5. ASSUME NEW k \in DOMAIN stack' PROVE Walked(stack[k])'
    <3>1. ASSUME NEW g, g.op = "flush", ~g.stale, g = f \/ Fresh(g) \/ OfStack(g)
          PROVE  /\ g.pos <= Len(waiting)
                 /\ \A i \in DOMAIN waiting : i <= g.pos => stage'[waiting[i]] # "waiting"
      <4>1. CASE g = f
        <5>1. g.pos = Top.pos + 1
          BY <4>1, <1>f, <1>1, FrameFields
        <5>2. \A i \in DOMAIN waiting : i <= Top.pos => stage[waiting[i]] # "waiting"
          BY <1>1 DEF Walked
        <5>3. \A i \in DOMAIN waiting : i <= Top.pos + 1 => i <= Top.pos \/ i = Top.pos + 1
          BY <1>1, Numbers
        <5>4. Top.pos + 1 <= Len(waiting)
          BY <1>1, Numbers
        <5> QED
          BY <5>1, <5>2, <5>3, <5>4, <2>1, <2>3, <1>s, Numbers
      <4>2. CASE Fresh(g)
        BY <4>2, <3>1, Numbers DEF Fresh
      <4>3. CASE OfStack(g)
        <5>1. /\ g.pos <= Len(waiting)
              /\ \A i \in DOMAIN waiting : i <= g.pos => stage[waiting[i]] # "waiting"
          BY <4>3, <3>1 DEF OfStack, OrderInv, Walked
        <5> QED
          BY <5>1, <2>3, Numbers
      <4> QED
        BY <3>1, <4>1, <4>2, <4>3
    <3>2. stack'[k] = f \/ Fresh(stack'[k]) \/ OfStack(stack'[k])
      BY <1>5
    <3> QED
      BY <3>1, <3>2, <1>3 DEF Walked
  <2>6. CASE Posted(info, s) /\ stage[s] = "waiting"
    <3>1. s \in Box
      BY <2>6, <1>2 DEF Box, FromWorker, Posted
    <3>2. \A n \in Box : s <= n
      BY <2>6, <1>1, <1>s, OldestFirst
    <3>3. Box' = Box \ {s} /\ Taken' = Taken \cup {s}
      <4>1. \A n \in SigIds : FromWorker(n)' <=> FromWorker(n)
        BY <1>3 DEF FromWorker
      <4>2. FromWorker(s)
        BY <2>6 DEF FromWorker, Posted
      <4>3. Box' = Box \ {s}
        BY <4>1, <2>1 DEF Box
      <4>4. Taken' = Taken \cup {s}
        BY <4>1, <4>2, <2>1, <1>2 DEF Taken
      <4> QED
        BY <4>3, <4>4
    <3> QED
      BY <3>1, <3>2, <3>3, <2>2, <2>4, <2>5 DEF M!Take, OrderInv
  <2>7. CASE ~(Posted(info, s) /\ stage[s] = "waiting")
    <3>1. \A n \in SigIds : Posted(info, n) => (Awaits(n)' <=> Awaits(n))
      BY <2>1, <2>7, <1>5 DEF Awaits
    <3>2. UNCHANGED Mail
      BY <3>1, <1>3, SameMail
    <3> QED
      BY <3>2, <2>2, <2>4, <2>5 DEF OrderInv
  <2> QED
    BY <2>6, <2>7
<1>6. f \in Frames
  BY <1>f, <1>1, FrameUpdates
<1>7. CASE /\ stage[s] \in {"waiting", "running"} /\ stage' = [stage EXCEPT ![s] = "running"]
           /\ stack' = Front(stack) \o <<f, Send(s, FirstRest(info[s].dest))>>
  <2>1. Send(s, FirstRest(info[s].dest)) \in Frames
    <3>1. info[s] \in Emission
      BY <1>2, ElementOfSeq, LenProperties DEF TypeOK
    <3> QED
      BY <3>1, <1>2, RestType, FrameTypes
  <2>2. \A k \in DOMAIN stack' : stack'[k] = f \/ Fresh(stack'[k]) \/ OfStack(stack'[k])
    <3>1. Front(stack) \in Seq(Frames) /\ Adds(Front(stack))
      BY <1>1, StackTop, AddsFrames
    <3>2. \A k \in DOMAIN stack' :
             \/ stack'[k] \in {f, Send(s, FirstRest(info[s].dest))}
             \/ k \in DOMAIN Front(stack) /\ stack'[k] = Front(stack)[k]
      BY <3>1, <2>1, <1>6, <1>7, ConcatElements
    <3> QED
      BY <3>1, <3>2, FreshFrames DEF Adds
  <2> QED
    BY <2>2, <1>5, <1>7
<1>8. CASE /\ stage[s] \in {"waiting", "running"} /\ stage' = [stage EXCEPT ![s] = "ended"]
           /\ stack' = Append(Front(stack), f)
  <2>1. \A k \in DOMAIN stack' : stack'[k] = f \/ Fresh(stack'[k]) \/ OfStack(stack'[k])
    <3>1. Front(stack) \in Seq(Frames) /\ Adds(Front(stack))
      BY <1>1, StackTop, AddsFrames
    <3>2. \A k \in DOMAIN stack' :
             stack'[k] = f \/ (k \in DOMAIN Front(stack) /\ stack'[k] = Front(stack)[k])
      BY <3>1, <1>6, <1>8, AppendElements
    <3> QED
      BY <3>1, <3>2 DEF Adds
  <2> QED
    BY <2>1, <1>5, <1>8
<1> QED
  BY <1>4, <1>7, <1>8, <1>s, <1>f DEF FlushNext, Become

(* The list is emptied when every signal of it has begun.                  *)
LEMMA FlushEndOrder ==
    ASSUME TypeOK, OrderInv, FlushEnd
    PROVE  OrderInv' /\ UNCHANGED Mail
<1>1. /\ stack # <<>> /\ Top.op = "flush" /\ ~Top.stale /\ Top.pos = Len(waiting)
      /\ waiting' = <<>> /\ UNCHANGED <<queue, info, stage>>
      /\ PopMarking({i \in DOMAIN stack : stack[i].op = "flush"})
  BY DEF FlushEnd, TopIs, sigVars
<1>2. Walked(Top)
  BY <1>1, AddsFrames DEF OfStack, OrderInv
<1>3. \A i \in DOMAIN waiting : stage[waiting[i]] # "waiting"
  BY <1>1, <1>2, Numbers DEF Walked
<1>4. DOMAIN waiting' = {} /\ Len(waiting') = 0
  BY <1>1, EmptySeq, LenProperties
<1>5. Queued'
  BY <1>1 DEF OrderInv, Queued
<1>6. Waits' /\ WaitsBeforeQueued'
  <2>1. \A s \in SigIds : ~(Posted(info, s) /\ stage[s] = "waiting")
    BY <1>3 DEF OrderInv, Waits
  <2> QED
    BY <2>1, <1>1, <1>4 DEF Waits, WaitsBeforeQueued
<1>7. ASSUME NEW k \in DOMAIN stack' PROVE Walked(stack[k])'
  <2> DEFINE J == {i \in DOMAIN stack : stack[i].op = "flush"}
  <2>1. stack' = [i \in DOMAIN Front(stack) |->
                    IF i \in J THEN [stack[i] EXCEPT !.stale = TRUE] ELSE stack[i]]
    BY <1>1 DEF PopMarking
  <2>2. k \in DOMAIN Front(stack) /\ k \in DOMAIN stack /\ stack[k] \in Frames
    <3>1. k \in DOMAIN Front(stack)
      BY <2>1
    <3>2. /\ DOMAIN Front(stack) = 1..(Len(stack) - 1)
          /\ DOMAIN stack = 1..Len(stack) /\ Len(stack) \in Nat
      BY <1>1, FrontLast, LenProperties DEF TypeOK
    <3>3. k \in DOMAIN stack
      BY <3>1, <3>2
    <3> QED
      BY <3>1, <3>3, ElementOfSeq DEF TypeOK
  <2>3. stack'[k].op = "flush" => stack'[k].stale
    BY <2>1, <2>2, FrameFields
  <2> QED
    BY <2>3 DEF Walked
<1>8. UNCHANGED Mail
  BY <1>1 DEF Mail, Box, Taken, FromWorker
<1> QED
  BY <1>5, <1>6, <1>7, <1>8 DEF OrderInv

(* All the other steps of the GUI thread and of the reader.                *)
LEMMA QuietSteps ==
    ASSUME TypeOK,
           \/ LoadModule \/ StartModule \/ BootFlush \/ Deliver \/ NextReceiver
           \/ UnknownDestination \/ EndSend \/ UseAfterFree \/ EndDrain
           \/ Event \/ Return \/ Unload \/ Load
           \/ DispatchReader \/ ReadByte \/ QueueEmpty
           \/ \E w \in Workers : WorkerWrite(w)
    PROVE  Quiet
<1>a. Adds(stack)
  BY AddsFrames
<1>b. /\ \A p \in Plugins, why \in {"start", "event", "destroy"} : Adds(Append(stack, Call(p, 0, why)))
      /\ Adds(Append(stack, Flush("boot"))) /\ Adds(Append(stack, Flush("thread")))
  <2>1. 0 \in 0..MaxSignals
    BY BoundsAssumption
  <2> QED
    BY <2>1, AddsFrames, FrameTypes, FreshFrames
<1>c. stack # <<>> => Adds(Front(stack)) /\ \A J : PopMarking(J) => Adds(stack')
  BY AddsFrames
<1>d. Loaded \subseteq Plugins /\ \A p \in ToSet(Modules) : p \in Plugins
  BY RestType, ModulesAssumption, ElementOfSeq DEF ToSet
<1>e. TopIs("send") => stack # <<>> /\ Top \in Frames /\ Top.op = "send" /\ Top.sig \in SigIds
  BY StackTop, FrameUpdates DEF TopIs
<1> USE DEF Quiet, sigVars, threadVars, pluginVars
<1>1. CASE LoadModule
  BY <1>1, <1>a DEF LoadModule
<1>2. CASE StartModule
  <2>1. PICK p \in ToSet(Modules) : Push(Call(p, 0, "start")) \/ UNCHANGED stack
    BY <1>2 DEF StartModule
  <2>2. Adds(stack')
    BY <2>1, <1>a, <1>b, <1>d DEF Push
  <2> QED
    BY <1>2, <2>2 DEF StartModule
<1>3. CASE BootFlush
  BY <1>3, <1>b DEF BootFlush, Push
<1>4. CASE Deliver
  <2> DEFINE wide == info[Top.sig].dest.kind = "all"
  <2>1. PICK p \in Foremost(Top.rest) :
           LET on == IF wide THEN [Top EXCEPT !.drain = TRUE] ELSE [Top EXCEPT !.rest = @ \ {p}]
           IN  IF wide /\ p = info[Top.sig].src
               THEN Become(on)
               ELSE stack' = Front(stack) \o <<on, Call(p, Top.sig, "receive")>>
    BY <1>4 DEF Deliver
  <2> DEFINE on == IF wide THEN [Top EXCEPT !.drain = TRUE] ELSE [Top EXCEPT !.rest = @ \ {p}]
  <2>2. stack # <<>> /\ Top \in Frames /\ Top.op = "send" /\ Top.sig \in SigIds
    BY <1>4, <1>e DEF Deliver
  <2>3. on.op = "send"
    BY <2>2, FrameFields
  <2>4. on \in Frames /\ p \in Plugins
    BY <2>2, FrameUpdates DEF Foremost
  <2>5. \/ stack' = Append(Front(stack), on)
        \/ stack' = Front(stack) \o <<on, Call(p, Top.sig, "receive")>>
    BY <2>1 DEF Become
  <2> HIDE DEF on
  <2>6. Fresh(on)
    BY <2>3 DEF Fresh
  <2>7. Call(p, Top.sig, "receive") \in Frames
    BY <2>2, <2>4, FrameTypes, BoundsAssumption DEF SigIds
  <2>8. Adds(stack')
    BY <2>2, <2>4, <2>5, <2>6, <2>7, AddsFrames, FreshFrames
  <2> QED
    BY <1>4, <2>8 DEF Deliver
<1>5. CASE NextReceiver
  <2>1. PICK p \in Top.rest : Become([Top EXCEPT !.drain = FALSE, !.rest = NextNode(p)])
    BY <1>5 DEF NextReceiver
  <2>2. stack # <<>> /\ Top \in Frames /\ Top.op = "send"
    BY <1>5, <1>e DEF NextReceiver
  <2>3. PICK on : on = [Top EXCEPT !.drain = FALSE, !.rest = NextNode(p)]
    OBVIOUS
  <2>4. on.op = "send"
    BY <2>2, <2>3, FrameFields
  <2>5. on \in Frames
    BY <2>2, <2>3, RestType, FrameUpdates
  <2>6. Fresh(on)
    BY <2>4 DEF Fresh
  <2>7. stack' = Append(Front(stack), on)
    BY <2>1, <2>3 DEF Become
  <2>8. Adds(stack')
    BY <2>2, <2>5, <2>6, <2>7, AddsFrames
  <2> QED
    BY <1>5, <2>8 DEF NextReceiver
<1>6. CASE UnknownDestination
  BY <1>6, <1>a, <1>e DEF UnknownDestination
<1>7. CASE EndSend
  BY <1>7, <1>c, <1>e DEF EndSend, Pop
<1>8. CASE UseAfterFree
  BY <1>8, <1>a DEF UseAfterFree, Fail
<1>9. CASE EndDrain
  BY <1>9, <1>c DEF EndDrain, TopIs, Pop
<1>10. CASE Event
  BY <1>10, <1>b, <1>d DEF Event, Push
<1>11. CASE Return
  <2>1. stack # <<>>
    BY <1>11 DEF Return, TopIs
  <2>2. Pop \/ \E J : PopMarking(J)
    BY <1>11 DEF Return
  <2>3. Adds(stack')
    BY <2>1, <2>2, <1>c DEF Pop
  <2> QED
    BY <1>11, <2>3 DEF Return
<1>12. CASE Unload
  BY <1>12, <1>b, <1>d DEF Unload, Push
<1>13. CASE Load
  <2>1. PICK p \in ToSet(Modules) : Push(Call(p, 0, "start"))
    BY <1>13 DEF Load
  <2>2. Adds(stack')
    BY <2>1, <1>b, <1>d DEF Push
  <2> QED
    BY <1>13, <2>2 DEF Load
<1>14. CASE DispatchReader \/ ReadByte
  BY <1>14, <1>a DEF DispatchReader, ReadByte
<1>15. CASE QueueEmpty
  BY <1>15, <1>b DEF QueueEmpty, Push
<1>16. CASE \E w \in Workers : WorkerWrite(w)
  BY <1>16, <1>a DEF WorkerWrite
<1> QED
  BY <1>1, <1>2, <1>3, <1>4, <1>5, <1>6, <1>7, <1>8, <1>9, <1>10, <1>11, <1>12, <1>13,
     <1>14, <1>15, <1>16

LEMMA EmitStep ==
    ASSUME TypeOK, OrderInv, Emit
    PROVE  OrderInv' /\ UNCHANGED Mail
<1>1. PICK e \in Emissions : EmitUnregistered(e) \/ EmitNow(e) \/ EmitLater(e)
  BY DEF Emit
<1>2. e \in Emission /\ UNCHANGED queue
  BY EmissionsAssumption DEF Emit, threadVars
<1>3. CASE EmitUnregistered(e)
  BY <1>2, <1>3, AddsFrames, EmitOrder DEF EmitUnregistered
<1>4. CASE EmitNow(e)
  <2>1. NewSignal(e, "running") /\ UNCHANGED waiting
        /\ stack' = stack \o <<Drain, Send(Len(info) + 1, FirstRest(e.dest))>>
    BY <1>4 DEF EmitNow
  <2>2. Send(Len(info) + 1, FirstRest(e.dest)) \in Frames /\ Drain \in Frames
    BY <1>2, <2>1, NewSignalType, RestType, FrameTypes
  <2>3. Adds(stack')
    BY <2>1, <2>2, AddsFrames, FreshFrames
  <2> QED
    BY <1>2, <2>1, <2>3, EmitOrder
<1>5. CASE EmitLater(e)
  <2>1. Adds(stack')
    BY <1>5, AddsFrames, FrameTypes, FreshFrames DEF EmitLater, Push
  <2> QED
    BY <1>2, <1>5, <2>1, EmitOrder DEF EmitLater
<1> QED
  BY <1>1, <1>3, <1>4, <1>5

LEMMA OrderStep ==
    ASSUME TypeOK, OrderInv, [Next]_vars
    PROVE  OrderInv' /\ [M!Next]_Mail
<1>1. CASE UNCHANGED vars \/ Register
  <2>1. Quiet
    BY <1>1, AddsFrames, Idles DEF Quiet, sigVars, threadVars
  <2> QED
    BY <2>1, QuietOrder
<1>2. CASE \/ LoadModule \/ StartModule \/ BootFlush \/ Deliver \/ NextReceiver
           \/ UnknownDestination \/ EndSend \/ UseAfterFree \/ EndDrain
           \/ Event \/ Return \/ Unload \/ Load
           \/ DispatchReader \/ ReadByte \/ QueueEmpty
           \/ \E w \in Workers : WorkerWrite(w)
  BY <1>2, QuietSteps, QuietOrder
<1>3. CASE Emit
  BY <1>3, EmitStep
<1>4. CASE FlushNext
  BY <1>4, FlushNextOrder DEF M!Next
<1>5. CASE FlushEnd
  BY <1>5, FlushEndOrder
<1>6. CASE PopSignal
  BY <1>6, PopOrder
<1>7. ASSUME NEW w \in Workers, WorkerPush(w) PROVE OrderInv' /\ [M!Next]_Mail
  BY <1>7, PushOrder DEF M!Next
<1> QED
  BY <1>1, <1>2, <1>3, <1>4, <1>5, <1>6, <1>7 DEF Next

LEMMA OrderInit ==
    ASSUME Init
    PROVE  OrderInv /\ M!Init
<1>1. DOMAIN queue = {} /\ DOMAIN waiting = {} /\ DOMAIN stack = {} /\ DOMAIN info = {}
  BY EmptySeq, LenProperties DEF Init
<1>2. \A s \in SigIds : stage[s] = "unborn" /\ ~FromWorker(s)
  BY <1>1 DEF Init, FromWorker
<1>3. Queued /\ Waits /\ WaitsBeforeQueued
  BY <1>1, <1>2 DEF Queued, Waits, WaitsBeforeQueued
<1>4. M!Init
  BY <1>2 DEF M!Init, Box, Taken
<1> QED
  BY <1>1, <1>3, <1>4 DEF OrderInv

(* Threads hand their signals over as through a mailbox: each is begun     *)
(* once, and in the order of posting, whatever callbacks and flushes are   *)
(* nested in the GUI thread meanwhile (signal_emit_from_thread_full,       *)
(* thread_signal_test_chan and flush_queued_signals).                      *)
THEOREM Mails == Spec => ImplementsMailbox
<1>1. Init => OrderInv /\ M!Init
  BY OrderInit
<1>2. TypeOK /\ OrderInv /\ [Next]_vars => OrderInv' /\ [M!Next]_<<Box, Taken>>
  BY OrderStep DEF Mail
<1> QED
  BY <1>1, <1>2, TypeCorrect, PTL DEF Spec, ImplementsMailbox, M!Spec

-----------------------------------------------------------------------------
(***************************************************************************)
(* What keeps the GUI thread from using freed memory.  Orderly is what     *)
(* bus_orderly restricts and bus_full does not: no thread emits before the *)
(* main loop is entered, plugins are unloaded from a callback of the outer *)
(* main loop only, by others than themselves, and what is named as a       *)
(* destination is never unloaded.                                          *)
(***************************************************************************)

(* Two frames: no flush interrupts another, no signal is delivered twice.  *)
Apart(f, g) ==
    /\ ~(f.op = "flush" /\ g.op = "flush")
    /\ f.op = "send" /\ g.op = "send" => f.sig # g.sig
AllApart(t) == \A k, l \in DOMAIN t : k # l => Apart(t[k], t[l])

Manages(f) == f.op = "call" /\ f.why = "event" /\ f.plugin \in Managers

(* Nothing a frame points to was freed; who is being unloaded is so from   *)
(* an event of the outer main loop.                                        *)
Upright(t) ==
    \A k \in DOMAIN t :
        /\ ~t[k].stale
        /\ t[k].op = "call" /\ t[k].why = "destroy" =>
              /\ k = 2 /\ t[k].plugin \in Removable
              /\ Manages(t[1])

(* What is at the bottom of the stack t while gnu_gadu_init is at bt.      *)
Based(t, bt) ==
    /\ bt = "load" => t = <<>>
    /\ bt = "start" /\ t # <<>> => t[1].op = "call" /\ t[1].why = "start"
    /\ bt = "flush" => t # <<>> /\ t[1].op = "flush" /\ t[1].by = "boot"

(* A flush is gnu_gadu_init's or that of thread_signal_test_chan (rd).     *)
Owned(f, bt, rd) ==
    f.op = "flush" => IF f.by = "boot" THEN bt = "flush" ELSE bt = "loop" /\ rd = "flush"

Steady(t, bt, rd) ==
    /\ AllApart(t) /\ Upright(t) /\ Based(t, bt)
    /\ \A k \in DOMAIN t : Owned(t[k], bt, rd)

(* A sequence with another element at its end.                             *)
LEMMA Pushed ==
    ASSUME NEW S, NEW s \in Seq(S), NEW f \in S
    PROVE  /\ Append(s, f) \in Seq(S) /\ Append(s, f) # <<>>
           /\ Len(Append(s, f)) = Len(s) + 1 /\ Len(s) \in Nat
           /\ DOMAIN s = 1..Len(s) /\ DOMAIN Append(s, f) = 1..(Len(s) + 1)
           /\ Append(s, f)[Len(s) + 1] = f /\ Last(Append(s, f)) = f
           /\ \A i \in DOMAIN s : Append(s, f)[i] = s[i] /\ i \in DOMAIN Append(s, f) /\ i # Len(s) + 1
           /\ \A i \in DOMAIN Append(s, f) : i \in DOMAIN s \/ i = Len(s) + 1
<1>u. PICK u : u = Append(s, f)
  OBVIOUS
<1>1. /\ u \in Seq(S) /\ Len(u) = Len(s) + 1 /\ u[Len(s) + 1] = f
      /\ \A i \in 1..Len(s) : u[i] = s[i]
  BY <1>u, AppendProperties
<1>2. /\ DOMAIN s = 1..Len(s) /\ Len(s) \in Nat /\ DOMAIN u = 1..(Len(s) + 1)
  BY <1>1, LenProperties
<1>3. u # <<>> /\ Last(u) = f
  BY <1>1, <1>2, EmptySeq DEF Last
<1>4. \A i \in DOMAIN s : i \in DOMAIN u /\ i # Len(s) + 1
  BY <1>2
<1>5. \A i \in DOMAIN u : i \in DOMAIN s \/ i = Len(s) + 1
  BY <1>2
<1>6. \A i \in DOMAIN s : u[i] = s[i]
  BY <1>1, <1>2
<1> QED
  BY <1>u, <1>1, <1>2, <1>3, <1>4, <1>5, <1>6

(* A sequence without its last element.                                    *)
LEMMA Popped ==
    ASSUME NEW S, NEW s \in Seq(S), s # <<>>
    PROVE  /\ Front(s) \in Seq(S) /\ Len(Front(s)) = Len(s) - 1
           /\ Len(s) \in Nat \ {0} /\ Len(s) \in DOMAIN s /\ Last(s) = s[Len(s)] /\ Last(s) \in S
           /\ DOMAIN s = 1..Len(s) /\ DOMAIN Front(s) = 1..(Len(s) - 1)
           /\ \A i \in DOMAIN Front(s) : Front(s)[i] = s[i] /\ i \in DOMAIN s /\ i # Len(s)
           /\ \A i \in DOMAIN s : i \in DOMAIN Front(s) \/ i = Len(s)
<1>1. Len(s) \in Nat \ {0} /\ DOMAIN s = 1..Len(s)
  BY EmptySeq, LenProperties
<1>2. /\ Front(s) \in Seq(S) /\ Len(Front(s)) = Len(s) - 1 /\ Last(s) \in S
      /\ DOMAIN Front(s) = 1..(Len(s) - 1)
      /\ \A i \in 1..(Len(s) - 1) : Front(s)[i] = s[i]
  BY FrontLast
<1> QED
  BY <1>1, <1>2 DEF Last

LEMMA NoneIn ==
    ASSUME NEW S, NEW s \in Seq(S)
    PROVE  s = <<>> <=> DOMAIN s = {}
<1>1. Len(s) \in Nat /\ DOMAIN s = 1..Len(s)
  BY LenProperties
<1>2. Len(s) = 0 <=> DOMAIN s = {}
  <2>1. Len(s) # 0 => 1 \in DOMAIN s
    BY <1>1
  <2> QED
    BY <1>1, <2>1
<1>3. s = <<>> <=> Len(s) = 0
  BY EmptySeq
<1> QED
  BY <1>2, <1>3, Zenon

(* A frame is pushed.                                                      *)
LEMMA PushSteady ==
    ASSUME NEW t \in Seq(Frames), NEW f \in Frames, NEW bt, NEW rd, Steady(t, bt, rd),
           ~f.stale, Owned(f, bt, rd), \A k \in DOMAIN t : Apart(t[k], f),
           f.op = "call" /\ f.why = "destroy" =>
              /\ Len(t) = 1 /\ f.plugin \in Removable
              /\ Manages(t[1]),
           \/ t # <<>>
           \/ bt = "loop"
           \/ bt = "start" /\ f.op = "call" /\ f.why = "start"
    PROVE  Steady(Append(t, f), bt, rd)
<1> DEFINE u == Append(t, f)
<1>1. /\ Len(t) \in Nat /\ DOMAIN t = 1..Len(t) /\ DOMAIN u = 1..(Len(t) + 1)
      /\ u[Len(t) + 1] = f /\ u # <<>>
      /\ \A i \in DOMAIN t : u[i] = t[i] /\ i # Len(t) + 1
      /\ \A i \in DOMAIN u : i \in DOMAIN t \/ i = Len(t) + 1
  BY Pushed
<1> HIDE DEF u
<1>2. t # <<>> => 1 \in DOMAIN t
  <2>1. t # <<>> => Len(t) # 0
    BY EmptySeq
  <2> QED
    BY <2>1, <1>1
<1>3. AllApart(u)
  <2>1. \A k \in DOMAIN t : Apart(f, t[k])
    BY DEF Apart
  <2>2. \A k, l \in DOMAIN t : k # l => Apart(t[k], t[l])
    BY DEF Steady, AllApart
  <2> QED
    BY <1>1, <2>1, <2>2 DEF AllApart
<1>4. Upright(u)
  <2>1. ASSUME NEW k \in DOMAIN t
        PROVE  /\ ~u[k].stale
               /\ u[k].op = "call" /\ u[k].why = "destroy" =>
                     /\ k = 2 /\ u[k].plugin \in Removable
                     /\ Manages(u[1])
    <3>1. u[k] = t[k] /\ u[1] = t[1]
      BY <1>1
    <3> QED
      BY <3>1 DEF Steady, Upright
  <2>2. /\ ~u[Len(t) + 1].stale
        /\ f.op = "call" /\ f.why = "destroy" =>
              /\ Len(t) + 1 = 2 /\ f.plugin \in Removable
              /\ Manages(u[1])
    BY <1>1
  <2> QED
    BY <1>1, <2>1, <2>2 DEF Upright
<1>5. Based(u, bt)
  <2>1. CASE t # <<>>
    <3>1. u[1] = t[1]
      BY <2>1, <1>1, <1>2
    <3> QED
      BY <3>1, <2>1, <1>1 DEF Steady, Based
  <2>2. CASE t = <<>>
    <3>1. Len(t) = 0
      BY <2>2, EmptySeq
    <3>2. u[1] = f
      BY <3>1, <1>1
    <3> QED
      BY <2>2, <3>2 DEF Based
  <2> QED
    BY <2>1, <2>2
<1>6. \A k \in DOMAIN u : Owned(u[k], bt, rd)
  <2>1. \A k \in DOMAIN t : Owned(t[k], bt, rd)
    BY DEF Steady
  <2> QED
    BY <1>1, <2>1
<1> QED
  BY <1>3, <1>4, <1>5, <1>6 DEF Steady, u

(* The frame on top is popped.                                             *)
LEMMA PopSteady ==
    ASSUME NEW t \in Seq(Frames), t # <<>>, NEW bt, NEW rd, Steady(t, bt, rd)
    PROVE  /\ AllApart(Front(t)) /\ Upright(Front(t))
           /\ \A k \in DOMAIN Front(t) : Owned(Front(t)[k], bt, rd)
           /\ Last(t).op = "flush" => \A k \in DOMAIN Front(t) : Front(t)[k].op # "flush"
           /\ Last(t).op # "flush" => Steady(Front(t), bt, rd)
<1> DEFINE u == Front(t)
<1>1. /\ u \in Seq(Frames) /\ Len(t) \in Nat \ {0} /\ Len(t) \in DOMAIN t /\ Last(t) = t[Len(t)]
      /\ DOMAIN t = 1..Len(t) /\ DOMAIN u = 1..(Len(t) - 1)
      /\ \A i \in DOMAIN u : u[i] = t[i] /\ i \in DOMAIN t /\ i # Len(t)
  BY Popped
<1> HIDE DEF u
<1>2. AllApart(u)
  BY <1>1 DEF Steady, AllApart
<1>3. Upright(u)
  <2>1. ASSUME NEW k \in DOMAIN u
        PROVE  /\ ~u[k].stale
               /\ u[k].op = "call" /\ u[k].why = "destroy" =>
                     /\ k = 2 /\ u[k].plugin \in Removable
                     /\ Manages(u[1])
    <3>1. u[k] = t[k] /\ u[1] = t[1] /\ k \in DOMAIN t
      BY <1>1
    <3> QED
      BY <3>1 DEF Steady, Upright
  <2> QED
    BY <2>1 DEF Upright
<1>4. \A k \in DOMAIN u : Owned(u[k], bt, rd)
  BY <1>1 DEF Steady
<1>5. Last(t).op = "flush" => \A k \in DOMAIN u : u[k].op # "flush"
  BY <1>1 DEF Steady, AllApart, Apart
<1>6. ASSUME Last(t).op # "flush" PROVE Based(u, bt)
  <2>1. u # <<>> => 1 \in DOMAIN u
    <3>1. u # <<>> => DOMAIN u # {}
      BY <1>1, NoneIn
    <3> QED
      BY <3>1, <1>1
  <2>2. bt = "flush" => Len(t) # 1
    BY <1>1, <1>6 DEF Steady, Based
  <2>3. Len(t) # 1 => u # <<>>
    <3>1. Len(t) # 1 => 1 \in DOMAIN u
      BY <1>1
    <3> QED
      BY <3>1, <1>1, NoneIn
  <2>4. bt # "load"
    BY DEF Steady, Based
  <2> QED
    BY <1>1, <2>1, <2>2, <2>3, <2>4 DEF Steady, Based
<1> QED
  BY <1>2, <1>3, <1>4, <1>5, <1>6 DEF Steady, u

(* The frame on top goes on: a flush to another signal, a delivery to      *)
(* another receiver.                                                       *)
LEMMA BecomeSteady ==
    ASSUME NEW t \in Seq(Frames), t # <<>>, NEW bt, NEW rd, Steady(t, bt, rd), NEW g \in Frames,
           g.op = Last(t).op, g.op \in {"send", "flush"}, ~g.stale,
           g.op = "send" => g.sig = Last(t).sig, g.op = "flush" => g.by = Last(t).by
    PROVE  Steady(Append(Front(t), g), bt, rd)
<1> DEFINE u == Append(Front(t), g)
<1>1. /\ Front(t) \in Seq(Frames) /\ Len(t) \in Nat \ {0} /\ Last(t) = t[Len(t)]
      /\ Len(Front(t)) = Len(t) - 1 /\ Len(t) \in DOMAIN t /\ DOMAIN t = 1..Len(t)
      /\ \A i \in DOMAIN Front(t) : Front(t)[i] = t[i] /\ i \in DOMAIN t /\ i # Len(t)
  BY Popped
<1>2. /\ u \in Seq(Frames) /\ DOMAIN u = 1..((Len(t) - 1) + 1) /\ u[(Len(t) - 1) + 1] = g
      /\ \A i \in DOMAIN Front(t) : u[i] = Front(t)[i]
      /\ \A i \in DOMAIN u : i \in DOMAIN Front(t) \/ i = (Len(t) - 1) + 1
      /\ u # <<>>
  BY <1>1, Pushed
<1> HIDE DEF u
<1>3. /\ u[Len(t)] = g /\ DOMAIN u = DOMAIN t
      /\ \A i \in DOMAIN u : i # Len(t) => u[i] = t[i]
  BY <1>1, <1>2
<1>4. AllApart(u)
  <2>1. ASSUME NEW k \in DOMAIN t, k # Len(t) PROVE Apart(t[k], g) /\ Apart(g, t[k])
    <3>1. Apart(t[k], Last(t)) /\ Apart(Last(t), t[k])
      BY <2>1, <1>1 DEF Steady, AllApart
    <3> QED
      BY <3>1 DEF Apart
  <2>2. \A k, l \in DOMAIN t : k # l => Apart(t[k], t[l])
    BY DEF Steady, AllApart
  <2> QED
    BY <1>3, <2>1, <2>2 DEF AllApart
<1>5. Upright(u)
  <2>1. ASSUME NEW k \in DOMAIN u
        PROVE  /\ ~u[k].stale
               /\ u[k].op = "call" /\ u[k].why = "destroy" =>
                     /\ k = 2 /\ u[k].plugin \in Removable
                     /\ Manages(u[1])
    <3>1. CASE k = Len(t)
      BY <3>1, <1>3
    <3>2. CASE k # Len(t)
      <4>1. u[k] = t[k] /\ k \in DOMAIN t
        BY <3>2, <1>3
      <4>2. /\ ~t[k].stale
            /\ t[k].op = "call" /\ t[k].why = "destroy" =>
                  /\ k = 2 /\ t[k].plugin \in Removable
                  /\ Manages(t[1])
        BY <4>1 DEF Steady, Upright
      <4>3. k = 2 => u[1] = t[1]
        <5>1. k = 2 => 1 \in DOMAIN u /\ 1 # Len(t)
          BY <3>2, <4>1, <1>1, <1>3
        <5> QED
          BY <5>1, <1>3
      <4> QED
        BY <4>1, <4>2, <4>3
    <3> QED
      BY <3>1, <3>2
  <2> QED
    BY <2>1 DEF Upright
<1>6. Based(u, bt)
  <2>1. Len(t) = 1 => u[1] = g /\ t[1] = Last(t)
    BY <1>1, <1>3
  <2>2. Len(t) # 1 => u[1] = t[1]
    <3>1. 1 \in DOMAIN u
      BY <1>1, <1>3
    <3> QED
      BY <3>1, <1>3
  <2> QED
    BY <2>1, <2>2, <1>2 DEF Steady, Based
<1>7. \A k \in DOMAIN u : Owned(u[k], bt, rd)
  <2>1. \A k \in DOMAIN t : Owned(t[k], bt, rd)
    BY DEF Steady
  <2>2. Owned(g, bt, rd)
    BY <2>1, <1>1 DEF Owned
  <2> QED
    BY <1>3, <2>1, <2>2
<1> QED
  BY <1>4, <1>5, <1>6, <1>7 DEF Steady, u

(* The reader moves on, but not into or out of its flush.                  *)
LEMMA ReaderSteady ==
    ASSUME NEW t, NEW bt, NEW rd, NEW r, Steady(t, bt, rd), rd # "flush"
    PROVE  Steady(t, bt, r)
BY DEF Steady, Owned

-----------------------------------------------------------------------------
(* Deliveries.  What the frame f of do_signal still has to do and what it  *)
(* has done, when it delivers e and got are those who received it: a named *)
(* or matched destination is in rest or was served; a broadcast whose      *)
(* source is loaded has served the others up to the node its walk is at.   *)
(* A walk that is over, or whose source is not loaded, has nothing on top. *)
Behind(n, drain, src, ld) == {ld[i] : i \in 1..(IF drain THEN n ELSE n - 1)} \ {src}

Direct(f, e, got) ==
    /\ f.rest \cap got = {}
    /\ e.dest.kind = "name" => e.dest.who # {} /\ e.dest.who \subseteq f.rest \cup got

Wide(f, top, e, got, ld) ==
    /\ f.rest = {} => top /\ ~f.drain
    /\ ~top \/ f.drain => e.src \in ToSet(ld)
    /\ e.src \in ToSet(ld) =>
         IF f.rest = {}
         THEN ToSet(ld) \ {e.src} \subseteq got
         ELSE \E n \in DOMAIN ld : f.rest = {ld[n]} /\ got = Behind(n, f.drain, e.src, ld)

Serves(f, top, e, got, ld) ==
    IF e.dest.kind = "all" THEN Wide(f, top, e, got, ld) ELSE Direct(f, e, got)

Sends(f, top, inf, stg, sn, ld) ==
    f.op = "send" => /\ f.sig \in DOMAIN inf /\ stg[f.sig] = "running"
                     /\ Serves(f, top, inf[f.sig], sn[f.sig], ld)

Sending(t, inf, stg, sn, ld) ==
    \A k \in DOMAIN t : Sends(t[k], k = Len(t), inf, stg, sn, ld)

(* Another frame may come on top of f.                                     *)
Coverable(f, inf) == f.op = "send" => f.drain \/ inf[f.sig].dest.kind # "all"

LEMMA CoverSends ==
    ASSUME NEW f, NEW inf, NEW stg, NEW sn, NEW ld
    PROVE  /\ Sends(f, TRUE, inf, stg, sn, ld) /\ Coverable(f, inf) => Sends(f, FALSE, inf, stg, sn, ld)
           /\ Sends(f, FALSE, inf, stg, sn, ld) => Sends(f, TRUE, inf, stg, sn, ld)
BY DEF Sends, Coverable, Serves, Wide

LEMMA PushSending ==
    ASSUME NEW t \in Seq(Frames), NEW f \in Frames, NEW inf, NEW stg, NEW sn, NEW ld,
           Sending(t, inf, stg, sn, ld), t # <<>> => Coverable(Last(t), inf),
           Sends(f, TRUE, inf, stg, sn, ld)
    PROVE  Sending(Append(t, f), inf, stg, sn, ld)
<1> DEFINE u == Append(t, f)
<1>1. /\ Len(t) \in Nat /\ DOMAIN t = 1..Len(t) /\ Len(u) = Len(t) + 1
      /\ u[Len(t) + 1] = f
      /\ \A i \in DOMAIN t : u[i] = t[i] /\ i # Len(t) + 1
      /\ \A i \in DOMAIN u : i \in DOMAIN t \/ i = Len(t) + 1
  BY Pushed
<1> HIDE DEF u
<1>2. ASSUME NEW k \in DOMAIN t PROVE Sends(t[k], FALSE, inf, stg, sn, ld)
  <2>1. Sends(t[k], k = Len(t), inf, stg, sn, ld)
    BY DEF Sending
  <2>2. CASE k = Len(t)
    <3>1. t # <<>> /\ Last(t) = t[k]
      BY <2>2, NoneIn DEF Last
    <3>2. Sends(t[k], TRUE, inf, stg, sn, ld)
      BY <2>1, <2>2
    <3> QED
      BY <3>1, <3>2, CoverSends
  <2>3. CASE k # Len(t)
    <3>1. (k = Len(t)) = FALSE
      BY <2>3
    <3> QED
      BY <2>1, <3>1
  <2> QED
    BY <2>2, <2>3
<1>3. ASSUME NEW k \in DOMAIN u PROVE Sends(u[k], k = Len(u), inf, stg, sn, ld)
  <2>1. CASE k \in DOMAIN t
    <3>1. u[k] = t[k] /\ (k = Len(u)) = FALSE
      BY <2>1, <1>1
    <3> QED
      BY <3>1, <2>1, <1>2
  <2>2. CASE k = Len(t) + 1
    <3>1. u[k] = f /\ (k = Len(u)) = TRUE
      BY <2>2, <1>1
    <3> QED
      BY <3>1
  <2> QED
    BY <1>1, <2>1, <2>2
<1> QED
  BY <1>3 DEF Sending, u

(* What happens to the signal on top does not matter to those below.       *)
Below(t, stg, sn, stg2, sn2) ==
    \A k \in DOMAIN Front(t) : t[k].op = "send" =>
        stg2[t[k].sig] = stg[t[k].sig] /\ sn2[t[k].sig] = sn[t[k].sig]

LEMMA FrontSending ==
    ASSUME NEW t \in Seq(Frames), t # <<>>, NEW inf, NEW stg, NEW sn, NEW ld, NEW stg2, NEW sn2,
           Sending(t, inf, stg, sn, ld), Below(t, stg, sn, stg2, sn2)
    PROVE  \A k \in DOMAIN Front(t) : Sends(t[k], FALSE, inf, stg2, sn2, ld)
<1>1. ASSUME NEW k \in DOMAIN Front(t) PROVE Sends(t[k], FALSE, inf, stg2, sn2, ld)
  <2>1. k \in DOMAIN t /\ (k = Len(t)) = FALSE
    BY Popped
  <2>2. Sends(t[k], FALSE, inf, stg, sn, ld)
    BY <2>1 DEF Sending
  <2>3. t[k].op = "send" => stg2[t[k].sig] = stg[t[k].sig] /\ sn2[t[k].sig] = sn[t[k].sig]
    BY DEF Below
  <2> QED
    BY <2>2, <2>3 DEF Sends
<1> QED
  BY <1>1

LEMMA PopSending ==
    ASSUME NEW t \in Seq(Frames), t # <<>>, NEW inf, NEW stg, NEW sn, NEW ld, NEW stg2, NEW sn2,
           Sending(t, inf, stg, sn, ld), Below(t, stg, sn, stg2, sn2)
    PROVE  Sending(Front(t), inf, stg2, sn2, ld)
<1>1. ASSUME NEW k \in DOMAIN Front(t)
      PROVE  Sends(Front(t)[k], k = Len(Front(t)), inf, stg2, sn2, ld)
  <2>1. Sends(t[k], FALSE, inf, stg2, sn2, ld) /\ Front(t)[k] = t[k]
    BY FrontSending, Popped
  <2>2. Sends(Front(t)[k], TRUE, inf, stg2, sn2, ld) /\ Sends(Front(t)[k], FALSE, inf, stg2, sn2, ld)
    BY <2>1, CoverSends
  <2>3. (k = Len(Front(t))) = TRUE \/ (k = Len(Front(t))) = FALSE
    OBVIOUS
  <2> QED
    BY <2>2, <2>3
<1> QED
  BY <1>1 DEF Sending

LEMMA BecomeSending ==
    ASSUME NEW t \in Seq(Frames), t # <<>>, NEW inf, NEW stg, NEW sn, NEW ld, NEW stg2, NEW sn2,
           Sending(t, inf, stg, sn, ld), Below(t, stg, sn, stg2, sn2),
           NEW g \in Frames, Sends(g, TRUE, inf, stg2, sn2, ld)
    PROVE  Sending(Append(Front(t), g), inf, stg2, sn2, ld)
<1> DEFINE v == Front(t)
           u == Append(v, g)
<1>1. v \in Seq(Frames) /\ \A k \in DOMAIN v : v[k] = t[k] /\ Sends(t[k], FALSE, inf, stg2, sn2, ld)
  BY FrontSending, Popped
<1> HIDE DEF v
<1>2. /\ Len(v) \in Nat /\ DOMAIN v = 1..Len(v) /\ Len(u) = Len(v) + 1
      /\ u[Len(v) + 1] = g
      /\ \A i \in DOMAIN v : u[i] = v[i] /\ i # Len(v) + 1
      /\ \A i \in DOMAIN u : i \in DOMAIN v \/ i = Len(v) + 1
  BY <1>1, Pushed
<1> HIDE DEF u
<1>3. ASSUME NEW k \in DOMAIN u PROVE Sends(u[k], k = Len(u), inf, stg2, sn2, ld)
  <2>1. CASE k \in DOMAIN v
    <3>1. u[k] = t[k] /\ (k = Len(u)) = FALSE
      BY <2>1, <1>1, <1>2
    <3> QED
      BY <3>1, <2>1, <1>1
  <2>2. CASE k = Len(v) + 1
    <3>1. u[k] = g /\ (k = Len(u)) = TRUE
      BY <2>2, <1>2
    <3> QED
      BY <3>1
  <2> QED
    BY <1>2, <2>1, <2>2
<1> QED
  BY <1>3 DEF Sending, u, v

(* The signals of the frames are as they were.                             *)
LEMMA SameSending ==
    ASSUME NEW t, NEW inf, NEW stg, NEW sn, NEW ld, NEW inf2, NEW stg2, NEW sn2,
           Sending(t, inf, stg, sn, ld),
           \A s \in DOMAIN inf : stg[s] = "running" =>
              s \in DOMAIN inf2 /\ inf2[s] = inf[s] /\ stg2[s] = stg[s] /\ sn2[s] = sn[s]
    PROVE  Sending(t, inf2, stg2, sn2, ld)
BY DEF Sending, Sends

(* A plugin is loaded while no delivery is on top.                         *)
LEMMA LoadSending ==
    ASSUME NEW t \in Seq(Frames), NEW inf, NEW stg, NEW sn, NEW ld \in Seq(Plugins), NEW p \in Plugins,
           Sending(t, inf, stg, sn, ld), t # <<>>, Last(t).op # "send"
    PROVE  Sending(t, inf, stg, sn, Append(ld, p))
<1> DEFINE ld2 == Append(ld, p)
<1>1. /\ DOMAIN ld = 1..Len(ld) /\ Len(ld) \in Nat
      /\ \A i \in DOMAIN ld : ld2[i] = ld[i] /\ i \in DOMAIN ld2
  BY Pushed
<1> HIDE DEF ld2
<1>2. ToSet(ld) \subseteq ToSet(ld2)
  BY <1>1 DEF ToSet
<1>3. ASSUME NEW n \in DOMAIN ld, NEW drain \in BOOLEAN, NEW src
      PROVE  Behind(n, drain, src, ld2) = Behind(n, drain, src, ld)
  <2>1. \A i \in 1..(IF drain THEN n ELSE n - 1) : i \in DOMAIN ld
    BY <1>1
  <2> QED
    BY <2>1, <1>1 DEF Behind
<1>4. ASSUME NEW k \in DOMAIN t PROVE Sends(t[k], k = Len(t), inf, stg, sn, ld2)
  <2>1. t[k] \in Frames /\ (t[k].op = "send" => t[k].drain \in BOOLEAN)
    BY ElementOfSeq DEF Frames
  <2>2. t[k].op = "send" => (k = Len(t)) = FALSE
    BY DEF Last
  <2>3. Sends(t[k], k = Len(t), inf, stg, sn, ld)
    BY DEF Sending
  <2>4. ASSUME NEW e, NEW got, t[k].op = "send", Wide(t[k], FALSE, e, got, ld)
        PROVE  Wide(t[k], FALSE, e, got, ld2)
    BY <2>1, <2>4, <1>1, <1>2, <1>3 DEF Wide
  <2> QED
    BY <2>2, <2>3, <2>4 DEF Sends, Serves
<1> QED
  BY <1>4 DEF Sending, ld2

-----------------------------------------------------------------------------
(* The walk of a broadcast over loaded_plugins.                            *)

LEMMA Walks ==
    ASSUME TypeOK, IsInjective(loaded)
    PROVE  /\ \A n \in DOMAIN loaded :
                /\ Foremost({loaded[n]}) = {loaded[n]}
                /\ n + 1 \in DOMAIN loaded => NextNode(loaded[n]) = {loaded[n + 1]}
                /\ n + 1 \notin DOMAIN loaded => NextNode(loaded[n]) = {}
           /\ Loaded # {} => 1 \in DOMAIN loaded /\ Foremost(Loaded) = {loaded[1]}
<1>1. DOMAIN loaded = 1..Len(loaded) /\ Len(loaded) \in Nat
  BY LenProperties DEF TypeOK
<1>2. \A i, j \in DOMAIN loaded : loaded[i] = loaded[j] => i = j
  BY DEF IsInjective
<1>3. \A i, j \in DOMAIN loaded : Before(loaded[i], loaded[j]) <=> i < j
  BY <1>2 DEF Before
<1>4. Loaded = {loaded[i] : i \in DOMAIN loaded}
  BY DEF Loaded, ToSet
<1>5. ASSUME NEW n \in DOMAIN loaded PROVE Foremost({loaded[n]}) = {loaded[n]}
  BY <1>1, <1>3 DEF Foremost
<1>6. ASSUME NEW n \in DOMAIN loaded
      PROVE  /\ n + 1 \in DOMAIN loaded => NextNode(loaded[n]) = {loaded[n + 1]}
             /\ n + 1 \notin DOMAIN loaded => NextNode(loaded[n]) = {}
  <2>1. {q \in Loaded : Before(loaded[n], q)} = {loaded[i] : i \in {j \in DOMAIN loaded : n < j}}
    BY <1>3, <1>4
  <2>2. CASE n + 1 \in DOMAIN loaded
    <3> DEFINE ps == {loaded[i] : i \in {j \in DOMAIN loaded : n < j}}
    <3>1. loaded[n + 1] \in ps
      BY <1>1, <2>2
    <3>2. \A i \in DOMAIN loaded : n < i => ~(i < n + 1)
      BY <1>1
    <3>3. \A q \in ps : ~Before(q, loaded[n + 1])
      BY <1>3, <2>2, <3>2
    <3>4. ASSUME NEW p \in ps, p # loaded[n + 1] PROVE Before(loaded[n + 1], p)
      <4>1. PICK i \in DOMAIN loaded : n < i /\ p = loaded[i]
        OBVIOUS
      <4>2. i # n + 1
        BY <3>4, <4>1
      <4>3. n + 1 < i
        BY <1>1, <4>1, <4>2
      <4> QED
        BY <4>1, <4>3, <1>3, <2>2
    <3> HIDE DEF ps
    <3>5. Foremost(ps) = {loaded[n + 1]}
      BY <3>1, <3>3, <3>4 DEF Foremost
    <3> QED
      BY <2>1, <2>2, <3>5 DEF NextNode, ps
  <2>3. CASE n + 1 \notin DOMAIN loaded
    <3>1. {j \in DOMAIN loaded : n < j} = {}
      BY <1>1, <2>3
    <3>2. {q \in Loaded : Before(loaded[n], q)} = {}
      BY <2>1, <3>1
    <3> QED
      BY <2>3, <3>2 DEF NextNode, Foremost
  <2> QED
    BY <2>2, <2>3
<1>7. ASSUME Loaded # {} PROVE 1 \in DOMAIN loaded /\ Foremost(Loaded) = {loaded[1]}
  <2>1. DOMAIN loaded # {}
    BY <1>4, <1>7
  <2>2. 1 \in DOMAIN loaded
    BY <1>1, <2>1
  <2>3. \A q \in Loaded : ~Before(q, loaded[1])
    BY <1>1, <1>3, <1>4, <2>2
  <2>4. ASSUME NEW p \in Loaded, p # loaded[1] PROVE Before(loaded[1], p)
    <3>1. PICK i \in DOMAIN loaded : p = loaded[i]
      BY <1>4
    <3>2. 1 < i
      BY <1>1, <2>4, <3>1
    <3> QED
      BY <3>1, <3>2, <2>2, <1>3
  <2> QED
    BY <1>4, <2>2, <2>3, <2>4 DEF Foremost
<1> QED
  BY <1>5, <1>6, <1>7

-----------------------------------------------------------------------------
(* The invariant.                                                          *)

(* Threads are silent before the main loop; the reader that pops signals   *)
(* was dispatched where the thread drains the main loop.                   *)
Reading(t, bt, rd, q, unread, wr) ==
    /\ bt # "loop" => rd = "idle" /\ q = <<>> /\ unread = 0 /\ \A w \in Workers : wr[w] = 0
    /\ rd \in {"pop", "read"} /\ t # <<>> =>
          Last(t).op = "drain" \/ (Last(t).op = "send" /\ Last(t).drain)

(* No node is twice in loaded_plugins, and what gnu_gadu_init loaded is    *)
(* there as long as it may not be unloaded.                                *)
Plugged(ld, bt, all) ==
    /\ IsInjective(ld)
    /\ bt = "load" => /\ Len(ld) <= Len(Modules)
                      /\ \A i \in DOMAIN ld : ld[i] = Modules[i]
    /\ bt \in {"start", "flush"} => ToSet(Modules) \subseteq ToSet(ld)
    /\ bt = "loop" => ToSet(Modules) \ Removable \subseteq ToSet(ld)
    /\ all <=> bt = "loop"

(* What is on the waiting list waits, or the flush has passed it.          *)
Passed(t, i) == \E k \in DOMAIN t : t[k].op = "flush" /\ i <= t[k].pos
Listed(t, ws, stg, bt, rd) ==
    /\ \A i, j \in DOMAIN ws : ws[i] = ws[j] => i = j
    /\ \A i \in DOMAIN ws : stg[ws[i]] = "waiting" \/ Passed(t, i)
    /\ \A s \in SigIds : stg[s] = "waiting" => \E i \in DOMAIN ws : ws[i] = s
    /\ bt = "loop" /\ rd = "idle" => ws = <<>>

(* A signal that runs has its frame, one that ended was freed, and nobody  *)
(* has received one that has not begun.                                    *)
Carried(t, s) == \E k \in DOMAIN t : t[k].op = "send" /\ t[k].sig = s
Begun(t, inf, stg, pl, sn) ==
    /\ \A s \in SigIds : stg[s] = "running" => Carried(t, s)
    /\ \A s \in SigIds : stg[s] = "ended" => pl[s] = "freed"
    /\ \A s \in SigIds : s \notin DOMAIN inf \/ stg[s] \in {"queue", "waiting"} => sn[s] = {}
    /\ \A s \in DOMAIN inf : inf[s] \in Emissions \cup WorkerEmissions

CalmInv ==
    /\ fault = "none"
    /\ Steady(stack, boot, reader)
    /\ Reading(stack, boot, reader, queue, pipe, writer)
    /\ Plugged(loaded, boot, allLoaded)
    /\ Listed(stack, waiting, stage, boot, reader)
    /\ Sending(stack, info, stage, seen, loaded)
    /\ Begun(stack, info, stage, payload, seen)

LEMMA TwoPushed ==
    ASSUME NEW S, NEW s \in Seq(S), NEW f \in S, NEW g \in S
    PROVE  s \o <<f, g>> = Append(Append(s, f), g)
<1>1. <<f>> \in Seq(S) /\ <<g>> \in Seq(S) /\ <<f, g>> = <<f>> \o <<g>>
  <2>1. <<f>> \in Seq(S) /\ <<g>> \in Seq(S) /\ <<f, g>> \in Seq(S)
    OBVIOUS
  <2>2. PICK u : u = <<f>> \o <<g>>
    OBVIOUS
  <2>3. /\ Len(<<f>>) = 1 /\ Len(<<g>>) = 1 /\ Len(<<f, g>>) = 2
        /\ <<f, g>>[1] = f /\ <<f, g>>[2] = g
    OBVIOUS
  <2>4. u \in Seq(S) /\ Len(u) = 2 /\ u[1] = f /\ u[2] = g
    BY <2>1, <2>2, <2>3, ConcatProperties
  <2>5. \A i \in 1..2 : i = 1 \/ i = 2
    OBVIOUS
  <2>6. \A i \in 1..2 : u[i] = <<f, g>>[i]
    BY <2>3, <2>4, <2>5
  <2>7. u = <<f, g>>
    BY <2>1, <2>3, <2>4, <2>6, SeqEqual
  <2> QED
    BY <2>1, <2>2, <2>7
<1>2. Append(s, f) = s \o <<f>> /\ Append(s, f) \in Seq(S)
  BY AppendIsConcat, AppendProperties
<1>3. Append(Append(s, f), g) = (s \o <<f>>) \o <<g>>
  BY <1>2, AppendIsConcat
<1>4. (s \o <<f>>) \o <<g>> = s \o (<<f>> \o <<g>>)
  BY <1>1, ConcatAssociative
<1> QED
  BY <1>1, <1>3, <1>4

(* What the frames the actions build are.                                  *)
LEMMA PlainFrames ==
    /\ \A p, s, why : /\ Call(p, s, why).op = "call" /\ ~Call(p, s, why).stale
                      /\ Call(p, s, why).why = why /\ Call(p, s, why).plugin = p
    /\ \A s, r : /\ Send(s, r).op = "send" /\ ~Send(s, r).stale /\ Send(s, r).sig = s
                 /\ Send(s, r).rest = r /\ ~Send(s, r).drain
    /\ \A by : /\ Flush(by).op = "flush" /\ ~Flush(by).stale
               /\ Flush(by).by = by /\ Flush(by).pos = 0
    /\ Drain.op = "drain" /\ ~Drain.stale
BY DEF Call, Send, Flush, Drain

LEMMA SendFields ==
    ASSUME NEW f \in Frames, f.op = "send"
    PROVE  /\ f.drain \in BOOLEAN
           /\ LET g == [f EXCEPT !.drain = TRUE]
              IN  g.op = "send" /\ g.sig = f.sig /\ g.rest = f.rest /\ g.drain = TRUE /\ g.stale = f.stale
           /\ \A p : LET g == [f EXCEPT !.rest = @ \ {p}]
                     IN  g.op = "send" /\ g.sig = f.sig /\ g.rest = f.rest \ {p} /\ g.drain = f.drain
                         /\ g.stale = f.stale
           /\ \A r : LET g == [f EXCEPT !.drain = FALSE, !.rest = r]
                     IN  g.op = "send" /\ g.sig = f.sig /\ g.rest = r /\ g.drain = FALSE
                         /\ g.stale = f.stale
<1>1. f \in [op : {"send"}, sig : SigIds, rest : SUBSET Plugins, drain : BOOLEAN, stale : BOOLEAN]
  BY DEF Frames
<1> QED
  BY <1>1

LEMMA FlushFields ==
    ASSUME NEW f \in Frames, f.op = "flush"
    PROVE  LET g == [f EXCEPT !.pos = @ + 1]
           IN  g.op = "flush" /\ g.by = f.by /\ g.pos = f.pos + 1 /\ g.stale = f.stale
<1>1. f \in [op : {"flush"}, by : {"boot", "thread"}, pos : Nat, stale : BOOLEAN]
  BY DEF Frames
<1> QED
  BY <1>1

(* The frame on top.                                                       *)
LEMMA CalmTop ==
    ASSUME TypeOK, CalmInv, stack # <<>>
    PROVE  /\ Top \in Frames /\ Top = stack[Len(stack)] /\ Len(stack) \in DOMAIN stack
           /\ ~Top.stale /\ Owned(Top, boot, reader)
           /\ Sends(Top, TRUE, info, stage, seen, loaded)
           /\ Top.op = "call" /\ Top.why = "destroy" =>
                 /\ Len(stack) = 2 /\ Top.plugin \in Removable
                 /\ Manages(stack[1])
           /\ boot # "load"
<1>1. Top \in Frames /\ Top = stack[Len(stack)] /\ Len(stack) \in DOMAIN stack
  BY Popped DEF TypeOK, Top
<1>2. Sends(stack[Len(stack)], Len(stack) = Len(stack), info, stage, seen, loaded)
  BY <1>1 DEF CalmInv, Sending
<1>3. Sends(Top, TRUE, info, stage, seen, loaded)
  BY <1>1, <1>2
<1>4. ~Top.stale /\ Owned(Top, boot, reader)
  BY <1>1 DEF CalmInv, Steady, Upright
<1>5. Top.op = "call" /\ Top.why = "destroy" =>
         /\ Len(stack) = 2 /\ Top.plugin \in Removable
         /\ Manages(stack[1])
  BY <1>1 DEF CalmInv, Steady, Upright
<1>6. boot # "load"
  BY DEF CalmInv, Steady, Based
<1> QED
  BY <1>1, <1>3, <1>4, <1>5, <1>6

(* No step fails: a delivery on top has not ended, a named destination was *)
(* there, and a flush comes to signals that wait.                          *)
LEMMA NoneFails ==
    ASSUME TypeOK, OrderInv, CalmInv
    PROVE  /\ ~UseAfterFree /\ ~UnknownDestination
           /\ TopIs("flush") /\ Top.pos < Len(waiting) =>
                 /\ Top.pos + 1 \in DOMAIN waiting /\ waiting[Top.pos + 1] \in SigIds
                 /\ waiting[Top.pos + 1] \in DOMAIN info
                 /\ stage[waiting[Top.pos + 1]] = "waiting"
<1>1. ~UseAfterFree
  BY CalmTop DEF UseAfterFree, Sends
<1>2. ASSUME UnknownDestination PROVE FALSE
  <2>1. /\ stack # <<>> /\ Top.op = "send" /\ Top.rest = {} /\ seen[Top.sig] = {}
        /\ info[Top.sig].dest.kind = "name"
    BY <1>2 DEF UnknownDestination, TopIs
  <2>2. Direct(Top, info[Top.sig], seen[Top.sig])
    BY <2>1, CalmTop DEF Sends, Serves
  <2> QED
    BY <2>1, <2>2 DEF Direct
<1>3. ASSUME TopIs("flush"), Top.pos < Len(waiting)
      PROVE  /\ Top.pos + 1 \in DOMAIN waiting /\ waiting[Top.pos + 1] \in SigIds
             /\ waiting[Top.pos + 1] \in DOMAIN info
             /\ stage[waiting[Top.pos + 1]] = "waiting"
  <2>1. stack # <<>> /\ Top.op = "flush" /\ Top \in Frames /\ Top.pos \in Nat
        /\ Top = stack[Len(stack)] /\ Len(stack) \in DOMAIN stack
    BY <1>3, CalmTop, FrameUpdates DEF TopIs
  <2>2. /\ Top.pos + 1 \in DOMAIN waiting /\ waiting[Top.pos + 1] \in SigIds
        /\ waiting[Top.pos + 1] \in DOMAIN info
    BY <1>3, <2>1, Numbers
  <2>3. ASSUME Passed(stack, Top.pos + 1) PROVE FALSE
    <3>1. PICK k \in DOMAIN stack : stack[k].op = "flush" /\ Top.pos + 1 <= stack[k].pos
      BY <2>3 DEF Passed
    <3>2. k = Len(stack)
      BY <2>1, <3>1 DEF CalmInv, Steady, AllApart, Apart
    <3> QED
      BY <2>1, <3>1, <3>2
  <2> QED
    BY <2>2, <2>3 DEF CalmInv, Listed
<1> QED
  BY <1>1, <1>2, <1>3

-----------------------------------------------------------------------------
(* What the steps that change more than the top of the stack do to it.     *)

LEMMA EmitNowForm ==
    ASSUME TypeOK, NEW e \in Emissions, EmitNow(e)
    PROVE  \E f \in Frames :
              /\ f = Send(Len(info) + 1, FirstRest(e.dest))
              /\ f.op = "send" /\ ~f.stale /\ f.sig = Len(info) + 1
              /\ Len(info) + 1 \in SigIds /\ Len(info) + 1 \notin DOMAIN info
              /\ Drain \in Frames /\ stack' = Append(Append(stack, Drain), f)
<1>1. PICK f : f = Send(Len(info) + 1, FirstRest(e.dest))
  OBVIOUS
<1>2. e \in Emission
  BY EmissionsAssumption
<1>3. NewSignal(e, "running") /\ stack' = stack \o <<Drain, f>>
  BY <1>1 DEF EmitNow
<1>4. f \in Frames /\ f.op = "send" /\ ~f.stale /\ f.sig = Len(info) + 1 /\ Drain \in Frames
  BY <1>1, <1>2, <1>3, NewSignalType, RestType, FrameTypes, PlainFrames
<1>5. Len(info) + 1 \in SigIds /\ Len(info) + 1 \notin DOMAIN info
  BY <1>2, <1>3, NewNumber
<1>6. stack \in Seq(Frames)
  BY DEF TypeOK
<1>7. stack' = Append(Append(stack, Drain), f)
  BY <1>3, <1>4, <1>6, TwoPushed
<1> QED
  BY <1>1, <1>4, <1>5, <1>7

LEMMA DeliverForm ==
    ASSUME TypeOK, Deliver
    PROVE  LET wide == info[Top.sig].dest.kind = "all"
           IN  /\ stack # <<>> /\ Top \in Frames /\ Top.op = "send" /\ ~Top.drain /\ Top.sig \in SigIds
               /\ wide => info[Top.sig].src \in Loaded
               /\ UNCHANGED <<boot, loaded, allLoaded, reader, waiting, info, stage, payload>>
               /\ \E p \in Foremost(Top.rest), on \in Frames, g \in Frames :
                     /\ on.op = "send" /\ on.sig = Top.sig /\ ~on.stale /\ (on.drain <=> wide)
                     /\ on.rest = IF wide THEN Top.rest ELSE Top.rest \ {p}
                     /\ p \in Plugins /\ g = Call(p, Top.sig, "receive")
                     /\ IF wide /\ p = info[Top.sig].src
                        THEN stack' = Append(Front(stack), on) /\ seen' = seen
                        ELSE /\ stack' = Append(Append(Front(stack), on), g)
                             /\ seen' = [seen EXCEPT ![Top.sig] = @ \cup {p}]
<1> DEFINE wide == info[Top.sig].dest.kind = "all"
<1>1. PICK p \in Foremost(Top.rest) :
         LET on == IF wide THEN [Top EXCEPT !.drain = TRUE] ELSE [Top EXCEPT !.rest = @ \ {p}]
         IN  IF wide /\ p = info[Top.sig].src
             THEN Become(on) /\ UNCHANGED seen
             ELSE /\ stack' = Front(stack) \o <<on, Call(p, Top.sig, "receive")>>
                  /\ seen' = [seen EXCEPT ![Top.sig] = @ \cup {p}]
  BY DEF Deliver
<1>2. PICK on : on = IF wide THEN [Top EXCEPT !.drain = TRUE] ELSE [Top EXCEPT !.rest = @ \ {p}]
  OBVIOUS
<1>3. PICK g : g = Call(p, Top.sig, "receive")
  OBVIOUS
<1>4. /\ stack # <<>> /\ Top.op = "send" /\ ~Top.stale /\ ~Top.drain /\ (wide => info[Top.sig].src \in Loaded)
      /\ UNCHANGED <<boot, loaded, allLoaded, reader, waiting, info, stage, payload>>
  BY DEF Deliver, TopIs, pluginVars, threadVars
<1>5. Top \in Frames /\ Top.sig \in SigIds /\ p \in Plugins /\ Front(stack) \in Seq(Frames)
  BY <1>4, StackTop, FrameUpdates DEF Foremost
<1>6. on \in Frames
  BY <1>2, <1>4, <1>5, FrameUpdates
<1>7. /\ on.op = "send" /\ on.sig = Top.sig /\ ~on.stale /\ (on.drain <=> wide)
      /\ on.rest = IF wide THEN Top.rest ELSE Top.rest \ {p}
  <2>1. CASE wide
    <3>1. on.op = "send" /\ on.sig = Top.sig /\ on.stale = Top.stale /\ on.drain = TRUE /\ on.rest = Top.rest
      BY <1>2, <1>4, <1>5, <2>1, SendFields
    <3> QED
      BY <3>1, <1>4, <2>1
  <2>2. CASE ~wide
    <3>1. on.op = "send" /\ on.sig = Top.sig /\ on.stale = Top.stale /\ on.drain = Top.drain
          /\ on.rest = Top.rest \ {p}
      BY <1>2, <1>4, <1>5, <2>2, SendFields
    <3> QED
      BY <3>1, <1>4, <2>2
  <2> QED
    BY <2>1, <2>2
<1>8. g \in Frames
  BY <1>3, <1>5, FrameTypes, BoundsAssumption DEF SigIds
<1>9. Front(stack) \o <<on, g>> = Append(Append(Front(stack), on), g)
  BY <1>5, <1>6, <1>8, TwoPushed
<1>10. IF wide /\ p = info[Top.sig].src
       THEN stack' = Append(Front(stack), on) /\ seen' = seen
       ELSE /\ stack' = Append(Append(Front(stack), on), g)
            /\ seen' = [seen EXCEPT ![Top.sig] = @ \cup {p}]
  BY <1>1, <1>2, <1>3, <1>9 DEF Become
<1> QED
  BY <1>3, <1>4, <1>5, <1>6, <1>7, <1>8, <1>10

LEMMA NextForm ==
    ASSUME TypeOK, NextReceiver
    PROVE  /\ stack # <<>> /\ Top \in Frames /\ Top.op = "send" /\ info[Top.sig].dest.kind = "all"
           /\ Top.drain \/ info[Top.sig].src \notin Loaded
           /\ UNCHANGED <<boot, loaded, allLoaded, reader, waiting, info, stage, payload, seen>>
           /\ \E p \in Top.rest, on \in Frames :
                 /\ on.op = "send" /\ on.sig = Top.sig /\ ~on.stale /\ ~on.drain
                 /\ on.rest = NextNode(p) /\ stack' = Append(Front(stack), on)
<1>1. PICK p \in Top.rest : Become([Top EXCEPT !.drain = FALSE, !.rest = NextNode(p)])
  BY DEF NextReceiver
<1>2. PICK on : on = [Top EXCEPT !.drain = FALSE, !.rest = NextNode(p)]
  OBVIOUS
<1>3. /\ stack # <<>> /\ Top.op = "send" /\ ~Top.stale /\ info[Top.sig].dest.kind = "all"
      /\ Top.drain \/ info[Top.sig].src \notin Loaded
      /\ UNCHANGED <<boot, loaded, allLoaded, reader, waiting, info, stage, payload, seen>>
  BY DEF NextReceiver, TopIs, pluginVars, sigVars, threadVars
<1>4. Top \in Frames
  BY <1>3, StackTop
<1>5. on \in Frames
  BY <1>2, <1>3, <1>4, RestType, FrameUpdates
<1>6. on.op = "send" /\ on.sig = Top.sig /\ on.stale = Top.stale /\ on.drain = FALSE /\ on.rest = NextNode(p)
  BY <1>2, <1>3, <1>4, SendFields
<1> QED
  BY <1>1, <1>2, <1>3, <1>4, <1>5, <1>6 DEF Become

LEMMA FlushNextForm ==
    ASSUME TypeOK, OrderInv, CalmInv, FlushNext
    PROVE  /\ stack # <<>> /\ Top \in Frames /\ Top.op = "flush"
           /\ Top.pos \in Nat /\ Top.pos + 1 \in DOMAIN waiting
           /\ UNCHANGED <<boot, loaded, allLoaded, reader, waiting, info, seen, fault>>
           /\ \E s \in SigIds, f \in Frames, g \in Frames :
                 /\ s = waiting[Top.pos + 1] /\ s \in DOMAIN info /\ stage[s] = "waiting"
                 /\ f.op = "flush" /\ f.by = Top.by /\ f.pos = Top.pos + 1 /\ ~f.stale
                 /\ g = Send(s, FirstRest(info[s].dest)) /\ g.op = "send" /\ ~g.stale /\ g.sig = s
                 /\ \/ /\ stack' = Append(Append(Front(stack), f), g)
                       /\ stage' = [stage EXCEPT ![s] = "running"] /\ payload' = payload
                    \/ /\ stack' = Append(Front(stack), f)
                       /\ stage' = [stage EXCEPT ![s] = "ended"]
                       /\ payload' = [payload EXCEPT ![s] = "freed"]
<1>s. PICK s : s = waiting[Top.pos + 1]
  OBVIOUS
<1>f. PICK f : f = [Top EXCEPT !.pos = @ + 1]
  OBVIOUS
<1>g. PICK g : g = Send(s, FirstRest(info[s].dest))
  OBVIOUS
<1>1. /\ stack # <<>> /\ Top.op = "flush" /\ ~Top.stale /\ Top.pos < Len(waiting)
      /\ UNCHANGED <<boot, loaded, allLoaded, reader, waiting, info, seen>>
  BY DEF FlushNext, TopIs, pluginVars, threadVars
<1>2. Top \in Frames /\ Top.pos \in Nat /\ Front(stack) \in Seq(Frames)
  BY <1>1, StackTop, FrameUpdates
<1>3. s \in SigIds /\ s \in DOMAIN info /\ stage[s] = "waiting" /\ Top.pos + 1 \in DOMAIN waiting
  BY <1>s, <1>1, NoneFails DEF TopIs
<1>4. f \in Frames
  BY <1>f, <1>1, <1>2, FrameUpdates
<1>5. f.op = "flush" /\ f.by = Top.by /\ f.pos = Top.pos + 1 /\ ~f.stale
  BY <1>f, <1>1, <1>2, FlushFields
<1>6. g \in Frames /\ g.op = "send" /\ ~g.stale /\ g.sig = s
  <2>1. info[s] \in Emission
    BY <1>3, ElementOfSeq, LenProperties DEF TypeOK
  <2> QED
    BY <2>1, <1>3, <1>g, RestType, FrameTypes, PlainFrames
<1>7. Front(stack) \o <<f, g>> = Append(Append(Front(stack), f), g)
  BY <1>2, <1>4, <1>6, TwoPushed
<1>8. \/ /\ stack' = Append(Append(Front(stack), f), g)
         /\ stage' = [stage EXCEPT ![s] = "running"] /\ UNCHANGED <<payload, fault>>
      \/ /\ stack' = Append(Front(stack), f)
         /\ stage' = [stage EXCEPT ![s] = "ended"]
         /\ payload' = [payload EXCEPT ![s] = "freed"] /\ fault' = fault
  BY <1>s, <1>f, <1>g, <1>3, <1>7 DEF FlushNext, Become
<1> QED
  BY <1>s, <1>g, <1>1, <1>2, <1>3, <1>4, <1>5, <1>6, <1>8

-----------------------------------------------------------------------------
(* Steps: the stack, the plugin table and the reader.                      *)

LEMMA MarksNone ==
    ASSUME TypeOK, stack # <<>>, NEW J, PopMarking(J), \A i \in DOMAIN Front(stack) : i \notin J
    PROVE  stack' = Front(stack)
<1>1. /\ Front(stack) \in Seq(Frames) /\ Len(Front(stack)) = Len(stack) - 1
      /\ DOMAIN Front(stack) = 1..(Len(stack) - 1)
      /\ \A i \in DOMAIN Front(stack) : Front(stack)[i] = stack[i]
  BY Popped DEF TypeOK
<1>2. DOMAIN stack' = DOMAIN Front(stack) /\ \A i \in DOMAIN Front(stack) : stack'[i] = Front(stack)[i]
  BY <1>1 DEF PopMarking
<1>3. stack' \in Seq(Frames)
  BY MarkedStack
<1>4. Len(stack') \in Nat /\ DOMAIN stack' = 1..Len(stack') /\ Len(Front(stack)) \in Nat
      /\ DOMAIN Front(stack) = 1..Len(Front(stack))
  BY <1>1, <1>3, LenProperties
<1>5. Len(stack') = Len(Front(stack))
  <2>1. ASSUME NEW m \in Nat, NEW n \in Nat, 1..m = 1..n PROVE m = n
    <3>1. m \in 1..n \/ m = 0
      BY <2>1
    <3>2. n \in 1..m \/ n = 0
      BY <2>1
    <3> QED
      BY <3>1, <3>2
  <2> QED
    BY <1>2, <1>4, <2>1
<1> QED
  BY <1>1, <1>2, <1>3, <1>4, <1>5, SeqEqual

(* A flush that ends marks no frame: there is no other flush.  Neither     *)
(* does the end of unload_plugin: only the manager's frame is below it.    *)
LEMMA FlushMarksNone ==
    ASSUME TypeOK, CalmInv, FlushEnd
    PROVE  stack # <<>> /\ Top.op = "flush" /\ stack' = Front(stack)
<1>1. /\ stack # <<>> /\ Top.op = "flush" /\ stack \in Seq(Frames)
      /\ PopMarking({i \in DOMAIN stack : stack[i].op = "flush"})
  BY DEF FlushEnd, TopIs, TypeOK
<1>2. \A i \in DOMAIN Front(stack) : Front(stack)[i].op # "flush" /\ Front(stack)[i] = stack[i]
  BY <1>1, PopSteady, Popped DEF CalmInv, Top
<1>3. stack' = Front(stack)
  BY <1>1, <1>2, MarksNone
<1> QED
  BY <1>1, <1>3

LEMMA DestroyMarksNone ==
    ASSUME Orderly, TypeOK, CalmInv, Return, Top.why = "destroy"
    PROVE  /\ stack # <<>> /\ Top.op = "call" /\ stack' = Front(stack)
           /\ Len(stack) = 2 /\ Manages(stack[1]) /\ Top.plugin \in Removable
<1>1. /\ stack # <<>> /\ Top.op = "call" /\ stack \in Seq(Frames)
  BY DEF Return, TopIs, TypeOK
<1>2. /\ Len(stack) = 2 /\ Top.plugin \in Removable /\ Manages(stack[1])
  BY <1>1, CalmTop
<1>3. stack[1].op = "call" /\ Top.plugin # stack[1].plugin
  BY <1>2 DEF Orderly, Manages
<1>4. PICK J : /\ PopMarking(J)
               /\ \A i \in J : \/ stack[i].op = "call" /\ stack[i].plugin = Top.plugin
                               \/ stack[i].op = "send" /\ Top.plugin \in stack[i].rest
  BY DEF Return
<1>5. \A i \in DOMAIN Front(stack) : i = 1
  <2>1. DOMAIN Front(stack) = 1..(Len(stack) - 1)
    BY <1>1, Popped
  <2>2. DOMAIN Front(stack) = 1..1
    BY <2>1, <1>2
  <2> QED
    BY <2>2
<1>6. 1 \notin J
  BY <1>2, <1>3, <1>4
<1> QED
  BY <1>1, <1>2, <1>4, <1>5, <1>6, MarksNone

LEMMA EmptySteady ==
    ASSUME NEW bt, NEW rd, bt # "flush"
    PROVE  Steady(<<>>, bt, rd)
<1>1. DOMAIN <<>> = {}
  BY NoneIn, EmptySeq
<1> QED
  BY <1>1, Zenon DEF Steady, AllApart, Upright, Based

LEMMA SteadyStep ==
    ASSUME Orderly, TypeOK, OrderInv, CalmInv, [Next]_vars
    PROVE  Steady(stack', boot', reader')
<1>a. stack \in Seq(Frames) /\ Steady(stack, boot, reader)
  BY DEF TypeOK, CalmInv
<1>b. \A p \in Plugins, why \in {"start", "event", "destroy"} : Call(p, 0, why) \in Frames
  <2>1. 0 \in 0..MaxSignals
    BY BoundsAssumption
  <2> QED
    BY <2>1, FrameTypes
<1>c. Loaded \subseteq Plugins /\ \A p \in ToSet(Modules) : p \in Plugins
  BY RestType, ModulesAssumption, ElementOfSeq DEF ToSet
<1>d. \A f, p, s, why : Apart(f, Call(p, s, why)) /\ Apart(f, Drain)
  BY PlainFrames DEF Apart
<1>e. \A p, s, why, bt, rd : Owned(Call(p, s, why), bt, rd) /\ Owned(Drain, bt, rd)
  BY PlainFrames DEF Owned
<1>f. ASSUME UNCHANGED <<stack, boot, reader>> PROVE Steady(stack', boot', reader')
  BY <1>a, <1>f
<1>g. stack # <<>> =>
         /\ Top \in Frames /\ Top = Last(stack) /\ Front(stack) \in Seq(Frames)
         /\ Top.op # "flush" => Steady(Front(stack), boot, reader)
         /\ \A g \in Frames :
               /\ g.op = Top.op /\ g.op \in {"send", "flush"} /\ ~g.stale
               /\ g.op = "send" => g.sig = Top.sig
               /\ g.op = "flush" => g.by = Top.by
               => Append(Front(stack), g) \in Seq(Frames)
                  /\ Steady(Append(Front(stack), g), boot, reader)
  <2>1. ASSUME stack # <<>>
        PROVE  /\ Top \in Frames /\ Top = Last(stack) /\ Front(stack) \in Seq(Frames)
               /\ \A g \in Frames : Append(Front(stack), g) \in Seq(Frames)
    BY <2>1, StackTop DEF Top
  <2> QED
    BY <2>1, <1>a, PopSteady, BecomeSteady
<1>1. CASE LoadModule
  <2>1. boot = "load" /\ stack = <<>> /\ stack' = stack /\ boot' # "flush"
    BY <1>1, <1>a DEF LoadModule, Steady, Based
  <2> QED
    BY <2>1, EmptySteady
<1>2. CASE StartModule
  <2>1. PICK p \in ToSet(Modules) :
           IF p \in Loaded THEN Push(Call(p, 0, "start")) /\ UNCHANGED fault
           ELSE fault' = "use_after_free" /\ UNCHANGED stack
    BY <1>2 DEF StartModule
  <2>2. boot = "start" /\ boot' = boot /\ reader' = reader
    BY <1>2 DEF StartModule, threadVars
  <2>3. CASE UNCHANGED stack
    BY <2>2, <2>3, <1>f
  <2>4. CASE stack' = Append(stack, Call(p, 0, "start"))
    <3>1. Call(p, 0, "start") \in Frames
      BY <1>b, <1>c
    <3> QED
      BY <3>1, <2>2, <2>4, <1>a, <1>d, <1>e, PlainFrames, PushSteady
  <2> QED
    BY <2>1, <2>3, <2>4 DEF Push
<1>3. CASE BootFlush
  <2>1. stack = <<>> /\ boot' = "flush" /\ stack' = Append(stack, Flush("boot"))
    BY <1>3 DEF BootFlush, Push
  <2>2. PICK f : f = Flush("boot")
    OBVIOUS
  <2>3. f \in Frames /\ f.op = "flush" /\ f.by = "boot" /\ ~f.stale
    BY <2>2, FrameTypes, PlainFrames
  <2>4. Len(stack) = 0
    BY <2>1, EmptySeq
  <2>5. stack' # <<>> /\ DOMAIN stack' = 1..(Len(stack) + 1) /\ stack'[Len(stack) + 1] = f
    BY <1>a, <2>1, <2>2, <2>3, Pushed
  <2>6. DOMAIN stack' = {1} /\ stack'[1] = f
    BY <2>4, <2>5
  <2> QED
    BY <2>1, <2>3, <2>5, <2>6 DEF Steady, AllApart, Upright, Based, Owned
<1>4. CASE Emit
  <2>1. PICK e \in Emissions : EmitUnregistered(e) \/ EmitNow(e) \/ EmitLater(e)
    BY <1>4 DEF Emit
  <2>2. /\ e \in Emission /\ UNCHANGED <<boot, reader>> /\ stack # <<>>
    BY <1>4, EmissionsAssumption DEF Emit, TopIs, pluginVars, threadVars
  <2>3. CASE EmitUnregistered(e)
    BY <2>2, <2>3, <1>f DEF EmitUnregistered
  <2>4. /\ Drain \in Frames /\ Append(stack, Drain) \in Seq(Frames) /\ Append(stack, Drain) # <<>>
        /\ Steady(Append(stack, Drain), boot, reader)
    <3>1. PICK f : f = Drain
      OBVIOUS
    <3>2. f \in Frames /\ f.op = "drain" /\ ~f.stale
      BY <3>1, FrameTypes, PlainFrames
    <3>3. Append(stack, f) \in Seq(Frames) /\ Append(stack, f) # <<>>
      BY <1>a, <3>2, Pushed
    <3>4. Owned(f, boot, reader) /\ \A k \in DOMAIN stack : Apart(stack[k], f)
      BY <3>2 DEF Owned, Apart
    <3>5. Steady(Append(stack, f), boot, reader)
      BY <2>2, <1>a, <3>2, <3>4, PushSteady
    <3> QED
      BY <3>1, <3>2, <3>3, <3>5
  <2>5. CASE EmitNow(e)
    <3>1. PICK f \in Frames : /\ f.op = "send" /\ ~f.stale /\ f.sig \notin DOMAIN info
                              /\ stack' = Append(Append(stack, Drain), f)
      BY <2>5, EmitNowForm
    <3>2. PICK t : t = Append(stack, Drain)
      OBVIOUS
    <3>3. \A k \in DOMAIN t : Apart(t[k], f)
      <4>1. \A k \in DOMAIN stack : stack[k].op = "send" => stack[k].sig \in DOMAIN info
        BY DEF CalmInv, Sending, Sends
      <4>2. \A k \in DOMAIN t : (k \in DOMAIN stack /\ t[k] = stack[k]) \/ t[k] = Drain
        BY <1>a, <2>4, <3>2, Pushed
      <4> QED
        BY <4>1, <4>2, <3>1, PlainFrames DEF Apart
    <3>4. Owned(f, boot, reader)
      BY <3>1 DEF Owned
    <3>5. Steady(Append(t, f), boot, reader)
      BY <2>4, <3>1, <3>2, <3>3, <3>4, PushSteady
    <3> QED
      BY <2>2, <3>1, <3>2, <3>5
  <2>6. CASE EmitLater(e)
    BY <2>2, <2>4, <2>6 DEF EmitLater, Push
  <2> QED
    BY <2>1, <2>3, <2>5, <2>6
<1>5. CASE Deliver
  <2>1. /\ stack # <<>> /\ Top.op = "send" /\ UNCHANGED <<boot, reader>>
        /\ \E p \in Plugins, on \in Frames, g \in Frames :
              /\ on.op = "send" /\ on.sig = Top.sig /\ ~on.stale
              /\ g = Call(p, Top.sig, "receive")
              /\ \/ stack' = Append(Front(stack), on)
                 \/ stack' = Append(Append(Front(stack), on), g)
    BY <1>5, DeliverForm
  <2>2. PICK p \in Plugins, on \in Frames, g \in Frames :
              /\ on.op = "send" /\ on.sig = Top.sig /\ ~on.stale
              /\ g = Call(p, Top.sig, "receive")
              /\ \/ stack' = Append(Front(stack), on)
                 \/ stack' = Append(Append(Front(stack), on), g)
    BY <2>1
  <2>3. PICK t : t = Append(Front(stack), on)
    OBVIOUS
  <2>4. t \in Seq(Frames) /\ Steady(t, boot, reader) /\ t # <<>>
    BY <2>1, <2>2, <2>3, <1>g, Pushed
  <2>5. g.op = "call" /\ ~g.stale /\ g.why = "receive"
    BY <2>2, PlainFrames
  <2>6. Steady(Append(t, g), boot, reader)
    BY <2>2, <2>4, <2>5, <1>d, <1>e, PushSteady
  <2> QED
    BY <2>1, <2>2, <2>3, <2>4, <2>6
<1>6. CASE NextReceiver
  <2>1. /\ stack # <<>> /\ Top.op = "send" /\ UNCHANGED <<boot, reader>>
        /\ \E on \in Frames :
              /\ on.op = "send" /\ on.sig = Top.sig /\ ~on.stale
              /\ stack' = Append(Front(stack), on)
    BY <1>6, NextForm
  <2> QED
    BY <2>1, <1>g
<1>7. CASE EndSend \/ EndDrain
  <2>1. stack # <<>> /\ Top.op # "flush" /\ stack' = Front(stack) /\ UNCHANGED <<boot, reader>>
    BY <1>7 DEF EndSend, EndDrain, TopIs, Pop, pluginVars, threadVars
  <2> QED
    BY <2>1, <1>g
<1>8. CASE FlushNext
  <2>1. /\ stack # <<>> /\ Top.op = "flush" /\ UNCHANGED <<boot, reader>>
        /\ \E s \in SigIds, f \in Frames, g \in Frames :
              /\ stage[s] = "waiting"
              /\ f.op = "flush" /\ f.by = Top.by /\ ~f.stale
              /\ g.op = "send" /\ ~g.stale /\ g.sig = s
              /\ \/ stack' = Append(Append(Front(stack), f), g)
                 \/ stack' = Append(Front(stack), f)
    BY <1>8, FlushNextForm
  <2>2. PICK s \in SigIds, f \in Frames, g \in Frames :
              /\ stage[s] = "waiting"
              /\ f.op = "flush" /\ f.by = Top.by /\ ~f.stale
              /\ g.op = "send" /\ ~g.stale /\ g.sig = s
              /\ \/ stack' = Append(Append(Front(stack), f), g)
                 \/ stack' = Append(Front(stack), f)
    BY <2>1
  <2>3. PICK t : t = Append(Front(stack), f)
    OBVIOUS
  <2>4. t \in Seq(Frames) /\ Steady(t, boot, reader) /\ t # <<>>
    BY <2>1, <2>2, <2>3, <1>g, Pushed
  <2>5. \A k \in DOMAIN t : Apart(t[k], g)
    <3>1. \A k \in DOMAIN stack : stack[k].op = "send" => stack[k].sig # s
      BY <2>2 DEF CalmInv, Sending, Sends
    <3>2. \A k \in DOMAIN t : (k \in DOMAIN stack /\ t[k] = stack[k]) \/ t[k] = f
      BY <1>a, <1>g, <2>1, <2>2, <2>3, AppendElements, Popped
    <3> QED
      BY <3>1, <3>2, <2>2 DEF Apart
  <2>6. Steady(Append(t, g), boot, reader)
    BY <2>2, <2>4, <2>5, PushSteady DEF Owned
  <2> QED
    BY <2>1, <2>2, <2>3, <2>4, <2>6
<1>9. CASE FlushEnd
  <2>1. stack # <<>> /\ Last(stack).op = "flush" /\ stack' = Front(stack)
    BY <1>9, FlushMarksNone DEF Top
  <2>2. /\ AllApart(Front(stack)) /\ Upright(Front(stack))
        /\ \A k \in DOMAIN Front(stack) : Front(stack)[k].op # "flush"
    BY <2>1, <1>a, PopSteady
  <2>3. boot' = "loop"
    <3>1. Top.op = "flush" /\ Owned(Top, boot, reader)
      BY <2>1, CalmTop DEF Top
    <3> QED
      BY <1>9, <3>1 DEF FlushEnd, Owned
  <2> QED
    BY <2>1, <2>2, <2>3 DEF Steady, Based, Owned
<1>10. CASE Event
  <2>1. PICK p \in started \cap Loaded : stack' = Append(stack, Call(p, 0, "event"))
    BY <1>10 DEF Event, Push
  <2>2. (boot = "loop" \/ stack # <<>>) /\ UNCHANGED <<boot, reader>>
    BY <1>10 DEF Event, Draining, TopIs, pluginVars, threadVars
  <2>3. Call(p, 0, "event") \in Frames
    BY <1>b, <1>c
  <2> QED
    BY <2>1, <2>2, <2>3, <1>a, <1>d, <1>e, PlainFrames, PushSteady
<1>11. CASE Return
  <2>1. stack # <<>> /\ Top.op = "call" /\ UNCHANGED <<boot, reader>>
    BY <1>11 DEF Return, TopIs, threadVars
  <2>2. stack' = Front(stack)
    BY <1>11, DestroyMarksNone DEF Return, Pop
  <2> QED
    BY <2>1, <2>2, <1>g
<1>12. CASE Unload
  <2>1. PICK p \in Removable \cap Loaded : stack' = Append(stack, Call(p, 0, "destroy"))
    BY <1>12 DEF Unload, Push
  <2>2. /\ stack # <<>> /\ Top.op = "call" /\ Top.plugin \in Managers /\ Len(stack) <= UnloadDepth
        /\ UNCHANGED <<boot, reader>>
    BY <1>12 DEF Unload, TopIs, pluginVars, threadVars
  <2>3. Len(stack) = 1 /\ Top = stack[1]
    <3>1. Len(stack) \in Nat \ {0} /\ Top = stack[Len(stack)]
      BY <2>2, <1>a, Popped DEF Top
    <3>2. UnloadDepth \in Nat /\ UnloadDepth <= 1
      BY BoundsAssumption DEF Orderly
    <3>3. Len(stack) = 1
      <4>1. \A n \in Nat \ {0}, d \in Nat : n <= d /\ d <= 1 => n = 1
        OBVIOUS
      <4> QED
        BY <2>2, <3>1, <3>2, <4>1
    <3> QED
      BY <3>1, <3>3
  <2>4. Call(p, 0, "destroy") \in Frames
    BY <1>b, <1>c
  <2>5. Manages(stack[1])
    BY <1>12, <2>2, <2>3 DEF Unload, Manages
  <2> QED
    BY <2>1, <2>2, <2>3, <2>4, <2>5, <1>a, <1>d, <1>e, PlainFrames, PushSteady
<1>13. CASE Load
  <2>1. PICK p \in ToSet(Modules) : stack' = Append(stack, Call(p, 0, "start"))
    BY <1>13 DEF Load, Push
  <2>2. stack # <<>> /\ UNCHANGED <<boot, reader>>
    BY <1>13 DEF Load, TopIs, threadVars
  <2>3. Call(p, 0, "start") \in Frames
    BY <2>1, <1>b, <1>c
  <2> QED
    BY <2>1, <2>2, <2>3, <1>a, <1>d, <1>e, PlainFrames, PushSteady
<1>14. CASE DispatchReader \/ PopSignal \/ ReadByte
  <2>1. UNCHANGED <<stack, boot>> /\ reader # "flush"
    BY <1>14 DEF DispatchReader, PopSignal, ReadByte, pluginVars
  <2> QED
    BY <2>1, <1>a, ReaderSteady
<1>15. CASE QueueEmpty
  <2>1. /\ reader = "pop" /\ reader' = "flush" /\ boot' = boot
        /\ stack' = Append(stack, Flush("thread"))
    BY <1>15 DEF QueueEmpty, Push, pluginVars
  <2>2. PICK f : f = Flush("thread")
    OBVIOUS
  <2>3. f \in Frames /\ f.op = "flush" /\ f.by = "thread" /\ ~f.stale
    BY <2>2, FrameTypes, PlainFrames
  <2>4. boot = "loop"
    BY <2>1 DEF CalmInv, Reading
  <2>5. \A k \in DOMAIN stack : stack[k].op # "flush"
    BY <2>1, <2>4, <1>a DEF Steady, Owned
  <2>6. Steady(stack, boot, "flush")
    BY <2>1, <1>a, ReaderSteady
  <2>7. Owned(f, boot, "flush")
    BY <2>3, <2>4 DEF Owned
  <2>8. \A k \in DOMAIN stack : Apart(stack[k], f)
    BY <2>3, <2>5 DEF Apart
  <2>9. Steady(Append(stack, f), boot, "flush")
    BY <1>a, <2>3, <2>4, <2>6, <2>7, <2>8, PushSteady
  <2> QED
    BY <2>1, <2>2, <2>9
<1>16. CASE UnknownDestination \/ UseAfterFree \/ (\E w \in Workers : WorkerPush(w) \/ WorkerWrite(w))
  BY <1>16, <1>f DEF UnknownDestination, UseAfterFree, Fail, WorkerPush, WorkerWrite, pluginVars, threadVars
<1>17. CASE UNCHANGED vars \/ Register
  BY <1>17, <1>f, Idles DEF pluginVars, threadVars
<1> QED
  BY <1>1, <1>2, <1>3, <1>4, <1>5, <1>6, <1>7, <1>8, <1>9, <1>10, <1>11, <1>12, <1>13,
     <1>14, <1>15, <1>16, <1>17 DEF Next

LEMMA ReadingStep ==
    ASSUME Orderly, TypeOK, OrderInv, CalmInv, [Next]_vars
    PROVE  Reading(stack', boot', reader', queue', pipe', writer')
<1>a. Reading(stack, boot, reader, queue, pipe, writer)
  BY DEF CalmInv
<1>b. ASSUME UNCHANGED <<reader, queue, pipe, writer>>, reader \in {"idle", "flush"},
             boot # "loop" \/ boot' = "loop"
      PROVE  Reading(stack', boot', reader', queue', pipe', writer')
  BY <1>a, <1>b DEF Reading
<1>1. CASE LoadModule
  BY <1>1, <1>a, <1>b DEF LoadModule, Reading, threadVars
<1>2. CASE \/ StartModule \/ BootFlush \/ Emit \/ Deliver \/ NextReceiver \/ EndSend
           \/ EndDrain \/ FlushNext \/ Event \/ Return \/ Unload \/ Load
  BY <1>2, <1>b DEF StartModule, BootFlush, Emit, Deliver, NextReceiver, EndSend, EndDrain, FlushNext,
       Event, Draining, Return, Unload, Load, Running, threadVars, pluginVars
<1>3. CASE UnknownDestination \/ UseAfterFree
  BY <1>3, NoneFails
<1>4. CASE FlushEnd
  <2>1. Top.op = "flush" /\ Owned(Top, boot, reader) /\ Top \in Frames
    BY <1>4, CalmTop DEF FlushEnd, TopIs
  <2>2. boot' = "loop"
    BY <1>4, <2>1 DEF FlushEnd, Owned
  <2>3. reader' \in {"idle", "flush"}
    BY <1>4 DEF FlushEnd, Running
  <2> QED
    BY <2>2, <2>3 DEF Reading
<1>5. CASE DispatchReader
  <2>1. pipe # 0 /\ stack' = stack /\ boot' = boot
    BY <1>5 DEF DispatchReader, pluginVars, TypeOK
  <2>2. boot = "loop"
    BY <2>1, <1>a DEF Reading
  <2>3. stack # <<>> => Last(stack).op = "drain" \/ (Last(stack).op = "send" /\ Last(stack).drain)
    BY <1>5, <2>2 DEF DispatchReader, Draining, TopIs, Top
  <2> QED
    BY <2>1, <2>2, <2>3 DEF Reading
<1>6. CASE PopSignal \/ ReadByte
  <2>1. reader \in {"pop", "read"} /\ stack' = stack /\ boot' = boot
    BY <1>6 DEF PopSignal, ReadByte, pluginVars
  <2>2. boot = "loop"
    BY <2>1, <1>a DEF Reading
  <2> QED
    BY <2>1, <2>2, <1>a DEF Reading
<1>7. CASE QueueEmpty
  BY <1>7, <1>a DEF QueueEmpty, Reading, pluginVars
<1>8. ASSUME NEW w \in Workers, WorkerPush(w) \/ WorkerWrite(w)
      PROVE  Reading(stack', boot', reader', queue', pipe', writer')
  <2>1. UNCHANGED <<stack, boot, reader>>
    BY <1>8 DEF WorkerPush, WorkerWrite, pluginVars
  <2>2. boot = "loop"
    BY <1>8, <1>a DEF Reading, WorkerPush, WorkerWrite, Orderly
  <2> QED
    BY <2>1, <2>2, <1>a DEF Reading
<1>9. CASE UNCHANGED vars \/ Register
  BY <1>9, <1>a, Idles DEF pluginVars, threadVars
<1> QED
  BY <1>1, <1>2, <1>3, <1>4, <1>5, <1>6, <1>7, <1>8, <1>9 DEF Next

(* A plugin's node is taken out of loaded_plugins.                         *)
LEMMA Unplugged ==
    ASSUME NEW S, NEW s \in Seq(S), IsInjective(s), NEW i \in DOMAIN s
    PROVE  IsInjective(RemoveAt(s, i)) /\ ToSet(RemoveAt(s, i)) = ToSet(s) \ {s[i]}
<1> DEFINE a == SubSeq(s, 1, i - 1)
           b == SubSeq(s, i + 1, Len(s))
<1>1. Len(s) \in Nat /\ i \in 1..Len(s) /\ DOMAIN s = 1..Len(s) /\ \A j \in 1..Len(s) : s[j] \in S
  BY LenProperties, ElementOfSeq
<1>2. a \in Seq(S) /\ Len(a) = i - 1 /\ \A j \in 1..(i - 1) : a[j] = s[j]
  BY <1>1, SubSeqProperties
<1>3. b \in Seq(S) /\ Len(b) = Len(s) - i /\ \A j \in 1..(Len(s) - i) : b[j] = s[i + j]
  BY <1>1, SubSeqProperties
<1> HIDE DEF a, b
<1>t. PICK t : t = a \o b
  OBVIOUS
<1>4. /\ t \in Seq(S) /\ Len(t) = Len(s) - 1
      /\ \A j \in 1..(Len(s) - 1) : t[j] = IF j <= i - 1 THEN a[j] ELSE b[j - (i - 1)]
  <2>1. Len(a) + Len(b) = Len(s) - 1
    BY <1>1, <1>2, <1>3
  <2>2. /\ t \in Seq(S) /\ Len(t) = Len(a) + Len(b)
        /\ \A j \in 1..(Len(a) + Len(b)) : t[j] = IF j <= Len(a) THEN a[j] ELSE b[j - Len(a)]
    BY <1>t, <1>2, <1>3, ConcatProperties
  <2> QED
    BY <1>2, <2>1, <2>2
<1>5. RemoveAt(s, i) = t
  BY <1>t DEF RemoveAt, a, b
<1>6. DOMAIN t = 1..(Len(s) - 1)
  BY <1>4, LenProperties
<1>7. ASSUME NEW j \in 1..(Len(s) - 1)
      PROVE  /\ j < i => t[j] = s[j]
             /\ ~(j < i) => t[j] = s[j + 1]
  <2>1. j < i => j <= i - 1 /\ j \in 1..(i - 1)
    BY <1>1
  <2>2. ~(j < i) => ~(j <= i - 1) /\ j - (i - 1) \in 1..(Len(s) - i) /\ i + (j - (i - 1)) = j + 1
    BY <1>1
  <2>3. j < i => t[j] = s[j]
    BY <2>1, <1>2, <1>4
  <2>4. ~(j < i) => t[j] = b[j - (i - 1)]
    BY <2>2, <1>4
  <2>5. ~(j < i) => b[j - (i - 1)] = s[i + (j - (i - 1))]
    BY <2>2, <1>3
  <2> QED
    BY <2>2, <2>3, <2>4, <2>5
<1>8. \A j, k \in 1..Len(s) : s[j] = s[k] => j = k
  BY <1>1 DEF IsInjective
<1>9. \A j \in 1..(Len(s) - 1) : j \in 1..Len(s) /\ j + 1 \in 1..Len(s)
  BY <1>1
<1>10. ASSUME NEW j \in 1..(Len(s) - 1), NEW k \in 1..(Len(s) - 1), t[j] = t[k] PROVE j = k
  <2>1. CASE j < i /\ k < i
    BY <1>7, <1>8, <1>9, <1>10, <2>1
  <2>2. CASE j < i /\ ~(k < i)
    <3>1. s[j] = s[k + 1]
      BY <1>7, <1>10, <2>2
    <3>2. j = k + 1
      BY <3>1, <1>8, <1>9
    <3> QED
      BY <3>2, <2>2, <1>1
  <2>3. CASE ~(j < i) /\ k < i
    <3>1. s[j + 1] = s[k]
      BY <1>7, <1>10, <2>3
    <3>2. j + 1 = k
      BY <3>1, <1>8, <1>9
    <3> QED
      BY <3>2, <2>3, <1>1
  <2>4. CASE ~(j < i) /\ ~(k < i)
    <3>1. s[j + 1] = s[k + 1]
      BY <1>7, <1>10, <2>4
    <3>2. j + 1 = k + 1
      BY <3>1, <1>8, <1>9
    <3> QED
      BY <3>2
  <2> QED
    BY <2>1, <2>2, <2>3, <2>4
<1>11. IsInjective(t)
  BY <1>6, <1>10 DEF IsInjective
<1>12. ASSUME NEW x PROVE x \in ToSet(t) <=> x \in ToSet(s) \ {s[i]}
  <2>1. ASSUME NEW j \in 1..(Len(s) - 1), t[j] = x PROVE \E k \in 1..Len(s) : s[k] = x /\ k # i
    <3>1. j < i => s[j] = x /\ j # i
      BY <2>1, <1>1, <1>7
    <3>2. ~(j < i) => s[j + 1] = x /\ j + 1 # i
      BY <2>1, <1>1, <1>7
    <3> QED
      BY <3>1, <3>2, <1>9
  <2>2. ASSUME NEW k \in 1..Len(s), s[k] = x, k # i PROVE \E j \in 1..(Len(s) - 1) : t[j] = x
    <3>1. CASE k < i
      <4>1. k \in 1..(Len(s) - 1)
        BY <3>1, <1>1
      <4> QED
        BY <4>1, <3>1, <2>2, <1>7
    <3>2. CASE ~(k < i)
      <4>1. k - 1 \in 1..(Len(s) - 1) /\ ~(k - 1 < i) /\ (k - 1) + 1 = k
        BY <3>2, <2>2, <1>1
      <4>2. t[k - 1] = s[(k - 1) + 1]
        BY <4>1, <1>7
      <4> QED
        BY <4>1, <4>2, <2>2
    <3> QED
      BY <3>1, <3>2
  <2>3. x \in ToSet(t) <=> \E j \in 1..(Len(s) - 1) : t[j] = x
    BY <1>6 DEF ToSet
  <2>4. x \in ToSet(s) <=> \E k \in 1..Len(s) : s[k] = x
    BY <1>1 DEF ToSet
  <2> QED
    BY <2>1, <2>2, <2>3, <2>4, <1>1, <1>8
<1> QED
  BY <1>5, <1>11, <1>12

LEMMA PluggedStep ==
    ASSUME Orderly, TypeOK, OrderInv, CalmInv, [Next]_vars
    PROVE  Plugged(loaded', boot', allLoaded')
<1>a. Plugged(loaded, boot, allLoaded) /\ loaded \in Seq(Plugins)
  BY DEF CalmInv, TypeOK
<1>b. ASSUME UNCHANGED <<loaded, boot, allLoaded>> PROVE Plugged(loaded', boot', allLoaded')
  BY <1>a, <1>b
<1>c. Modules \in Seq(Plugins) /\ IsInjective(Modules) /\ DOMAIN Modules = 1..Len(Modules) /\ Len(Modules) \in Nat
      /\ \A i \in DOMAIN Modules : Modules[i] \in Plugins
  BY ModulesAssumption, LenProperties, ElementOfSeq
<1>d. DOMAIN loaded = 1..Len(loaded) /\ Len(loaded) \in Nat
  BY <1>a, LenProperties
<1>1. CASE LoadModule
  <2>1. boot = "load" /\ UNCHANGED allLoaded
    BY <1>1 DEF LoadModule
  <2>2. CASE Len(loaded) < Len(Modules)
    <3>1. PICK m : m = Modules[Len(loaded) + 1]
      OBVIOUS
    <3>2. loaded' = Append(loaded, m) /\ boot' = boot /\ m \in Plugins
          /\ Len(loaded) + 1 \in DOMAIN Modules
      BY <1>1, <2>2, <3>1, <1>c, <1>d DEF LoadModule
    <3>3. /\ Len(loaded') = Len(loaded) + 1 /\ DOMAIN loaded' = 1..(Len(loaded) + 1)
          /\ loaded'[Len(loaded) + 1] = m
          /\ \A i \in DOMAIN loaded : loaded'[i] = loaded[i]
          /\ \A i \in DOMAIN loaded' : i \in DOMAIN loaded \/ i = Len(loaded) + 1
      BY <1>a, <3>2, Pushed
    <3>4. \A i \in DOMAIN loaded' : loaded'[i] = Modules[i] /\ i \in DOMAIN Modules
      <4>1. \A i \in DOMAIN loaded : loaded[i] = Modules[i] /\ i \in DOMAIN Modules
        BY <1>a, <1>c, <1>d, <2>1 DEF Plugged
      <4> QED
        BY <4>1, <3>1, <3>2, <3>3
    <3>5. IsInjective(loaded')
      BY <3>4, <1>c DEF IsInjective
    <3>6. Len(loaded') <= Len(Modules)
      BY <3>3, <2>2, <1>c, <1>d
    <3> QED
      BY <3>2, <3>4, <3>5, <3>6, <2>1, <1>a DEF Plugged
  <2>3. CASE ~(Len(loaded) < Len(Modules))
    <3>1. boot' = "start" /\ loaded' = loaded
      BY <1>1, <2>3 DEF LoadModule
    <3>2. \A i \in DOMAIN Modules : i \in DOMAIN loaded /\ loaded[i] = Modules[i]
      <4>1. \A i \in DOMAIN Modules : i \in DOMAIN loaded
        BY <1>c, <1>d, <2>3
      <4> QED
        BY <4>1, <1>a, <2>1 DEF Plugged
    <3>3. ToSet(Modules) \subseteq ToSet(loaded)
      BY <3>2 DEF ToSet
    <3> QED
      BY <3>1, <3>3, <2>1, <1>a DEF Plugged
  <2> QED
    BY <2>2, <2>3
<1>2. CASE StartModule \/ UnknownDestination \/ UseAfterFree
  BY <1>2, <1>b DEF StartModule, UnknownDestination, UseAfterFree, Fail, pluginVars
<1>3. CASE BootFlush
  BY <1>3, <1>a DEF BootFlush, Plugged
<1>4. CASE FlushEnd
  <2>1. Top.op = "flush" /\ Owned(Top, boot, reader)
    BY <1>4, CalmTop DEF FlushEnd, TopIs
  <2>2. boot' = "loop" /\ allLoaded' = TRUE /\ loaded' = loaded /\ boot \in {"flush", "loop"}
    BY <1>4, <2>1 DEF FlushEnd, Owned
  <2> QED
    BY <2>2, <1>a DEF Plugged
<1>5. CASE Return
  <2>1. UNCHANGED <<boot, allLoaded>>
    BY <1>5 DEF Return
  <2>2. CASE Top.why = "destroy"
    <3>1. PICK i \in DOMAIN loaded : loaded[i] = Top.plugin /\ loaded' = RemoveAt(loaded, i)
      BY <1>5, <2>2 DEF Return
    <3>2. IsInjective(loaded') /\ ToSet(loaded') = ToSet(loaded) \ {Top.plugin}
      BY <3>1, <1>a, Unplugged DEF Plugged
    <3>3. stack # <<>> /\ Manages(stack[1]) /\ Top.plugin \in Removable
      BY <1>5, <2>2, DestroyMarksNone
    <3>4. boot = "loop"
      BY <3>3 DEF CalmInv, Steady, Based, Manages, TypeOK
    <3> QED
      BY <3>2, <3>3, <3>4, <2>1, <1>a DEF Plugged
  <2>3. CASE Top.why # "destroy"
    BY <1>5, <2>1, <2>3, <1>b DEF Return
  <2> QED
    BY <2>2, <2>3
<1>6. CASE Load
  <2>1. PICK p \in ToSet(Modules) \ Loaded : loaded' = Append(loaded, p)
    BY <1>6 DEF Load
  <2>2. UNCHANGED <<boot, allLoaded>> /\ boot # "load"
    BY <1>6, CalmTop DEF Load, TopIs
  <2>3. p \in Plugins
    BY <2>1, <1>c DEF ToSet
  <2>4. /\ DOMAIN loaded' = 1..(Len(loaded) + 1) /\ loaded'[Len(loaded) + 1] = p
        /\ \A i \in DOMAIN loaded : loaded'[i] = loaded[i] /\ i \in DOMAIN loaded'
        /\ \A i \in DOMAIN loaded' : i \in DOMAIN loaded \/ i = Len(loaded) + 1
    BY <1>a, <2>1, <2>3, Pushed
  <2>5. \A i \in DOMAIN loaded : loaded[i] # p
    BY <2>1 DEF Loaded, ToSet
  <2>6. IsInjective(loaded')
    BY <2>4, <2>5, <1>a DEF Plugged, IsInjective
  <2>7. ToSet(loaded) \subseteq ToSet(loaded')
    BY <2>4 DEF ToSet
  <2> QED
    BY <2>2, <2>6, <2>7, <1>a DEF Plugged
<1>7. CASE \/ Emit \/ Deliver \/ NextReceiver \/ EndSend \/ EndDrain \/ FlushNext \/ Event \/ Unload
           \/ DispatchReader \/ PopSignal \/ ReadByte \/ QueueEmpty
           \/ \E w \in Workers : WorkerPush(w) \/ WorkerWrite(w)
  BY <1>7, <1>b DEF Emit, Deliver, NextReceiver, EndSend, EndDrain, FlushNext, Event, Unload, DispatchReader,
       PopSignal, ReadByte, QueueEmpty, WorkerPush, WorkerWrite, pluginVars
<1>8. CASE UNCHANGED vars \/ Register
  BY <1>8, <1>b, Idles DEF pluginVars
<1> QED
  BY <1>1, <1>2, <1>3, <1>4, <1>5, <1>6, <1>7, <1>8 DEF Next

-----------------------------------------------------------------------------
(* Steps: the waiting list.                                                *)

(* What a flush of t has passed, one of u has.                             *)
Keeps(t, u) == \A i \in Nat : Passed(t, i) => Passed(u, i)

LEMMA KeepsPassed ==
    ASSUME NEW t \in Seq(Frames)
    PROVE  /\ \A f \in Frames : Keeps(t, Append(t, f))
           /\ t # <<>> /\ Last(t).op # "flush" => Keeps(t, Front(t))
           /\ \A g \in Frames :
                 /\ t # <<>> /\ g.op = Last(t).op
                 /\ g.op = "flush" => Last(t).pos \in Nat /\ g.pos = Last(t).pos + 1
                 => Keeps(t, Append(Front(t), g))
<1>1. ASSUME NEW f \in Frames PROVE Keeps(t, Append(t, f))
  <2>1. PICK u : u = Append(t, f)
    OBVIOUS
  <2>2. \A k \in DOMAIN t : u[k] = t[k] /\ k \in DOMAIN u
    BY <2>1, Pushed
  <2> QED
    BY <2>1, <2>2 DEF Keeps, Passed
<1>2. ASSUME t # <<>>, Last(t).op # "flush" PROVE Keeps(t, Front(t))
  <2>1. PICK u : u = Front(t)
    OBVIOUS
  <2>2. \A k \in DOMAIN t : t[k].op = "flush" => k \in DOMAIN u /\ u[k] = t[k]
    BY <1>2, <2>1, Popped
  <2> QED
    BY <2>1, <2>2 DEF Keeps, Passed
<1>3. ASSUME NEW g \in Frames, t # <<>>, g.op = Last(t).op,
             g.op = "flush" => Last(t).pos \in Nat /\ g.pos = Last(t).pos + 1
      PROVE  Keeps(t, Append(Front(t), g))
  <2>1. PICK u : u = Front(t)
    OBVIOUS
  <2>2. /\ u \in Seq(Frames) /\ Last(t) = t[Len(t)]
        /\ \A k \in DOMAIN t : (k \in DOMAIN u /\ u[k] = t[k]) \/ k = Len(t)
    BY <1>3, <2>1, Popped
  <2>3. PICK v : v = Append(u, g)
    OBVIOUS
  <2>4. /\ Len(u) + 1 \in DOMAIN v /\ v[Len(u) + 1] = g
        /\ \A k \in DOMAIN u : v[k] = u[k] /\ k \in DOMAIN v
    <3>1. /\ v[Len(u) + 1] = g /\ Len(u) \in Nat /\ DOMAIN v = 1..(Len(u) + 1)
          /\ \A k \in DOMAIN u : v[k] = u[k] /\ k \in DOMAIN v
      BY <2>2, <2>3, Pushed
    <3> QED
      BY <3>1
  <2>5. ASSUME NEW i \in Nat, Passed(t, i) PROVE Passed(v, i)
    <3>1. PICK k \in DOMAIN t : t[k].op = "flush" /\ i <= t[k].pos
      BY <2>5 DEF Passed
    <3>2. CASE k \in DOMAIN u /\ u[k] = t[k]
      BY <3>1, <3>2, <2>4 DEF Passed
    <3>3. CASE k = Len(t)
      <4>1. g.op = "flush" /\ Last(t).pos \in Nat /\ g.pos = Last(t).pos + 1 /\ i <= Last(t).pos
        BY <3>1, <3>3, <2>2, <1>3
      <4>2. i <= g.pos
        BY <4>1
      <4> QED
        BY <4>1, <4>2, <2>4 DEF Passed
    <3> QED
      BY <3>2, <3>3, <2>2
  <2> QED
    BY <2>1, <2>3, <2>5 DEF Keeps
<1> QED
  BY <1>1, <1>2, <1>3

(* Steps that push a frame that delivers nothing, and those that pop one,  *)
(* do nothing to any signal.                                               *)
Grows   == \E f \in Frames : f.op # "send" /\ stack' = Append(stack, f)
Shrinks == stack # <<>> /\ Top.op \in {"call", "drain"} /\ stack' = Front(stack)

LEMMA PlainSteps ==
    ASSUME Orderly, TypeOK, CalmInv,
           \/ StartModule \/ BootFlush \/ Event \/ Unload \/ Load \/ QueueEmpty
           \/ EndDrain \/ Return
    PROVE  /\ UNCHANGED <<waiting, info, stage, payload, seen>>
           /\ boot' = "loop" /\ reader' = "idle" => boot = "loop" /\ reader = "idle"
           /\ \/ stack' = stack
              \/ Shrinks
              \/ Grows /\ (stack # <<>> => Top.op # "send" \/ Top.drain)
<1>a. stack \in Seq(Frames)
  BY DEF TypeOK
<1>b. \A p \in Plugins, why \in {"start", "event", "destroy"} :
          Call(p, 0, why) \in Frames /\ Call(p, 0, why).op # "send"
  <2>1. 0 \in 0..MaxSignals
    BY BoundsAssumption
  <2> QED
    BY <2>1, FrameTypes, PlainFrames
<1>c. Loaded \subseteq Plugins /\ \A p \in ToSet(Modules) : p \in Plugins
  BY RestType, ModulesAssumption, ElementOfSeq DEF ToSet
<1>d. \A by \in {"boot", "thread"} : Flush(by) \in Frames /\ Flush(by).op # "send"
  BY FrameTypes, PlainFrames
<1>1. CASE StartModule
  <2>1. PICK p \in ToSet(Modules) : stack' = stack \/ stack' = Append(stack, Call(p, 0, "start"))
    BY <1>1 DEF StartModule, Push
  <2>2. Grows \/ stack' = stack
    BY <2>1, <1>b, <1>c DEF Grows
  <2> QED
    BY <1>1, <2>2 DEF StartModule, sigVars, threadVars
<1>2. CASE BootFlush
  BY <1>2, <1>d DEF BootFlush, Push, Grows, sigVars, threadVars
<1>3. CASE Event
  <2>1. PICK p \in started \cap Loaded : stack' = Append(stack, Call(p, 0, "event"))
    BY <1>3 DEF Event, Push
  <2>2. Grows
    BY <2>1, <1>b, <1>c DEF Grows
  <2> QED
    BY <1>3, <2>2 DEF Event, Draining, TopIs, pluginVars, sigVars, threadVars
<1>4. CASE Unload
  <2>1. PICK p \in Removable \cap Loaded : stack' = Append(stack, Call(p, 0, "destroy"))
    BY <1>4 DEF Unload, Push
  <2>2. Grows
    BY <2>1, <1>b, <1>c DEF Grows
  <2> QED
    BY <1>4, <2>2 DEF Unload, TopIs, pluginVars, sigVars, threadVars
<1>5. CASE Load
  <2>1. PICK p \in ToSet(Modules) : stack' = Append(stack, Call(p, 0, "start"))
    BY <1>5 DEF Load, Push
  <2>2. Grows
    BY <2>1, <1>b, <1>c DEF Grows
  <2> QED
    BY <1>5, <2>2 DEF Load, TopIs, sigVars, threadVars
<1>6. CASE QueueEmpty
  <2>1. Grows
    BY <1>6, <1>d DEF QueueEmpty, Push, Grows
  <2>2. stack # <<>> => Top.op # "send" \/ Top.drain
    BY <1>6 DEF QueueEmpty, CalmInv, Reading, Top
  <2> QED
    BY <1>6, <2>1, <2>2 DEF QueueEmpty, sigVars
<1>7. CASE EndDrain
  BY <1>7 DEF EndDrain, TopIs, Pop, Shrinks, pluginVars, sigVars, threadVars
<1>8. CASE Return
  <2>1. stack # <<>> /\ Top.op = "call" /\ stack' = Front(stack)
    BY <1>8, DestroyMarksNone DEF Return, TopIs, Pop
  <2> QED
    BY <1>8, <2>1 DEF Return, Shrinks, sigVars, threadVars
<1> QED
  BY <1>1, <1>2, <1>3, <1>4, <1>5, <1>6, <1>7, <1>8

LEMMA ListedKept ==
    ASSUME TypeOK, CalmInv, Keeps(stack, stack'), waiting' = waiting,
           \A s \in SigIds : stage'[s] = "waiting" <=> stage[s] = "waiting",
           boot' = "loop" /\ reader' = "idle" => boot = "loop" /\ reader = "idle"
    PROVE  Listed(stack', waiting', stage', boot', reader')
<1>1. Listed(stack, waiting, stage, boot, reader)
  BY DEF CalmInv
<1>2. \A i \in DOMAIN waiting : waiting[i] \in SigIds /\ i \in Nat
  BY Numbers
<1>3. ASSUME NEW i \in DOMAIN waiting PROVE stage'[waiting[i]] = "waiting" \/ Passed(stack', i)
  BY <1>1, <1>2 DEF Listed, Keeps
<1> QED
  BY <1>1, <1>3 DEF Listed

(* A new signal is on no list and waits nowhere.                           *)
LEMMA FreshNumber ==
    ASSUME TypeOK, CalmInv, NEW e \in Emission, NEW st \in {"queue", "waiting", "running", "lost"},
           NewSignal(e, st)
    PROVE  /\ Len(info) + 1 \in SigIds /\ Len(info) + 1 \notin DOMAIN info
           /\ \A i \in DOMAIN waiting : waiting[i] # Len(info) + 1
           /\ stage[Len(info) + 1] # "waiting"
           /\ stage'[Len(info) + 1] = st
           /\ \A s \in SigIds : s # Len(info) + 1 => stage'[s] = stage[s]
<1>1. /\ Len(info) + 1 \in SigIds /\ Len(info) + 1 \notin DOMAIN info
      /\ stage'[Len(info) + 1] = st
      /\ \A s \in SigIds : s # Len(info) + 1 => stage'[s] = stage[s]
  BY NewNumber
<1>2. \A i \in DOMAIN waiting : waiting[i] # Len(info) + 1
  BY <1>1, Numbers
<1> QED
  BY <1>1, <1>2 DEF CalmInv, Listed

(* A signal is put at the end of the waiting list.                         *)
LEMMA ListedMore ==
    ASSUME TypeOK, CalmInv, Keeps(stack, stack'), NEW n \in SigIds, waiting' = Append(waiting, n),
           \A i \in DOMAIN waiting : waiting[i] # n,
           stage'[n] = "waiting", \A s \in SigIds : s # n => stage'[s] = stage[s],
           ~(boot' = "loop" /\ reader' = "idle")
    PROVE  Listed(stack', waiting', stage', boot', reader')
<1>1. Listed(stack, waiting, stage, boot, reader)
  BY DEF CalmInv
<1>2. waiting \in Seq(Nat) /\ n \in Nat /\ \A i \in DOMAIN waiting : waiting[i] \in SigIds /\ i \in Nat
  BY ListsOfNumbers, Numbers
<1>3. PICK ws : ws = Append(waiting, n)
  OBVIOUS
<1>4. /\ Len(waiting) + 1 \in DOMAIN ws /\ ws[Len(waiting) + 1] = n
      /\ \A i \in DOMAIN waiting : ws[i] = waiting[i] /\ i \in DOMAIN ws
      /\ \A i \in DOMAIN ws : i \in DOMAIN waiting \/ i = Len(waiting) + 1
  <2>1. /\ DOMAIN ws = 1..(Len(waiting) + 1) /\ ws[Len(waiting) + 1] = n /\ Len(waiting) \in Nat
        /\ \A i \in DOMAIN waiting : ws[i] = waiting[i] /\ i \in DOMAIN ws
        /\ \A i \in DOMAIN ws : i \in DOMAIN waiting \/ i = Len(waiting) + 1
    BY <1>2, <1>3, Pushed
  <2> QED
    BY <2>1
<1>5. \A i, j \in DOMAIN ws : ws[i] = ws[j] => i = j
  BY <1>1, <1>4 DEF Listed
<1>6. ASSUME NEW i \in DOMAIN ws PROVE stage'[ws[i]] = "waiting" \/ Passed(stack', i)
  <2>1. CASE i \in DOMAIN waiting
    <3>1. stage[waiting[i]] = "waiting" \/ Passed(stack, i)
      BY <2>1, <1>1 DEF Listed
    <3>2. waiting[i] # n /\ waiting[i] \in SigIds /\ i \in Nat /\ ws[i] = waiting[i]
      BY <2>1, <1>2, <1>4
    <3> QED
      BY <3>1, <3>2 DEF Keeps
  <2>2. CASE i = Len(waiting) + 1
    BY <2>2, <1>4
  <2> QED
    BY <2>1, <2>2, <1>4
<1>7. ASSUME NEW s \in SigIds, stage'[s] = "waiting" PROVE \E i \in DOMAIN ws : ws[i] = s
  <2>1. CASE s = n
    BY <2>1, <1>4
  <2>2. CASE s # n
    <3>1. PICK i \in DOMAIN waiting : waiting[i] = s
      BY <2>2, <1>7, <1>1 DEF Listed
    <3> QED
      BY <3>1, <1>4
  <2> QED
    BY <2>1, <2>2
<1> QED
  BY <1>3, <1>5, <1>6, <1>7 DEF Listed

LEMMA ListedStep ==
    ASSUME Orderly, TypeOK, OrderInv, CalmInv, [Next]_vars
    PROVE  Listed(stack', waiting', stage', boot', reader')
<1>a. stack \in Seq(Frames) /\ Keeps(stack, stack)
  BY DEF TypeOK, Keeps
<1>b. ASSUME UNCHANGED <<stack, waiting, stage>>,
             boot' = "loop" /\ reader' = "idle" => boot = "loop" /\ reader = "idle"
      PROVE  Listed(stack', waiting', stage', boot', reader')
  <2>1. Keeps(stack, stack')
    BY <1>a, <1>b
  <2> QED
    BY <2>1, <1>b, ListedKept
<1>t. stack # <<>> => Top = Last(stack) /\ Front(stack) \in Seq(Frames) /\ Top \in Frames
  BY StackTop DEF Top
<1>1. CASE LoadModule
  <2>1. boot' # "loop"
    BY <1>1 DEF LoadModule
  <2> QED
    BY <1>1, <2>1, <1>b DEF LoadModule, sigVars
<1>2. CASE \/ StartModule \/ BootFlush \/ Event \/ Unload \/ Load \/ QueueEmpty
           \/ EndDrain \/ Return
  <2>1. /\ UNCHANGED <<waiting, info, stage, payload, seen>>
        /\ boot' = "loop" /\ reader' = "idle" => boot = "loop" /\ reader = "idle"
        /\ stack' = stack \/ Shrinks \/ Grows
    BY <1>2, PlainSteps
  <2>2. Keeps(stack, stack')
    BY <2>1, <1>a, <1>t, KeepsPassed DEF Shrinks, Grows
  <2> QED
    BY <2>1, <2>2, ListedKept
<1>3. CASE Emit
  <2>1. PICK e \in Emissions : EmitUnregistered(e) \/ EmitNow(e) \/ EmitLater(e)
    BY <1>3 DEF Emit
  <2>2. e \in Emission /\ UNCHANGED <<boot, reader, allLoaded>>
    BY <1>3, EmissionsAssumption DEF Emit, pluginVars, threadVars
  <2>3. CASE EmitUnregistered(e)
    <3>1. NewSignal(e, "lost") /\ UNCHANGED <<waiting, stack>>
      BY <2>3 DEF EmitUnregistered
    <3>2. \A s \in SigIds : stage'[s] = "waiting" <=> stage[s] = "waiting"
      BY <3>1, <2>2, FreshNumber
    <3>3. Keeps(stack, stack')
      BY <3>1, <1>a
    <3> QED
      BY <2>2, <3>1, <3>2, <3>3, ListedKept
  <2>d. Drain \in Frames /\ Append(stack, Drain) \in Seq(Frames) /\ Keeps(stack, Append(stack, Drain))
    <3>1. PICK f : f = Drain
      OBVIOUS
    <3>2. f \in Frames
      BY <3>1, FrameTypes
    <3> QED
      BY <3>1, <3>2, <1>a, Pushed, KeepsPassed
  <2>4. CASE EmitNow(e)
    <3>1. NewSignal(e, "running") /\ UNCHANGED waiting
      BY <2>4 DEF EmitNow
    <3>2. PICK f \in Frames : stack' = Append(Append(stack, Drain), f)
      BY <2>4, EmitNowForm
    <3>3. \A s \in SigIds : stage'[s] = "waiting" <=> stage[s] = "waiting"
      BY <3>1, <2>2, FreshNumber
    <3>4. Keeps(Append(stack, Drain), stack')
      BY <3>2, <2>d, KeepsPassed
    <3>5. Keeps(stack, stack')
      BY <3>4, <2>d DEF Keeps
    <3> QED
      BY <2>2, <3>1, <3>3, <3>5, ListedKept
  <2>5. CASE EmitLater(e)
    <3>1. PICK n : n = Len(info) + 1
      OBVIOUS
    <3>2. NewSignal(e, "waiting") /\ waiting' = Append(waiting, n) /\ ~allLoaded /\ stack' = Append(stack, Drain)
      BY <2>5, <3>1 DEF EmitLater, Push
    <3>3. /\ n \in SigIds /\ \A i \in DOMAIN waiting : waiting[i] # n
          /\ stage'[n] = "waiting" /\ \A s \in SigIds : s # n => stage'[s] = stage[s]
      BY <3>1, <3>2, <2>2, FreshNumber
    <3>4. boot' # "loop"
      BY <2>2, <3>2 DEF CalmInv, Plugged
    <3> QED
      BY <2>d, <3>2, <3>3, <3>4, ListedMore
  <2> QED
    BY <2>1, <2>3, <2>4, <2>5
<1>4. CASE Deliver
  <2>1. PICK on \in Frames, g \in Frames :
           /\ stack # <<>> /\ Top.op = "send" /\ on.op = "send"
           /\ UNCHANGED <<boot, reader, waiting, stage>>
           /\ stack' = Append(Front(stack), on) \/ stack' = Append(Append(Front(stack), on), g)
    BY <1>4, DeliverForm
  <2>2. PICK t : t = Append(Front(stack), on)
    OBVIOUS
  <2>3. t \in Seq(Frames) /\ Keeps(stack, t)
    BY <2>1, <2>2, <1>a, <1>t, Pushed, KeepsPassed
  <2>4. Keeps(t, Append(t, g))
    BY <2>3, KeepsPassed
  <2>5. Keeps(stack, stack')
    BY <2>1, <2>2, <2>3, <2>4 DEF Keeps
  <2> QED
    BY <2>1, <2>5, ListedKept
<1>5. CASE NextReceiver
  <2>1. PICK on \in Frames :
           /\ stack # <<>> /\ Top.op = "send" /\ on.op = "send"
           /\ UNCHANGED <<boot, reader, waiting, stage>>
           /\ stack' = Append(Front(stack), on)
    BY <1>5, NextForm
  <2>2. Keeps(stack, stack')
    BY <2>1, <1>a, <1>t, KeepsPassed
  <2> QED
    BY <2>1, <2>2, ListedKept
<1>6. CASE EndSend
  <2>1. /\ stack # <<>> /\ Top.op = "send" /\ stack' = Front(stack)
        /\ stage[Top.sig] = "running" /\ stage' = [stage EXCEPT ![Top.sig] = "ended"]
        /\ UNCHANGED <<boot, reader, waiting>>
    BY <1>6 DEF EndSend, TopIs, Pop, pluginVars, threadVars
  <2>2. Keeps(stack, stack')
    BY <2>1, <1>a, <1>t, KeepsPassed
  <2>3. \A s \in SigIds : stage'[s] = "waiting" <=> stage[s] = "waiting"
    BY <2>1 DEF TypeOK
  <2> QED
    BY <2>1, <2>2, <2>3, ListedKept
<1>7. CASE FlushNext
  <2>1. /\ stack # <<>> /\ Top.op = "flush" /\ Top.pos \in Nat /\ Top.pos + 1 \in DOMAIN waiting
        /\ UNCHANGED <<boot, reader, waiting>>
        /\ \E s \in SigIds, f \in Frames, g \in Frames :
              /\ s = waiting[Top.pos + 1] /\ stage[s] = "waiting"
              /\ f.op = "flush" /\ f.pos = Top.pos + 1
              /\ \/ /\ stack' = Append(Append(Front(stack), f), g)
                    /\ stage' = [stage EXCEPT ![s] = "running"]
                 \/ /\ stack' = Append(Front(stack), f)
                    /\ stage' = [stage EXCEPT ![s] = "ended"]
    BY <1>7, FlushNextForm
  <2>2. PICK s \in SigIds, f \in Frames, g \in Frames :
              /\ s = waiting[Top.pos + 1] /\ stage[s] = "waiting"
              /\ f.op = "flush" /\ f.pos = Top.pos + 1
              /\ \/ /\ stack' = Append(Append(Front(stack), f), g)
                    /\ stage' = [stage EXCEPT ![s] = "running"]
                 \/ /\ stack' = Append(Front(stack), f)
                    /\ stage' = [stage EXCEPT ![s] = "ended"]
    BY <2>1
  <2>3. PICK t : t = Append(Front(stack), f)
    OBVIOUS
  <2>4. t \in Seq(Frames) /\ Keeps(stack, t)
    BY <2>1, <2>2, <2>3, <1>a, <1>t, Pushed, KeepsPassed
  <2>5. Passed(t, Top.pos + 1)
    <3>1. /\ Len(Front(stack)) \in Nat /\ DOMAIN t = 1..(Len(Front(stack)) + 1)
          /\ t[Len(Front(stack)) + 1] = f
      BY <2>1, <2>3, <1>t, Pushed
    <3>2. Len(Front(stack)) + 1 \in DOMAIN t
      BY <3>1
    <3>3. Top.pos + 1 <= f.pos
      BY <2>1, <2>2
    <3> QED
      BY <3>1, <3>2, <3>3, <2>2 DEF Passed
  <2>6. Keeps(t, Append(t, g)) /\ Top.pos + 1 \in Nat
    BY <2>1, <2>4, KeepsPassed
  <2>7. Keeps(stack, stack') /\ Passed(stack', Top.pos + 1)
    BY <2>2, <2>3, <2>4, <2>5, <2>6 DEF Keeps
  <2>8. Listed(stack, waiting, stage, boot, reader)
    BY DEF CalmInv
  <2>9. \A x \in SigIds : x # s => stage'[x] = stage[x]
    BY <2>2 DEF TypeOK
  <2>10. stage'[s] # "waiting"
    BY <2>2 DEF TypeOK
  <2>11. ASSUME NEW i \in DOMAIN waiting PROVE stage'[waiting[i]] = "waiting" \/ Passed(stack', i)
    <3>1. CASE i = Top.pos + 1
      BY <3>1, <2>7
    <3>2. CASE i # Top.pos + 1
      <4>1. waiting[i] # s /\ waiting[i] \in SigIds /\ i \in Nat
        BY <3>2, <2>1, <2>2, <2>8, Numbers DEF Listed
      <4> QED
        BY <4>1, <2>7, <2>8, <2>9 DEF Listed, Keeps
    <3> QED
      BY <3>1, <3>2
  <2>12. \A x \in SigIds : stage'[x] = "waiting" => stage[x] = "waiting"
    BY <2>9, <2>10
  <2> QED
    BY <2>1, <2>8, <2>11, <2>12 DEF Listed
<1>8. CASE FlushEnd
  <2>1. stack # <<>> /\ Top.op = "flush" /\ Top.pos = Len(waiting) /\ waiting' = <<>> /\ stage' = stage
    BY <1>8 DEF FlushEnd, TopIs, sigVars
  <2>2. Walked(Top) /\ ~Top.stale
    BY <2>1, CalmTop DEF OrderInv
  <2>3. \A i \in DOMAIN waiting : i <= Top.pos
    BY <2>1, Numbers
  <2>4. \A i \in DOMAIN waiting : stage[waiting[i]] # "waiting"
    BY <2>1, <2>2, <2>3 DEF Walked
  <2>5. \A s \in SigIds : stage'[s] # "waiting"
    BY <2>1, <2>4 DEF CalmInv, Listed
  <2>6. DOMAIN waiting' = {}
    BY <2>1, EmptySeq, NoneIn
  <2> QED
    BY <2>1, <2>5, <2>6 DEF Listed
<1>9. CASE DispatchReader \/ ReadByte
  BY <1>9, <1>b DEF DispatchReader, ReadByte, pluginVars, sigVars
<1>10. CASE PopSignal
  <2>1. PICK h : h = Head(queue)
    OBVIOUS
  <2>2. /\ reader = "pop" /\ queue # <<>> /\ waiting' = Append(waiting, h) /\ reader' = "read"
        /\ stage' = [stage EXCEPT ![h] = "waiting"] /\ UNCHANGED <<stack, boot>>
    BY <1>10, <2>1 DEF PopSignal, pluginVars
  <2>3. 1 \in DOMAIN queue /\ h = queue[1]
    <3>1. Len(queue) # 0
      BY <2>2, EmptySeq DEF TypeOK
    <3> QED
      BY <3>1, <2>1, <2>2, Numbers, HeadTailProperties DEF TypeOK
  <2>4. h \in SigIds /\ stage[h] = "queue"
    BY <2>3, Numbers DEF OrderInv, Queued
  <2>5. stage'[h] = "waiting" /\ \A s \in SigIds : s # h => stage'[s] = stage[s]
    BY <2>2, <2>4 DEF TypeOK
  <2>6. boot = "loop"
    BY <2>2 DEF CalmInv, Reading
  <2>7. \A k \in DOMAIN stack : stack[k].op # "flush"
    BY <2>2, <2>6 DEF CalmInv, Steady, Owned
  <2>8. \A i \in DOMAIN waiting : waiting[i] # h
    BY <2>4, <2>7 DEF CalmInv, Listed, Passed
  <2>9. Keeps(stack, stack')
    BY <2>2, <1>a
  <2> QED
    BY <2>2, <2>4, <2>5, <2>8, <2>9, ListedMore
<1>11. ASSUME NEW w \in Workers, WorkerPush(w) PROVE Listed(stack', waiting', stage', boot', reader')
  <2>1. PICK e \in WorkerEmissions : NewSignal(e, "queue")
    BY <1>11 DEF WorkerPush
  <2>2. e \in Emission
    BY EmissionsAssumption
  <2>3. \A s \in SigIds : stage'[s] = "waiting" <=> stage[s] = "waiting"
    BY <2>1, <2>2, FreshNumber
  <2>4. UNCHANGED <<stack, waiting, boot, reader>>
    BY <1>11 DEF WorkerPush, pluginVars
  <2>5. Keeps(stack, stack')
    BY <2>4, <1>a
  <2> QED
    BY <2>3, <2>4, <2>5, ListedKept
<1>12. ASSUME NEW w \in Workers, WorkerWrite(w) PROVE Listed(stack', waiting', stage', boot', reader')
  BY <1>12, <1>b DEF WorkerWrite, pluginVars, sigVars
<1>13. CASE UnknownDestination \/ UseAfterFree
  BY <1>13, NoneFails
<1>14. CASE UNCHANGED vars \/ Register
  BY <1>14, <1>b, Idles DEF pluginVars, sigVars, threadVars
<1> QED
  BY <1>1, <1>2, <1>3, <1>4, <1>5, <1>6, <1>7, <1>8, <1>9, <1>10, <1>11, <1>12, <1>13, <1>14 DEF Next

-----------------------------------------------------------------------------
(* Steps: the deliveries under way.                                        *)

(* What do_signal has to do when it begins.                                *)
LEMMA FirstServes ==
    ASSUME Orderly, TypeOK, CalmInv, stack # <<>>, NEW e \in Emissions \cup WorkerEmissions,
           NEW f, f.rest = FirstRest(e.dest), ~f.drain
    PROVE  Serves(f, TRUE, e, {}, loaded)
<1>1. IsInjective(loaded) /\ ToSet(Modules) \ Removable \subseteq Loaded
  <2>1. boot \in {"start", "flush", "loop"}
    BY CalmTop DEF TypeOK
  <2> QED
    BY <2>1 DEF CalmInv, Plugged, Loaded
<1>2. CASE e.dest.kind = "all"
  <2>1. f.rest = Foremost(Loaded)
    BY <1>2 DEF FirstRest
  <2>2. ASSUME e.src \in Loaded
        PROVE  f.rest # {} /\ 1 \in DOMAIN loaded /\ f.rest = {loaded[1]}
               /\ {} = Behind(1, f.drain, e.src, loaded)
    <3>1. 1 \in DOMAIN loaded /\ f.rest = {loaded[1]}
      BY <1>1, <2>1, <2>2, Walks
    <3>2. Behind(1, f.drain, e.src, loaded) = {}
      BY DEF Behind
    <3> QED
      BY <3>1, <3>2
  <2>3. Wide(f, TRUE, e, {}, loaded)
    BY <2>2 DEF Wide, Loaded
  <2> QED
    BY <1>2, <2>3 DEF Serves
<1>3. CASE e.dest.kind # "all"
  <2>1. f.rest = e.dest.who \cap Loaded
    BY <1>3 DEF FirstRest
  <2>2. e.dest.kind = "name" => e.dest.who # {} /\ e.dest.who \subseteq Loaded
    BY <1>1 DEF Orderly
  <2> QED
    BY <1>3, <2>1, <2>2 DEF Serves, Direct
<1> QED
  BY <1>2, <1>3

(* The signal on top is not delivered further down.                        *)
LEMMA TopAlone ==
    ASSUME TypeOK, CalmInv, stack # <<>>, Top.op = "send"
    PROVE  \A k \in DOMAIN Front(stack) : stack[k].op = "send" => stack[k].sig # Top.sig
<1>1. stack \in Seq(Frames) /\ AllApart(stack)
  BY DEF TypeOK, CalmInv, Steady
<1>2. Top = stack[Len(stack)] /\ Len(stack) \in DOMAIN stack
  BY CalmTop
<1>3. \A k \in DOMAIN Front(stack) : k \in DOMAIN stack /\ k # Len(stack)
  BY <1>1, Popped
<1> QED
  BY <1>1, <1>2, <1>3 DEF AllApart, Apart

(* One more plugin received the signal on top.                             *)
LEMMA DeliverSends ==
    ASSUME TypeOK, CalmInv, Deliver, NEW p \in Foremost(Top.rest), NEW on,
           on.op = "send", on.sig = Top.sig,
           LET wide == info[Top.sig].dest.kind = "all"
           IN  /\ on.drain <=> wide
               /\ on.rest = IF wide THEN Top.rest ELSE Top.rest \ {p}
               /\ seen'[Top.sig] = IF wide /\ p = info[Top.sig].src
                                   THEN seen[Top.sig] ELSE seen[Top.sig] \cup {p}
    PROVE  /\ p \in Top.rest
           /\ (info[Top.sig].dest.kind = "all" /\ p = info[Top.sig].src) \/ p \notin seen[Top.sig]
           /\ Sends(on, TRUE, info, stage, seen', loaded)
<1> DEFINE e   == info[Top.sig]
           got == seen[Top.sig]
<1>1. /\ stack # <<>> /\ Top.op = "send" /\ ~Top.drain
      /\ e.dest.kind = "all" => e.src \in Loaded
  BY DeliverForm
<1>2. Top.sig \in DOMAIN info /\ stage[Top.sig] = "running" /\ Serves(Top, TRUE, e, got, loaded)
  BY <1>1, CalmTop DEF Sends
<1>3. p \in Top.rest
  BY DEF Foremost
<1> HIDE DEF e, got
<1>4. CASE e.dest.kind = "all"
  <2>1. Wide(Top, TRUE, e, got, loaded) /\ e.src \in ToSet(loaded)
    BY <1>1, <1>2, <1>4 DEF Serves, Loaded
  <2>2. PICK n \in DOMAIN loaded :
           Top.rest = {loaded[n]} /\ got = Behind(n, Top.drain, e.src, loaded)
    BY <1>3, <2>1 DEF Wide
  <2>3. IsInjective(loaded) /\ DOMAIN loaded = 1..Len(loaded) /\ Len(loaded) \in Nat
    BY LenProperties DEF CalmInv, Plugged, TypeOK
  <2>4. p = loaded[n]
    BY <1>3, <2>2
  <2>5. got = {loaded[i] : i \in 1..(n - 1)} \ {e.src}
    BY <1>1, <2>2 DEF Behind
  <2>6. \A i \in 1..(n - 1) : loaded[i] # p
    BY <2>3, <2>4 DEF IsInjective
  <2>7. p \notin got
    BY <2>5, <2>6
  <2>8. on.drain /\ on.rest = {loaded[n]}
    BY <1>4, <2>2 DEF e
  <2>9. Behind(n, on.drain, e.src, loaded) = {loaded[i] : i \in 1..n} \ {e.src}
    BY <2>8 DEF Behind
  <2>10. {loaded[i] : i \in 1..n} = {loaded[i] : i \in 1..(n - 1)} \cup {p}
    <3>1. \A i : i \in 1..n <=> i \in 1..(n - 1) \/ i = n
      BY <2>3
    <3> QED
      BY <3>1, <2>4
  <2>11. seen'[Top.sig] = IF p = e.src THEN got ELSE got \cup {p}
    BY <1>4 DEF e, got
  <2>12. seen'[Top.sig] = Behind(n, on.drain, e.src, loaded)
    BY <2>5, <2>9, <2>10, <2>11
  <2>13. Wide(on, TRUE, e, seen'[Top.sig], loaded)
    BY <2>1, <2>8, <2>12 DEF Wide
  <2>14. Sends(on, TRUE, info, stage, seen', loaded)
    BY <1>2, <1>4, <2>13 DEF Sends, Serves, e
  <2> QED
    BY <1>3, <2>7, <2>14 DEF e, got
<1>5. CASE e.dest.kind # "all"
  <2>1. Direct(Top, e, got)
    BY <1>2, <1>5 DEF Serves
  <2>2. on.rest = Top.rest \ {p} /\ seen'[Top.sig] = got \cup {p}
    BY <1>5 DEF e, got
  <2>3. Direct(on, e, seen'[Top.sig])
    BY <1>3, <2>1, <2>2 DEF Direct
  <2>4. Sends(on, TRUE, info, stage, seen', loaded)
    BY <1>2, <1>5, <2>3 DEF Sends, Serves, e
  <2>5. p \notin got
    BY <1>3, <2>1 DEF Direct
  <2> QED
    BY <1>3, <2>4, <2>5 DEF got
<1> QED
  BY <1>4, <1>5

(* The walk of a broadcast goes on to the next node.                       *)
LEMMA NextSends ==
    ASSUME TypeOK, CalmInv, NextReceiver, NEW p \in Top.rest, NEW on,
           on.op = "send", on.sig = Top.sig, ~on.drain, on.rest = NextNode(p)
    PROVE  Sends(on, TRUE, info, stage, seen, loaded)
<1> DEFINE e   == info[Top.sig]
           got == seen[Top.sig]
<1>1. /\ stack # <<>> /\ Top.op = "send" /\ e.dest.kind = "all"
      /\ Top.drain \/ e.src \notin Loaded
  BY NextForm
<1>2. Top.sig \in DOMAIN info /\ stage[Top.sig] = "running" /\ Serves(Top, TRUE, e, got, loaded)
  BY <1>1, CalmTop DEF Sends
<1> HIDE DEF e, got
<1>3. ASSUME e.src \in ToSet(loaded)
      PROVE  IF on.rest = {} THEN ToSet(loaded) \ {e.src} \subseteq got
             ELSE \E n \in DOMAIN loaded :
                     on.rest = {loaded[n]} /\ got = Behind(n, on.drain, e.src, loaded)
  <2>1. Wide(Top, TRUE, e, got, loaded) /\ Top.drain
    BY <1>1, <1>2, <1>3 DEF Serves, Loaded
  <2>2. PICK n \in DOMAIN loaded :
           Top.rest = {loaded[n]} /\ got = Behind(n, Top.drain, e.src, loaded)
    BY <1>3, <2>1 DEF Wide
  <2>3. IsInjective(loaded) /\ DOMAIN loaded = 1..Len(loaded) /\ Len(loaded) \in Nat
    BY LenProperties DEF CalmInv, Plugged, TypeOK
  <2>4. p = loaded[n] /\ got = {loaded[i] : i \in 1..n} \ {e.src}
    BY <2>1, <2>2 DEF Behind
  <2>5. CASE n + 1 \in DOMAIN loaded
    <3>1. on.rest = {loaded[n + 1]}
      BY <2>3, <2>4, <2>5, Walks
    <3>2. Behind(n + 1, on.drain, e.src, loaded) = {loaded[i] : i \in 1..((n + 1) - 1)} \ {e.src}
      BY DEF Behind
    <3>3. (n + 1) - 1 = n
      BY <2>3
    <3> QED
      BY <2>4, <2>5, <3>1, <3>2, <3>3
  <2>6. CASE n + 1 \notin DOMAIN loaded
    <3>1. on.rest = {}
      BY <2>3, <2>4, <2>6, Walks
    <3>2. \A i \in DOMAIN loaded : i \in 1..n
      BY <2>3, <2>6
    <3>3. ToSet(loaded) \subseteq {loaded[i] : i \in 1..n}
      BY <3>2 DEF ToSet
    <3> QED
      BY <2>4, <3>1, <3>3
  <2> QED
    BY <2>5, <2>6
<1>4. Wide(on, TRUE, e, got, loaded)
  BY <1>3 DEF Wide
<1> QED
  BY <1>1, <1>2, <1>4 DEF Sends, Serves, e, got

(* A new signal disturbs no delivery.                                      *)
LEMMA NewSending ==
    ASSUME TypeOK, CalmInv, NEW e \in Emission, NEW st \in {"queue", "waiting", "running", "lost"},
           NewSignal(e, st)
    PROVE  /\ Sending(stack, info', stage', seen', loaded)
           /\ Len(info) + 1 \in DOMAIN info' /\ info'[Len(info) + 1] = e
           /\ DOMAIN info \subseteq DOMAIN info' /\ seen' = seen
           /\ \A s \in DOMAIN info' : (s \in DOMAIN info /\ info'[s] = info[s]) \/ s = Len(info) + 1
<1>1. info \in Seq(Emission) /\ info' = Append(info, e) /\ seen' = seen
  BY DEF TypeOK, NewSignal
<1>2. /\ DOMAIN info' = 1..(Len(info) + 1) /\ Len(info) \in Nat /\ info'[Len(info) + 1] = e
      /\ \A s \in DOMAIN info : info'[s] = info[s] /\ s \in DOMAIN info'
      /\ \A s \in DOMAIN info' : s \in DOMAIN info \/ s = Len(info) + 1
  BY <1>1, Pushed
<1>3. Len(info) + 1 \in DOMAIN info'
  BY <1>2
<1>4. \A s \in DOMAIN info : s \in SigIds /\ s # Len(info) + 1
  BY Numbers, NewNumber
<1>5. \A s \in DOMAIN info : stage'[s] = stage[s]
  BY <1>4, NewNumber
<1>6. Sending(stack, info, stage, seen, loaded)
  BY DEF CalmInv
<1>7. \A s \in DOMAIN info : s \in DOMAIN info' /\ info'[s] = info[s] /\ stage'[s] = stage[s] /\ seen'[s] = seen[s]
  BY <1>1, <1>2, <1>5
<1>8. Sending(stack, info', stage', seen', loaded)
  BY <1>6, <1>7 DEF Sending, Sends
<1> QED
  BY <1>1, <1>2, <1>3, <1>8

LEMMA SendingStep ==
    ASSUME Orderly, TypeOK, OrderInv, CalmInv, [Next]_vars
    PROVE  Sending(stack', info', stage', seen', loaded')
<1>a. stack \in Seq(Frames) /\ Sending(stack, info, stage, seen, loaded)
  BY DEF TypeOK, CalmInv
<1>b. ASSUME UNCHANGED <<stack, info, stage, seen, loaded>>
      PROVE  Sending(stack', info', stage', seen', loaded')
  BY <1>a, <1>b
<1>c. \A f, top, inf, stg, sn, ld : f.op # "send" => Sends(f, top, inf, stg, sn, ld) /\ Coverable(f, inf)
  BY DEF Sends, Coverable
<1>d. Below(stack, stage, seen, stage, seen)
  BY DEF Below
<1>t. stack # <<>> => Top = Last(stack) /\ Front(stack) \in Seq(Frames) /\ Top \in Frames
  BY StackTop DEF Top
<1>1. CASE LoadModule
  <2>1. stack = <<>> /\ stack' = stack
    BY <1>1 DEF LoadModule, CalmInv, Steady, Based
  <2>2. DOMAIN stack' = {}
    BY <2>1, EmptySeq, NoneIn
  <2> QED
    BY <2>2 DEF Sending
<1>2. CASE \/ StartModule \/ BootFlush \/ Event \/ Unload \/ Load \/ QueueEmpty
           \/ EndDrain \/ Return
  <2>1. /\ UNCHANGED <<info, stage, seen>>
        /\ \/ stack' = stack
           \/ Shrinks
           \/ Grows /\ (stack # <<>> => Top.op # "send" \/ Top.drain)
    BY <1>2, PlainSteps
  <2>3. Sending(stack', info, stage, seen, loaded)
    <3>1. CASE stack' = stack
      BY <1>a, <3>1
    <3>2. CASE Shrinks
      BY <3>2, <1>a, <1>d, PopSending DEF Shrinks
    <3>3. CASE Grows /\ (stack # <<>> => Top.op # "send" \/ Top.drain)
      <4>1. PICK f \in Frames : f.op # "send" /\ stack' = Append(stack, f)
        BY <3>3 DEF Grows
      <4>2. stack # <<>> => Coverable(Last(stack), info)
        BY <3>3, <1>t DEF Coverable
      <4> QED
        BY <4>1, <4>2, <1>a, <1>c, PushSending
    <3> QED
      BY <2>1, <3>1, <3>2, <3>3
  <2>4. CASE loaded' = loaded
    BY <2>1, <2>3, <2>4
  <2>5. CASE Load
    <3>1. PICK p \in ToSet(Modules) : loaded' = Append(loaded, p) /\ stack' = Append(stack, Call(p, 0, "start"))
      BY <2>5 DEF Load, Push
    <3>2. PICK f : f = Call(p, 0, "start")
      OBVIOUS
    <3>3. p \in Plugins
      BY ModulesAssumption, ElementOfSeq DEF ToSet
    <3>4. f \in Frames /\ f.op # "send"
      <4>1. 0 \in 0..MaxSignals
        BY BoundsAssumption
      <4> QED
        BY <3>2, <3>3, <4>1, FrameTypes, PlainFrames
    <3>5. stack' \in Seq(Frames) /\ stack' # <<>> /\ Last(stack').op # "send"
      BY <1>a, <3>1, <3>2, <3>4, Pushed
    <3>6. loaded \in Seq(Plugins)
      BY DEF TypeOK
    <3> QED
      BY <2>1, <2>3, <3>1, <3>3, <3>5, <3>6, LoadSending
  <2>6. CASE Return /\ Top.why = "destroy"
    <3>1. /\ stack # <<>> /\ stack' = Front(stack) /\ Len(stack) = 2 /\ stack[1].op = "call"
      BY <2>6, DestroyMarksNone DEF Manages
    <3>2. DOMAIN stack' = 1..(Len(stack) - 1) /\ \A k \in DOMAIN stack' : stack'[k] = stack[k]
      BY <1>a, <3>1, Popped
    <3>3. \A k \in DOMAIN stack' : k = 1
      BY <3>1, <3>2
    <3>4. \A k \in DOMAIN stack' : stack'[k].op # "send"
      BY <3>1, <3>2, <3>3
    <3> QED
      BY <3>4, <1>c DEF Sending
  <2> QED
    BY <1>2, <2>4, <2>5, <2>6
       DEF StartModule, BootFlush, Event, Unload, QueueEmpty, EndDrain, Return, pluginVars
<1>3. CASE Emit
  <2>1. PICK e \in Emissions : EmitUnregistered(e) \/ EmitNow(e) \/ EmitLater(e)
    BY <1>3 DEF Emit
  <2>2. e \in Emission /\ loaded' = loaded /\ stack # <<>> /\ Top.op = "call"
    BY <1>3, EmissionsAssumption DEF Emit, TopIs, pluginVars
  <2>3. CASE EmitUnregistered(e)
    BY <2>2, <2>3, NewSending DEF EmitUnregistered
  <2>d. ASSUME Sending(stack, info', stage', seen', loaded)
        PROVE  /\ Append(stack, Drain) \in Seq(Frames) /\ Append(stack, Drain) # <<>>
               /\ Sending(Append(stack, Drain), info', stage', seen', loaded)
               /\ Coverable(Last(Append(stack, Drain)), info')
    <3>1. PICK f : f = Drain
      OBVIOUS
    <3>2. f \in Frames /\ f.op # "send"
      BY <3>1, FrameTypes, PlainFrames
    <3>3. Append(stack, f) \in Seq(Frames) /\ Append(stack, f) # <<>> /\ Last(Append(stack, f)) = f
      BY <3>2, <1>a, Pushed
    <3>4. Coverable(Last(stack), info') /\ Coverable(f, info')
      BY <2>2, <3>2, <1>c, <1>t
    <3>5. Sends(f, TRUE, info', stage', seen', loaded)
      BY <3>2, <1>c
    <3>6. Sending(Append(stack, f), info', stage', seen', loaded)
      BY <1>a, <2>d, <3>2, <3>4, <3>5, PushSending
    <3> QED
      BY <3>1, <3>3, <3>4, <3>6
  <2>4. CASE EmitNow(e)
    <3>1. NewSignal(e, "running")
      BY <2>4 DEF EmitNow
    <3>2. PICK f \in Frames : /\ f = Send(Len(info) + 1, FirstRest(e.dest)) /\ f.op = "send"
                              /\ f.sig = Len(info) + 1 /\ Len(info) + 1 \in SigIds
                              /\ Len(info) + 1 \notin DOMAIN info
                              /\ stack' = Append(Append(stack, Drain), f)
      BY <2>4, EmitNowForm
    <3>3. /\ Sending(stack, info', stage', seen', loaded)
          /\ f.sig \in DOMAIN info' /\ info'[f.sig] = e /\ seen' = seen
      BY <2>2, <3>1, <3>2, NewSending
    <3>4. stage'[f.sig] = "running"
      BY <2>2, <3>1, <3>2, NewNumber
    <3>5. seen'[f.sig] = {}
      BY <3>2, <3>3 DEF CalmInv, Begun
    <3>6. f.rest = FirstRest(e.dest) /\ ~f.drain
      BY <3>2, PlainFrames
    <3>7. Serves(f, TRUE, e, {}, loaded)
      BY <2>2, <3>6, FirstServes
    <3>8. Sends(f, TRUE, info', stage', seen', loaded)
      BY <3>3, <3>4, <3>5, <3>7 DEF Sends
    <3>9. PICK t : t = Append(stack, Drain)
      OBVIOUS
    <3>10. /\ t \in Seq(Frames) /\ t # <<>> /\ Sending(t, info', stage', seen', loaded)
           /\ Coverable(Last(t), info')
      BY <2>d, <3>3, <3>9
    <3>11. Sending(Append(t, f), info', stage', seen', loaded)
      BY <3>2, <3>8, <3>10, PushSending
    <3> QED
      BY <2>2, <3>2, <3>9, <3>11
  <2>5. CASE EmitLater(e)
    <3>1. NewSignal(e, "waiting") /\ stack' = Append(stack, Drain)
      BY <2>5 DEF EmitLater, Push
    <3>2. Sending(stack, info', stage', seen', loaded)
      BY <2>2, <3>1, NewSending
    <3> QED
      BY <2>2, <2>d, <3>1, <3>2
  <2> QED
    BY <2>1, <2>3, <2>4, <2>5
<1>4. CASE Deliver
  <2>1. /\ stack # <<>> /\ Top.op = "send" /\ Top.sig \in SigIds
        /\ UNCHANGED <<loaded, info, stage>>
    BY <1>4, DeliverForm
  <2>2. PICK p \in Foremost(Top.rest), on \in Frames, g \in Frames :
           LET wide == info[Top.sig].dest.kind = "all"
           IN  /\ on.op = "send" /\ on.sig = Top.sig /\ (on.drain <=> wide)
               /\ on.rest = IF wide THEN Top.rest ELSE Top.rest \ {p}
               /\ g = Call(p, Top.sig, "receive")
               /\ IF wide /\ p = info[Top.sig].src
                  THEN stack' = Append(Front(stack), on) /\ seen' = seen
                  ELSE /\ stack' = Append(Append(Front(stack), on), g)
                       /\ seen' = [seen EXCEPT ![Top.sig] = @ \cup {p}]
    BY <1>4, DeliverForm
  <2>3. /\ seen'[Top.sig] = IF info[Top.sig].dest.kind = "all" /\ p = info[Top.sig].src
                            THEN seen[Top.sig] ELSE seen[Top.sig] \cup {p}
        /\ \A s \in SigIds : s # Top.sig => seen'[s] = seen[s]
    BY <2>1, <2>2 DEF TypeOK
  <2>4. Sends(on, TRUE, info, stage, seen', loaded)
    BY <1>4, <2>2, <2>3, DeliverSends
  <2>5. Below(stack, stage, seen, stage, seen')
    <3>1. ASSUME NEW k \in DOMAIN Front(stack), stack[k].op = "send" PROVE seen'[stack[k].sig] = seen[stack[k].sig]
      <4>1. stack[k].sig # Top.sig
        BY <2>1, <3>1, TopAlone
      <4>2. stack[k] \in Frames
        BY <1>a, <2>1, Popped, ElementOfSeq
      <4>3. stack[k].sig \in SigIds
        BY <3>1, <4>2, FrameUpdates
      <4> QED
        BY <2>3, <4>1, <4>3
    <3> QED
      BY <3>1 DEF Below
  <2>6. PICK t : t = Append(Front(stack), on)
    OBVIOUS
  <2>7. t \in Seq(Frames) /\ t # <<>> /\ Last(t) = on /\ Sending(t, info, stage, seen', loaded)
    BY <1>a, <1>t, <2>1, <2>4, <2>5, <2>6, Pushed, BecomeSending
  <2>8. Sending(Append(t, g), info, stage, seen', loaded)
    <3>1. g.op # "send"
      BY <2>2, PlainFrames
    <3>2. Coverable(Last(t), info)
      BY <2>2, <2>7 DEF Coverable
    <3> QED
      BY <2>7, <3>1, <3>2, <1>c, PushSending
  <2> QED
    BY <2>1, <2>2, <2>6, <2>7, <2>8
<1>5. CASE NextReceiver
  <2>1. /\ stack # <<>> /\ UNCHANGED <<loaded, info, stage, seen>>
        /\ \E p \in Top.rest, on \in Frames :
              /\ on.op = "send" /\ on.sig = Top.sig /\ ~on.drain
              /\ on.rest = NextNode(p) /\ stack' = Append(Front(stack), on)
    BY <1>5, NextForm
  <2>2. PICK on \in Frames : /\ Sends(on, TRUE, info, stage, seen, loaded)
                             /\ stack' = Append(Front(stack), on)
    BY <1>5, <2>1, NextSends
  <2> QED
    BY <1>a, <1>d, <2>1, <2>2, BecomeSending
<1>6. CASE EndSend
  <2>1. /\ stack # <<>> /\ Top.op = "send" /\ stack' = Front(stack)
        /\ stage' = [stage EXCEPT ![Top.sig] = "ended"]
        /\ UNCHANGED <<info, seen, loaded>>
    BY <1>6 DEF EndSend, TopIs, Pop, pluginVars
  <2>2. Below(stack, stage, seen, stage', seen)
    BY <2>1, TopAlone DEF Below, TypeOK
  <2> QED
    BY <1>a, <2>1, <2>2, PopSending
<1>7. CASE FlushNext
  <2>1. stack # <<>> /\ UNCHANGED <<loaded, info, seen>>
    BY <1>7, FlushNextForm
  <2>2. PICK s \in SigIds, f \in Frames, g \in Frames :
              /\ s \in DOMAIN info /\ stage[s] = "waiting" /\ f.op = "flush"
              /\ g = Send(s, FirstRest(info[s].dest)) /\ g.op = "send" /\ g.sig = s
              /\ \/ /\ stack' = Append(Append(Front(stack), f), g)
                    /\ stage' = [stage EXCEPT ![s] = "running"]
                 \/ /\ stack' = Append(Front(stack), f)
                    /\ stage' = [stage EXCEPT ![s] = "ended"]
    BY <1>7, FlushNextForm
  <2>3. Below(stack, stage, seen, stage', seen)
    <3>1. ASSUME NEW k \in DOMAIN Front(stack), stack[k].op = "send" PROVE stage'[stack[k].sig] = stage[stack[k].sig]
      <4>1. k \in DOMAIN stack
        BY <1>a, <2>1, Popped
      <4>2. stage[stack[k].sig] = "running" /\ stack[k].sig \in SigIds
        BY <1>a, <3>1, <4>1, Numbers DEF Sending, Sends
      <4>3. stack[k].sig # s
        BY <2>2, <4>2
      <4>4. \A x \in SigIds : x # s => stage'[x] = stage[x]
        BY <2>2 DEF TypeOK
      <4> QED
        BY <4>2, <4>3, <4>4
    <3> QED
      BY <3>1 DEF Below
  <2>4. PICK t : t = Append(Front(stack), f)
    OBVIOUS
  <2>5. f \in Frames /\ Sends(f, TRUE, info, stage', seen, loaded)
    BY <2>2, <1>c
  <2>6. t \in Seq(Frames) /\ t # <<>> /\ Last(t) = f /\ Sending(t, info, stage', seen, loaded)
    BY <1>a, <1>t, <2>1, <2>3, <2>4, <2>5, Pushed, BecomeSending
  <2>7. CASE stack' = Append(Front(stack), f)
    BY <2>1, <2>4, <2>6, <2>7
  <2>8. CASE stack' = Append(t, g) /\ stage' = [stage EXCEPT ![s] = "running"]
    <3>1. stage'[s] = "running"
      BY <2>8 DEF TypeOK
    <3>2. seen[s] = {} /\ info[s] \in Emissions \cup WorkerEmissions
      BY <2>2 DEF CalmInv, Begun
    <3>3. g.rest = FirstRest(info[s].dest) /\ ~g.drain
      BY <2>2, PlainFrames
    <3>4. Serves(g, TRUE, info[s], seen[s], loaded)
      BY <2>1, <3>2, <3>3, FirstServes
    <3>5. Sends(g, TRUE, info, stage', seen, loaded)
      BY <2>2, <3>1, <3>4 DEF Sends
    <3>6. Coverable(Last(t), info)
      BY <2>2, <2>6, <1>c
    <3>7. Sending(Append(t, g), info, stage', seen, loaded)
      BY <2>6, <3>5, <3>6, PushSending
    <3> QED
      BY <2>1, <2>8, <3>7
  <2> QED
    BY <2>2, <2>4, <2>7, <2>8
<1>8. CASE FlushEnd
  <2>1. stack # <<>> /\ stack' = Front(stack) /\ UNCHANGED <<info, stage, seen, loaded>>
    BY <1>8, FlushMarksNone DEF FlushEnd, sigVars
  <2> QED
    BY <1>a, <1>d, <2>1, PopSending
<1>9. CASE DispatchReader \/ ReadByte
  BY <1>9, <1>b DEF DispatchReader, ReadByte, pluginVars, sigVars
<1>10. CASE PopSignal
  <2>1. PICK h : h = Head(queue)
    OBVIOUS
  <2>2. /\ queue # <<>> /\ stage' = [stage EXCEPT ![h] = "waiting"]
        /\ UNCHANGED <<stack, info, seen, loaded>>
    BY <1>10, <2>1 DEF PopSignal, pluginVars
  <2>3. stage[h] = "queue"
    <3>1. Len(queue) # 0
      BY <2>2, EmptySeq DEF TypeOK
    <3>2. 1 \in DOMAIN queue /\ h = queue[1]
      BY <3>1, <2>1, <2>2, Numbers, HeadTailProperties DEF TypeOK
    <3> QED
      BY <3>2 DEF OrderInv, Queued
  <2>4. \A s \in DOMAIN info : stage[s] = "running" => stage'[s] = stage[s]
    BY <2>2, <2>3 DEF TypeOK
  <2>5. Sending(stack, info, stage', seen, loaded)
    BY <1>a, <2>4 DEF Sending, Sends
  <2> QED
    BY <2>2, <2>5
<1>11. ASSUME NEW w \in Workers, WorkerPush(w) PROVE Sending(stack', info', stage', seen', loaded')
  <2>1. PICK e \in WorkerEmissions : NewSignal(e, "queue")
    BY <1>11 DEF WorkerPush
  <2>2. e \in Emission
    BY EmissionsAssumption
  <2>3. UNCHANGED <<stack, loaded>>
    BY <1>11 DEF WorkerPush, pluginVars
  <2> QED
    BY <2>1, <2>2, <2>3, NewSending
<1>12. ASSUME NEW w \in Workers, WorkerWrite(w) PROVE Sending(stack', info', stage', seen', loaded')
  BY <1>12, <1>b DEF WorkerWrite, pluginVars, sigVars
<1>13. CASE UnknownDestination \/ UseAfterFree
  BY <1>13, NoneFails
<1>14. CASE UNCHANGED vars \/ Register
  BY <1>14, <1>b, Idles DEF pluginVars, sigVars
<1> QED
  BY <1>1, <1>2, <1>3, <1>4, <1>5, <1>6, <1>7, <1>8, <1>9, <1>10, <1>11, <1>12, <1>13, <1>14 DEF Next

-----------------------------------------------------------------------------
(* Steps: signals that run, have ended or have not begun.                  *)

Carries(t, u) == \A s \in SigIds : Carried(t, s) => Carried(u, s)

LEMMA KeepsCarried ==
    ASSUME NEW t \in Seq(Frames)
    PROVE  /\ \A f \in Frames : /\ Carries(t, Append(t, f))
                                /\ f.op = "send" => Carried(Append(t, f), f.sig)
           /\ t # <<>> /\ Last(t).op # "send" => Carries(t, Front(t))
           /\ t # <<>> /\ Last(t).op = "send" =>
                 \A s \in SigIds : s # Last(t).sig /\ Carried(t, s) => Carried(Front(t), s)
           /\ \A g \in Frames :
                 /\ t # <<>> /\ g.op = Last(t).op
                 /\ g.op = "send" => g.sig = Last(t).sig
                 => Carries(t, Append(Front(t), g))
<1>1. ASSUME NEW u \in Seq(Frames), NEW f \in Frames
      PROVE  Carries(u, Append(u, f)) /\ (f.op = "send" => Carried(Append(u, f), f.sig))
  <2>1. PICK v : v = Append(u, f)
    OBVIOUS
  <2>2. /\ \A k \in DOMAIN u : v[k] = u[k] /\ k \in DOMAIN v
        /\ Len(u) \in Nat /\ DOMAIN v = 1..(Len(u) + 1) /\ v[Len(u) + 1] = f
    BY <2>1, Pushed
  <2>3. Len(u) + 1 \in DOMAIN v
    BY <2>2
  <2>4. Carries(u, v)
    BY <2>2 DEF Carries, Carried
  <2>5. f.op = "send" => Carried(v, f.sig)
    BY <2>2, <2>3 DEF Carried
  <2> QED
    BY <2>1, <2>4, <2>5
<1>2. ASSUME t # <<>>, NEW s \in SigIds, Carried(t, s)
      PROVE  Carried(Front(t), s) \/ (Last(t).op = "send" /\ Last(t).sig = s)
  <2>1. PICK u : u = Front(t)
    OBVIOUS
  <2>2. /\ Last(t) = t[Len(t)]
        /\ \A k \in DOMAIN t : k \in DOMAIN u \/ k = Len(t)
        /\ \A k \in DOMAIN u : u[k] = t[k]
    BY <1>2, <2>1, Popped
  <2> QED
    BY <1>2, <2>1, <2>2 DEF Carried
<1>3. t # <<>> /\ Last(t).op # "send" => Carries(t, Front(t))
  BY <1>2 DEF Carries
<1>4. ASSUME NEW g \in Frames, t # <<>>, g.op = Last(t).op, g.op = "send" => g.sig = Last(t).sig
      PROVE  Carries(t, Append(Front(t), g))
  <2>1. Front(t) \in Seq(Frames)
    BY <1>4, Popped
  <2>2. PICK v : v = Append(Front(t), g)
    OBVIOUS
  <2>3. Carries(Front(t), v) /\ (g.op = "send" => Carried(v, g.sig))
    BY <1>1, <2>1, <2>2
  <2>4. Carries(t, v)
    BY <1>2, <1>4, <2>3 DEF Carries
  <2> QED
    BY <2>2, <2>4
<1> QED
  BY <1>1, <1>2, <1>3, <1>4

(* No signal goes anywhere.                                                *)
LEMMA BegunKept ==
    ASSUME TypeOK, CalmInv, Carries(stack, stack'), UNCHANGED <<info, stage, payload, seen>>
    PROVE  Begun(stack', info', stage', payload', seen')
BY DEF CalmInv, Begun, Carries

(* A new signal.                                                           *)
LEMMA BegunNew ==
    ASSUME TypeOK, CalmInv, NEW e \in Emissions \cup WorkerEmissions,
           NEW st \in {"queue", "waiting", "running", "lost"},
           NewSignal(e, st), Carries(stack, stack'), st = "running" => Carried(stack', Len(info) + 1)
    PROVE  Begun(stack', info', stage', payload', seen')
<1>a. Begun(stack, info, stage, payload, seen)
  BY DEF CalmInv
<1>e. e \in Emission
  BY EmissionsAssumption
<1>n. PICK n : n = Len(info) + 1
  OBVIOUS
<1>1. /\ n \in SigIds /\ n \notin DOMAIN info /\ stage'[n] = st
      /\ \A s \in SigIds : s # n => stage'[s] = stage[s]
  BY <1>e, <1>n, NewNumber
<1>2. /\ DOMAIN info \subseteq DOMAIN info' /\ seen' = seen /\ info'[n] = e
      /\ \A s \in DOMAIN info' : (s \in DOMAIN info /\ info'[s] = info[s]) \/ s = n
  BY <1>e, <1>n, NewSending
<1>3. \A s \in SigIds : s # n => payload'[s] = payload[s]
  BY <1>n, <1>1 DEF NewSignal, TypeOK
<1>4. \A s \in SigIds : stage'[s] = "running" => Carried(stack', s)
  BY <1>a, <1>n, <1>1 DEF Begun, Carries
<1>5. \A s \in SigIds : stage'[s] = "ended" => payload'[s] = "freed"
  BY <1>a, <1>1, <1>3 DEF Begun
<1>6. \A s \in SigIds : s \notin DOMAIN info' \/ stage'[s] \in {"queue", "waiting"} => seen'[s] = {}
  BY <1>a, <1>1, <1>2 DEF Begun
<1>7. \A s \in DOMAIN info' : info'[s] \in Emissions \cup WorkerEmissions
  BY <1>a, <1>2 DEF Begun
<1> QED
  BY <1>4, <1>5, <1>6, <1>7 DEF Begun

LEMMA BegunStep ==
    ASSUME Orderly, TypeOK, OrderInv, CalmInv, [Next]_vars
    PROVE  Begun(stack', info', stage', payload', seen')
<1>a. stack \in Seq(Frames) /\ Carries(stack, stack) /\ Begun(stack, info, stage, payload, seen)
  BY DEF TypeOK, Carries, CalmInv
<1>b. ASSUME UNCHANGED <<stack, info, stage, payload, seen>>
      PROVE  Begun(stack', info', stage', payload', seen')
  BY <1>a, <1>b
<1>t. stack # <<>> => Top = Last(stack) /\ Front(stack) \in Seq(Frames) /\ Top \in Frames
  BY StackTop DEF Top
<1>1. CASE LoadModule
  BY <1>1, <1>b DEF LoadModule, sigVars
<1>2. CASE \/ StartModule \/ BootFlush \/ Event \/ Unload \/ Load \/ QueueEmpty
           \/ EndDrain \/ Return
  <2>1. /\ UNCHANGED <<info, stage, payload, seen>>
        /\ stack' = stack \/ Shrinks \/ Grows
    BY <1>2, PlainSteps
  <2>2. Carries(stack, stack')
    BY <2>1, <1>a, <1>t, KeepsCarried DEF Shrinks, Grows
  <2> QED
    BY <2>1, <2>2, BegunKept
<1>3. CASE Emit
  <2>1. PICK e \in Emissions : EmitUnregistered(e) \/ EmitNow(e) \/ EmitLater(e)
    BY <1>3 DEF Emit
  <2>2. CASE EmitUnregistered(e)
    <3>1. NewSignal(e, "lost") /\ Carries(stack, stack')
      BY <1>a, <2>2 DEF EmitUnregistered
    <3> QED
      BY <3>1, BegunNew
  <2>d. Append(stack, Drain) \in Seq(Frames) /\ Carries(stack, Append(stack, Drain))
    <3>1. PICK f : f = Drain
      OBVIOUS
    <3>2. f \in Frames
      BY <3>1, FrameTypes
    <3> QED
      BY <3>1, <3>2, <1>a, Pushed, KeepsCarried
  <2>3. CASE EmitNow(e)
    <3>1. NewSignal(e, "running")
      BY <2>3 DEF EmitNow
    <3>2. PICK f \in Frames : /\ f.op = "send" /\ f.sig = Len(info) + 1
                              /\ stack' = Append(Append(stack, Drain), f)
      BY <2>3, EmitNowForm
    <3>3. Carries(Append(stack, Drain), stack') /\ Carried(stack', Len(info) + 1)
      BY <2>d, <3>2, KeepsCarried
    <3>4. Carries(stack, stack')
      BY <2>d, <3>3 DEF Carries
    <3> QED
      BY <3>1, <3>3, <3>4, BegunNew
  <2>4. CASE EmitLater(e)
    <3>1. NewSignal(e, "waiting") /\ Carries(stack, stack')
      BY <2>4, <2>d DEF EmitLater, Push
    <3> QED
      BY <3>1, BegunNew
  <2> QED
    BY <2>1, <2>2, <2>3, <2>4
<1>4. CASE Deliver
  <2>1. /\ stack # <<>> /\ Top.op = "send" /\ Top.sig \in SigIds
        /\ UNCHANGED <<info, stage, payload>>
    BY <1>4, DeliverForm
  <2>2. PICK p \in Foremost(Top.rest), on \in Frames, g \in Frames :
           /\ on.op = "send" /\ on.sig = Top.sig
           /\ \/ stack' = Append(Front(stack), on) /\ seen' = seen
              \/ /\ stack' = Append(Append(Front(stack), on), g)
                 /\ seen' = [seen EXCEPT ![Top.sig] = @ \cup {p}]
    BY <1>4, DeliverForm
  <2>3. PICK t : t = Append(Front(stack), on)
    OBVIOUS
  <2>4. t \in Seq(Frames) /\ Carries(stack, t)
    BY <1>a, <1>t, <2>1, <2>2, <2>3, Pushed, KeepsCarried
  <2>5. Carries(t, Append(t, g))
    BY <2>4, KeepsCarried
  <2>6. Carries(stack, stack')
    BY <2>2, <2>3, <2>4, <2>5 DEF Carries
  <2>7. Top.sig \in DOMAIN info /\ stage[Top.sig] = "running"
    BY <2>1, CalmTop DEF Sends
  <2>8. \A s \in SigIds : s # Top.sig => seen'[s] = seen[s]
    BY <2>2 DEF TypeOK
  <2>9. \A s \in SigIds : s \notin DOMAIN info' \/ stage'[s] \in {"queue", "waiting"} => seen'[s] = {}
    BY <1>a, <2>1, <2>7, <2>8 DEF Begun
  <2> QED
    BY <1>a, <2>1, <2>6, <2>9 DEF Begun, Carries
<1>5. CASE NextReceiver
  <2>1. PICK on \in Frames :
           /\ stack # <<>> /\ Top.op = "send" /\ on.op = "send" /\ on.sig = Top.sig
           /\ UNCHANGED <<info, stage, payload, seen>>
           /\ stack' = Append(Front(stack), on)
    BY <1>5, NextForm
  <2>2. Carries(stack, stack')
    BY <2>1, <1>a, <1>t, KeepsCarried
  <2> QED
    BY <2>1, <2>2, BegunKept
<1>6. CASE EndSend
  <2>1. /\ stack # <<>> /\ Top.op = "send" /\ stack' = Front(stack)
        /\ stage' = [stage EXCEPT ![Top.sig] = "ended"]
        /\ payload' = [payload EXCEPT ![Top.sig] = "freed"]
        /\ UNCHANGED <<info, seen>>
    BY <1>6 DEF EndSend, TopIs, Pop
  <2>2. Top.sig \in SigIds
    BY <1>t, <2>1, FrameUpdates
  <2>3. /\ stage'[Top.sig] = "ended" /\ payload'[Top.sig] = "freed"
        /\ \A s \in SigIds : s # Top.sig => stage'[s] = stage[s] /\ payload'[s] = payload[s]
    BY <2>1, <2>2 DEF TypeOK
  <2>4. \A s \in SigIds : stage'[s] = "running" => Carried(stack', s)
    BY <1>a, <1>t, <2>1, <2>3, KeepsCarried DEF Begun
  <2> QED
    BY <1>a, <2>1, <2>3, <2>4 DEF Begun
<1>7. CASE FlushNext
  <2>1. stack # <<>> /\ Top.op = "flush" /\ UNCHANGED <<info, seen>>
    BY <1>7, FlushNextForm
  <2>2. PICK s \in SigIds, f \in Frames, g \in Frames :
              /\ s \in DOMAIN info /\ stage[s] = "waiting" /\ f.op = "flush"
              /\ g.op = "send" /\ g.sig = s
              /\ \/ /\ stack' = Append(Append(Front(stack), f), g)
                    /\ stage' = [stage EXCEPT ![s] = "running"] /\ payload' = payload
                 \/ /\ stack' = Append(Front(stack), f)
                    /\ stage' = [stage EXCEPT ![s] = "ended"]
                    /\ payload' = [payload EXCEPT ![s] = "freed"]
    BY <1>7, FlushNextForm
  <2>3. PICK t : t = Append(Front(stack), f)
    OBVIOUS
  <2>4. t \in Seq(Frames) /\ Carries(stack, t)
    BY <1>a, <1>t, <2>1, <2>2, <2>3, Pushed, KeepsCarried
  <2>5. Carries(t, Append(t, g)) /\ Carried(Append(t, g), s)
    BY <2>2, <2>4, KeepsCarried
  <2>6. Carries(stack, Append(t, g))
    BY <2>4, <2>5 DEF Carries
  <2>7. \A x \in SigIds : x # s => stage'[x] = stage[x] /\ payload'[x] = payload[x]
    BY <2>2 DEF TypeOK
  <2>8. CASE stack' = Append(t, g) /\ stage' = [stage EXCEPT ![s] = "running"]
    <3>1. stage'[s] = "running"
      BY <2>8 DEF TypeOK
    <3> QED
      BY <1>a, <2>1, <2>5, <2>6, <2>7, <2>8, <3>1 DEF Begun, Carries
  <2>9. CASE /\ stack' = t /\ stage' = [stage EXCEPT ![s] = "ended"]
             /\ payload' = [payload EXCEPT ![s] = "freed"]
    <3>1. stage'[s] = "ended" /\ payload'[s] = "freed"
      BY <2>9 DEF TypeOK
    <3> QED
      BY <1>a, <2>1, <2>4, <2>7, <2>9, <3>1 DEF Begun, Carries
  <2> QED
    BY <2>2, <2>3, <2>8, <2>9
<1>8. CASE FlushEnd
  <2>1. /\ stack # <<>> /\ Top.op = "flush" /\ stack' = Front(stack)
        /\ UNCHANGED <<info, stage, payload, seen>>
    BY <1>8, FlushMarksNone DEF FlushEnd, sigVars
  <2>2. Carries(stack, stack')
    BY <2>1, <1>a, <1>t, KeepsCarried
  <2> QED
    BY <2>1, <2>2, BegunKept
<1>9. CASE DispatchReader \/ ReadByte
  BY <1>9, <1>b DEF DispatchReader, ReadByte, sigVars
<1>10. CASE PopSignal
  <2>1. PICK h : h = Head(queue)
    OBVIOUS
  <2>2. /\ queue # <<>> /\ stage' = [stage EXCEPT ![h] = "waiting"]
        /\ UNCHANGED <<stack, info, seen, payload>>
    BY <1>10, <2>1 DEF PopSignal
  <2>3. stage[h] = "queue" /\ h \in SigIds
    <3>1. Len(queue) # 0
      BY <2>2, EmptySeq DEF TypeOK
    <3>2. 1 \in DOMAIN queue /\ h = queue[1]
      BY <3>1, <2>1, <2>2, Numbers, HeadTailProperties DEF TypeOK
    <3> QED
      BY <3>2, Numbers DEF OrderInv, Queued
  <2>4. stage'[h] = "waiting" /\ \A s \in SigIds : s # h => stage'[s] = stage[s]
    BY <2>2, <2>3 DEF TypeOK
  <2> QED
    BY <1>a, <2>2, <2>3, <2>4 DEF Begun
<1>11. ASSUME NEW w \in Workers, WorkerPush(w) PROVE Begun(stack', info', stage', payload', seen')
  <2>1. PICK e \in WorkerEmissions : NewSignal(e, "queue")
    BY <1>11 DEF WorkerPush
  <2>2. Carries(stack, stack')
    BY <1>11, <1>a DEF WorkerPush
  <2> QED
    BY <2>1, <2>2, BegunNew
<1>12. ASSUME NEW w \in Workers, WorkerWrite(w) PROVE Begun(stack', info', stage', payload', seen')
  BY <1>12, <1>b DEF WorkerWrite, sigVars
<1>13. CASE UnknownDestination \/ UseAfterFree
  BY <1>13, NoneFails
<1>14. CASE UNCHANGED vars \/ Register
  BY <1>14, <1>b, Idles DEF sigVars
<1> QED
  BY <1>1, <1>2, <1>3, <1>4, <1>5, <1>6, <1>7, <1>8, <1>9, <1>10, <1>11, <1>12, <1>13, <1>14 DEF Next

-----------------------------------------------------------------------------
LEMMA FaultStep ==
    ASSUME Orderly, TypeOK, OrderInv, CalmInv, [Next]_vars
    PROVE  fault' = "none"
<1>a. fault = "none"
  BY DEF CalmInv
<1>1. CASE StartModule
  <2>1. PICK p \in ToSet(Modules) : p \notin Loaded \/ fault' = fault
    BY <1>1 DEF StartModule
  <2>2. ToSet(Modules) \subseteq Loaded
    BY <1>1 DEF StartModule, CalmInv, Plugged, Loaded
  <2> QED
    BY <1>a, <2>1, <2>2
<1>2. CASE FlushNext
  BY <1>2, <1>a, FlushNextForm
<1>3. CASE UnknownDestination \/ UseAfterFree
  BY <1>3, NoneFails
<1>4. CASE \/ LoadModule \/ BootFlush \/ Emit \/ Deliver \/ NextReceiver \/ EndSend \/ EndDrain
           \/ FlushEnd \/ Event \/ Return \/ Unload \/ Load
           \/ DispatchReader \/ PopSignal \/ ReadByte \/ QueueEmpty
           \/ \E w \in Workers : WorkerPush(w) \/ WorkerWrite(w)
  BY <1>4, <1>a DEF LoadModule, BootFlush, Emit, Deliver, NextReceiver, EndSend, EndDrain, FlushEnd,
       Event, Return, Unload, Load, DispatchReader, PopSignal, ReadByte, QueueEmpty, WorkerPush, WorkerWrite
<1>5. CASE UNCHANGED vars \/ Register
  BY <1>5, <1>a, Idles
<1> QED
  BY <1>1, <1>2, <1>3, <1>4, <1>5 DEF Next

LEMMA CalmInit ==
    ASSUME Init
    PROVE  CalmInv
<1>1. DOMAIN waiting = {} /\ DOMAIN stack = {} /\ DOMAIN info = {} /\ DOMAIN loaded = {}
  BY EmptySeq, LenProperties DEF Init
<1>2. Steady(stack, boot, reader)
  BY EmptySteady DEF Init
<1>3. Reading(stack, boot, reader, queue, pipe, writer)
  BY DEF Init, Reading
<1>4. Plugged(loaded, boot, allLoaded)
  <2>1. Len(loaded) = 0 /\ 0 <= Len(Modules)
    BY ModulesAssumption, LenProperties, EmptySeq DEF Init
  <2> QED
    BY <1>1, <2>1 DEF Init, Plugged, IsInjective
<1>5. \A s \in SigIds : stage[s] = "unborn" /\ seen[s] = {}
  BY DEF Init
<1>6. Listed(stack, waiting, stage, boot, reader)
  BY <1>1, <1>5 DEF Init, Listed
<1>7. Sending(stack, info, stage, seen, loaded)
  BY <1>1 DEF Sending
<1>8. Begun(stack, info, stage, payload, seen)
  BY <1>1, <1>5 DEF Begun
<1> QED
  BY <1>2, <1>3, <1>4, <1>6, <1>7, <1>8 DEF CalmInv, Init

LEMMA CalmStep ==
    ASSUME Orderly, TypeOK, OrderInv, CalmInv, [Next]_vars
    PROVE  CalmInv'
<1>1. fault' = "none"
  BY FaultStep
<1>2. Steady(stack, boot, reader)'
  BY SteadyStep
<1>3. Reading(stack, boot, reader, queue, pipe, writer)'
  BY ReadingStep
<1>4. Plugged(loaded, boot, allLoaded)'
  BY PluggedStep
<1>5. Listed(stack, waiting, stage, boot, reader)'
  BY ListedStep
<1>6. Sending(stack, info, stage, seen, loaded)'
  BY SendingStep
<1>7. Begun(stack, info, stage, payload, seen)'
  BY BegunStep
<1> QED
  BY <1>1, <1>2, <1>3, <1>4, <1>5, <1>6, <1>7 DEF CalmInv

(* Back in the outer main loop no signal runs: it would have a frame.      *)
LEMMA CalmLeavesNothing ==
    ASSUME TypeOK, CalmInv
    PROVE  NothingLeftBehind
<1>1. \A s \in SigIds \ Abandoned :
          stage[s] \in {"unborn", "queue", "waiting", "running"} \/ payload[s] = "freed"
  BY DEF TypeOK, CalmInv, Begun, Abandoned
<1>2. ASSUME boot = "loop", stack = <<>>, reader = "idle"
      PROVE  waiting = <<>> /\ \A s \in SigIds : stage[s] \notin {"waiting", "running"}
  <2>1. waiting = <<>>
    BY <1>2 DEF CalmInv, Listed
  <2>2. DOMAIN stack = {} /\ DOMAIN waiting = {}
    BY <1>2, <2>1, EmptySeq, NoneIn
  <2>3. \A s \in SigIds : stage[s] # "running"
    BY <2>2 DEF CalmInv, Begun, Carried
  <2>4. \A s \in SigIds : stage[s] # "waiting"
    BY <2>2 DEF CalmInv, Listed
  <2> QED
    BY <2>1, <2>3, <2>4
<1> QED
  BY <1>1, <1>2 DEF NothingLeftBehind

(* Only the end of do_signal ends a signal that runs, and only do_signal   *)
(* calls a receiver.                                                       *)
LEMMA OnlyEndSendEnds ==
    ASSUME Orderly, TypeOK, OrderInv, CalmInv, [Next]_vars, NEW s \in SigIds,
           stage[s] = "running", stage'[s] = "ended"
    PROVE  EndSend /\ s = Top.sig
<1>1. CASE EndSend
  <2>1. stage' = [stage EXCEPT ![Top.sig] = "ended"]
    BY <1>1 DEF EndSend
  <2> QED
    BY <1>1, <2>1 DEF TypeOK
<1>2. CASE FlushNext
  <2>1. PICK x \in SigIds : /\ stage[x] = "waiting"
                            /\ \/ stage' = [stage EXCEPT ![x] = "running"]
                               \/ stage' = [stage EXCEPT ![x] = "ended"]
    BY <1>2, FlushNextForm
  <2> QED
    BY <2>1 DEF TypeOK
<1>3. ASSUME NEW e \in Emission, NEW st \in {"queue", "waiting", "running", "lost"}, NewSignal(e, st)
      PROVE  FALSE
  BY <1>3, NewNumber
<1>4. CASE Emit
  <2>1. PICK e \in Emissions : EmitUnregistered(e) \/ EmitNow(e) \/ EmitLater(e)
    BY <1>4 DEF Emit
  <2>2. e \in Emission
    BY EmissionsAssumption
  <2> QED
    BY <1>3, <2>1, <2>2 DEF EmitUnregistered, EmitNow, EmitLater
<1>5. ASSUME NEW w \in Workers, WorkerPush(w) PROVE FALSE
  <2>1. PICK e \in WorkerEmissions : NewSignal(e, "queue")
    BY <1>5 DEF WorkerPush
  <2>2. e \in Emission
    BY EmissionsAssumption
  <2> QED
    BY <1>3, <2>1, <2>2
<1>6. CASE PopSignal
  <2>1. stage' = [stage EXCEPT ![Head(queue)] = "waiting"]
    BY <1>6 DEF PopSignal
  <2> QED
    BY <2>1 DEF TypeOK
<1>7. CASE \/ StartModule \/ BootFlush \/ Event \/ Unload \/ Load \/ QueueEmpty
           \/ EndDrain \/ Return
  BY <1>7, PlainSteps
<1>8. CASE \/ LoadModule \/ Deliver \/ NextReceiver \/ FlushEnd \/ DispatchReader \/ ReadByte
           \/ \E w \in Workers : WorkerWrite(w)
  BY <1>8 DEF LoadModule, Deliver, NextReceiver, FlushEnd, DispatchReader, ReadByte, WorkerWrite, sigVars
<1>9. CASE UnknownDestination \/ UseAfterFree
  BY <1>9, NoneFails
<1>10. CASE UNCHANGED vars \/ Register
  BY <1>10, Idles DEF sigVars
<1> QED
  BY <1>1, <1>2, <1>4, <1>5, <1>6, <1>7, <1>8, <1>9, <1>10 DEF Next

LEMMA OnlyDeliverReceives ==
    ASSUME Orderly, TypeOK, OrderInv, CalmInv, [Next]_vars, NEW p \in Plugins, NEW s \in SigIds,
           Len(stack') > Len(stack), Last(stack') = Call(p, s, "receive")
    PROVE  Deliver
<1>a. stack \in Seq(Frames) /\ Len(stack) \in Nat /\ stack' \in Seq(Frames)
  BY LenProperties, TypeStep DEF TypeOK
<1>b. \A f : f.op # "call" \/ f.why # "receive" => f # Call(p, s, "receive")
  BY PlainFrames
<1>c. stack' # stack /\ (stack # <<>> => stack' # Front(stack))
  <2>1. stack # <<>> => Len(Front(stack)) = Len(stack) - 1
    BY <1>a, Popped
  <2> QED
    BY <1>a, <2>1
<1>d. \A f \in Frames, t \in Seq(Frames) :
         stack' = Append(t, f) => f.op = "call" /\ f.why = "receive"
  BY <1>b, Pushed
<1>e. \A q \in Plugins, why \in {"start", "event", "destroy"} : stack' # Append(stack, Call(q, 0, why))
  <2>1. 0 \in 0..MaxSignals
    BY BoundsAssumption
  <2>2. \A q \in Plugins, why \in {"start", "event", "destroy"} :
           Call(q, 0, why) \in Frames /\ Call(q, 0, why).why # "receive"
    BY <2>1, FrameTypes, PlainFrames
  <2> QED
    BY <1>a, <1>d, <2>2
<1>f. Loaded \subseteq Plugins /\ \A q \in ToSet(Modules) : q \in Plugins
  BY RestType, ModulesAssumption, ElementOfSeq DEF ToSet
<1>g. \A by \in {"boot", "thread"} : stack' # Append(stack, Flush(by))
  BY <1>a, <1>d, FrameTypes, PlainFrames
<1>h. stack' # Append(stack, Drain)
  BY <1>a, <1>d, FrameTypes, PlainFrames
<1>1. CASE StartModule \/ Event \/ Unload \/ Load
  <2>1. \E q \in Plugins, why \in {"start", "event", "destroy"} :
           stack' = stack \/ stack' = Append(stack, Call(q, 0, why))
    BY <1>1, <1>f DEF StartModule, Event, Unload, Load, Push
  <2> QED
    BY <1>c, <1>e, <2>1
<1>2. CASE BootFlush \/ QueueEmpty
  BY <1>2, <1>g DEF BootFlush, QueueEmpty, Push
<1>3. CASE EndDrain \/ Return
  <2>1. stack # <<>> /\ stack' = Front(stack)
    BY <1>3, DestroyMarksNone DEF EndDrain, Return, TopIs, Pop
  <2> QED
    BY <1>c, <2>1
<1>4. CASE Emit
  <2>1. PICK e \in Emissions : EmitUnregistered(e) \/ EmitNow(e) \/ EmitLater(e)
    BY <1>4 DEF Emit
  <2>2. CASE EmitNow(e)
    <3>1. PICK f \in Frames : f.op = "send" /\ Drain \in Frames /\ stack' = Append(Append(stack, Drain), f)
      BY <2>2, EmitNowForm
    <3>2. Append(stack, Drain) \in Seq(Frames)
      BY <1>a, <3>1, Pushed
    <3> QED
      BY <1>d, <3>1, <3>2
  <2>3. CASE EmitUnregistered(e) \/ EmitLater(e)
    BY <2>3, <1>c, <1>h DEF EmitUnregistered, EmitLater, Push
  <2> QED
    BY <2>1, <2>2, <2>3
<1>5. CASE NextReceiver
  <2>1. PICK on \in Frames : stack # <<>> /\ on.op = "send" /\ stack' = Append(Front(stack), on)
    BY <1>5, NextForm
  <2>2. Front(stack) \in Seq(Frames)
    BY <1>a, <2>1, Popped
  <2> QED
    BY <1>d, <2>1, <2>2
<1>6. CASE EndSend \/ FlushEnd
  <2>1. stack # <<>> /\ stack' = Front(stack)
    BY <1>6, FlushMarksNone DEF EndSend, TopIs, Pop
  <2> QED
    BY <1>c, <2>1
<1>7. CASE FlushNext
  <2>1. PICK f \in Frames, g \in Frames :
           /\ stack # <<>> /\ f.op = "flush" /\ g.op = "send"
           /\ stack' = Append(Append(Front(stack), f), g) \/ stack' = Append(Front(stack), f)
    BY <1>7, FlushNextForm
  <2>2. Front(stack) \in Seq(Frames) /\ Append(Front(stack), f) \in Seq(Frames)
    BY <1>a, <2>1, Popped, Pushed
  <2> QED
    BY <1>d, <2>1, <2>2
<1>8. CASE \/ LoadModule \/ DispatchReader \/ PopSignal \/ ReadByte
           \/ \E w \in Workers : WorkerPush(w) \/ WorkerWrite(w)
  BY <1>8, <1>c DEF LoadModule, DispatchReader, PopSignal, ReadByte, WorkerPush, WorkerWrite
<1>9. CASE UnknownDestination \/ UseAfterFree
  BY <1>9, NoneFails
<1>10. CASE UNCHANGED vars \/ Register
  BY <1>10, <1>c, Idles
<1> QED
  BY <1>1, <1>2, <1>3, <1>4, <1>5, <1>6, <1>7, <1>8, <1>9, <1>10 DEF Next

(* A signal that ends was served, and who receives it has not before.      *)
Served(s) ==
    stage[s] = "running" /\ stage'[s] = "ended" =>
        \/ info[s].dest.kind = "mask"
        \/ info[s].src \notin Loaded
        \/ (info[s].dest.who \cap Loaded) \ {info[s].src} \subseteq seen[s]
Novel(s) ==
    \A p \in Plugins :
        Len(stack') > Len(stack) /\ Last(stack') = Call(p, s, "receive") => p \notin seen[s]

LEMMA ServedStep ==
    ASSUME Orderly, TypeOK, OrderInv, CalmInv, [Next]_vars, NEW s \in SigIds
    PROVE  Served(s)
<1> SUFFICES ASSUME stage[s] = "running", stage'[s] = "ended", info[s].dest.kind # "mask", info[s].src \in Loaded
             PROVE  (info[s].dest.who \cap Loaded) \ {info[s].src} \subseteq seen[s]
  BY DEF Served
<1>1. EndSend /\ s = Top.sig
  BY OnlyEndSendEnds
<1>2. stack # <<>> /\ Top.op = "send" /\ Top.rest = {}
  BY <1>1 DEF EndSend, TopIs
<1>3. s \in DOMAIN info /\ Serves(Top, TRUE, info[s], seen[s], loaded)
  BY <1>1, <1>2, CalmTop DEF Sends
<1>4. info[s].dest.kind \in {"all", "name", "mask"}
  <2>1. info[s] \in Emission
    BY <1>3, ElementOfSeq, LenProperties DEF TypeOK
  <2> QED
    BY <2>1 DEF Emission, Destination
<1>5. CASE info[s].dest.kind = "all"
  BY <1>2, <1>3, <1>5 DEF Serves, Wide, Loaded
<1>6. CASE info[s].dest.kind = "name"
  BY <1>2, <1>3, <1>6 DEF Serves, Direct
<1> QED
  BY <1>4, <1>5, <1>6

LEMMA NovelStep ==
    ASSUME Orderly, TypeOK, OrderInv, CalmInv, [Next]_vars, NEW s \in SigIds
    PROVE  Novel(s)
<1> SUFFICES ASSUME NEW p \in Plugins, Len(stack') > Len(stack), Last(stack') = Call(p, s, "receive")
             PROVE  p \notin seen[s]
  BY DEF Novel
<1>1. Deliver
  BY OnlyDeliverReceives
<1>2. stack # <<>> /\ Top.op = "send" /\ Top.sig \in SigIds
  BY <1>1, DeliverForm
<1>3. PICK q \in Foremost(Top.rest), on \in Frames, g \in Frames :
         LET wide == info[Top.sig].dest.kind = "all"
         IN  /\ on.op = "send" /\ on.sig = Top.sig /\ (on.drain <=> wide)
             /\ on.rest = IF wide THEN Top.rest ELSE Top.rest \ {q}
             /\ g = Call(q, Top.sig, "receive")
             /\ IF wide /\ q = info[Top.sig].src
                THEN stack' = Append(Front(stack), on) /\ seen' = seen
                ELSE /\ stack' = Append(Append(Front(stack), on), g)
                     /\ seen' = [seen EXCEPT ![Top.sig] = @ \cup {q}]
  BY <1>1, DeliverForm
<1>4. stack \in Seq(Frames) /\ Front(stack) \in Seq(Frames)
  BY <1>2, Popped DEF TypeOK
<1>5. ~(info[Top.sig].dest.kind = "all" /\ q = info[Top.sig].src)
  <2>1. ASSUME stack' = Append(Front(stack), on) PROVE FALSE
    <3>1. Last(stack') = on
      BY <2>1, <1>3, <1>4, Pushed
    <3> QED
      BY <3>1, <1>3, PlainFrames
  <2> QED
    BY <2>1, <1>3
<1>6. PICK t : t = Append(Front(stack), on)
  OBVIOUS
<1>7. t \in Seq(Frames) /\ stack' = Append(t, g)
  BY <1>3, <1>4, <1>5, <1>6, Pushed
<1>8. Last(stack') = g
  BY <1>7, Pushed
<1>9. p = q /\ s = Top.sig
  BY <1>3, <1>8 DEF Call
<1>10. seen'[Top.sig] = seen[Top.sig] \cup {q}
  BY <1>2, <1>3, <1>5 DEF TypeOK
<1>11. q \notin seen[Top.sig]
  BY <1>1, <1>3, <1>5, <1>10, DeliverSends
<1> QED
  BY <1>9, <1>11

(* Nothing interrupts another flush or delivery of the same signal, and    *)
(* nothing a frame goes on with is freed (signals.c, plugins.c).           *)
LEMMA Calm == Orderly => (Spec => [](TypeOK /\ OrderInv /\ CalmInv))
<1> SUFFICES ASSUME Orderly PROVE Spec => [](TypeOK /\ OrderInv /\ CalmInv)
  OBVIOUS
<1>1. Init => OrderInv /\ CalmInv
  BY OrderInit, CalmInit
<1>2. TypeOK /\ OrderInv /\ CalmInv /\ [Next]_vars => OrderInv' /\ CalmInv'
  BY OrderStep, CalmStep
<1> QED
  BY <1>1, <1>2, TypeCorrect, PTL DEF Spec

(* Under Orderly the GUI thread never goes on with freed memory nor frees  *)
(* it twice, in any nesting of callbacks, flushes and deliveries           *)
(* (do_signal, flush_queued_signals, unload_plugin).                       *)
THEOREM NoFreedMemory == Orderly => (Spec => []NoFault)
<1>1. CalmInv => NoFault
  BY DEF CalmInv, NoFault
<1> QED
  BY <1>1, Calm, PTL

(* Under Orderly no signal is left on the waiting list, half delivered or  *)
(* with its data when the thread is back in the outer main loop, but those *)
(* of names nobody had registered (flush_queued_signals, signal_emit_full).*)
THEOREM CleanMainLoop == Orderly => (Spec => []NothingLeftBehind)
<1>1. TypeOK /\ CalmInv => NothingLeftBehind
  BY CalmLeavesNothing
<1> QED
  BY <1>1, Calm, PTL

(* Under Orderly a signal that ends was delivered to everybody it was for, *)
(* and to nobody twice, whatever is emitted, loaded and unloaded meanwhile *)
(* (do_signal).                                                            *)
THEOREM EachReceivesOnce == Orderly => (Spec => DeliveredOnce)
<1> SUFFICES ASSUME Orderly PROVE Spec => DeliveredOnce
  OBVIOUS
<1>1. TypeOK /\ OrderInv /\ CalmInv /\ [Next]_vars => \A s \in SigIds : Served(s) /\ Novel(s)
  BY ServedStep, NovelStep
<1>2. TypeOK /\ OrderInv /\ CalmInv /\ [Next]_vars
      => [\A s \in SigIds :
          /\ stage[s] = "running" /\ stage'[s] = "ended" =>
                \/ info[s].dest.kind = "mask"
                \/ info[s].src \notin Loaded
                \/ (info[s].dest.who \cap Loaded) \ {info[s].src} \subseteq seen[s]
          /\ \A p \in Plugins :
                Len(stack') > Len(stack) /\ Last(stack') = Call(p, s, "receive") => p \notin seen[s]]_vars
  BY <1>1 DEF Served, Novel
<1> QED
  BY <1>2, Calm, PTL DEF Spec, DeliveredOnce
===============================================================================
