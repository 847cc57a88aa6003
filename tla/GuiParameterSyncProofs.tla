----------------------- MODULE GuiParameterSyncProofs -----------------------
(***************************************************************************)
(* Proofs about GuiParameterSync, for any parameters, any values and a     *)
(* queue of any length: the host and the plug-in are left with the same    *)
(* values, gestures stay paired, and no event is forgotten in the queue.   *)
(*                                                                         *)
(* The argument is about the pipeline, what is on its way to the host.  A  *)
(* step appends to it, drops its first or its last event, or leaves it as  *)
(* it is, whatever it does to the variables the pipeline consists of.      *)
(***************************************************************************)
EXTENDS GuiParameterSync, TLAPS

\* What the GUI thread holds, and knows of it.
EventIsRight ==
  /\ gpc \in {"reload", "rescan"} => event.kind = "value"
  /\ gpc = "push" /\ event.kind = "begin" => event.id \in gestureOpen
  /\ gpc = "push" /\ event.kind = "end" => event.id \notin gestureOpen

TypeInv == TypeOK /\ EventIsRight

(* What a member of GuiEvents is.                                           *)
LEMMA GuiEventsAre ==
  \A e \in GuiEvents :
    /\ e.id \in Ids /\ e.value \in Values /\ e.kind \in {"begin", "end", "value"}
    /\ e.kind # "value" => e.kind \in GestureKinds
    /\ e.kind \in GestureKinds => e.kind # "value"
BY EventsAssumption DEF GuiEvents, GestureKinds

LEMMA MakesGuiEvent ==
  /\ \A id \in Ids : GuiEvent("begin", id, Initial) \in GuiEvents
  /\ \A id \in Ids : GuiEvent("end", id, Initial) \in GuiEvents
  /\ \A id \in Ids, v \in Values : GuiEvent("value", id, v) \in GuiEvents
BY DEF GuiEvents, GuiEvent
-----------------------------------------------------------------------------
(* The types, and what event holds. *)

LEMMA TypeInit == Init => TypeInv
<1> SUFFICES ASSUME Init PROVE TypeInv
  OBVIOUS
<1>1. queue \in Seq(GuiEvents) /\ occupied \in Len(queue) .. Limit /\ 0 \in 0 .. Limit
  BY LimitAssumption DEF Init, FifoInit
<1>2. base \in [Ids -> Values] /\ hostValue \in [Ids -> Values] /\ asked \in Values
  BY EventsAssumption DEF Init
<1> QED
  BY <1>1, <1>2 DEF Init, TypeInv, TypeOK, EventIsRight

LEMMA TypeGuiStarts == TypeInv /\ GuiStarts => TypeInv'
<1> SUFFICES ASSUME TypeInv, GuiStarts PROVE TypeInv'
  OBVIOUS
<1> USE MakesGuiEvent DEF TypeInv, TypeOK, EventIsRight, fifoVars, callVars, hostVars, ghosts
<1>1. ASSUME NEW id \in Ids, BeginParameterGesture(id) PROVE TypeInv'
  BY <1>1 DEF BeginParameterGesture, GuiEvent
<1>2. ASSUME NEW id \in Ids, EndParameterGesture(id) PROVE TypeInv'
  BY <1>2 DEF EndParameterGesture, GuiEvent
<1>3. ASSUME NEW id \in Ids, NEW v \in Values, SetParameterFromGui(id, v) PROVE TypeInv'
  BY <1>3 DEF SetParameterFromGui, GuiEvent
<1>4. ASSUME NEW id \in Ids, NEW v \in Values, RestoreState(id, v) PROVE TypeInv'
  BY <1>4 DEF RestoreState, GuiEvent
<1> QED
  BY <1>1, <1>2, <1>3, <1>4 DEF GuiStarts

LEMMA TypeGuiGoesOn == TypeInv /\ GuiGoesOn => TypeInv'
<1> SUFFICES ASSUME TypeInv, GuiGoesOn PROVE TypeInv'
  OBVIOUS
<1> USE GuiEventsAre, LimitAssumption, EventsAssumption
    DEF TypeInv, TypeOK, EventIsRight, fifoVars, callVars, hostVars, guiVars, ghosts
<1>1. CASE Reload
  <2>1. event' \in GuiEvents /\ event'.kind = "value"
    BY <1>1 DEF Reload, GuiEvents
  <2> QED
    BY <1>1, <2>1 DEF Reload
<1>2. CASE PushLook
  BY <1>2 DEF PushLook, Learn
<1>3. CASE PushAccept
  <2>1. event \in GuiEvents
    BY <1>3 DEF PushAccept
  <2>2. queue' \in Seq(GuiEvents) /\ Len(queue') = Len(queue) + 1
    BY <1>3, <2>1 DEF PushAccept, Accept
  <2>3. occupied' \in Len(queue') .. Limit
    BY <1>3, <2>2 DEF PushAccept, Accept
  <2> QED
    BY <1>3, <2>1, <2>2, <2>3 DEF PushAccept, Accept
<1>4. CASE PushRefuse
  BY <1>4 DEF PushRefuse, Refuse, Return
<1>5. CASE RequestFlush
  BY <1>5 DEF RequestFlush, Return
<1>6. CASE Rescan
  BY <1>6 DEF Rescan, Return
<1>7. CASE LoadFails
  BY <1>7 DEF LoadFails, Return
<1> QED
  BY <1>1, <1>2, <1>3, <1>4, <1>5, <1>6, <1>7 DEF GuiGoesOn

LEMMA TypeHost ==
  TypeInv /\ (HostStarts \/ AnswerBegin \/ HostWrites \/ DrainPop \/ HostGoesOn) => TypeInv'
<1> SUFFICES ASSUME TypeInv, HostStarts \/ AnswerBegin \/ HostWrites \/ DrainPop \/ HostGoesOn
             PROVE  TypeInv'
  OBVIOUS
<1> USE GuiEventsAre, LimitAssumption
    DEF TypeInv, TypeOK, EventIsRight, fifoVars, callVars, hostVars, guiVars, ghosts
<1>1. CASE HostStarts
  BY <1>1 DEF HostStarts, ProcessBegin, FlushBegin
<1>2. CASE AnswerBegin
  <2>1. unseen' \in 0 .. Limit
    BY <1>2, LimitAssumption DEF AnswerBegin
  <2> QED
    BY <1>2, <2>1 DEF AnswerBegin
<1>3. CASE HostWrites
  BY <1>3 DEF HostWrites, ApplyInputEvent, EmitParameterValue, ExcusedAfter
<1>4. CASE DrainPop
  <2>1. queue' \in Seq(GuiEvents) /\ Len(queue') = Len(queue) - 1 /\ taken' \in GuiEvents
    BY <1>4 DEF DrainPop, Take
  <2>2. occupied' \in Len(queue') .. Limit
    BY <1>4, <2>1 DEF DrainPop, Take
  <2> QED
    BY <1>4, <2>1, <2>2 DEF DrainPop, Take
<1>5. CASE InputsEnd
  BY <1>5 DEF InputsEnd, Processing
<1>6. CASE Deliver
  BY <1>6 DEF Deliver
<1>7. CASE DeliverFails
  BY <1>7 DEF DeliverFails
<1>8. CASE DrainEnd
  BY <1>8 DEF DrainEnd, Processing
<1> QED
  BY <1>1, <1>2, <1>3, <1>4, <1>5, <1>6, <1>7, <1>8 DEF HostGoesOn

LEMMA TypeNext == TypeInv /\ [Next]_vars => TypeInv'
<1>1. TypeInv /\ UNCHANGED vars => TypeInv'
  BY DEF TypeInv, TypeOK, EventIsRight, vars, fifoVars, callVars, hostVars, guiVars, ghosts
<1> QED
  BY <1>1, TypeGuiStarts, TypeGuiGoesOn, TypeHost DEF Next

(* Every variable of the synchronisation keeps to its range in every        *)
(* reachable state (queue, GUI thread and host call of Plugin.cpp together).*)
THEOREM SyncTypesOK == Spec => []TypeOK
<1>1. TypeInv => TypeOK
  BY DEF TypeInv
<1> QED
  BY TypeInit, TypeNext, <1>1, PTL DEF Spec
-----------------------------------------------------------------------------
(* No event is forgotten. *)

(* NoForgottenEvent is not inductive: the call that answers a request may   *)
(* fail to see some of the newest events, and when it does, another request *)
(* is due.                                                                  *)
AnswerSeesOrIsAsked ==
  canUseParams /\ Answering /\ unseen # 0 => requested \/ gpc = "request"

ComingInv == NoForgottenEvent /\ AnswerSeesOrIsAsked

LEMMA ComingInit == Init => ComingInv
BY DEF Init, FifoInit, ComingInv, NoForgottenEvent, AnswerSeesOrIsAsked, Answering

LEMMA ComingNext == TypeInv /\ ComingInv /\ [Next]_vars => ComingInv'
<1> SUFFICES ASSUME TypeInv, ComingInv, [Next]_vars PROVE ComingInv'
  OBVIOUS
<1> USE DEF ComingInv, NoForgottenEvent, AnswerSeesOrIsAsked, Answering,
            fifoVars, callVars, hostVars, guiVars, ghosts
<1>1. CASE GuiStarts
  BY <1>1 DEF GuiStarts, BeginParameterGesture, EndParameterGesture,
              SetParameterFromGui, RestoreState
<1>2. CASE Reload \/ PushLook \/ PushRefuse \/ Rescan \/ LoadFails
  BY <1>2 DEF Reload, PushLook, Learn, PushRefuse, Refuse, Rescan, LoadFails, Return
<1>3. CASE PushAccept
  BY <1>3 DEF PushAccept
<1>4. CASE RequestFlush
  BY <1>4 DEF RequestFlush, TypeInv, TypeOK
<1>5. CASE HostStarts
  BY <1>5 DEF HostStarts, ProcessBegin, FlushBegin
<1>6. CASE AnswerBegin
  BY <1>6 DEF AnswerBegin
<1>7. CASE HostWrites
  <2>1. UNCHANGED <<queue, gpc, canUseParams, requested, callVars>>
    BY <1>7 DEF HostWrites, ApplyInputEvent, EmitParameterValue
  <2> QED
    BY <2>1
<1>8. CASE DrainPop
  BY <1>8 DEF DrainPop, Take
<1>9. CASE InputsEnd \/ Deliver \/ DeliverFails
  BY <1>9 DEF InputsEnd, Processing, Deliver, DeliverFails
<1>10. CASE DrainEnd
  <2>1. queue # <<>> => unseen # 0
    BY <1>10 DEF DrainEnd, TypeInv, TypeOK
  <2> QED
    BY <1>10, <2>1 DEF DrainEnd, Processing
<1>11. CASE UNCHANGED vars
  BY <1>11 DEF vars
<1> QED
  BY <1>1, <1>2, <1>3, <1>4, <1>5, <1>6, <1>7, <1>8, <1>9, <1>10, <1>11
     DEF Next, GuiGoesOn, HostGoesOn

(* As long as an event is in the queue a call is requested, about to be     *)
(* requested, or answering: pushGuiParameterEvent() asks after each push    *)
(* (Plugin.cpp:39-46), so that no drain, however timed, leaves the event of *)
(* a plug-in that is not processing behind.                                 *)
THEOREM NoEventIsForgotten == Spec => []NoForgottenEvent
<1>1. Init => TypeInv /\ ComingInv
  BY TypeInit, ComingInit
<1>2. TypeInv /\ ComingInv /\ [Next]_vars => (TypeInv /\ ComingInv)'
  BY TypeNext, ComingNext
<1>3. ComingInv => NoForgottenEvent
  BY DEF ComingInv
<1> QED
  BY <1>1, <1>2, <1>3, PTL DEF Spec
-----------------------------------------------------------------------------
(* Sequences of events, and the last of an id's. *)

LEMMA AppendIs ==
  ASSUME NEW s \in Seq(GuiEvents), NEW e \in GuiEvents
  PROVE  /\ DOMAIN s = 1 .. Len(s) /\ DOMAIN Append(s, e) = 1 .. Len(s) + 1 /\ Len(s) \in Nat
         /\ Append(s, e)[Len(s) + 1] = e
         /\ \A i \in 1 .. Len(s) : Append(s, e)[i] = s[i]
OBVIOUS

LEMMA AppendSame ==
  ASSUME NEW s \in Seq(GuiEvents), NEW e \in GuiEvents, NEW kinds, e.kind \in kinds
  PROVE  /\ Places(Append(s, e), e.id, kinds) # {}
         /\ \A i \in LastPlace(Append(s, e), e.id, kinds) : Append(s, e)[i] = e
<1>1. /\ DOMAIN Append(s, e) = 1 .. Len(s) + 1 /\ Len(s) \in Nat
      /\ Append(s, e)[Len(s) + 1] = e
  BY AppendIs
<1>2. Len(s) + 1 \in Places(Append(s, e), e.id, kinds)
  BY <1>1 DEF Places
<1>3. \A i \in LastPlace(Append(s, e), e.id, kinds) : i = Len(s) + 1
  BY <1>1, <1>2 DEF Places, LastPlace
<1> QED
  BY <1>1, <1>2, <1>3

(* Dropping the first event moves the others one place forward.             *)
LEMMA DropFirst ==
  ASSUME NEW s \in Seq(GuiEvents), s # <<>>, NEW id, NEW kinds
  PROVE  /\ \A i \in Nat :
              i \in Places(Tail(s), id, kinds) <=> i # 0 /\ i + 1 \in Places(s, id, kinds)
         /\ \A i \in Places(Tail(s), id, kinds) : i \in Nat /\ Tail(s)[i] = s[i + 1]
         /\ \A i \in Places(s, id, kinds) : i \in Nat \ {0}
<1>1. /\ DOMAIN s = 1 .. Len(s) /\ DOMAIN Tail(s) = 1 .. Len(s) - 1 /\ Len(s) \in Nat \ {0}
      /\ \A i \in 1 .. Len(s) - 1 : Tail(s)[i] = s[i + 1]
  OBVIOUS
<1> QED
  BY <1>1 DEF Places
-----------------------------------------------------------------------------
(* The pipeline. *)

LEMMA PipelineType == TypeInv => Pipeline \in Seq(GuiEvents)
BY DEF TypeInv, TypeOK, Pipeline

LEMMA PipelineStays ==
  ASSUME UNCHANGED queue,
         stage = "deliver" <=> stage' = "deliver", stage = "deliver" => UNCHANGED taken,
         gpc = "push" <=> gpc' = "push", gpc = "push" => UNCHANGED event
  PROVE  UNCHANGED Pipeline
BY DEF Pipeline

LEMMA PipelineGrows ==
  ASSUME TypeInv, UNCHANGED <<queue, stage, taken>>, gpc # "push",
         gpc' = "push", event' \in GuiEvents
  PROVE  Pipeline' = Append(Pipeline, event')
<1> DEFINE first == IF stage = "deliver" THEN <<taken>> ELSE <<>>
<1>1. first \in Seq(GuiEvents) /\ queue \in Seq(GuiEvents)
  BY DEF TypeInv, TypeOK
<1>2. Pipeline = first \o queue \o <<>> /\ Pipeline' = first \o queue \o <<event'>>
  BY DEF Pipeline
<1> HIDE DEF first
<1> QED
  BY <1>1, <1>2

LEMMA PipelineShrinks ==
  ASSUME TypeInv, UNCHANGED <<queue, stage, taken>>, gpc = "push", gpc' # "push"
  PROVE  /\ Pipeline' \in Seq(GuiEvents) /\ event \in GuiEvents
         /\ Pipeline = Append(Pipeline', event)
<1> DEFINE first == IF stage = "deliver" THEN <<taken>> ELSE <<>>
<1>1. first \in Seq(GuiEvents) /\ queue \in Seq(GuiEvents) /\ event \in GuiEvents
  BY DEF TypeInv, TypeOK
<1>2. Pipeline = first \o queue \o <<event>> /\ Pipeline' = first \o queue \o <<>>
  BY DEF Pipeline
<1> HIDE DEF first
<1> QED
  BY <1>1, <1>2

LEMMA PipelineQueues ==
  ASSUME TypeInv, UNCHANGED <<stage, taken>>, gpc = "push", gpc' # "push",
         queue' = Append(queue, event)
  PROVE  UNCHANGED Pipeline
<1> DEFINE first == IF stage = "deliver" THEN <<taken>> ELSE <<>>
<1>1. first \in Seq(GuiEvents) /\ queue \in Seq(GuiEvents) /\ event \in GuiEvents
  BY DEF TypeInv, TypeOK
<1>2. Pipeline = first \o queue \o <<event>> /\ Pipeline' = first \o Append(queue, event) \o <<>>
  BY DEF Pipeline
<1> HIDE DEF first
<1> QED
  BY <1>1, <1>2

LEMMA PipelinePops ==
  ASSUME TypeInv, DrainPop PROVE UNCHANGED Pipeline
<1> DEFINE last == IF gpc = "push" THEN <<event>> ELSE <<>>
<1>1. last \in Seq(GuiEvents) /\ queue \in Seq(GuiEvents) /\ queue # <<>>
  BY DEF TypeInv, TypeOK, DrainPop, Take
<1>2. /\ Pipeline = <<>> \o queue \o last
      /\ Pipeline' = <<Head(queue)>> \o Tail(queue) \o last
  BY DEF Pipeline, DrainPop, Take, guiVars
<1> HIDE DEF last
<1>3. Head(queue) \in GuiEvents /\ Tail(queue) \in Seq(GuiEvents)
  BY <1>1
<1>4. queue = <<Head(queue)>> \o Tail(queue)
  BY <1>1, <1>3
<1> QED
  BY <1>1, <1>2, <1>4

LEMMA PipelineDelivers ==
  ASSUME TypeInv, stage = "deliver", stage' = "drain", UNCHANGED <<queue, gpc, event>>
  PROVE  /\ Pipeline # <<>> /\ taken \in GuiEvents
         /\ taken = Head(Pipeline) /\ Pipeline' = Tail(Pipeline)
<1> DEFINE last == IF gpc = "push" THEN <<event>> ELSE <<>>
<1>1. last \in Seq(GuiEvents) /\ queue \in Seq(GuiEvents) /\ taken \in GuiEvents
  BY DEF TypeInv, TypeOK
<1>2. Pipeline = <<taken>> \o queue \o last /\ Pipeline' = <<>> \o queue \o last
  BY DEF Pipeline
<1> HIDE DEF last
<1> QED
  BY <1>1, <1>2
-----------------------------------------------------------------------------
(* What events come to when they are played forward. *)

\* WillBelieve and WillBeOpen, of any events and any view of the host's.
Believed(s, id, now, v) ==
  IF Places(s, id, ValueKinds) # {}
  THEN \A i \in LastPlace(s, id, ValueKinds) : s[i].value = v
  ELSE now = v

Opened(s, id, now, open) ==
  IF Places(s, id, GestureKinds) # {}
  THEN \A i \in LastPlace(s, id, GestureKinds) : (s[i].kind = "begin") <=> open
  ELSE now <=> open

LEMMA WillAre ==
  ASSUME NEW id
  PROVE  /\ \A v : WillBelieve(id, v) <=> Believed(Pipeline, id, hostValue[id], v)
         /\ \A open : WillBeOpen(id, open) <=> Opened(Pipeline, id, id \in hostOpen, open)
BY DEF WillBelieve, WillBeOpen, Believed, Opened, ValueUnderWay

(* An event that is not one of these comes and goes without a trace.        *)
LEMMA OthersDoNotMatter ==
  ASSUME NEW s \in Seq(GuiEvents), NEW e \in GuiEvents, NEW id, NEW now
  PROVE  /\ ~(e.id = id /\ e.kind = "value") =>
              \A v : Believed(Append(s, e), id, now, v) <=> Believed(s, id, now, v)
         /\ ~(e.id = id /\ e.kind # "value") =>
              \A open : Opened(Append(s, e), id, now, open) <=> Opened(s, id, now, open)
<1>1. ASSUME ~(e.id = id /\ e.kind = "value")
      PROVE  \A v : Believed(Append(s, e), id, now, v) <=> Believed(s, id, now, v)
  <2>1. /\ Places(Append(s, e), id, ValueKinds) = Places(s, id, ValueKinds)
        /\ \A i \in Places(s, id, ValueKinds) : Append(s, e)[i] = s[i]
    <3>1. ~(e.id = id /\ e.kind \in ValueKinds)
      BY <1>1 DEF ValueKinds
    <3> QED
      BY <3>1, AppendIs DEF Places
  <2> QED
    BY <2>1 DEF Believed, LastPlace
<1>2. ASSUME ~(e.id = id /\ e.kind # "value")
      PROVE  \A open : Opened(Append(s, e), id, now, open) <=> Opened(s, id, now, open)
  <2>1. /\ Places(Append(s, e), id, GestureKinds) = Places(s, id, GestureKinds)
        /\ \A i \in Places(s, id, GestureKinds) : Append(s, e)[i] = s[i]
    <3>1. ~(e.id = id /\ e.kind \in GestureKinds)
      BY <1>2, GuiEventsAre
    <3> QED
      BY <3>1, AppendIs DEF Places
  <2> QED
    BY <2>1 DEF Opened, LastPlace
<1> QED
  BY <1>1, <1>2

(* The newest one decides.                                                  *)
LEMMA NewestDecides ==
  ASSUME NEW s \in Seq(GuiEvents), NEW e \in GuiEvents, NEW now
  PROVE  /\ e.kind = "value" => Believed(Append(s, e), e.id, now, e.value)
         /\ e.kind # "value" =>
              \A open : ((e.kind = "begin") <=> open) => Opened(Append(s, e), e.id, now, open)
<1>1. ASSUME e.kind = "value" PROVE Believed(Append(s, e), e.id, now, e.value)
  BY <1>1, AppendSame, e.kind \in ValueKinds DEF Believed, ValueKinds
<1>2. ASSUME e.kind # "value", NEW open, (e.kind = "begin") <=> open
      PROVE  Opened(Append(s, e), e.id, now, open)
  <2>1. e.kind \in GestureKinds
    BY <1>2, GuiEventsAre
  <2> QED
    BY <1>2, <2>1, AppendSame DEF Opened
<1> QED
  BY <1>1, <1>2

LEMMA LastPlaceMoves ==
  ASSUME NEW s \in Seq(GuiEvents), s # <<>>, NEW id, NEW kinds
  PROVE  /\ \A i \in LastPlace(Tail(s), id, kinds) :
              i + 1 \in LastPlace(s, id, kinds) /\ Tail(s)[i] = s[i + 1]
         /\ Places(s, id, kinds) # {} /\ Places(Tail(s), id, kinds) = {} =>
              1 \in LastPlace(s, id, kinds)
         /\ Places(s, id, kinds) = {} => Places(Tail(s), id, kinds) = {}
<1>1. ASSUME NEW i \in LastPlace(Tail(s), id, kinds), NEW j \in Places(s, id, kinds)
      PROVE  j <= i + 1
  <2>1. i \in Nat /\ j \in Nat \ {0}
    BY <1>1, DropFirst DEF LastPlace
  <2>2. CASE j = 1
    BY <2>1, <2>2
  <2>3. CASE j # 1
    <3>1. j - 1 \in Nat /\ j - 1 # 0 /\ (j - 1) + 1 = j
      BY <2>1, <2>3
    <3>2. j - 1 \in Places(Tail(s), id, kinds)
      BY <1>1, <3>1, DropFirst
    <3> QED
      BY <1>1, <2>1, <3>2 DEF LastPlace
  <2> QED
    BY <2>2, <2>3
<1>2. ASSUME NEW i \in LastPlace(Tail(s), id, kinds)
      PROVE  i + 1 \in LastPlace(s, id, kinds) /\ Tail(s)[i] = s[i + 1]
  BY <1>1, <1>2, DropFirst DEF LastPlace
<1>3. ASSUME NEW j \in Places(s, id, kinds), Places(Tail(s), id, kinds) = {}
      PROVE  j = 1
  <2>1. j \in Nat \ {0}
    BY <1>3, DropFirst
  <2>2. SUFFICES ASSUME j # 1 PROVE FALSE
    OBVIOUS
  <2>3. j - 1 \in Nat /\ j - 1 # 0 /\ (j - 1) + 1 = j
    BY <2>1, <2>2
  <2>4. j - 1 \in Places(Tail(s), id, kinds)
    BY <1>3, <2>3, DropFirst
  <2> QED
    BY <1>3, <2>4
<1>4. Places(s, id, kinds) # {} /\ Places(Tail(s), id, kinds) = {} =>
        1 \in LastPlace(s, id, kinds)
  BY <1>3 DEF LastPlace
<1>5. Places(s, id, kinds) = {} => Places(Tail(s), id, kinds) = {}
  BY DropFirst
<1> QED
  BY <1>2, <1>4, <1>5

(* The oldest one is what the host believes once it has been handed over.   *)
LEMMA OldestIsBelieved ==
  ASSUME NEW s \in Seq(GuiEvents), s # <<>>, NEW id, NEW now, NEW v, Believed(s, id, now, v)
  PROVE  /\ Head(s).id = id /\ Head(s).kind = "value" => Believed(Tail(s), id, Head(s).value, v)
         /\ ~(Head(s).id = id /\ Head(s).kind = "value") => Believed(Tail(s), id, now, v)
<1>1. 1 \in DOMAIN s /\ Head(s) = s[1]
  OBVIOUS
<1>2. CASE Places(Tail(s), id, ValueKinds) # {}
  <2>1. Places(s, id, ValueKinds) # {}
    BY <1>2, LastPlaceMoves
  <2>2. \A i \in LastPlace(Tail(s), id, ValueKinds) :
          i + 1 \in LastPlace(s, id, ValueKinds) /\ Tail(s)[i] = s[i + 1]
    BY LastPlaceMoves
  <2>3. \A i \in LastPlace(Tail(s), id, ValueKinds) : Tail(s)[i].value = v
    BY <2>1, <2>2 DEF Believed
  <2> QED
    BY <1>2, <2>3 DEF Believed
<1>3. CASE Places(Tail(s), id, ValueKinds) = {} /\ Places(s, id, ValueKinds) # {}
  <2>1. 1 \in LastPlace(s, id, ValueKinds)
    BY <1>3, LastPlaceMoves
  <2>2. s[1].id = id /\ s[1].kind = "value" /\ s[1].value = v
    BY <1>3, <2>1 DEF Believed, LastPlace, Places, ValueKinds
  <2> QED
    BY <1>1, <1>3, <2>2 DEF Believed
<1>4. CASE Places(s, id, ValueKinds) = {}
  <2>1. ~(Head(s).id = id /\ Head(s).kind = "value")
    BY <1>1, <1>4 DEF Places, ValueKinds
  <2>2. Places(Tail(s), id, ValueKinds) = {}
    BY <1>4, LastPlaceMoves
  <2> QED
    BY <1>4, <2>1, <2>2 DEF Believed
<1> QED
  BY <1>2, <1>3, <1>4

LEMMA OldestIsOpened ==
  ASSUME NEW s \in Seq(GuiEvents), s # <<>>, NEW id, NEW now, NEW open,
         Opened(s, id, now, open)
  PROVE  /\ Head(s).id = id /\ Head(s).kind # "value" =>
              Opened(Tail(s), id, Head(s).kind = "begin", open)
         /\ ~(Head(s).id = id /\ Head(s).kind # "value") => Opened(Tail(s), id, now, open)
<1>1. 1 \in DOMAIN s /\ Head(s) = s[1] /\ Head(s) \in GuiEvents
  OBVIOUS
<1>2. CASE Places(Tail(s), id, GestureKinds) # {}
  <2>1. Places(s, id, GestureKinds) # {}
    BY <1>2, LastPlaceMoves
  <2>2. \A i \in LastPlace(Tail(s), id, GestureKinds) :
          i + 1 \in LastPlace(s, id, GestureKinds) /\ Tail(s)[i] = s[i + 1]
    BY LastPlaceMoves
  <2>3. \A i \in LastPlace(Tail(s), id, GestureKinds) : (Tail(s)[i].kind = "begin") <=> open
    BY <2>1, <2>2 DEF Opened
  <2> QED
    BY <1>2, <2>3 DEF Opened
<1>3. CASE Places(Tail(s), id, GestureKinds) = {} /\ Places(s, id, GestureKinds) # {}
  <2>1. 1 \in LastPlace(s, id, GestureKinds)
    BY <1>3, LastPlaceMoves
  <2>2. s[1].id = id /\ s[1].kind # "value" /\ ((s[1].kind = "begin") <=> open)
    BY <1>1, <1>3, <2>1, GuiEventsAre DEF Opened, LastPlace, Places
  <2> QED
    BY <1>1, <1>3, <2>2 DEF Opened
<1>4. CASE Places(s, id, GestureKinds) = {}
  <2>1. ~(Head(s).id = id /\ Head(s).kind # "value")
    BY <1>1, <1>4, GuiEventsAre DEF Places
  <2>2. Places(Tail(s), id, GestureKinds) = {}
    BY <1>4, LastPlaceMoves
  <2> QED
    BY <1>4, <2>1, <2>2 DEF Opened
<1> QED
  BY <1>2, <1>3, <1>4
-----------------------------------------------------------------------------
(* The host and the plug-in agree. *)

AgreesOn(id) ==
  id \notin excused => WillReport(id) \/ Believed(Pipeline, id, hostValue[id], base[id])

LEMMA AgreementIs == Agreement <=> \A id \in Ids : AgreesOn(id)
BY WillAre DEF Agreement, AgreesOn

LEMMA AgreesStays ==
  ASSUME NEW id \in Ids, AgreesOn(id), UNCHANGED <<Pipeline, hostValue, base, excused>>,
         WillReport(id) => WillReport(id)'
  PROVE  AgreesOn(id)'
BY DEF AgreesOn

LEMMA AgreesGuiStarts ==
  ASSUME TypeInv, NEW id \in Ids, AgreesOn(id), GuiStarts, TypeInv'
  PROVE  AgreesOn(id)'
<1> USE DEF fifoVars, callVars, hostVars, ghosts
<1>1. ASSUME NEW x \in Ids, BeginParameterGesture(x) \/ EndParameterGesture(x)
      PROVE  AgreesOn(id)'
  <2>1. /\ gpc = "idle" /\ gpc' = "push" /\ event' \in GuiEvents /\ event'.kind # "value"
        /\ UNCHANGED <<queue, stage, taken, hostValue, base, excused>>
    BY <1>1, MakesGuiEvent DEF BeginParameterGesture, EndParameterGesture, GuiEvent
  <2>2. Pipeline' = Append(Pipeline, event')
    BY <2>1, PipelineGrows
  <2>3. ~(event'.id = id /\ event'.kind = "value") /\ ~WillReport(id)
    BY <2>1 DEF WillReport
  <2>4. Believed(Pipeline', id, hostValue[id], base[id])
          <=> Believed(Pipeline, id, hostValue[id], base[id])
    BY <2>1, <2>2, <2>3, PipelineType, OthersDoNotMatter
  <2> QED
    BY <2>1, <2>3, <2>4 DEF AgreesOn
<1>2. ASSUME NEW x \in Ids, NEW v \in Values, SetParameterFromGui(x, v) \/ RestoreState(x, v)
      PROVE  AgreesOn(id)'
  <2>1. /\ gpc = "idle" /\ gpc' \in {"reload", "rescan"} /\ event'.id = x
        /\ base' = [base EXCEPT ![x] = v] /\ excused' = excused \ {x}
        /\ UNCHANGED <<queue, stage, taken, hostValue>>
    BY <1>2 DEF SetParameterFromGui, RestoreState, GuiEvent
  <2>2. CASE id = x
    BY <2>1, <2>2 DEF AgreesOn, WillReport
  <2>3. CASE id # x
    <3>1. base'[id] = base[id]
      BY <2>1, <2>3 DEF TypeInv, TypeOK
    <3>2. UNCHANGED Pipeline
      BY <2>1, PipelineStays
    <3> QED
      BY <2>1, <2>3, <3>1, <3>2 DEF AgreesOn, WillReport
  <2> QED
    BY <2>2, <2>3
<1> QED
  BY <1>1, <1>2 DEF GuiStarts

LEMMA AgreesGuiGoesOn ==
  ASSUME TypeInv, NEW id \in Ids, AgreesOn(id), GuiGoesOn, TypeInv'
  PROVE  AgreesOn(id)'
<1> USE DEF fifoVars, callVars, hostVars, guiVars, ghosts
<1>1. CASE Reload
  <2>1. /\ gpc = "reload" /\ gpc' = "push" /\ event' \in GuiEvents /\ event'.kind = "value"
        /\ event'.id = event.id /\ event'.value = base[event.id]
        /\ UNCHANGED <<queue, stage, taken, hostValue, base, excused>>
    BY <1>1 DEF Reload, TypeInv, TypeOK, EventIsRight, GuiEvents
  <2>2. Pipeline' = Append(Pipeline, event') /\ Pipeline \in Seq(GuiEvents)
    BY <2>1, PipelineGrows, PipelineType
  <2>3. CASE id = event.id
    <3>1. Believed(Append(Pipeline, event'), event'.id, hostValue[id], event'.value)
      BY <2>1, <2>2, NewestDecides
    <3> QED
      BY <2>1, <2>2, <2>3, <3>1 DEF AgreesOn
  <2>4. CASE id # event.id
    <3>1. ~(event'.id = id /\ event'.kind = "value") /\ ~WillReport(id)
      BY <2>1, <2>4 DEF WillReport
    <3>2. Believed(Pipeline', id, hostValue[id], base[id])
            <=> Believed(Pipeline, id, hostValue[id], base[id])
      BY <2>1, <2>2, <3>1, OthersDoNotMatter
    <3> QED
      BY <2>1, <3>1, <3>2 DEF AgreesOn
  <2> QED
    BY <2>3, <2>4
<1>2. CASE PushLook
  BY <1>2, PipelineStays, AgreesStays DEF PushLook, Learn, WillReport
<1>3. CASE PushAccept
  BY <1>3, PipelineQueues, AgreesStays DEF PushAccept, Accept, WillReport
<1>4. CASE PushRefuse
  <2>1. /\ gpc = "push" /\ gpc' # "push" /\ UNCHANGED <<queue, stage, taken, hostValue, base>>
        /\ excused' = IF event.kind = "value" THEN excused \cup {event.id} ELSE excused
    BY <1>4 DEF PushRefuse, Refuse, Return
  <2>2. Pipeline' \in Seq(GuiEvents) /\ event \in GuiEvents /\ Pipeline = Append(Pipeline', event)
    BY <2>1, PipelineShrinks
  <2>3. CASE event.id = id /\ event.kind = "value"
    BY <2>1, <2>3 DEF AgreesOn
  <2>4. CASE ~(event.id = id /\ event.kind = "value")
    <3>1. Believed(Pipeline, id, hostValue[id], base[id])
            <=> Believed(Pipeline', id, hostValue[id], base[id])
      BY <2>2, <2>4, OthersDoNotMatter
    <3> QED
      BY <2>1, <2>4, <3>1 DEF AgreesOn, WillReport
  <2> QED
    BY <2>3, <2>4
<1>5. CASE RequestFlush
  BY <1>5, PipelineStays, AgreesStays DEF RequestFlush, Return, WillReport
<1>6. CASE Rescan
  <2>1. /\ gpc = "rescan" /\ gpc' = "idle" /\ UNCHANGED <<queue, stage, taken, base>>
        /\ hostValue' = IF canUseParams THEN base ELSE hostValue
        /\ excused' = IF canUseParams
                      THEN {x \in excused \cup {event.id} : ValueUnderWay(x)}
                      ELSE excused \cup {event.id}
    BY <1>6 DEF Rescan, Return
  <2>2. UNCHANGED Pipeline
    BY <2>1, PipelineStays
  <2>3. CASE ~ValueUnderWay(id) /\ canUseParams
    BY <2>1, <2>2, <2>3 DEF AgreesOn, Believed, ValueUnderWay
  <2>4. CASE ValueUnderWay(id) \/ ~canUseParams
    <3>1. id \notin excused' => id \notin excused /\ id # event.id
      BY <2>1, <2>4
    <3> QED
      BY <2>1, <2>2, <2>4, <3>1 DEF AgreesOn, Believed, ValueUnderWay, WillReport
  <2> QED
    BY <2>3, <2>4
<1>7. CASE LoadFails
  <2>1. /\ gpc = "rescan" /\ gpc' = "idle" /\ excused' = excused \cup {event.id}
        /\ UNCHANGED <<queue, stage, taken, base, hostValue>>
    BY <1>7 DEF LoadFails, Return
  <2>2. UNCHANGED Pipeline
    BY <2>1, PipelineStays
  <2> QED
    BY <2>1, <2>2 DEF AgreesOn, WillReport
<1> QED
  BY <1>1, <1>2, <1>3, <1>4, <1>5, <1>6, <1>7 DEF GuiGoesOn

LEMMA AgreesHost ==
  ASSUME TypeInv, NEW id \in Ids, AgreesOn(id),
         HostStarts \/ AnswerBegin \/ HostWrites \/ DrainPop \/ HostGoesOn
  PROVE  AgreesOn(id)'
<1> USE DEF fifoVars, callVars, hostVars, guiVars, ghosts
<1>1. CASE HostStarts \/ AnswerBegin \/ InputsEnd \/ DrainEnd
  <2>1. /\ stage # "deliver" /\ stage' # "deliver"
        /\ UNCHANGED <<queue, gpc, event, hostValue, base, excused>>
    BY <1>1 DEF HostStarts, ProcessBegin, FlushBegin, AnswerBegin, InputsEnd, DrainEnd,
                Processing, TypeInv, TypeOK
  <2>2. UNCHANGED Pipeline
    BY <2>1, PipelineStays
  <2> QED
    BY <2>1, <2>2, AgreesStays DEF WillReport
<1>2. ASSUME NEW x \in Ids, NEW v \in Values, NEW told \in BOOLEAN,
             (ApplyInputEvent(x, v) /\ told) \/ EmitParameterValue(x, v, told)
      PROVE  AgreesOn(id)'
  <2>1. /\ base' = [base EXCEPT ![x] = v]
        /\ hostValue' = IF told THEN [hostValue EXCEPT ![x] = v] ELSE hostValue
        /\ excused' = ExcusedAfter(x, told)
        /\ UNCHANGED <<queue, stage, taken, gpc, event>>
    BY <1>2 DEF ApplyInputEvent, EmitParameterValue
  <2>2. UNCHANGED Pipeline
    BY <2>1, PipelineStays
  <2>3. CASE id = x
    <3>1. base'[id] = v /\ (told => hostValue'[id] = v)
      BY <2>1, <2>3 DEF TypeInv, TypeOK
    <3>2. id \notin excused' => told /\ (~ValueUnderWay(id) \/ WillReport(id))
      BY <2>1, <2>3 DEF ExcusedAfter
    <3> QED
      BY <2>1, <2>2, <3>1, <3>2 DEF AgreesOn, WillReport, ValueUnderWay, Believed
  <2>4. CASE id # x
    <3>1. base'[id] = base[id] /\ hostValue'[id] = hostValue[id]
      BY <2>1, <2>4 DEF TypeInv, TypeOK
    <3>2. id \notin excused' => id \notin excused
      BY <2>1, <2>4 DEF ExcusedAfter
    <3> QED
      BY <2>1, <2>2, <3>1, <3>2 DEF AgreesOn, WillReport
  <2> QED
    BY <2>3, <2>4
<1>3. CASE DrainPop
  BY <1>3, PipelinePops, AgreesStays DEF DrainPop, WillReport
<1>4. CASE Deliver \/ DeliverFails
  <2>1. /\ stage = "deliver" /\ stage' = "drain" /\ UNCHANGED <<queue, gpc, event, base>>
    BY <1>4 DEF Deliver, DeliverFails
  <2>2. /\ Pipeline # <<>> /\ taken \in GuiEvents /\ Pipeline \in Seq(GuiEvents)
        /\ taken = Head(Pipeline) /\ Pipeline' = Tail(Pipeline)
    BY <2>1, PipelineDelivers, PipelineType
  <2>3. CASE id \in excused \/ WillReport(id)
    BY <1>4, <2>1, <2>3 DEF AgreesOn, WillReport, Deliver, DeliverFails
  <2>4. CASE Believed(Pipeline, id, hostValue[id], base[id])
    <3>1. CASE taken.id = id /\ taken.kind = "value"
      <4>1. Believed(Pipeline', id, taken.value, base[id])
        BY <2>2, <2>4, <3>1, OldestIsBelieved
      <4>2. CASE Deliver
        <5>1. hostValue'[id] = taken.value
          BY <3>1, <4>2 DEF Deliver, TypeInv, TypeOK
        <5> QED
          BY <2>1, <4>1, <5>1 DEF AgreesOn
      <4>3. CASE DeliverFails
        BY <3>1, <4>3 DEF AgreesOn, DeliverFails
      <4> QED
        BY <1>4, <4>2, <4>3
    <3>2. CASE ~(taken.id = id /\ taken.kind = "value")
      <4>1. Believed(Pipeline', id, hostValue[id], base[id])
        BY <2>2, <2>4, <3>2, OldestIsBelieved
      <4>2. hostValue'[id] = hostValue[id]
        BY <1>4, <2>2, <3>2 DEF Deliver, DeliverFails, TypeInv, TypeOK
      <4> QED
        BY <2>1, <4>1, <4>2 DEF AgreesOn
    <3> QED
      BY <3>1, <3>2
  <2> QED
    BY <2>3, <2>4 DEF AgreesOn
<1>5. HostWrites => AgreesOn(id)'
  BY <1>2 DEF HostWrites
<1> QED
  BY <1>1, <1>3, <1>4, <1>5 DEF HostGoesOn

LEMMA AgreementNext == TypeInv /\ Agreement /\ [Next]_vars => Agreement'
<1>0. (\A id \in Ids : AgreesOn(id)') => Agreement'
  BY DEF Agreement, AgreesOn, WillBelieve, Believed, ValueUnderWay
<1> SUFFICES ASSUME TypeInv, Agreement, [Next]_vars, NEW id \in Ids PROVE AgreesOn(id)'
  BY <1>0
<1>1. TypeInv' /\ AgreesOn(id)
  BY TypeNext, AgreementIs
<1>2. CASE UNCHANGED vars
  BY <1>1, <1>2, PipelineStays, AgreesStays
     DEF vars, fifoVars, callVars, hostVars, guiVars, ghosts, WillReport
<1> QED
  BY <1>1, <1>2, AgreesGuiStarts, AgreesGuiGoesOn, AgreesHost DEF Next

LEMMA AgreementInit == Init => Agreement
<1> SUFFICES ASSUME Init, NEW id \in Ids PROVE AgreesOn(id)
  BY AgreementIs
<1>1. DOMAIN Pipeline = {} /\ hostValue = base
  BY DEF Init, FifoInit, Pipeline
<1> QED
  BY <1>1 DEF AgreesOn, Believed, Places

(* The host and the plug-in are never left with different values but in the *)
(* ways the design accepts (setParameterFromGui, drainGuiParameterEvents,   *)
(* emitParameterValue and stateLoad of Plugin.cpp, interleaved anyhow), for *)
(* any parameters and values and a queue of any length.                     *)
THEOREM HostAndPluginAgree == Spec => []Agreement
<1>1. Init => TypeInv /\ Agreement
  BY TypeInit, AgreementInit
<1>2. TypeInv /\ Agreement /\ [Next]_vars => (TypeInv /\ Agreement)'
  BY TypeNext, AgreementNext
<1> QED
  BY <1>1, <1>2, PTL DEF Spec
-----------------------------------------------------------------------------
(* Gestures stay paired. *)

PairedOn(id) ==
  id \notin gestureLost => Opened(Pipeline, id, id \in hostOpen, id \in gestureOpen)

LEMMA PairedIs == GesturesPaired <=> \A id \in Ids : PairedOn(id)
BY WillAre DEF GesturesPaired, PairedOn

LEMMA PairedStays ==
  ASSUME NEW id \in Ids, PairedOn(id), UNCHANGED <<Pipeline, hostOpen, gestureOpen, gestureLost>>
  PROVE  PairedOn(id)'
BY DEF PairedOn

LEMMA PairedGuiStarts ==
  ASSUME TypeInv, NEW id \in Ids, PairedOn(id), GuiStarts, TypeInv'
  PROVE  PairedOn(id)'
<1> USE DEF fifoVars, callVars, hostVars, ghosts
<1>1. ASSUME NEW x \in Ids, BeginParameterGesture(x) \/ EndParameterGesture(x)
      PROVE  PairedOn(id)'
  <2>1. /\ gpc = "idle" /\ gpc' = "push" /\ event' \in GuiEvents /\ event'.kind # "value"
        /\ event'.id = x /\ ((event'.kind = "begin") <=> (x \in gestureOpen'))
        /\ x # id => ((id \in gestureOpen) <=> (id \in gestureOpen'))
        /\ UNCHANGED <<queue, stage, taken, hostOpen, gestureLost>>
    BY <1>1, MakesGuiEvent DEF BeginParameterGesture, EndParameterGesture, GuiEvent
  <2>2. Pipeline' = Append(Pipeline, event') /\ Pipeline \in Seq(GuiEvents)
    BY <2>1, PipelineGrows, PipelineType
  <2>3. CASE x = id
    <3>1. Opened(Append(Pipeline, event'), event'.id, id \in hostOpen, x \in gestureOpen')
      BY <2>1, <2>2, NewestDecides
    <3> QED
      BY <2>1, <2>2, <2>3, <3>1 DEF PairedOn
  <2>4. CASE x # id
    <3>1. \A open : Opened(Pipeline', id, id \in hostOpen, open)
                      <=> Opened(Pipeline, id, id \in hostOpen, open)
      BY <2>1, <2>2, <2>4, OthersDoNotMatter
    <3> QED
      BY <2>1, <2>4, <3>1 DEF PairedOn, Opened
  <2> QED
    BY <2>3, <2>4
<1>2. ASSUME NEW x \in Ids, NEW v \in Values, SetParameterFromGui(x, v) \/ RestoreState(x, v)
      PROVE  PairedOn(id)'
  <2>1. /\ gpc = "idle" /\ gpc' \in {"reload", "rescan"}
        /\ UNCHANGED <<queue, stage, taken, hostOpen, gestureOpen, gestureLost>>
    BY <1>2 DEF SetParameterFromGui, RestoreState
  <2> QED
    BY <2>1, PipelineStays, PairedStays
<1> QED
  BY <1>1, <1>2 DEF GuiStarts

LEMMA PairedGuiGoesOn ==
  ASSUME TypeInv, NEW id \in Ids, PairedOn(id), GuiGoesOn, TypeInv'
  PROVE  PairedOn(id)'
<1> USE DEF fifoVars, callVars, hostVars, guiVars, ghosts
<1>1. CASE Reload
  <2>1. /\ gpc = "reload" /\ gpc' = "push" /\ event' \in GuiEvents /\ event'.kind = "value"
        /\ UNCHANGED <<queue, stage, taken, hostOpen, gestureOpen, gestureLost>>
    BY <1>1 DEF Reload, TypeInv, TypeOK, EventIsRight, GuiEvents
  <2>2. Pipeline' = Append(Pipeline, event') /\ Pipeline \in Seq(GuiEvents)
    BY <2>1, PipelineGrows, PipelineType
  <2>3. Opened(Pipeline', id, id \in hostOpen, id \in gestureOpen)
          <=> Opened(Pipeline, id, id \in hostOpen, id \in gestureOpen)
    BY <2>1, <2>2, OthersDoNotMatter
  <2> QED
    BY <2>1, <2>3 DEF PairedOn
<1>2. CASE PushLook
  BY <1>2, PipelineStays, PairedStays DEF PushLook, Learn
<1>3. CASE PushAccept
  <2>1. /\ gpc = "push" /\ gpc' # "push" /\ queue' = Append(queue, event)
        /\ gestureLost' = IF event.kind = "value" THEN gestureLost ELSE gestureLost \ {event.id}
        /\ UNCHANGED <<stage, taken, hostOpen, gestureOpen>>
    BY <1>3 DEF PushAccept, Accept
  <2>2. UNCHANGED Pipeline
    BY <2>1, PipelineQueues
  <2>3. CASE event.kind # "value" /\ event.id = id
    <3> DEFINE before == (IF stage = "deliver" THEN <<taken>> ELSE <<>>) \o queue
    <3>1. before \in Seq(GuiEvents) /\ event \in GuiEvents
      BY <2>1 DEF TypeInv, TypeOK
    <3>2. Pipeline = before \o <<event>>
      BY <2>1 DEF Pipeline
    <3>3. (event.kind = "begin") <=> (id \in gestureOpen)
      BY <2>1, <2>3, <3>1, GuiEventsAre DEF TypeInv, EventIsRight, GestureKinds
    <3> HIDE DEF before
    <3>4. Pipeline = Append(before, event)
      BY <3>1, <3>2
    <3>5. Opened(Pipeline, id, id \in hostOpen, id \in gestureOpen)
      BY <2>3, <3>1, <3>3, <3>4, NewestDecides
    <3> QED
      BY <2>1, <2>2, <3>5 DEF PairedOn
  <2>4. CASE ~(event.kind # "value" /\ event.id = id)
    <3>1. id \notin gestureLost' => id \notin gestureLost
      BY <2>1, <2>4
    <3> QED
      BY <2>1, <2>2, <3>1 DEF PairedOn
  <2> QED
    BY <2>3, <2>4
<1>4. CASE PushRefuse
  <2>1. /\ gpc = "push" /\ gpc' # "push"
        /\ UNCHANGED <<queue, stage, taken, hostOpen, gestureOpen>>
        /\ gestureLost' = IF event.kind = "value" THEN gestureLost ELSE gestureLost \cup {event.id}
    BY <1>4 DEF PushRefuse, Refuse, Return
  <2>2. Pipeline' \in Seq(GuiEvents) /\ event \in GuiEvents /\ Pipeline = Append(Pipeline', event)
    BY <2>1, PipelineShrinks
  <2>3. CASE event.id = id /\ event.kind # "value"
    BY <2>1, <2>3 DEF PairedOn
  <2>4. CASE ~(event.id = id /\ event.kind # "value")
    <3>1. Opened(Pipeline, id, id \in hostOpen, id \in gestureOpen)
            <=> Opened(Pipeline', id, id \in hostOpen, id \in gestureOpen)
      BY <2>2, <2>4, OthersDoNotMatter
    <3> QED
      BY <2>1, <2>4, <3>1 DEF PairedOn
  <2> QED
    BY <2>3, <2>4
<1>5. CASE RequestFlush \/ Rescan \/ LoadFails
  <2>1. /\ gpc # "push" /\ gpc' # "push"
        /\ UNCHANGED <<queue, stage, taken, hostOpen, gestureOpen, gestureLost>>
    BY <1>5 DEF RequestFlush, Rescan, LoadFails, Return
  <2> QED
    BY <2>1, PipelineStays, PairedStays
<1> QED
  BY <1>1, <1>2, <1>3, <1>4, <1>5 DEF GuiGoesOn

LEMMA PairedHost ==
  ASSUME TypeInv, NEW id \in Ids, PairedOn(id),
         HostStarts \/ AnswerBegin \/ HostWrites \/ DrainPop \/ HostGoesOn
  PROVE  PairedOn(id)'
<1> USE DEF fifoVars, callVars, hostVars, guiVars, ghosts
<1>1. CASE HostStarts \/ AnswerBegin \/ InputsEnd \/ DrainEnd
  <2>1. /\ stage # "deliver" /\ stage' # "deliver"
        /\ UNCHANGED <<queue, gpc, event, hostOpen, gestureOpen, gestureLost>>
    BY <1>1 DEF HostStarts, ProcessBegin, FlushBegin, AnswerBegin, InputsEnd, DrainEnd,
                Processing, TypeInv, TypeOK
  <2> QED
    BY <2>1, PipelineStays, PairedStays
<1>2. CASE HostWrites
  <2>1. UNCHANGED <<queue, stage, taken, gpc, event, hostOpen, gestureOpen, gestureLost>>
    BY <1>2 DEF HostWrites, ApplyInputEvent, EmitParameterValue
  <2> QED
    BY <2>1, PipelineStays, PairedStays
<1>3. CASE DrainPop
  BY <1>3, PipelinePops, PairedStays DEF DrainPop
<1>4. CASE Deliver \/ DeliverFails
  <2>1. /\ stage = "deliver" /\ stage' = "drain" /\ UNCHANGED <<queue, gpc, event, gestureOpen>>
    BY <1>4 DEF Deliver, DeliverFails
  <2>2. /\ Pipeline # <<>> /\ taken \in GuiEvents /\ Pipeline \in Seq(GuiEvents)
        /\ taken = Head(Pipeline) /\ Pipeline' = Tail(Pipeline)
    BY <2>1, PipelineDelivers, PipelineType
  <2>3. CASE id \in gestureLost
    BY <1>4, <2>3 DEF PairedOn, Deliver, DeliverFails
  <2>4. CASE Opened(Pipeline, id, id \in hostOpen, id \in gestureOpen)
    <3>1. CASE taken.id = id /\ taken.kind # "value"
      <4>1. Opened(Pipeline', id, taken.kind = "begin", id \in gestureOpen)
        BY <2>2, <2>4, <3>1, OldestIsOpened
      <4>2. CASE Deliver
        <5>1. (id \in hostOpen') <=> (taken.kind = "begin")
          BY <2>2, <3>1, <4>2, GuiEventsAre DEF Deliver
        <5> QED
          BY <2>1, <4>1, <5>1 DEF PairedOn, Opened
      <4>3. CASE DeliverFails
        BY <3>1, <4>3 DEF PairedOn, DeliverFails
      <4> QED
        BY <1>4, <4>2, <4>3
    <3>2. CASE ~(taken.id = id /\ taken.kind # "value")
      <4>1. Opened(Pipeline', id, id \in hostOpen, id \in gestureOpen)
        BY <2>2, <2>4, <3>2, OldestIsOpened
      <4>2. /\ (id \in hostOpen') <=> (id \in hostOpen)
            /\ id \notin gestureLost' => id \notin gestureLost
        BY <1>4, <2>2, <3>2, GuiEventsAre DEF Deliver, DeliverFails
      <4> QED
        BY <2>1, <4>1, <4>2 DEF PairedOn, Opened
    <3> QED
      BY <3>1, <3>2
  <2> QED
    BY <2>3, <2>4 DEF PairedOn
<1> QED
  BY <1>1, <1>2, <1>3, <1>4 DEF HostGoesOn

LEMMA PairedNext == TypeInv /\ GesturesPaired /\ [Next]_vars => GesturesPaired'
<1>0. (\A id \in Ids : PairedOn(id)') => GesturesPaired'
  BY DEF GesturesPaired, PairedOn, WillBeOpen, Opened
<1> SUFFICES ASSUME TypeInv, GesturesPaired, [Next]_vars, NEW id \in Ids PROVE PairedOn(id)'
  BY <1>0
<1>1. TypeInv' /\ PairedOn(id)
  BY TypeNext, PairedIs
<1>2. CASE UNCHANGED vars
  BY <1>1, <1>2, PipelineStays, PairedStays
     DEF vars, fifoVars, callVars, hostVars, guiVars, ghosts
<1> QED
  BY <1>1, <1>2, PairedGuiStarts, PairedGuiGoesOn, PairedHost DEF Next

LEMMA PairedInit == Init => GesturesPaired
<1> SUFFICES ASSUME Init, NEW id \in Ids PROVE PairedOn(id)
  BY PairedIs
<1>1. DOMAIN Pipeline = {} /\ hostOpen = {} /\ gestureOpen = {}
  BY DEF Init, FifoInit, Pipeline
<1> QED
  BY <1>1 DEF PairedOn, Opened, Places

(* A gesture the user holds is, or will be, open at the host, and one that  *)
(* has ended is not (begin- and endParameterGesture, the drain), unless one *)
(* of its events was refused.                                               *)
THEOREM GesturesStayPaired == Spec => []GesturesPaired
<1>1. Init => TypeInv /\ GesturesPaired
  BY TypeInit, PairedInit
<1>2. TypeInv /\ GesturesPaired /\ [Next]_vars => (TypeInv /\ GesturesPaired)'
  BY TypeNext, PairedNext
<1> QED
  BY <1>1, <1>2, PTL DEF Spec
=============================================================================
