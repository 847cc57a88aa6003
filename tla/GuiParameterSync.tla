-------------------------- MODULE GuiParameterSync --------------------------
(***************************************************************************)
(* How the plug-in's base values and what the host believes about them are *)
(* kept together.  The GUI writes a base value at once and queues an event *)
(* for the host; process() or params.flush() drains the queue into the     *)
(* host's output list; meanwhile the host automates the same parameters,   *)
(* the plug-in emits telemetry, and the main thread restores states.       *)
(*                                                                         *)
(* The queue is BoundedFifo, which GuiParamQueue is shown to implement.    *)
(* Values live as in ParameterStore, here without their ranges.            *)
(***************************************************************************)
EXTENDS BoundedFifo

CONSTANTS Ids, ReadOnly, Values, Initial

GuiEvents ==
  [kind : {"begin", "end"}, id : Ids, value : {Initial}]
    \cup [kind : {"value"}, id : Ids, value : Values]

ASSUME EventsAssumption ==
  Events = GuiEvents /\ ReadOnly \subseteq Ids /\ Initial \in Values

VARIABLES base,          \* the base value of each parameter
          gpc,           \* where the GUI (main) thread is in a call
          event,         \* the event it is about to queue
          asked,         \* the value setParameterFromGui() was called with
          gestureOpen,   \* the parameters the user is holding
          canUseParams,  \* the host has the params extension; never changes
          requested,     \* a flush was requested and the host has not begun it
          call,          \* the host call that drains: "none", "process",
                         \* "flush", or the one that was requested, a flush
                         \* ("answer") or process() ("answerByProcess")
          stage,         \* where it is: "inputs", "drain", "deliver", "done"
          unseen,        \* how many of the newest events it may fail to see
          hostValue,     \* what the host believes the base values are
          hostOpen,      \* the gestures the host believes open
          excused,       \* ghost: parameters whose last write was overtaken by
                         \* another writer's, or not reported to the host
          gestureLost    \* ghost: parameters with a gesture event lost

guiVars == <<gpc, event, asked, gestureOpen>>
callVars == <<call, stage, unseen>>
hostVars == <<hostValue, hostOpen>>
ghosts == <<excused, gestureLost>>
vars == <<fifoVars, base, guiVars, canUseParams, requested, callVars, hostVars, ghosts>>

GuiEvent(kind, id, value) == [kind |-> kind, id |-> id, value |-> value]

Init ==
  /\ FifoInit
  /\ base = [id \in Ids |-> Initial]
  /\ gpc = "idle" /\ event = Blank /\ asked = Initial /\ gestureOpen = {}
  /\ canUseParams \in BOOLEAN
  /\ requested = FALSE
  /\ call = "none" /\ stage = "done" /\ unseen = 0
  /\ hostValue = base /\ hostOpen = {}
  /\ excused = {} /\ gestureLost = {}
-----------------------------------------------------------------------------
(* What is on its way to the host, oldest first. *)

Pipeline ==
  (IF stage = "deliver" THEN <<taken>> ELSE <<>>)
    \o queue \o (IF gpc = "push" THEN <<event>> ELSE <<>>)

\* The places in events of id's events of the given kinds, and the last of them.
Places(events, id, kinds) ==
  {i \in DOMAIN events : events[i].id = id /\ events[i].kind \in kinds}
LastPlace(events, id, kinds) ==
  {i \in Places(events, id, kinds) : \A j \in Places(events, id, kinds) : j <= i}

ValueKinds == {"value"}
GestureKinds == {"begin", "end"}

\* A value of id is under way and was read before this moment.
ValueUnderWay(id) == Places(Pipeline, id, ValueKinds) # {}

\* The GUI thread will report id's current value, whatever it is by then.
WillReport(id) == gpc \in {"reload", "rescan"} /\ event.id = id

\* Another writer than the GUI has just written id, and told the host or not.
\* A value of the GUI's that is still under way will override it at the host.
ExcusedAfter(id, told) ==
  IF told /\ (~ValueUnderWay(id) \/ WillReport(id)) THEN excused \ {id} ELSE excused \cup {id}
-----------------------------------------------------------------------------
(* The GUI thread. *)

\* beginParameterGesture and endParameterGesture, by a GUI that pairs them.
BeginParameterGesture(id) ==
  /\ gpc = "idle" /\ id \notin gestureOpen
  /\ event' = GuiEvent("begin", id, Initial)
  /\ gpc' = "push"
  /\ gestureOpen' = gestureOpen \cup {id}
  /\ UNCHANGED <<fifoVars, base, asked, canUseParams, requested, callVars, hostVars, ghosts>>

EndParameterGesture(id) ==
  /\ gpc = "idle" /\ id \in gestureOpen
  /\ event' = GuiEvent("end", id, Initial)
  /\ gpc' = "push"
  /\ gestureOpen' = gestureOpen \ {id}
  /\ UNCHANGED <<fifoVars, base, asked, canUseParams, requested, callVars, hostVars, ghosts>>

\* setParameterFromGui: the base value is stored ...
SetParameterFromGui(id, v) ==
  /\ gpc = "idle" /\ id \notin ReadOnly
  /\ base' = [base EXCEPT ![id] = v]
  /\ asked' = v
  /\ event' = GuiEvent("value", id, v)
  /\ gpc' = "reload"
  /\ excused' = excused \ {id}
  /\ UNCHANGED <<fifoVars, gestureOpen, canUseParams, requested, callVars, hostVars, gestureLost>>

\* ... and loaded again to build the event.
Reload ==
  /\ gpc = "reload"
  /\ event' = [event EXCEPT !.value = base[event.id]]
  /\ gpc' = "push"
  /\ UNCHANGED <<fifoVars, base, asked, gestureOpen, canUseParams, requested,
                 callVars, hostVars, ghosts>>

\* The call returns: its argument and its event are gone.
Return == gpc' = "idle" /\ event' = Blank /\ asked' = Initial

\* GuiParamQueue::push, which first looks how full the queue is.
PushLook ==
  /\ gpc = "push" /\ Learn
  /\ UNCHANGED <<base, guiVars, canUseParams, requested, callVars, hostVars, ghosts>>

\* Faulty variant: no flush is requested for an accepted event.
PushAcceptNoRequest ==
  /\ gpc = "push" /\ Accept(event)
  /\ Return
  /\ unseen' = IF call # "none" /\ unseen < Limit THEN unseen + 1 ELSE unseen
  /\ gestureLost' = IF event.kind = "value" THEN gestureLost ELSE gestureLost \ {event.id}
  /\ UNCHANGED <<base, gestureOpen, canUseParams, requested, call, stage,
                 hostVars, excused>>

PushAccept ==
  /\ gpc = "push" /\ Accept(event)
  /\ gpc' = "request"
  /\ unseen' = IF call # "none" /\ unseen < Limit THEN unseen + 1 ELSE unseen
  /\ gestureLost' = IF event.kind = "value" THEN gestureLost ELSE gestureLost \ {event.id}
  /\ UNCHANGED <<base, event, asked, gestureOpen, canUseParams, requested, call, stage,
                 hostVars, excused>>

\* A full queue: the call returns false, and what it stored stays stored.
PushRefuse ==
  /\ gpc = "push" /\ Refuse
  /\ Return
  /\ excused' = IF event.kind = "value" THEN excused \cup {event.id} ELSE excused
  /\ gestureLost' = IF event.kind = "value" THEN gestureLost ELSE gestureLost \cup {event.id}
  /\ UNCHANGED <<base, gestureOpen, canUseParams, requested, callVars, hostVars>>

\* pushGuiParameterEvent asks the host for a flush if it can.
RequestFlush ==
  /\ gpc = "request"
  /\ requested' = (requested \/ canUseParams)
  /\ Return
  /\ UNCHANGED <<fifoVars, base, gestureOpen, canUseParams, callVars,
                 hostVars, ghosts>>

\* stateLoad, on the same thread: a value is restored ...
RestoreState(id, v) ==
  /\ gpc = "idle"
  /\ base' = [base EXCEPT ![id] = v]
  /\ event' = GuiEvent("value", id, v)
  /\ gpc' = "rescan"
  /\ excused' = excused \ {id}
  /\ UNCHANGED <<fifoVars, asked, gestureOpen, canUseParams, requested, callVars, hostVars,
                 gestureLost>>

\* Faulty variant: the load succeeds and the host is not told.
RescanForgotten ==
  /\ gpc = "rescan"
  /\ Return
  /\ excused' = IF ValueUnderWay(event.id) THEN excused \cup {event.id} ELSE excused
  /\ UNCHANGED <<fifoVars, base, gestureOpen, canUseParams, requested,
                 callVars, hostVars, gestureLost>>

\* ... and when the whole load has succeeded the host reads all values again.
Rescan ==
  /\ gpc = "rescan"
  /\ Return
  /\ hostValue' = IF canUseParams THEN base ELSE hostValue
  /\ excused' = IF canUseParams
                THEN {id \in excused \cup {event.id} : ValueUnderWay(id)}
                ELSE excused \cup {event.id}
  /\ UNCHANGED <<fifoVars, base, gestureOpen, canUseParams, requested,
                 callVars, hostOpen, gestureLost>>

\* A load that fails after this point leaves the value and tells nobody.
LoadFails ==
  /\ gpc = "rescan"
  /\ Return
  /\ excused' = excused \cup {event.id}
  /\ UNCHANGED <<fifoVars, base, gestureOpen, canUseParams, requested,
                 callVars, hostVars, gestureLost>>
-----------------------------------------------------------------------------
(* The host's calls: process() drains and then applies its input events,    *)
(* flush() applies its input events and then drains.  They never overlap.   *)
(* A call may come without an output list: it is one whose drain ends at    *)
(* once, as if it could see nothing.  The call that answers a request is    *)
(* taken to bring a list, which is the host's part of the extension.        *)

Processing == call \in {"process", "answerByProcess"}

ProcessBegin ==
  /\ call = "none"
  /\ call' = "process" /\ stage' = "drain" /\ unseen' = Limit
  /\ UNCHANGED <<fifoVars, base, guiVars, canUseParams, requested, hostVars, ghosts>>

FlushBegin ==
  /\ call = "none"
  /\ call' = "flush" /\ stage' = "inputs" /\ unseen' = Limit
  /\ UNCHANGED <<fifoVars, base, guiVars, canUseParams, requested, hostVars, ghosts>>

\* The call that answers a request sees every event queued before the request.
AnswerBegin ==
  /\ call = "none" /\ requested
  /\ requested' = FALSE
  /\ \/ call' = "answer" /\ stage' = "inputs"
     \/ call' = "answerByProcess" /\ stage' = "drain"
  /\ unseen' = IF gpc = "request" THEN 1 ELSE 0
  /\ UNCHANGED <<fifoVars, base, guiVars, canUseParams, hostVars, ghosts>>

\* A value event of the host's own: applyInputEvent refuses read-only ids.
ApplyInputEvent(id, v) ==
  /\ stage = "inputs" /\ id \notin ReadOnly
  /\ base' = [base EXCEPT ![id] = v]
  /\ hostValue' = [hostValue EXCEPT ![id] = v]
  /\ excused' = ExcusedAfter(id, TRUE)
  /\ UNCHANGED <<fifoVars, guiVars, canUseParams, requested, callVars, hostOpen, gestureLost>>

\* emitParameterValue works in process() only; the host may have no room.
EmitParameterValue(id, v, told) ==
  /\ Processing /\ stage = "inputs"
  /\ base' = [base EXCEPT ![id] = v]
  /\ hostValue' = IF told THEN [hostValue EXCEPT ![id] = v] ELSE hostValue
  /\ excused' = ExcusedAfter(id, told)
  /\ UNCHANGED <<fifoVars, guiVars, canUseParams, requested, callVars, hostOpen, gestureLost>>

InputsEnd ==
  /\ stage = "inputs"
  /\ IF Processing
     THEN call' = "none" /\ stage' = "done" /\ unseen' = 0
     ELSE stage' = "drain" /\ UNCHANGED <<call, unseen>>
  /\ UNCHANGED <<fifoVars, base, guiVars, canUseParams, requested, hostVars, ghosts>>

\* Faulty variant: an event is handed on whether or not pop() found one.
DrainPopUnchecked ==
  /\ stage = "drain"
  /\ Take \/ (queue = <<>> /\ UNCHANGED fifoVars)
  /\ stage' = "deliver"
  /\ UNCHANGED <<base, guiVars, canUseParams, requested, call, unseen, hostVars, ghosts>>

\* drainGuiParameterEvents: pop an event ...
DrainPop ==
  /\ stage = "drain" /\ Take
  /\ stage' = "deliver"
  /\ UNCHANGED <<base, guiVars, canUseParams, requested, call, unseen, hostVars, ghosts>>

\* Faulty variant: the end of a gesture is reported as a beginning.
DeliverBeginsOnly ==
  /\ stage = "deliver"
  /\ stage' = "drain"
  /\ hostValue' = IF taken.kind = "value"
                  THEN [hostValue EXCEPT ![taken.id] = taken.value] ELSE hostValue
  /\ hostOpen' = IF taken.kind = "value" THEN hostOpen ELSE hostOpen \cup {taken.id}
  /\ UNCHANGED <<fifoVars, base, guiVars, canUseParams, requested, call, unseen, ghosts>>

\* ... and hand it to the host.
Deliver ==
  /\ stage = "deliver"
  /\ stage' = "drain"
  /\ hostValue' = IF taken.kind = "value"
                  THEN [hostValue EXCEPT ![taken.id] = taken.value] ELSE hostValue
  /\ hostOpen' = CASE taken.kind = "begin" -> hostOpen \cup {taken.id}
                   [] taken.kind = "end"   -> hostOpen \ {taken.id}
                   [] taken.kind = "value" -> hostOpen
  /\ UNCHANGED <<fifoVars, base, guiVars, canUseParams, requested, call, unseen, ghosts>>

\* The host's list has no room: try_push fails, and nobody looks at its result.
DeliverFails ==
  /\ stage = "deliver"
  /\ stage' = "drain"
  /\ excused' = IF taken.kind = "value" THEN excused \cup {taken.id} ELSE excused
  /\ gestureLost' = IF taken.kind = "value" THEN gestureLost ELSE gestureLost \cup {taken.id}
  /\ UNCHANGED <<fifoVars, base, guiVars, canUseParams, requested, call, unseen, hostVars>>

\* Faulty variant: a drain may stop at an event that it can see.
DrainEndEarly ==
  /\ stage = "drain"
  /\ IF Processing
     THEN stage' = "inputs" /\ UNCHANGED <<call, unseen>>
     ELSE call' = "none" /\ stage' = "done" /\ unseen' = 0
  /\ UNCHANGED <<fifoVars, base, guiVars, canUseParams, requested, hostVars, ghosts>>

\* Faulty variant: a drain that has emptied the queue waits for more.
DrainEndWaits ==
  /\ stage = "drain" /\ Len(queue) < unseen
  /\ IF Processing
     THEN stage' = "inputs" /\ UNCHANGED <<call, unseen>>
     ELSE call' = "none" /\ stage' = "done" /\ unseen' = 0
  /\ UNCHANGED <<fifoVars, base, guiVars, canUseParams, requested, hostVars, ghosts>>

\* pop() finds nothing: the queue is empty but for events it cannot see yet.
DrainEnd ==
  /\ stage = "drain" /\ Len(queue) <= unseen
  /\ IF Processing
     THEN stage' = "inputs" /\ UNCHANGED <<call, unseen>>
     ELSE call' = "none" /\ stage' = "done" /\ unseen' = 0
  /\ UNCHANGED <<fifoVars, base, guiVars, canUseParams, requested, hostVars, ghosts>>
-----------------------------------------------------------------------------
GuiStarts ==
  \/ \E id \in Ids : BeginParameterGesture(id) \/ EndParameterGesture(id)
  \/ \E id \in Ids, v \in Values : SetParameterFromGui(id, v) \/ RestoreState(id, v)
GuiGoesOn ==
  Reload \/ PushLook \/ PushAccept \/ PushRefuse \/ RequestFlush \/ Rescan \/ LoadFails

HostStarts == ProcessBegin \/ FlushBegin
HostWrites ==
  \E id \in Ids, v \in Values :
    \/ ApplyInputEvent(id, v)
    \/ \E told \in BOOLEAN : EmitParameterValue(id, v, told)
HostGoesOn == InputsEnd \/ Deliver \/ DeliverFails \/ DrainEnd

Next == GuiStarts \/ GuiGoesOn \/ HostStarts \/ AnswerBegin \/ HostWrites \/ DrainPop \/ HostGoesOn

Spec == Init /\ [][Next]_vars

(* A call that has begun goes on to its end; the host answers a request by  *)
(* a flush or by process(); an event that stays in the queue becomes        *)
(* visible to a consumer that keeps looking.                                *)
Fairness ==
  /\ WF_vars(Reload) /\ WF_vars(PushAccept \/ PushRefuse) /\ WF_vars(RequestFlush)
  /\ WF_vars(Rescan \/ LoadFails)
  /\ WF_vars(InputsEnd) /\ WF_vars(Deliver \/ DeliverFails) /\ WF_vars(DrainEnd)
  /\ SF_vars(AnswerBegin)
  /\ SF_vars(DrainPop)

FairSpec == Spec /\ Fairness
-----------------------------------------------------------------------------
(* Properties. *)

TypeOK ==
  /\ queue \in Seq(GuiEvents) /\ occupied \in Len(queue) .. Limit
  /\ base \in [Ids -> Values] /\ hostValue \in [Ids -> Values]
  /\ gpc \in {"idle", "reload", "push", "request", "rescan"}
  /\ gpc # "idle" => event \in GuiEvents
  /\ asked \in Values
  /\ gestureOpen \subseteq Ids /\ hostOpen \subseteq Ids
  /\ canUseParams \in BOOLEAN /\ requested \in BOOLEAN
  /\ call \in {"none", "process", "flush", "answer", "answerByProcess"}
  /\ stage \in {"inputs", "drain", "deliver", "done"}
  /\ call = "none" <=> stage = "done"
  /\ stage = "deliver" => taken \in GuiEvents
  /\ unseen \in 0 .. Limit
  /\ excused \subseteq Ids /\ gestureLost \subseteq Ids

\* What the host will believe once everything under way has reached it.
WillBelieve(id, v) ==
  IF ValueUnderWay(id)
  THEN \A i \in LastPlace(Pipeline, id, ValueKinds) : Pipeline[i].value = v
  ELSE hostValue[id] = v

\* What it will take the gesture to be.
WillBeOpen(id, open) ==
  IF Places(Pipeline, id, GestureKinds) # {}
  THEN \A i \in LastPlace(Pipeline, id, GestureKinds) : (Pipeline[i].kind = "begin") <=> open
  ELSE (id \in hostOpen) <=> open

(* The host and the plug-in are never left with different values, except in *)
(* the ways this design accepts: an event refused by a full queue or by the *)
(* host, a failed load, and a write that overtakes one of the GUI's still   *)
(* under way.  Otherwise the last value under way, or else what the host    *)
(* believes already, is the base value, in every interleaving.              *)
Agreement ==
  \A id \in Ids \ excused : WillReport(id) \/ WillBelieve(id, base[id])

(* Unless one of its events was lost, the host's view of a gesture, played  *)
(* forward over what is under way, is the user's: no gesture is left open,  *)
(* closed too early or reordered.                                           *)
GesturesPaired ==
  \A id \in Ids \ gestureLost : WillBeOpen(id, id \in gestureOpen)

(* An event in the queue always has someone coming for it: a call that is   *)
(* requested, about to be requested, or running and not yet done draining.  *)
Answering == call = "answer" \/ (call = "answerByProcess" /\ stage # "inputs")
NoForgottenEvent ==
  canUseParams /\ queue # <<>> => requested \/ gpc = "request" \/ Answering

(* A value that settles reaches the host: when a base value stops changing, *)
(* and its last write was not overtaken or lost, the host comes to believe  *)
(* it, if only by the call that was requested.                              *)
EventualAgreement ==
  canUseParams =>
    \A id \in Ids, v \in Values :
      <>[](base[id] = v /\ id \notin excused) => <>[](hostValue[id] = v)

(* The drain has no bound on its iterations but the queue running empty: it *)
(* ends, and with it the host's call (process() on the audio thread), once  *)
(* the GUI stays quiet, however full the queue was.                         *)
DrainEnds ==
  <>[](gpc = "idle") => [](call # "none" => <>(call = "none"))

(* PARAMETERS.md says that setting a parameter from the GUI changes the     *)
(* local value and that the queue then emits the corresponding event: the   *)
(* event queued would carry the value that was set.                         *)
QueuesTheValueSet ==
  [][gpc = "push" /\ gpc' = "request" /\ event.kind = "value" => event.value = asked]_vars
=============================================================================
