----------------------------- MODULE GuiHosting -----------------------------
(***************************************************************************)
(* nullclap::Plugin between the host and the GUI delegate: the delegate    *)
(* that is installed, the host's GUI session, the sizes (GuiSizing, which  *)
(* a delegate for Win32 or X11 uses) and the host's timers.                *)
(*                                                                         *)
(* The delegate is the one docs/GUI.md prescribes for X11: it registers a  *)
(* timer in create(), pumps its toolkit in onTimer() when the id is that   *)
(* of its timer, and unregisters it in destroy().  The plug-in may have a  *)
(* timer of its own, and the host may give an id out again.  All calls are *)
(* on the main thread; those that only forward and leave no trace here     *)
(* (show, hide, set_parent and the like) have no action.                   *)
(***************************************************************************)
EXTENDS GuiSizing

CONSTANTS Delegates,   \* the delegates the plug-in may install, each once
          NoDelegate,  \* gui_ is null
          PlugIn,      \* the plug-in as the owner of a timer
          TimerIds,    \* the ids the host gives to timers
          InvalidId,   \* CLAP_INVALID_ID
          Layouts      \* what delegates construct their GuiSizing with

ASSUME HostingAssumption ==
  /\ NoDelegate \notin Delegates /\ PlugIn \notin Delegates \cup {NoDelegate}
  /\ InvalidId \notin TimerIds
  /\ Layouts \subseteq [size : 0 .. Largest, low : 0 .. Largest, high : 0 .. Largest]

VARIABLES gui,       \* gui_
          unused,    \* the delegates not installed so far
          session,   \* the host has created the GUI and not destroyed it
          open,      \* ... and so has the delegate that is installed now
          timerId,   \* timerId_ of that delegate
          ownTimer,  \* the id of the plug-in's own timer
          timers,    \* the host's timers: who registered each
          ticking,   \* the timer onTimer() is called for, or InvalidId
          pumped,    \* the last tick made the delegate pump its toolkit
          tickedFor, \* ghost: who owned that timer when the host called
          asked      \* the size requestGuiResize() was granted, or 0

delegateVars == <<gui, unused, open, timerId>>
timerVars == <<ownTimer, timers>>
tickVars == <<ticking, pumped, tickedFor>>
hostingVars == <<vars, delegateVars, session, timerVars, tickVars, asked>>

\* A delegate constructs its PhysicalPixelGuiSizing.
NewSizing(layout) ==
  /\ scale' = [num |-> 1, den |-> 1]
  /\ logical' = Larger(1, layout.size)
  /\ minimum' = Larger(1, layout.low)
  /\ maximum' = Maximum(layout.low, layout.high)
  /\ set' = 0 /\ offered' = 0

HostingInit ==
  /\ scale = [num |-> 1, den |-> 1]
  /\ \E layout \in Layouts :
       /\ logical = Larger(1, layout.size)
       /\ minimum = Larger(1, layout.low)
       /\ maximum = Maximum(layout.low, layout.high)
  /\ set = 0 /\ offered = 0
  /\ gui = NoDelegate /\ unused = Delegates
  /\ session = FALSE /\ open = FALSE
  /\ timerId = InvalidId /\ ownTimer = InvalidId
  /\ timers = [id \in {} |-> PlugIn]
  /\ ticking = InvalidId /\ pumped = FALSE /\ tickedFor = NoDelegate
  /\ asked = 0
-----------------------------------------------------------------------------
(* Timers.  Registering writes the caller's id; the host refuses, or has no *)
(* timer support, or picks an id that is free.                              *)

\* Faulty variant: a caller that is refused keeps the id it held.
RegisterHostTimerKeepsId(owner, held) ==
  {[id |-> held, timers |-> timers]} \cup
  { [id |-> new, timers |-> [id \in DOMAIN timers \cup {new} |->
                               IF id = new THEN owner ELSE timers[id]]] :
    new \in TimerIds \ DOMAIN timers }

RegisterHostTimer(owner, held) ==
  {[id |-> InvalidId, timers |-> timers]} \cup
  { [id |-> new, timers |-> [id \in DOMAIN timers \cup {new} |->
                               IF id = new THEN owner ELSE timers[id]]] :
    new \in TimerIds \ DOMAIN timers }

\* The invalid id is not passed on.
UnregisterHostTimer(id) ==
  IF id = InvalidId THEN timers ELSE [x \in DOMAIN timers \ {id} |-> timers[x]]
-----------------------------------------------------------------------------
(* What the plug-in does, on its own or in its onHostTimer().               *)

\* The delegate that is replaced is destroyed as it is, its GUI and its
\* timer too when they are there.
SetGuiDelegate(delegate, layout) ==
  /\ delegate \in unused \cup {NoDelegate}
  /\ gui' = delegate /\ unused' = unused \ {delegate}
  /\ open' = FALSE /\ timerId' = InvalidId
  /\ NewSizing(layout)
  /\ asked' = 0
  /\ UNCHANGED <<session, timerVars, tickVars>>

PlugInRegisters ==
  /\ ownTimer = InvalidId
  /\ \E r \in RegisterHostTimer(PlugIn, ownTimer) :
       ownTimer' = r.id /\ timers' = r.timers
  /\ UNCHANGED <<vars, delegateVars, session, tickVars, asked>>

PlugInUnregisters ==
  /\ ownTimer # InvalidId
  /\ timers' = UnregisterHostTimer(ownTimer)
  /\ ownTimer' = InvalidId
  /\ UNCHANGED <<vars, delegateVars, session, tickVars, asked>>

\* The editor asks for a window of the size it has, and the host agrees.
RequestGuiResize ==
  /\ open
  /\ asked' = physical
  /\ UNCHANGED <<vars, delegateVars, session, timerVars, tickVars>>
-----------------------------------------------------------------------------
(* What the host calls, while no other call of its is under way.            *)

GuiCreate ==
  /\ ticking = InvalidId /\ ~session
  /\ gui # NoDelegate
  /\ \E r \in RegisterHostTimer(gui, timerId) :
       timerId' = r.id /\ timers' = r.timers
  /\ session' = TRUE /\ open' = TRUE
  /\ UNCHANGED <<vars, gui, unused, ownTimer, tickVars, asked>>

\* create() fails, before it has registered a timer or after: then it has
\* unregistered it again, and keeps the id.
GuiCreateFails ==
  /\ ticking = InvalidId /\ ~session
  /\ gui # NoDelegate
  /\ \E r \in RegisterHostTimer(gui, timerId) : timerId' = r.id
  /\ UNCHANGED <<vars, gui, unused, open, session, timerVars, tickVars, asked>>

\* The delegate keeps the id of the timer it unregisters.
GuiDestroy ==
  /\ ticking = InvalidId /\ session
  /\ timers' = IF gui # NoDelegate THEN UnregisterHostTimer(timerId) ELSE timers
  /\ session' = FALSE /\ open' = FALSE
  /\ asked' = 0
  /\ UNCHANGED <<vars, gui, unused, timerId, ownTimer, tickVars>>

\* A call about sizes is forwarded to the delegate that is there.
Forwarded(call) ==
  /\ ticking = InvalidId /\ session
  /\ gui # NoDelegate
  /\ call
  /\ UNCHANGED <<delegateVars, session, timerVars, tickVars>>

GuiSetScale(s) == Forwarded(SetScale(s)) /\ UNCHANGED asked
GuiAdjustSize(v) == Forwarded(AdjustPhysicalSize(v)) /\ UNCHANGED asked
GuiSetSize(v) == Forwarded(SetPhysicalSize(v)) /\ UNCHANGED asked

\* The host resizes the window as it was asked to, however late.
GuiSetAskedSize == asked # 0 /\ Forwarded(SetPhysicalSize(asked)) /\ asked' = 0

\* onTimer(): the plug-in's onHostTimer() comes first and may do anything ...
OnTimer(id) ==
  /\ ticking = InvalidId /\ id \in DOMAIN timers
  /\ ticking' = id /\ pumped' = FALSE /\ tickedFor' = timers[id]
  /\ UNCHANGED <<vars, delegateVars, session, timerVars, asked>>

\* Faulty variant: a plug-in with a timer of its own gets all the ticks.
OnTimerEndIfNotOwn ==
  /\ ticking # InvalidId
  /\ pumped' = (gui # NoDelegate /\ timerId = ticking /\ ownTimer = InvalidId)
  /\ ticking' = InvalidId /\ tickedFor' = NoDelegate
  /\ UNCHANGED <<vars, delegateVars, session, timerVars, asked>>

\* ... then the delegate that is installed by now gets the tick.
OnTimerEnd ==
  /\ ticking # InvalidId
  /\ pumped' = (gui # NoDelegate /\ timerId = ticking)
  /\ ticking' = InvalidId /\ tickedFor' = NoDelegate
  /\ UNCHANGED <<vars, delegateVars, session, timerVars, asked>>
-----------------------------------------------------------------------------
PlugInNext ==
  \/ \E delegate \in Delegates \cup {NoDelegate}, layout \in Layouts :
       SetGuiDelegate(delegate, layout)
  \/ PlugInRegisters \/ PlugInUnregisters
  \/ RequestGuiResize

HostNext ==
  \/ GuiCreate \/ GuiCreateFails \/ GuiDestroy
  \/ \E s \in Scales : GuiSetScale(s)
  \/ \E v \in Sizes : GuiAdjustSize(v) \/ GuiSetSize(v)
  \/ GuiSetAskedSize
  \/ \E id \in TimerIds : OnTimer(id)
  \/ OnTimerEnd

HostingNext == PlugInNext \/ HostNext

HostingSpec == HostingInit /\ [][HostingNext]_hostingVars

(* The host's timers keep ticking, each for as long as it is registered,    *)
(* and a tick that has begun is delivered.                                  *)
HostingFairSpec ==
  /\ HostingSpec
  /\ \A id \in TimerIds : SF_hostingVars(OnTimer(id))
  /\ WF_hostingVars(OnTimerEnd)
-----------------------------------------------------------------------------
(* Properties. *)

HostingTypeOK ==
  /\ gui \in Delegates \cup {NoDelegate} /\ unused \subseteq Delegates \ {gui}
  /\ session \in BOOLEAN /\ open \in BOOLEAN
  /\ {timerId, ownTimer, ticking} \subseteq TimerIds \cup {InvalidId}
  /\ DOMAIN timers \subseteq TimerIds
  /\ \A id \in DOMAIN timers : timers[id] \in (Delegates \ unused) \cup {PlugIn}
  /\ pumped \in BOOLEAN /\ tickedFor \in Delegates \cup {NoDelegate, PlugIn}
  /\ asked \in 0 .. Largest

(* The timers an owner has with the host are exactly the ones it holds the  *)
(* id of: a delegate has one while its GUI is open and none afterwards, and *)
(* nobody ever unregisters a timer of another's, although delegates keep    *)
(* stale ids, creating and registering fail and ids come back.  (A delegate *)
(* destroyed with its GUI open leaves its timer behind.)                    *)
TimersOf(owner) == {id \in DOMAIN timers : timers[id] = owner}
TimersOwned ==
  /\ HostingTypeOK
  /\ open => session /\ gui # NoDelegate
  /\ session /\ ~open => timerId = InvalidId
  /\ gui # NoDelegate =>
       TimersOf(gui) = IF open THEN {timerId} \ {InvalidId} ELSE {}
  /\ TimersOf(PlugIn) = {ownTimer} \ {InvalidId}

(* A delegate whose GUI is open pumps its toolkit at every tick of its own  *)
(* timer and at no other's, whatever timers onHostTimer() has unregistered  *)
(* or registered before the delegate gets the tick.  (One whose GUI is      *)
(* closed still compares with its stale id: when the plug-in was given the  *)
(* id again, the plug-in's ticks make it pump.)                             *)
TickIsForItsOwner == pumped' <=> tickedFor = gui
TicksReachTheirOwner ==
  [][ticking # InvalidId /\ ticking' = InvalidId /\ open => TickIsForItsOwner]_hostingVars

(* A toolkit with no thread of its own makes progress: for as long as the   *)
(* GUI is open and has a timer, its event queue is pumped again and again,  *)
(* whatever other timers there are and whatever onHostTimer() does.         *)
HasTimer == open /\ timerId # InvalidId
ToolkitIsPumped == HasTimer ~> (pumped \/ ~HasTimer)
=============================================================================
