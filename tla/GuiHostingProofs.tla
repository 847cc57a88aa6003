-------------------------- MODULE GuiHostingProofs --------------------------
(***************************************************************************)
(* Proofs about GuiHosting: who owns which timer and gets its ticks, and   *)
(* that what holds of the sizes of one delegate (GuiSizingProofs) holds of *)
(* those of whichever delegate is installed.                               *)
(***************************************************************************)
EXTENDS GuiHosting, GuiSizingProofs

(* No step but the host's calls and a new delegate touches the sizes.       *)
LEMMA SizingSteps ==
  ASSUME SizingInv, HostingTypeOK, [HostingNext]_hostingVars
  PROVE  \/ \E s \in Scales : SetScale(s)
         \/ \E v \in Sizes : AdjustPhysicalSize(v)
         \/ \E v \in 0 .. Largest : SetPhysicalSize(v)
         \/ \E layout \in Layouts : NewSizing(layout)
         \/ UNCHANGED vars
<1>1. CASE PlugInNext
  BY <1>1 DEF PlugInNext, SetGuiDelegate, PlugInRegisters, PlugInUnregisters, RequestGuiResize
<1>2. CASE HostNext
  <2>1. CASE GuiSetAskedSize
    BY <2>1 DEF GuiSetAskedSize, Forwarded, HostingTypeOK
  <2>2. CASE \E v \in Sizes : GuiAdjustSize(v) \/ GuiSetSize(v)
    BY <2>2, SizingAssumption DEF GuiAdjustSize, GuiSetSize, Forwarded
  <2> QED
    BY <1>2, <2>1, <2>2 DEF HostNext, GuiCreate, GuiCreateFails, GuiDestroy, GuiSetScale, Forwarded,
                            OnTimer, OnTimerEnd
<1> QED
  BY <1>1, <1>2 DEF HostingNext, hostingVars

LEMMA NewSizingInv ==
  ASSUME NEW layout \in Layouts, NewSizing(layout) PROVE SizingInv'
BY SizingAssumption, HostingAssumption DEF NewSizing, SizingInv, TypeOK, Larger, Maximum

LEMMA HostingSizingInit == HostingInit => SizingInv
BY SizingAssumption, HostingAssumption
   DEF HostingInit, SizingInv, TypeOK, Larger, Maximum

LEMMA HostingSizingNext ==
  SizingInv /\ HostingTypeOK /\ [HostingNext]_hostingVars => SizingInv'
BY SizingSteps, SetScaleInv, SetSizeInv, AdjustSizeInv, NewSizingInv, SizingStutters
-----------------------------------------------------------------------------
(* Timers. *)

LEMMA RegisterReturns ==
  ASSUME NEW owner, NEW held, NEW r \in RegisterHostTimer(owner, held)
  PROVE  \/ r.id = InvalidId /\ r.timers = timers
         \/ /\ r.id \in TimerIds \ DOMAIN timers
            /\ DOMAIN r.timers = DOMAIN timers \cup {r.id}
            /\ r.timers[r.id] = owner
            /\ \A id \in DOMAIN timers : r.timers[id] = timers[id]
<1>1. CASE r = [id |-> InvalidId, timers |-> timers]
  BY <1>1
<1>2. ASSUME NEW new \in TimerIds \ DOMAIN timers,
             r = [id |-> new, timers |-> [id \in DOMAIN timers \cup {new} |->
                                            IF id = new THEN owner ELSE timers[id]]]
      PROVE  /\ r.id \in TimerIds \ DOMAIN timers
             /\ DOMAIN r.timers = DOMAIN timers \cup {r.id}
             /\ r.timers[r.id] = owner
             /\ \A id \in DOMAIN timers : r.timers[id] = timers[id]
  BY <1>2
<1> QED
  BY <1>1, <1>2 DEF RegisterHostTimer

LEMMA UnregisterReturns ==
  ASSUME NEW id, HostingTypeOK
  PROVE  /\ DOMAIN UnregisterHostTimer(id) = DOMAIN timers \ {id}
         /\ \A x \in DOMAIN timers \ {id} : UnregisterHostTimer(id)[x] = timers[x]
BY HostingAssumption DEF UnregisterHostTimer, HostingTypeOK

LEMMA TimersInit == HostingInit => TimersOwned
<1> SUFFICES ASSUME HostingInit PROVE TimersOwned
  OBVIOUS
<1>1. asked \in 0 .. Largest
  BY SizingAssumption DEF HostingInit
<1>2. DOMAIN timers = {}
  BY DEF HostingInit
<1>3. HostingTypeOK
  BY <1>1, <1>2, HostingAssumption DEF HostingInit, HostingTypeOK
<1> QED
  BY <1>2, <1>3 DEF HostingInit, TimersOwned, TimersOf

LEMMA TimersNext ==
  SizingInv /\ TimersOwned /\ [HostingNext]_hostingVars => TimersOwned'
<1> SUFFICES ASSUME SizingInv, TimersOwned, [HostingNext]_hostingVars PROVE TimersOwned'
  OBVIOUS
<1> USE HostingAssumption
<1>0. HostingTypeOK /\ 0 \in 0 .. Largest
  BY SizingAssumption DEF TimersOwned
<1>1. ASSUME NEW d \in Delegates \cup {NoDelegate}, NEW layout \in Layouts,
             SetGuiDelegate(d, layout)
      PROVE  TimersOwned'
  <2>1. gui' # NoDelegate => gui' \in unused
    BY <1>1 DEF SetGuiDelegate
  <2>2. HostingTypeOK'
    <3>1. gui' \in Delegates \cup {NoDelegate} /\ unused' \subseteq Delegates \ {gui'}
      BY <1>0, <1>1 DEF SetGuiDelegate, HostingTypeOK
    <3>2. \A id \in DOMAIN timers' : timers'[id] \in (Delegates \ unused') \cup {PlugIn}
      BY <1>0, <1>1 DEF SetGuiDelegate, HostingTypeOK, timerVars
    <3>3. /\ session' \in BOOLEAN /\ open' \in BOOLEAN /\ pumped' \in BOOLEAN
          /\ tickedFor' \in Delegates \cup {NoDelegate, PlugIn}
          /\ DOMAIN timers' \subseteq TimerIds
      BY <1>0, <1>1 DEF SetGuiDelegate, HostingTypeOK, timerVars, tickVars
    <3>4. {timerId', ownTimer', ticking'} \subseteq TimerIds \cup {InvalidId}
      BY <1>0, <1>1 DEF SetGuiDelegate, HostingTypeOK, timerVars, tickVars
    <3>5. asked' \in 0 .. Largest
      BY <1>0, <1>1 DEF SetGuiDelegate
    <3> QED
      BY <3>1, <3>2, <3>3, <3>4, <3>5 DEF HostingTypeOK
  <2>3. gui' # NoDelegate => TimersOf(gui)' = {}
    BY <1>0, <1>1, <2>1 DEF SetGuiDelegate, HostingTypeOK, TimersOf, timerVars
  <2>4. TimersOf(PlugIn)' = {ownTimer'} \ {InvalidId}
    BY <1>1 DEF SetGuiDelegate, TimersOwned, TimersOf, timerVars
  <2> QED
    BY <1>1, <2>2, <2>3, <2>4 DEF SetGuiDelegate, TimersOwned
<1>2. CASE PlugInRegisters
  <2>1. PICK r \in RegisterHostTimer(PlugIn, ownTimer) : ownTimer' = r.id /\ timers' = r.timers
    BY <1>2 DEF PlugInRegisters
  <2>2. /\ ownTimer = InvalidId
        /\ UNCHANGED <<gui, unused, open, timerId, session, ticking, pumped, tickedFor, asked>>
    BY <1>2 DEF PlugInRegisters, delegateVars, tickVars
  <2>3. CASE r.id = InvalidId /\ r.timers = timers
    BY <1>0, <2>1, <2>2, <2>3 DEF TimersOwned, HostingTypeOK, TimersOf
  <2>4. CASE /\ r.id \in TimerIds \ DOMAIN timers
             /\ DOMAIN r.timers = DOMAIN timers \cup {r.id}
             /\ r.timers[r.id] = PlugIn
             /\ \A id \in DOMAIN timers : r.timers[id] = timers[id]
    <3>1. HostingTypeOK'
      BY <1>0, <2>1, <2>2, <2>4 DEF HostingTypeOK
    <3>2. gui # NoDelegate => TimersOf(gui)' = TimersOf(gui)
      BY <1>0, <2>1, <2>2, <2>4 DEF TimersOf, HostingTypeOK
    <3>3. TimersOf(PlugIn)' = {r.id}
      BY <2>1, <2>2, <2>4 DEF TimersOf, TimersOwned
    <3> QED
      BY <2>1, <2>2, <2>4, <3>1, <3>2, <3>3 DEF TimersOwned
  <2> QED
    BY <2>3, <2>4, RegisterReturns
<1>3. CASE PlugInUnregisters
  <2>1. /\ timers' = UnregisterHostTimer(ownTimer) /\ ownTimer' = InvalidId
        /\ ownTimer # InvalidId
        /\ UNCHANGED <<gui, unused, open, timerId, session, ticking, pumped, tickedFor, asked>>
    BY <1>3 DEF PlugInUnregisters, delegateVars, tickVars
  <2>2. /\ DOMAIN timers' = DOMAIN timers \ {ownTimer}
        /\ \A x \in DOMAIN timers \ {ownTimer} : timers'[x] = timers[x]
    BY <1>0, <2>1, UnregisterReturns
  <2>3. HostingTypeOK'
    BY <1>0, <2>1, <2>2 DEF HostingTypeOK
  <2>4. TimersOf(PlugIn) = {ownTimer}
    BY <2>1 DEF TimersOwned
  <2>5. gui # NoDelegate => TimersOf(gui)' = TimersOf(gui)
    BY <1>0, <2>1, <2>2, <2>4 DEF TimersOf, HostingTypeOK
  <2>6. TimersOf(PlugIn)' = {}
    BY <2>2, <2>4 DEF TimersOf
  <2> QED
    BY <2>1, <2>3, <2>5, <2>6 DEF TimersOwned
<1>4. CASE GuiCreate
  <2>1. PICK r \in RegisterHostTimer(gui, timerId) : timerId' = r.id /\ timers' = r.timers
    BY <1>4 DEF GuiCreate
  <2>2. /\ gui # NoDelegate /\ ~session /\ session' /\ open'
        /\ session' = TRUE /\ open' = TRUE
        /\ UNCHANGED <<gui, unused, ownTimer, ticking, pumped, tickedFor, asked>>
    BY <1>4 DEF GuiCreate, tickVars
  <2>3. TimersOf(gui) = {} /\ gui \in Delegates \ unused
    BY <1>0, <2>2 DEF TimersOwned, HostingTypeOK
  <2>4. CASE r.id = InvalidId /\ r.timers = timers
    BY <1>0, <2>1, <2>2, <2>3, <2>4 DEF TimersOwned, HostingTypeOK, TimersOf
  <2>5. CASE /\ r.id \in TimerIds \ DOMAIN timers
             /\ DOMAIN r.timers = DOMAIN timers \cup {r.id}
             /\ r.timers[r.id] = gui
             /\ \A id \in DOMAIN timers : r.timers[id] = timers[id]
    <3>1. HostingTypeOK'
      BY <1>0, <2>1, <2>2, <2>3, <2>5 DEF HostingTypeOK
    <3>2. TimersOf(PlugIn)' = TimersOf(PlugIn)
      BY <2>1, <2>2, <2>3, <2>5 DEF TimersOf
    <3>3. TimersOf(gui)' = {r.id}
      BY <2>1, <2>2, <2>3, <2>5 DEF TimersOf
    <3> QED
      BY <2>1, <2>2, <2>5, <3>1, <3>2, <3>3 DEF TimersOwned
  <2> QED
    BY <2>4, <2>5, RegisterReturns
<1>5. CASE GuiDestroy
  <2>1. /\ timers' = IF gui # NoDelegate THEN UnregisterHostTimer(timerId) ELSE timers
        /\ session' = FALSE /\ open' = FALSE /\ asked' = 0
        /\ UNCHANGED <<gui, unused, timerId, ownTimer, ticking, pumped, tickedFor>>
    BY <1>5 DEF GuiDestroy, tickVars
  <2>a. asked' \in 0 .. Largest
    BY <1>0, <2>1
  <2>2. CASE gui = NoDelegate
    <3>1. HostingTypeOK'
      BY <1>0, <2>1, <2>2, <2>a DEF HostingTypeOK
    <3> QED
      BY <2>1, <2>2, <3>1 DEF TimersOwned, TimersOf
  <2>3. CASE gui # NoDelegate
    <3>1. /\ DOMAIN timers' = DOMAIN timers \ {timerId}
          /\ \A x \in DOMAIN timers \ {timerId} : timers'[x] = timers[x]
      BY <1>0, <2>1, <2>3, UnregisterReturns
    <3>2. HostingTypeOK'
      BY <1>0, <2>1, <2>a, <2>3, <3>1 DEF HostingTypeOK
    <3>3. timerId = InvalidId \/ TimersOf(gui) = {timerId}
      BY <1>5, <2>3 DEF GuiDestroy, TimersOwned
    <3>4. TimersOf(gui)' = {}
      BY <1>0, <2>1, <2>3, <3>1, <3>3, <1>5 DEF TimersOf, GuiDestroy, TimersOwned, HostingTypeOK
    <3>5. TimersOf(PlugIn)' = TimersOf(PlugIn)
      BY <1>0, <2>1, <2>3, <3>1, <3>3 DEF TimersOf, HostingTypeOK
    <3> QED
      BY <2>1, <3>2, <3>4, <3>5 DEF TimersOwned
  <2> QED
    BY <2>2, <2>3
\* The sizes are not in question: only a size asked for is remembered here.
<1>6. CASE UNCHANGED <<delegateVars, session, timerVars>> /\ asked' \in 0 .. Largest
           /\ ticking' \in TimerIds \cup {InvalidId} /\ pumped' \in BOOLEAN
           /\ tickedFor' \in Delegates \cup {NoDelegate, PlugIn}
  BY <1>0, <1>6 DEF delegateVars, timerVars, TimersOwned, HostingTypeOK, TimersOf
<1>7. physical \in 0 .. Largest
  BY ToPhysicalRange DEF SizingInv, TypeOK, physical
<1>8. CASE RequestGuiResize
  BY <1>0, <1>6, <1>7, <1>8 DEF RequestGuiResize, HostingTypeOK, tickVars
<1>9. CASE \/ \E s \in Scales : GuiSetScale(s)
           \/ \E v \in Sizes : GuiAdjustSize(v) \/ GuiSetSize(v)
           \/ GuiSetAskedSize
  BY <1>0, <1>6, <1>9 DEF GuiSetScale, GuiAdjustSize, GuiSetSize, GuiSetAskedSize, Forwarded,
                          HostingTypeOK, tickVars
<1>13. CASE GuiCreateFails
  <2>1. PICK r \in RegisterHostTimer(gui, timerId) : timerId' = r.id
    BY <1>13 DEF GuiCreateFails
  <2>2. r.id \in TimerIds \cup {InvalidId}
    BY RegisterReturns
  <2>3. ~session /\ UNCHANGED <<gui, unused, open, session, timers, ownTimer, tickVars, asked>>
    BY <1>13 DEF GuiCreateFails, timerVars
  <2>4. HostingTypeOK'
    BY <1>0, <2>1, <2>2, <2>3 DEF HostingTypeOK, tickVars
  <2> QED
    BY <2>3, <2>4 DEF TimersOwned, TimersOf
<1>10. ASSUME NEW id \in TimerIds, OnTimer(id) PROVE TimersOwned'
  BY <1>0, <1>6, <1>10 DEF OnTimer, HostingTypeOK
<1>11. CASE OnTimerEnd
  BY <1>0, <1>6, <1>11 DEF OnTimerEnd, HostingTypeOK
<1>12. CASE UNCHANGED hostingVars
  BY <1>0, <1>6, <1>12 DEF hostingVars, HostingTypeOK, tickVars
<1> QED
  BY <1>1, <1>2, <1>3, <1>4, <1>5, <1>8, <1>9, <1>10, <1>11, <1>12, <1>13
     DEF HostingNext, PlugInNext, HostNext
-----------------------------------------------------------------------------
(* Both together are inductive: a size that is asked for is one of the      *)
(* delegate's, and only a GUI that is open asks.                            *)
LEMMA HostingInvariant == HostingSpec => [](SizingInv /\ TimersOwned)
<1>1. HostingInit => SizingInv /\ TimersOwned
  BY HostingSizingInit, TimersInit
<1>2. SizingInv /\ TimersOwned /\ [HostingNext]_hostingVars => (SizingInv /\ TimersOwned)'
  BY HostingSizingNext, TimersNext DEF TimersOwned
<1> QED
  BY <1>1, <1>2, PTL DEF HostingSpec

(* Timers belong to whoever holds their id, for any number of delegates and *)
(* timers: none leaks from one GUI session to the next, and a stale id      *)
(* never unregisters another owner's timer.                                 *)
THEOREM TimersStayOwned == HostingSpec => []TimersOwned
BY HostingInvariant, PTL

\* The tick under way is the open delegate's if and only if the id is.
TickInv ==
  ticking # InvalidId /\ open => (timerId = ticking <=> tickedFor = gui)

LEMMA TickNext ==
  TimersOwned /\ TickInv /\ [HostingNext]_hostingVars => TickInv'
<1> SUFFICES ASSUME TimersOwned, TickInv, [HostingNext]_hostingVars PROVE TickInv'
  OBVIOUS
<1> USE DEF TickInv, delegateVars, timerVars, tickVars
<1>1. ASSUME NEW d, NEW layout, SetGuiDelegate(d, layout) PROVE TickInv'
  BY <1>1 DEF SetGuiDelegate
<1>2. CASE PlugInRegisters \/ PlugInUnregisters \/ RequestGuiResize
  BY <1>2 DEF PlugInRegisters, PlugInUnregisters, RequestGuiResize
<1>3. CASE GuiCreate \/ GuiCreateFails \/ GuiDestroy
  BY <1>3 DEF GuiCreate, GuiCreateFails, GuiDestroy
<1>4. CASE \/ \E s \in Scales : GuiSetScale(s)
           \/ \E v \in Sizes : GuiAdjustSize(v) \/ GuiSetSize(v)
           \/ GuiSetAskedSize
  BY <1>4 DEF GuiSetScale, GuiAdjustSize, GuiSetSize, GuiSetAskedSize, Forwarded
<1>5. ASSUME NEW x \in TimerIds, OnTimer(x) PROVE TickInv'
  <2>1. /\ x \in DOMAIN timers /\ ticking' = x /\ tickedFor' = timers[x]
        /\ UNCHANGED <<gui, open, timerId>>
    BY <1>5 DEF OnTimer
  <2>2. x # InvalidId
    BY HostingAssumption
  <2>3. open => TimersOf(gui) = {timerId} \ {InvalidId}
    BY DEF TimersOwned
  <2>4. open => (timers[x] = gui <=> x = timerId)
    BY <2>1, <2>2, <2>3 DEF TimersOf
  <2> QED
    BY <2>1, <2>4
<1>6. CASE OnTimerEnd
  BY <1>6 DEF OnTimerEnd
<1>7. CASE UNCHANGED hostingVars
  BY <1>7 DEF hostingVars
<1> QED
  BY <1>1, <1>2, <1>3, <1>4, <1>5, <1>6, <1>7 DEF HostingNext, PlugInNext, HostNext

(* The delegate whose GUI is open gets the ticks of its own timer and no    *)
(* other's (Plugin::onTimer), however many timers there are and whatever    *)
(* the plug-in does with its own before it passes a tick on.                *)
THEOREM TicksAreNotMixedUp == HostingSpec => TicksReachTheirOwner
<1>1. HostingInit => TickInv
  BY DEF HostingInit, TickInv
<1>2. TimersOwned /\ TickInv /\ [HostingNext]_hostingVars =>
        [ticking # InvalidId /\ ticking' = InvalidId /\ open => TickIsForItsOwner]_hostingVars
  <2> SUFFICES ASSUME TimersOwned, TickInv, HostingNext, ticking # InvalidId,
                      ticking' = InvalidId, open
               PROVE  TickIsForItsOwner
    OBVIOUS
  <2>1. CASE OnTimerEnd
    BY <2>1 DEF OnTimerEnd, TickInv, TickIsForItsOwner, TimersOwned
  <2>2. CASE ~OnTimerEnd
    BY <2>2 DEF HostingNext, PlugInNext, HostNext, SetGuiDelegate, PlugInRegisters,
                PlugInUnregisters, RequestGuiResize, GuiCreate, GuiCreateFails, GuiDestroy,
                GuiSetScale, GuiAdjustSize, GuiSetSize, GuiSetAskedSize, Forwarded, OnTimer,
                tickVars
  <2> QED
    BY <2>1, <2>2
<1> QED
  BY <1>1, <1>2, TickNext, HostingInvariant, PTL DEF HostingSpec, TicksReachTheirOwner

(* Through every session, resize request, timer tick and exchange of the    *)
(* delegate, the sizes keep their four invariants.                          *)
THEOREM HostedSizes ==
  HostingSpec =>
    [](SizingInv /\ ClampIsDefined /\ OfferedSizesFit /\ SetSizeIsNearlyKept)
<1>1. SizingInv => ClampIsDefined /\ OfferedSizesFit /\ SetSizeIsNearlyKept
  BY InvClampIsDefined, InvOfferedSizesFit, InvSetSizeIsNearlyKept
<1> QED
  BY <1>1, HostingInvariant, PTL

(* A host that sets the size it was told, or was asked for, sees it stay.   *)
THEOREM HostedSizesDoNotDrift == HostingSpec => NoDrift
<1>1. SizingInv /\ TimersOwned /\ [HostingNext]_hostingVars =>
        [SetsWhatItWasTold => Stays]_vars
  <2> SUFFICES ASSUME SizingInv, TimersOwned, [HostingNext]_hostingVars, SetsWhatItWasTold
               PROVE  Stays
    OBVIOUS
  <2>1. physical \in 1 .. Largest /\ set' = physical
    BY ToPhysicalRange DEF SizingInv, TypeOK, physical, SetsWhatItWasTold
  <2>2. logical' = logical \/ logical' = ToLogical(physical)
    BY <2>1, SizingSteps DEF TimersOwned, SetScale, SetPhysicalSize, AdjustPhysicalSize,
                             NewSizing, vars, Larger
  <2> QED
    BY <2>2, StepStays
<1> QED
  BY <1>1, HostingInvariant, PTL DEF HostingSpec, NoDrift
=============================================================================
