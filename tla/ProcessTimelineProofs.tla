----------------------- MODULE ProcessTimelineProofs ------------------------
(***************************************************************************)
(* Proofs about ProcessTimeline, for blocks of any length and input lists  *)
(* of any content: the invariant of the loop, and that the loop is         *)
(* sample-accurate.                                                        *)
(***************************************************************************)
EXTENDS ProcessTimeline, SequenceTheorems, TLAPS

USE ListsAssumption

-----------------------------------------------------------------------------
(* The invariant. *)

LEMMA EntryType ==
  ASSUME TypeOK, NEW j \in DOMAIN input, input[j] # Null
  PROVE  input[j].time \in Nat /\ input[j].sets \in BOOLEAN
BY ElementOfSeq DEF TypeOK, EventType

LEMMA NothingPassed == Passed(0) /\ \A f : PastDue(0, f)
BY DEF Passed, PastDue

(* Doing one more entry that is a hole or lies inside the block.            *)
LEMMA PassOne ==
  ASSUME NEW n \in Nat, Passed(n), n + 1 \in DOMAIN input,
         input[n + 1] # Null => input[n + 1].time < frames
  PROVE  Passed(n + 1)
BY DEF Passed

LEMMA PastOne ==
  ASSUME TypeOK, NEW n \in Nat, NEW f \in Nat, NEW g \in Nat, Passed(n), PastDue(n, f),
         f <= g, input[n + 1] # Null => input[n + 1].time <= g
  PROVE  PastDue(n + 1, g)
<1> SUFFICES ASSUME NEW j \in 1 .. n + 1, input[j] # Null PROVE input[j].time <= g
  BY DEF PastDue
<1>1. CASE j = n + 1
  BY <1>1
<1>2. CASE j # n + 1
  <2>1. j \in 1 .. n /\ j \in DOMAIN input
    BY <1>2 DEF Passed
  <2>2. input[j].time <= f /\ input[j].time \in Nat
    BY <2>1, EntryType DEF PastDue
  <2> QED
    BY <2>2
<1> QED
  BY <1>1, <1>2

(* When the loop has stopped, what is due is what has been passed.          *)
LEMMA NothingElseDue ==
  ASSUME TypeOK, surfaced = index - 1, NEW i \in Sample!Due, i > surfaced,
         index <= Len(input) => input[index] # Null /\ input[index].time >= frames
  PROVE  FALSE
<1>1. i \in 1 .. Len(input) /\ index \in 1 .. i /\ index <= Len(input)
  BY DEF Sample!Due, TypeOK
<1>2. input[index] # Null => input[index].time < frames
  BY <1>1 DEF Sample!Due, Sample!InBlock, Sample!IsEvent
<1>3. input[index].time \in Nat /\ frames \in Nat
  BY <1>1, EntryType DEF TypeOK
<1> QED
  BY <1>1, <1>2, <1>3

LEMMA InitInv == Init => TimelineInv
<1> SUFFICES ASSUME Init PROVE TimelineInv
  OBVIOUS
<1>1. TypeOK
  <2>1. input \in Seq({Null} \cup EventType) /\ Len(input) = 0 /\ heard \in Seq(Nat)
    BY EmptySeq DEF Init
  <2>2. base = Gui /\ spanBase \in Int
    BY DEF Init, Gui
  <2>3. /\ frames \in Nat /\ spanEnd \in Nat /\ frameCount \in Nat
        /\ cursor \in 0 .. frames
    BY DEF Init
  <2>4. index \in 1 .. Len(input) + 1 /\ surfaced \in 0 .. Len(input)
    BY <2>1 DEF Init
  <2>5. open \in BOOLEAN /\ pc = "idle"
    BY DEF Init
  <2> QED
    BY <2>1, <2>2, <2>3, <2>4, <2>5, Zenon DEF TypeOK
<1>2. Sample!Finished
  BY DEF Init, Sample!Finished, Sample!Due
<1> QED
  BY <1>1, <1>2, NothingPassed DEF Init, TimelineInv

(* A step that leaves the loop's own state alone.                           *)
LEMMA AsideInv ==
  ASSUME TimelineInv, base' \in {Gui, base},
         UNCHANGED <<blockVars, pc, index, cursor, spanEnd, contextVars, spanBase, ghosts>>
  PROVE  TimelineInv'
BY DEF TimelineInv, TypeOK, blockVars, contextVars, ghosts, event, Passed, PastDue,
   Sample!Finished, Sample!Due, Sample!IsEvent, Sample!InBlock

(* Frames rendered up to `upTo`, as EndSpan and EndLastSpan log them.       *)
LEMMA HeardGrows ==
  ASSUME TypeOK, NEW upTo \in Nat, Len(heard) = cursor, cursor <= upTo,
         heard' = [f \in 1 .. upTo |-> IF f <= cursor THEN heard[f] ELSE surfaced]
  PROVE  heard' \in Seq(Nat) /\ Len(heard') = upTo
<1>1. \A f \in 1 .. upTo : (IF f <= cursor THEN heard[f] ELSE surfaced) \in Nat
  BY ElementOfSeq DEF TypeOK
<1> QED
  BY <1>1
-----------------------------------------------------------------------------
LEMMA NextInv == TimelineInv /\ [Next]_vars => TimelineInv'
<1> SUFFICES ASSUME TimelineInv, [Next]_vars PROVE TimelineInv'
  OBVIOUS
<1>0. TypeOK
  BY DEF TimelineInv
<1>1. CASE Begin
  <2>1. frames' \in Nat /\ input' \in Seq({Null} \cup EventType)
    BY <1>1, SeqMonotonic DEF Begin
  <2>2. TypeOK'
    BY <1>0, <1>1, <2>1, LenProperties DEF Begin, TypeOK, Gui
  <2>3. Passed(0)' /\ PastDue(0, cursor)'
    BY DEF Passed, PastDue
  <2> QED
    BY <1>1, <2>2, <2>3 DEF Begin, TimelineInv, Passed, PastDue
<1>2. CASE SkipNull
  <2>1. surfaced = index - 1 /\ index \in 1 .. Len(input) /\ input[index] = Null
    BY <1>0, <1>2 DEF SkipNull, TimelineInv, event, TypeOK
  <2>2. Passed(index) /\ PastDue(index, cursor)
    BY <1>0, <2>1, PassOne, PastOne DEF TimelineInv, TypeOK
  <2>3. TypeOK'
    BY <1>0, <1>2, <2>1 DEF SkipNull, TypeOK, blockVars, contextVars
  <2> QED
    BY <1>2, <2>1, <2>2, <2>3
       DEF SkipNull, TimelineInv, blockVars, contextVars, Passed, PastDue
<1>3. CASE Stop
  <2>1. TypeOK'
    BY <1>0, <1>3 DEF Stop, TypeOK, blockVars, contextVars, ghosts
  <2> QED
    BY <1>3, <2>1
       DEF Stop, TimelineInv, blockVars, contextVars, ghosts, event, Passed, PastDue
<1>4. CASE BeginSpan
  <2>1. /\ index \in DOMAIN input /\ input[index] # Null
        /\ input[index].time \in Nat /\ cursor \in Nat
    BY <1>0, <1>4, EntryType DEF BeginSpan, AtEvent, event, TypeOK
  <2>2. eventTime = event.time /\ spanEnd' = event.time /\ cursor < event.time
    BY <1>4, <2>1 DEF BeginSpan, eventTime, Later, event
  <2>3. TypeOK'
    BY <1>0, <1>4, <2>1, <2>2 DEF BeginSpan, TypeOK, blockVars, contextVars, ghosts, event, Gui
  <2> QED
    BY <1>4, <2>1, <2>2, <2>3
       DEF BeginSpan, AtEvent, TimelineInv, blockVars, contextVars, ghosts, event,
           Passed, PastDue
<1>5. CASE EndSpan
  <2>1. /\ spanEnd \in Nat /\ Len(heard) = cursor /\ cursor <= spanEnd
    BY <1>0, <1>5 DEF EndSpan, TimelineInv, TypeOK
  <2>2. heard' \in Seq(Nat) /\ Len(heard') = spanEnd
    BY <1>0, <1>5, <2>1, HeardGrows DEF EndSpan
  <2>3. TypeOK'
    BY <1>0, <1>5, <2>2 DEF EndSpan, TypeOK, blockVars, contextVars
  <2> QED
    BY <1>5, <2>2, <2>3
       DEF EndSpan, TimelineInv, blockVars, contextVars, event, Passed, PastDue
<1>6. CASE Apply
  <2>1. /\ index \in DOMAIN input /\ input[index] # Null /\ surfaced = index - 1
        /\ input[index].time < frames
    BY <1>0, <1>6 DEF Apply, AtEvent, event, TimelineInv, TypeOK
  <2>2. input[index].time \in Nat /\ cursor \in 0 .. frames /\ frames \in Nat
        /\ surfaced \in Nat /\ index = surfaced + 1
    BY <1>0, <2>1, EntryType DEF TypeOK
  <2>3. /\ cursor' = Later(input[index].time, cursor)
        /\ cursor' \in 0 .. frames /\ cursor <= cursor' /\ input[index].time <= cursor'
    BY <1>6, <2>1, <2>2 DEF Apply, eventTime, Later, event
  <2>4. Len(heard) = cursor'
    BY <1>6, <2>2, <2>3 DEF Apply, AtEvent, TimelineInv, eventTime, Later, event
  <2>5. Passed(index) /\ PastDue(index, cursor')
    BY <1>0, <2>1, <2>2, <2>3, PassOne, PastOne DEF TimelineInv
  <2>6. pc # "idle"
    BY <1>6 DEF Apply, AtEvent
  <2>7. TypeOK'
    <3>1. /\ base' \in {Gui} \cup (1 .. Len(input)) /\ surfaced' \in 0 .. Len(input)
          /\ index' \in 1 .. Len(input) + 1
      BY <1>0, <1>6, <2>1, <2>2 DEF Apply, TypeOK
    <3>2. cursor' \in 0 .. frames /\ pc' = "scan"
      BY <1>6, <2>3 DEF Apply
    <3>3. UNCHANGED <<frames, input, spanEnd, open, frameCount, spanBase, heard>>
      BY <1>6 DEF Apply, blockVars, contextVars
    <3> QED
      BY <1>0, <3>1, <3>2, <3>3 DEF TypeOK
  <2> QED
    BY <1>6, <2>1, <2>2, <2>4, <2>5, <2>6, <2>7
       DEF Apply, TimelineInv, blockVars, contextVars, Passed, PastDue
<1>7. CASE BeginLastSpan
  <2>1. TypeOK'
    BY <1>0, <1>7 DEF BeginLastSpan, TypeOK, blockVars, contextVars, ghosts, Gui
  <2> QED
    BY <1>7, <2>1
       DEF BeginLastSpan, TimelineInv, blockVars, contextVars, ghosts, event, Passed, PastDue
<1>8. CASE EndLastSpan
  <2>1. spanEnd = frames /\ frames \in Nat /\ Len(heard) = cursor /\ cursor <= spanEnd
    BY <1>0, <1>8 DEF EndLastSpan, TimelineInv, TypeOK
  <2>2. heard' \in Seq(Nat) /\ Len(heard') = frames
    BY <1>0, <1>8, <2>1, HeardGrows DEF EndLastSpan
  <2>3. TypeOK'
    BY <1>0, <1>8, <2>2 DEF EndLastSpan, TypeOK, blockVars, contextVars
  <2> QED
    BY <1>8, <2>2, <2>3
       DEF EndLastSpan, TimelineInv, blockVars, contextVars, event, Passed, PastDue
<1>9. CASE NoLastSpan
  <2>1. TypeOK'
    BY <1>0, <1>9 DEF NoLastSpan, TypeOK, blockVars, contextVars, ghosts
  <2>2. Len(heard) = frames
    BY <1>0, <1>9 DEF NoLastSpan, TimelineInv, TypeOK
  <2> QED
    BY <1>9, <2>1, <2>2
       DEF NoLastSpan, TimelineInv, blockVars, contextVars, ghosts, event, Passed, PastDue
<1>10. CASE Finish
  <2>1. TypeOK'
    BY <1>0, <1>10 DEF Finish, TypeOK, blockVars, ghosts
  <2>2. Sample!Finished
    <3>1. Len(heard) = frames /\ surfaced = index - 1
      BY <1>10 DEF Finish, TimelineInv
    <3>2. \A i \in Sample!Due : i <= surfaced
      <4> SUFFICES ASSUME NEW i \in Sample!Due, ~(i <= surfaced) PROVE FALSE
        OBVIOUS
      <4>1. i > surfaced
        BY <1>0 DEF Sample!Due, TypeOK
      <4> QED
        BY <1>0, <1>10, <3>1, <4>1, NothingElseDue DEF Finish, TimelineInv, event
    <3> QED
      BY <3>1, <3>2 DEF Sample!Finished
  <2> QED
    BY <1>10, <2>1, <2>2
       DEF Finish, TimelineInv, blockVars, ghosts, Passed, PastDue,
           Sample!Finished, Sample!Due, Sample!IsEvent, Sample!InBlock
<1>11. ASSUME NEW offset \in Offsets, EmitParameterValue(offset) PROVE TimelineInv'
  BY <1>11, AsideInv DEF EmitParameterValue
<1>12. CASE GuiWrites
  BY <1>12, AsideInv DEF GuiWrites
<1>13. CASE UNCHANGED vars
  BY <1>13, AsideInv DEF vars
<1> QED
  BY <1>1, <1>2, <1>3, <1>4, <1>5, <1>6, <1>7, <1>8, <1>9, <1>10, <1>11, <1>12, <1>13
     DEF Next, ProcessStep

(* Between any two steps of process(), the spans rendered and the events    *)
(* applied fit the cursor and the index.                                    *)
THEOREM TimelineInvariant == Spec => []TimelineInv
BY InitInv, NextInv, PTL DEF Spec
-----------------------------------------------------------------------------
(* Sample accuracy. *)

LEMMA PassedIsDue ==
  ASSUME NEW n \in Nat, Passed(n), NEW i \in 1 .. n PROVE i \in Sample!Due
<1>1. i \in DOMAIN input
  BY DEF Passed
<1>2. ASSUME NEW j \in 1 .. i PROVE Sample!InBlock(j)
  <2>1. j \in 1 .. n
    OBVIOUS
  <2> QED
    BY <2>1 DEF Passed, Sample!InBlock, Sample!IsEvent
<1> QED
  BY <1>1, <1>2 DEF Sample!Due

(* What the frames of a span hear, when the next entry, if any is due at    *)
(* all, is due only at the end of the span.                                 *)
LEMMA SpanIsAccurate ==
  ASSUME TimelineInv, pc \in {"span", "lastSpan"},
         heard' = [f \in 1 .. spanEnd |-> IF f <= cursor THEN heard[f] ELSE surfaced],
         UNCHANGED <<blockVars, surfaced>>
  PROVE  Sample!Render
<1>1. TypeOK /\ Len(heard) = cursor /\ surfaced = index - 1
      /\ Passed(surfaced) /\ PastDue(surfaced, cursor)
  BY DEF TimelineInv
<1>2. /\ cursor \in Nat /\ spanEnd \in Nat /\ frames \in Nat /\ cursor < spanEnd
      /\ spanEnd <= frames /\ surfaced \in Nat /\ index = surfaced + 1
  BY <1>1, EntryType DEF TimelineInv, TypeOK, event
<1>3. ASSUME NEW f \in cursor .. spanEnd - 1 PROVE Sample!Accurate(f, surfaced)
  <2>1. f \in Nat /\ cursor <= f /\ f < spanEnd
    BY <1>2
  <2>2. ASSUME NEW j \in 1 .. surfaced, input[j] # Null PROVE input[j].time <= f
    <3>1. input[j].time \in Nat /\ input[j].time <= cursor
      BY <1>1, <2>2, EntryType DEF Passed, PastDue
    <3> QED
      BY <1>2, <2>1, <3>1
  <2>3. \A i \in 1 .. surfaced : Sample!IsEvent(i) => Sample!DueBy(i, f)
    BY <1>1, <1>2, <2>2, PassedIsDue DEF Sample!DueBy, Sample!IsEvent
  <2>4. ASSUME NEW i \in Sample!Due, i > surfaced, Sample!DueBy(i, f) PROVE FALSE
    <3>1. CASE pc = "lastSpan"
      BY <1>1, <2>4, <3>1, NothingElseDue DEF TimelineInv, event
    <3>2. CASE pc = "span"
      <4>1. index \in 1 .. i /\ input[index] # Null /\ input[index].time = spanEnd
        BY <1>1, <1>2, <2>4, <3>2 DEF TimelineInv, event, Sample!Due
      <4>2. input[index].time <= f
        BY <2>4, <4>1 DEF Sample!DueBy, Sample!IsEvent
      <4> QED
        BY <1>2, <2>1, <4>1, <4>2
    <3> QED
      BY <3>1, <3>2
  <2> QED
    BY <2>3, <2>4 DEF Sample!Accurate
<1>4. spanEnd \in Len(heard) + 1 .. frames
  BY <1>1, <1>2
<1> QED
  BY <1>1, <1>3, <1>4 DEF Sample!Render, blockVars

LEMMA InitRefines == Init => Sample!SampleInit
BY DEF Init, Sample!SampleInit

LEMMA NextRefines ==
  TimelineInv /\ [Next]_vars => [Sample!SampleNext]_(Sample!sampleVars)
<1> SUFFICES ASSUME TimelineInv, [Next]_vars
             PROVE  [Sample!SampleNext]_(Sample!sampleVars)
  OBVIOUS
<1> USE DEF Sample!sampleVars
<1>0. TypeOK
  BY DEF TimelineInv
<1>1. ASSUME Begin PROVE Sample!NewBlock
  BY <1>1 DEF Begin, Sample!NewBlock, TimelineInv
<1>2. ASSUME SkipNull PROVE Sample!Surface
  <2>1. /\ surfaced = index - 1 /\ index \in DOMAIN input /\ input[index] = Null
        /\ surfaced \in Nat /\ index = surfaced + 1 /\ Passed(surfaced)
    BY <1>0, <1>2 DEF SkipNull, TimelineInv, event, TypeOK
  <2>2. surfaced + 1 \in Sample!Due
    BY <2>1, PassOne, PassedIsDue
  <2> QED
    BY <1>2, <2>1, <2>2 DEF SkipNull, Sample!Surface, Sample!IsEvent, blockVars
<1>3. ASSUME Apply PROVE Sample!Surface
  <2>1. /\ index \in DOMAIN input /\ input[index] # Null /\ surfaced = index - 1
        /\ input[index].time < frames /\ Passed(surfaced) /\ PastDue(surfaced, cursor)
    BY <1>0, <1>3 DEF Apply, AtEvent, event, TimelineInv, TypeOK
  <2>2. /\ input[index].time \in Nat /\ cursor \in Nat
        /\ surfaced \in Nat /\ index = surfaced + 1
    BY <1>0, <2>1, EntryType DEF TypeOK
  <2>3. /\ Len(heard) \in Nat /\ cursor <= Len(heard) /\ input[index].time <= Len(heard)
    BY <1>0, <1>3, <2>2 DEF Apply, AtEvent, TimelineInv, eventTime, Later, event, TypeOK
  <2>4. PastDue(index, Len(heard))
    BY <1>0, <2>1, <2>2, <2>3, PastOne
  <2>5. surfaced + 1 \in Sample!Due
    BY <2>1, <2>2, PassOne, PassedIsDue
  <2> QED
    BY <1>3, <2>2, <2>4, <2>5 DEF Apply, Sample!Surface, Sample!IsEvent, PastDue, blockVars
<1>4. ASSUME EndSpan PROVE Sample!Render
  BY <1>4, SpanIsAccurate DEF EndSpan
<1>5. ASSUME EndLastSpan PROVE Sample!Render
  BY <1>5, SpanIsAccurate DEF EndLastSpan
<1>6. CASE UNCHANGED <<blockVars, ghosts>>
  BY <1>6 DEF blockVars, ghosts
<1> QED
  BY <1>1, <1>2, <1>3, <1>4, <1>5, <1>6
     DEF Next, ProcessStep, Stop, BeginSpan, BeginLastSpan, NoLastSpan, Finish,
         EmitParameterValue, GuiWrites, vars, Sample!SampleNext

(* The loop of process() over events and spans is sample-accurate.          *)
THEOREM ProcessIsSampleAccurate == Spec => SampleAccuracy
BY InitRefines, NextRefines, TimelineInvariant, PTL
   DEF Spec, SampleAccuracy, Sample!SampleSpec
-----------------------------------------------------------------------------
(* Telemetry is only ever pushed into the block being processed.            *)
THEOREM TelemetryStaysInBlock == Spec => []TelemetryIntoOpenBlock
<1>1. Init => TelemetryIntoOpenBlock
  BY DEF Init, TelemetryIntoOpenBlock
<1>2. TimelineInv /\ TelemetryIntoOpenBlock /\ [Next]_vars => TelemetryIntoOpenBlock'
  BY DEF TimelineInv, TelemetryIntoOpenBlock, Next, ProcessStep, Begin, SkipNull, Stop,
     BeginSpan, EndSpan, Apply, BeginLastSpan, EndLastSpan, NoLastSpan, Finish,
     EmitParameterValue, GuiWrites, vars
<1> QED
  BY <1>1, <1>2, TimelineInvariant, PTL DEF Spec
=============================================================================
