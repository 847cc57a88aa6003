--------------------------- MODULE ProcessTimeline ---------------------------
(***************************************************************************)
(* Plugin::process(): the loop that cuts an audio block into spans between *)
(* the host's events, calls processAudio() for each span and applies each  *)
(* event at its frame.  The plug-in's callbacks (processAudio, onEvent,    *)
(* processFinished) may emit telemetry, and the GUI thread may write the   *)
(* same parameters at any time.                                            *)
(*                                                                         *)
(* A parameter's value is named by who wrote it last: an entry of the      *)
(* input list, by its number, or the GUI.  Draining the GUI's queue is     *)
(* GuiParameterSync's matter.                                              *)
(***************************************************************************)
EXTENDS Integers, Sequences, FiniteSets

CONSTANTS Entries, Null, Blocks,
          Lists,      \* the input lists the host may give
          Offsets     \* the sample offsets telemetry may be given

Gui == -1             \* the GUI, or an earlier block, wrote the value last

EventType == [time : Nat, sets : BOOLEAN]

ASSUME ListsAssumption ==
  /\ Null \in Entries /\ Null \notin EventType
  /\ Entries \subseteq {Null} \cup EventType
  /\ Lists \subseteq Seq(Entries)
  /\ Blocks \subseteq Nat /\ Offsets \subseteq Nat

VARIABLES frames,      \* process->frames_count
          input,       \* process->in_events
          pc,          \* where process() is
          index,       \* the entry of the list it looks at
          cursor,      \* the first frame not yet rendered
          spanEnd,     \* the end of the span processAudio() is rendering
          open,        \* currentOutputEvents_ is set
          frameCount,  \* currentFrameCount_
          emitted,     \* the offset of the telemetry just sent, or Null
          base,        \* who wrote the parameter last
          spanBase,    \* ... when the span began
          surfaced,    \* ghost: how many entries of the list are done with
          heard        \* ghost: for each frame rendered, `surfaced` then

blockVars == <<frames, input>>
contextVars == <<open, frameCount>>
ghosts == <<surfaced, heard>>
vars == <<blockVars, pc, index, cursor, spanEnd, contextVars, emitted, base, spanBase, ghosts>>

Init ==
  /\ frames = 0 /\ input = <<>>
  /\ pc = "idle" /\ index = 1 /\ cursor = 0 /\ spanEnd = 0
  /\ open = FALSE /\ frameCount = 0
  /\ emitted = Null
  /\ base = Gui /\ spanBase = Gui
  /\ surfaced = 0 /\ heard = <<>>

event == input[index]
AtEvent == pc = "scan" /\ index <= Len(input) /\ event # Null
Later(a, b) == IF a > b THEN a ELSE b

\* The frame the event is applied at: never before one already rendered.
eventTime == Later(event.time, cursor)
-----------------------------------------------------------------------------
(* The loop. *)

Begin ==
  /\ pc = "idle"
  /\ frames' \in Blocks /\ input' \in Lists
  /\ open' = TRUE /\ frameCount' = frames'
  /\ index' = 1 /\ cursor' = 0
  /\ pc' = "scan"
  /\ emitted' = Null
  /\ base' = Gui
  /\ surfaced' = 0 /\ heard' = <<>>
  /\ UNCHANGED <<spanEnd, spanBase>>

\* Faulty variant: the loop does not move past a hole in the list.
SkipNullForever ==
  /\ pc = "scan" /\ index <= Len(input) /\ event = Null
  /\ index' = index
  /\ emitted' = Null
  /\ UNCHANGED <<blockVars, pc, cursor, spanEnd, contextVars, base, spanBase, ghosts>>

\* get() returned no event.
SkipNull ==
  /\ pc = "scan" /\ index <= Len(input) /\ event = Null
  /\ index' = index + 1
  /\ surfaced' = index
  /\ emitted' = Null
  /\ UNCHANGED <<blockVars, pc, cursor, spanEnd, contextVars, base, spanBase, heard>>

\* The first event outside the block ends the loop.
Stop ==
  /\ pc = "scan"
  /\ (index <= Len(input) => event # Null /\ event.time >= frames)
  /\ pc' = "tail"
  /\ emitted' = Null
  /\ UNCHANGED <<blockVars, index, cursor, spanEnd, contextVars, base, spanBase, ghosts>>

\* Faulty variant: the span is cut one frame too late.
BeginSpanTooLong ==
  /\ AtEvent /\ event.time < frames
  /\ eventTime > cursor
  /\ spanEnd' = eventTime + 1
  /\ spanBase' = base
  /\ pc' = "span"
  /\ emitted' = Null
  /\ UNCHANGED <<blockVars, index, cursor, contextVars, base, ghosts>>

\* processAudio() is called for the frames before the event.
BeginSpan ==
  /\ AtEvent /\ event.time < frames
  /\ eventTime > cursor
  /\ spanEnd' = eventTime
  /\ spanBase' = base
  /\ pc' = "span"
  /\ emitted' = Null
  /\ UNCHANGED <<blockVars, index, cursor, contextVars, base, ghosts>>

\* ... and returns.
EndSpan ==
  /\ pc = "span"
  /\ heard' = [f \in 1 .. spanEnd |-> IF f <= cursor THEN heard[f] ELSE surfaced]
  /\ pc' = "apply"
  /\ emitted' = Null
  /\ UNCHANGED <<blockVars, index, cursor, spanEnd, contextVars, base, spanBase, surfaced>>

\* Faulty variant: an event that comes late in the list takes the cursor back.
ApplyBackwards ==
  /\ pc = "apply" \/ (AtEvent /\ event.time < frames /\ eventTime = cursor)
  /\ base' = IF event.sets THEN index ELSE base
  /\ surfaced' = index
  /\ cursor' = event.time
  /\ index' = index + 1
  /\ pc' = "scan"
  /\ emitted' = Null
  /\ UNCHANGED <<blockVars, spanEnd, contextVars, spanBase, heard>>

\* applyInputEvent: the store first, then onEvent(), for every event.
Apply ==
  /\ pc = "apply" \/ (AtEvent /\ event.time < frames /\ eventTime = cursor)
  /\ base' = IF event.sets THEN index ELSE base
  /\ surfaced' = index
  /\ cursor' = eventTime
  /\ index' = index + 1
  /\ pc' = "scan"
  /\ emitted' = Null
  /\ UNCHANGED <<blockVars, spanEnd, contextVars, spanBase, heard>>

\* The frames after the last event.
BeginLastSpan ==
  /\ pc = "tail" /\ cursor < frames
  /\ spanEnd' = frames
  /\ spanBase' = base
  /\ pc' = "lastSpan"
  /\ emitted' = Null
  /\ UNCHANGED <<blockVars, index, cursor, contextVars, base, ghosts>>

\* cursor stays where it was: nothing reads it again in this call.
EndLastSpan ==
  /\ pc = "lastSpan"
  /\ heard' = [f \in 1 .. spanEnd |-> IF f <= cursor THEN heard[f] ELSE surfaced]
  /\ pc' = "finish"
  /\ emitted' = Null
  /\ UNCHANGED <<blockVars, index, cursor, spanEnd, contextVars, base, spanBase, surfaced>>

NoLastSpan ==
  /\ pc = "tail" /\ cursor >= frames
  /\ pc' = "finish"
  /\ emitted' = Null
  /\ UNCHANGED <<blockVars, index, cursor, spanEnd, contextVars, base, spanBase, ghosts>>

\* Faulty variant: the block's output list stays set after the block.
FinishKeepsContext ==
  /\ pc = "finish"
  /\ pc' = "idle"
  /\ emitted' = Null
  /\ UNCHANGED <<blockVars, index, cursor, spanEnd, contextVars, base, spanBase, ghosts>>

\* After processFinished() the block's context is forgotten.
Finish ==
  /\ pc = "finish"
  /\ open' = FALSE /\ frameCount' = 0
  /\ pc' = "idle"
  /\ emitted' = Null
  /\ UNCHANGED <<blockVars, index, cursor, spanEnd, base, spanBase, ghosts>>
-----------------------------------------------------------------------------
(* Whatever happens meanwhile. *)

\* The plug-in's code runs: processAudio(), onEvent() for the event just applied,
\* processFinished(), or, between two blocks, a hook such as flush()'s onEvent().
InCallback ==
  \/ pc \in {"span", "lastSpan", "finish", "idle"}
  \/ pc = "scan" /\ index > 1 /\ input[index - 1] # Null

\* emitParameterValue, called by the plug-in from any of its callbacks for a
\* telemetry parameter, which is not the one followed here.
EmitParameterValue(offset) ==
  /\ InCallback
  /\ open /\ offset <= frameCount
  /\ emitted' = offset
  /\ UNCHANGED <<blockVars, pc, index, cursor, spanEnd, contextVars, base, spanBase, ghosts>>

\* setParameterFromGui, on the GUI thread.
GuiWrites ==
  /\ base' = Gui
  /\ emitted' = Null
  /\ UNCHANGED <<blockVars, pc, index, cursor, spanEnd, contextVars, spanBase, ghosts>>
-----------------------------------------------------------------------------
ProcessStep ==
  \/ SkipNull \/ Stop \/ BeginSpan \/ EndSpan \/ Apply
  \/ BeginLastSpan \/ EndLastSpan \/ NoLastSpan \/ Finish

Next ==
  \/ Begin
  \/ ProcessStep
  \/ \E offset \in Offsets : EmitParameterValue(offset)
  \/ GuiWrites

Spec == Init /\ [][Next]_vars

(* The audio thread runs a call it has begun to its end; its callbacks      *)
(* return.                                                                  *)
FairSpec == Spec /\ WF_vars(ProcessStep)
-----------------------------------------------------------------------------
(* Properties. *)

Sample == INSTANCE SampleAccurate

\* The entries before n are done with: they are holes or events in the block.
Passed(n) ==
  \A j \in 1 .. n : j \in DOMAIN input /\ (input[j] # Null => input[j].time < frames)

\* Every event among the first n entries is due by frame f.
PastDue(n, f) == \A j \in 1 .. n : input[j] # Null => input[j].time <= f

TypeOK ==
  /\ frames \in Nat /\ input \in Seq({Null} \cup EventType)
  /\ pc \in {"idle", "scan", "span", "apply", "tail", "lastSpan", "finish"}
  /\ index \in 1 .. Len(input) + 1 /\ cursor \in 0 .. frames /\ spanEnd \in Nat
  /\ open \in BOOLEAN /\ frameCount \in Nat
  /\ base \in {Gui} \cup (1 .. Len(input)) /\ spanBase \in Int
  /\ surfaced \in 0 .. Len(input) /\ heard \in Seq(Nat)

(* Between any two steps of process(), the frames rendered and the entries  *)
(* applied fit the cursor, the span and the index; no event that is already *)
(* past is still waiting, and none that is applied lies ahead.              *)
TimelineInv ==
  /\ TypeOK
  /\ pc # "idle" => surfaced = index - 1 /\ open /\ frameCount = frames
  /\ pc = "idle" => ~open
  /\ Passed(surfaced) /\ PastDue(surfaced, cursor)
  /\ pc \in {"scan", "span", "tail", "lastSpan"} => Len(heard) = cursor
  /\ pc \in {"span", "apply"} =>
       /\ index <= Len(input) /\ event # Null /\ event.time < frames
       /\ spanEnd = event.time /\ cursor < spanEnd
  /\ pc = "apply" => Len(heard) = spanEnd
  /\ pc \in {"tail", "lastSpan", "finish"} =>
       (index <= Len(input) => event # Null /\ event.time >= frames)
  /\ pc = "lastSpan" => spanEnd = frames /\ cursor < frames
  /\ pc = "finish" => Len(heard) = frames
  /\ pc = "idle" => Sample!Finished

(* The loop over events and spans is sample-accurate: each frame is         *)
(* rendered once, in order, after the events due by then and before all     *)
(* later ones, whatever the host's list, sorted or not.                     *)
SampleAccuracy == Sample!SampleSpec

(* Telemetry is only ever pushed into the output list of the block that is  *)
(* being processed, never into one that the host has taken back.            *)
TelemetryIntoOpenBlock == emitted # Null => pc # "idle"

(* Every call of process() returns, whatever list it was given.             *)
ProcessReturns == pc # "idle" ~> pc = "idle"

(* Plugin.hpp says that the parameter state remains constant from the start *)
(* of a span to its end.                                                    *)
ConstantDuringSpan == pc \in {"span", "lastSpan"} => base = spanBase
=============================================================================
