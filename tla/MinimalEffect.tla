---------------------------- MODULE MinimalEffect ----------------------------
(***************************************************************************)
(* The example plug-in's processAudio(): a gain over the spans that        *)
(* process() cuts a block into.  process() is taken as SampleAccurate,     *)
(* which ProcessTimeline is shown to implement: it renders spans, between  *)
(* which it surfaces the events that are due.                              *)
(*                                                                         *)
(* A gain is named by the event that set it, or 0 for what it was before   *)
(* the block.  A sample is the sequence of the gains the input sample has  *)
(* been multiplied by.  The pow() and the narrowing to float are left out. *)
(***************************************************************************)
EXTENDS SampleAccurate

CONSTANTS Lists,     \* the input lists the host may give
          Buffers    \* the audio buffers it may pass

Old == <<-1>>   \* what the host's output memory held before the block

\* Channels are pointers that may be null; a buffer may lack either format.
Side == [channels : Seq(BOOLEAN), data32 : BOOLEAN, data64 : BOOLEAN]
BuffersType ==
  [inputs : Nat, outputs : Nat, input : Side, output : Side, inPlace : BOOLEAN]

ASSUME BuffersAssumption ==
  /\ Lists \subseteq Seq(Entries) /\ Blocks \subseteq Nat
  /\ Buffers \subseteq BuffersType
  /\ \A b \in Buffers : b.inPlace => b.input = b.output

VARIABLES buffers,   \* process->audio_inputs, audio_outputs
          gain,      \* who set the gain parameter last
          out        \* the samples of the output channels

effectVars == <<buffers, gain, out>>

\* The sample a channel reads: its own memory when it is processed in place.
Source(c, f) == IF buffers.inPlace THEN out[c][f] ELSE <<>>

\* The channels that are there on both sides.
Common ==
  {c \in DOMAIN buffers.input.channels \cap DOMAIN buffers.output.channels :
     buffers.input.channels[c] /\ buffers.output.channels[c]}

Renderable ==
  /\ buffers.inputs # 0 /\ buffers.outputs # 0
  /\ \/ buffers.input.data32 /\ buffers.output.data32
     \/ buffers.input.data64 /\ buffers.output.data64

\* Faulty variant: every span is rendered from the start of the block.
ProcessAudioFromStart(startFrame, endFrame) ==
  IF ~Renderable \/ startFrame >= endFrame THEN out
  ELSE [c \in DOMAIN out |-> [f \in DOMAIN out[c] |->
          IF c \in Common /\ f <= endFrame THEN Append(Source(c, f), gain) ELSE out[c][f]]]

\* processAudio: the gain is read once, and the frames of the span are written.
ProcessAudio(startFrame, endFrame) ==
  IF ~Renderable \/ startFrame >= endFrame THEN out
  ELSE [c \in DOMAIN out |-> [f \in DOMAIN out[c] |->
          IF c \in Common /\ startFrame < f /\ f <= endFrame
          THEN Append(Source(c, f), gain) ELSE out[c][f]]]

EffectInit ==
  /\ SampleInit
  /\ buffers \in Buffers /\ gain = 0
  /\ out = [c \in DOMAIN buffers.output.channels |-> <<>>]

BeginBlock ==
  /\ input' \in Lists /\ NewBlock
  /\ buffers' \in Buffers
  /\ gain' = 0
  /\ out' = [c \in DOMAIN buffers'.output.channels |->
               [f \in 1 .. frames' |-> IF buffers'.inPlace THEN <<>> ELSE Old]]

\* The framework applies an event to the parameter.
ApplyEvent ==
  /\ Surface
  /\ gain' = IF IsEvent(surfaced') /\ input[surfaced'].sets THEN surfaced' ELSE gain
  /\ UNCHANGED <<buffers, out>>

RenderSpan ==
  /\ Render
  /\ out' = ProcessAudio(Len(heard), Len(heard'))
  /\ UNCHANGED <<buffers, gain>>

EffectNext == BeginBlock \/ ApplyEvent \/ RenderSpan
-----------------------------------------------------------------------------
(* Properties. *)

\* The gain once n entries of the list have been heard: the last to set it.
Setters(n) == {i \in 1 .. n : IsEvent(i) /\ input[i].sets}
Latest(set) == IF set = {} THEN 0 ELSE CHOOSE i \in set : \A j \in set : j <= i
GainAfter(n) == Latest(Setters(n))

(* However a block is cut into spans, each frame that has been rendered is  *)
(* scaled exactly once, in place too, by the gain of the events due by that *)
(* frame; frames to come and channels that cannot be rendered are as the    *)
(* host left them.                                                          *)
EffectIsExact ==
  \A c \in DOMAIN out : \A f \in DOMAIN out[c] :
    out[c][f] = IF f <= Len(heard) /\ Renderable /\ c \in Common
                THEN <<GainAfter(heard[f])>>
                ELSE IF buffers.inPlace THEN <<>> ELSE Old
=============================================================================
