------------------------ MODULE PluginInstanceProofs ------------------------
(***************************************************************************)
(* Proofs about PluginInstance: the entry's count, for any threads; the    *)
(* example plug-in's rendering, for any block, any list of events and any  *)
(* buffers; and the types of all parts together.                           *)
(***************************************************************************)
EXTENDS PluginInstance, TLAPS

(* Each part moves only in its own steps.                                   *)
LEMMA EntryMoves ==
  [InstanceNext]_instanceVars => EntryNext \/ UNCHANGED entryVars
BY DEF InstanceNext, instanceVars, CreatePlugin, Init, Activate, StartProcessing, StopProcessing,
       Deactivate, Forward, Destroy, ReadPorts, Process, EntryCall

LEMMA AudioMoves ==
  [InstanceNext]_instanceVars => EffectNext \/ UNCHANGED audioVars
BY DEF InstanceNext, instanceVars, audioVars, CreatePlugin, Init, Activate, StartProcessing,
       StopProcessing, Deactivate, Forward, Destroy, ReadPorts, Process, EntryCall
-----------------------------------------------------------------------------
(* The entry. *)

(* Whoever is in a call holds the mutex, so what it has loaded is still the *)
(* count.                                                                   *)
EntryInv ==
  /\ refCount \in 0 .. MaxCount /\ outstanding = refCount
  /\ calling \in [Threads -> {"none", "init", "deinit"}] /\ DOMAIN loaded = Threads
  /\ \A t \in Threads :
       /\ calling[t] # "none" => mutex = t /\ loaded[t] = refCount
       /\ calling[t] = "init" => refCount < MaxCount

LEMMA EntryInvInit == EntryInit => EntryInv
BY EntryAssumption DEF EntryInit, EntryInv

LEMMA EntryInvNext == EntryInv /\ EntryNext => EntryInv'
<1> SUFFICES ASSUME EntryInv, NEW t \in Threads,
                    \/ \E call \in {"init", "deinit"} : Lock(t, call)
                    \/ InitEnd(t) \/ DeinitEnd(t)
             PROVE  EntryInv'
  BY DEF EntryNext
<1> USE EntryAssumption DEF EntryInv
<1>1. ASSUME NEW call \in {"init", "deinit"}, Lock(t, call) PROVE EntryInv'
  BY <1>1 DEF Lock
<1>2. ASSUME calling[t] # "none", EntryCallEnds(t), outstanding' = refCount',
             refCount' \in 0 .. MaxCount
      PROVE  EntryInv'
  <2>1. \A u \in Threads : calling'[u] = "none"
    BY <1>2 DEF EntryCallEnds
  <2> QED
    BY <1>2, <2>1 DEF EntryCallEnds
<1>3. CASE InitEnd(t)
  BY <1>2, <1>3 DEF InitEnd
<1>4. CASE DeinitEnd(t)
  BY <1>2, <1>4 DEF DeinitEnd
<1> QED
  BY <1>1, <1>3, <1>4

(* The entry's reference count is exact (Entry.hpp:17-29), for any number   *)
(* of threads, however their calls interleave: no init is lost, the last    *)
(* deinit finds one, and a deinit too many changes nothing.                 *)
THEOREM EntryIsCounted == InstanceSpec => []EntryCountExact
<1>1. InstanceInit => EntryInv
  BY EntryInvInit DEF InstanceInit
<1>2. EntryInv /\ UNCHANGED entryVars => EntryInv'
  BY DEF EntryInv, entryVars
<1>3. EntryInv /\ [InstanceNext]_instanceVars => EntryInv'
  BY <1>2, EntryMoves, EntryInvNext
<1>4. EntryInv => EntryCountExact
  BY DEF EntryInv, EntryCountExact
<1> QED
  BY <1>1, <1>3, <1>4, PTL DEF InstanceSpec
-----------------------------------------------------------------------------
(* The rendering. *)

(* The gain is that of the events surfaced, and frames are numbers: with    *)
(* that, a span is rendered with what its frames have heard.                *)
EffectInv ==
  /\ frames \in Nat /\ surfaced \in Nat /\ heard \in Seq(Nat)
  /\ gain = GainAfter(surfaced)
  /\ \A c \in DOMAIN out : DOMAIN out[c] \subseteq Nat \ {0}
  /\ EffectIsExact

LEMMA NothingHeard == GainAfter(0) = 0
BY DEF GainAfter, Setters, Latest

(* Hearing one more entry.                                                  *)
LEMMA HearOne ==
  ASSUME NEW n \in Nat
  PROVE  GainAfter(n + 1) = IF IsEvent(n + 1) /\ input[n + 1].sets THEN n + 1 ELSE GainAfter(n)
<1>1. CASE IsEvent(n + 1) /\ input[n + 1].sets
  <2>1. n + 1 \in Setters(n + 1) /\ \A i \in Setters(n + 1) : i <= n + 1
    BY <1>1 DEF Setters
  <2>2. \A i \in Setters(n + 1) : i \in Nat
    BY DEF Setters
  <2>3. Latest(Setters(n + 1)) = n + 1
    BY <2>1, <2>2 DEF Latest
  <2> QED
    BY <1>1, <2>3 DEF GainAfter
<1>2. CASE ~(IsEvent(n + 1) /\ input[n + 1].sets)
  <2>1. Setters(n + 1) = Setters(n)
    BY <1>2 DEF Setters
  <2> QED
    BY <1>2, <2>1 DEF GainAfter
<1> QED
  BY <1>1, <1>2

LEMMA SameList ==
  ASSUME UNCHANGED <<input, buffers>>
  PROVE  /\ \A n : GainAfter(n)' = GainAfter(n)
         /\ Renderable' = Renderable /\ Common' = Common
BY DEF GainAfter, Setters, IsEvent, Renderable, Common

LEMMA ExactStays ==
  ASSUME EffectIsExact, UNCHANGED <<input, buffers, heard, out>> PROVE EffectIsExact'
<1>1. Renderable' = Renderable /\ Common' = Common
  BY SameList
<1>2. \A n : GainAfter(n)' = GainAfter(n)
  BY SameList
<1> QED
  BY <1>1, <1>2 DEF EffectIsExact

LEMMA EffectInvInit == EffectInit => EffectInv
<1> SUFFICES ASSUME EffectInit PROVE EffectInv
  OBVIOUS
<1>1. frames = 0 /\ surfaced = 0 /\ heard = <<>> /\ gain = 0
  BY DEF EffectInit, SampleInit
<1>2. \A c \in DOMAIN out : DOMAIN out[c] = {}
  BY DEF EffectInit
<1> QED
  BY <1>1, <1>2, NothingHeard DEF EffectInv, EffectIsExact

LEMMA EffectInvBegin == EffectInv /\ BeginBlock => EffectInv'
<1> SUFFICES ASSUME BeginBlock PROVE EffectInv'
  OBVIOUS
<1>1. frames' \in Nat /\ surfaced' = 0 /\ heard' = <<>> /\ gain' = 0
  BY BuffersAssumption DEF BeginBlock, NewBlock
<1>2. GainAfter(surfaced)' = 0
  BY <1>1 DEF GainAfter, Setters, Latest
<1>3. \A c \in DOMAIN out' :
        /\ DOMAIN out'[c] = 1 .. frames'
        /\ \A f \in 1 .. frames' : out'[c][f] = IF buffers'.inPlace THEN <<>> ELSE Old
  BY DEF BeginBlock
<1>4. \A f \in 1 .. frames' : ~(f <= Len(heard'))
  BY <1>1
<1> QED
  BY <1>1, <1>2, <1>3, <1>4 DEF EffectInv, EffectIsExact

LEMMA EffectInvApply == EffectInv /\ ApplyEvent => EffectInv'
<1> SUFFICES ASSUME EffectInv, ApplyEvent PROVE EffectInv'
  OBVIOUS
<1>1. /\ surfaced' = surfaced + 1 /\ surfaced \in Nat
      /\ UNCHANGED <<frames, input, heard, buffers, out>>
      /\ gain' = IF IsEvent(surfaced + 1) /\ input[surfaced + 1].sets THEN surfaced + 1 ELSE gain
  BY DEF ApplyEvent, Surface, EffectInv
<1>2. GainAfter(surfaced)' = GainAfter(surfaced + 1)
  BY <1>1 DEF GainAfter, Setters, IsEvent
<1>3. gain' = GainAfter(surfaced)'
  BY <1>1, <1>2, HearOne DEF EffectInv
<1>4. EffectIsExact'
  BY <1>1, ExactStays DEF EffectInv
<1> QED
  BY <1>1, <1>3, <1>4 DEF EffectInv

LEMMA EffectInvRender == EffectInv /\ RenderSpan => EffectInv'
<1> SUFFICES ASSUME EffectInv, RenderSpan PROVE EffectInv'
  OBVIOUS
<1>1. /\ UNCHANGED <<frames, input, surfaced, buffers, gain>>
      /\ out' = ProcessAudio(Len(heard), Len(heard'))
  BY DEF RenderSpan, Render
<1>2. PICK upTo \in Len(heard) + 1 .. frames :
        heard' = [f \in 1 .. upTo |-> IF f <= Len(heard) THEN heard[f] ELSE surfaced]
  BY DEF RenderSpan, Render
<1>3. Len(heard) \in Nat /\ upTo \in Nat /\ Len(heard) < upTo
  BY <1>2 DEF EffectInv
<1>4. heard' \in Seq(Nat) /\ Len(heard') = upTo
  <2>1. \A f \in 1 .. upTo : (IF f <= Len(heard) THEN heard[f] ELSE surfaced) \in Nat
    BY <1>3 DEF EffectInv
  <2> QED
    BY <1>2, <1>3, <2>1
<1>5. \A n : GainAfter(n)' = GainAfter(n)
  BY <1>1, SameList
<1>6. Renderable' = Renderable /\ Common' = Common
  BY <1>1, SameList
<1>7. DOMAIN out' = DOMAIN out /\ \A c \in DOMAIN out : DOMAIN out'[c] = DOMAIN out[c]
  BY <1>1 DEF ProcessAudio
<1>8. ASSUME NEW c \in DOMAIN out, NEW f \in DOMAIN out[c]
      PROVE  out'[c][f] = IF f <= upTo /\ Renderable /\ c \in Common
                          THEN <<GainAfter(heard'[f])>>
                          ELSE IF buffers.inPlace THEN <<>> ELSE Old
  <2>1. f \in Nat \ {0}
    BY <1>8 DEF EffectInv
  <2>2. out[c][f] = IF f <= Len(heard) /\ Renderable /\ c \in Common
                    THEN <<GainAfter(heard[f])>>
                    ELSE IF buffers.inPlace THEN <<>> ELSE Old
    BY <1>8 DEF EffectInv, EffectIsExact
  <2>3. CASE Renderable /\ c \in Common /\ Len(heard) < f /\ f <= upTo
    <3>1. out'[c][f] = Append(Source(c, f), gain)
      BY <1>1, <1>3, <1>4, <1>8, <2>3 DEF ProcessAudio
    <3>2. Source(c, f) = <<>>
      BY <1>3, <2>1, <2>2, <2>3 DEF Source
    <3>3. heard'[f] = surfaced
      BY <1>2, <1>3, <2>1, <2>3
    <3>4. gain = GainAfter(heard'[f])
      BY <3>3 DEF EffectInv
    <3>5. out'[c][f] = <<GainAfter(heard'[f])>>
      BY <3>1, <3>2, <3>4
    <3> QED
      BY <2>3, <3>5
  <2>4. CASE ~(Renderable /\ c \in Common /\ Len(heard) < f /\ f <= upTo)
    <3>1. out'[c][f] = out[c][f]
      BY <1>1, <1>3, <1>4, <1>8, <2>4 DEF ProcessAudio
    <3>2. f <= Len(heard) => heard'[f] = heard[f] /\ f <= upTo
      BY <1>2, <1>3, <2>1
    <3> QED
      BY <1>3, <2>1, <2>2, <2>4, <3>1, <3>2
  <2> QED
    BY <2>3, <2>4
<1>9. EffectIsExact'
  BY <1>1, <1>4, <1>5, <1>6, <1>7, <1>8 DEF EffectIsExact
<1> QED
  BY <1>1, <1>4, <1>5, <1>7, <1>9 DEF EffectInv

(* Every frame is scaled once, by the gain of the events due by then, in    *)
(* place too, and what is not rendered is left alone (MinimalEffect.cpp,    *)
(* processAudio, under the spans of Plugin::process).                       *)
THEOREM EveryFrameScaledOnce == InstanceSpec => []EffectIsExact
<1>1. InstanceInit => EffectInv
  BY EffectInvInit DEF InstanceInit
<1>2. EffectInv /\ EffectNext => EffectInv'
  BY EffectInvBegin, EffectInvApply, EffectInvRender DEF EffectNext
<1>3. ASSUME EffectInv, UNCHANGED audioVars PROVE EffectInv'
  <2>1. UNCHANGED <<frames, input, surfaced, heard, buffers, gain, out>>
    BY <1>3 DEF audioVars, sampleVars, effectVars
  <2>2. GainAfter(surfaced)' = GainAfter(surfaced)
    BY <2>1 DEF GainAfter, Setters, IsEvent
  <2> QED
    BY <1>3, <2>1, <2>2, ExactStays DEF EffectInv
<1>4. EffectInv /\ [InstanceNext]_instanceVars => EffectInv'
  BY <1>2, <1>3, AudioMoves
<1>5. EffectInv => EffectIsExact
  BY DEF EffectInv
<1> QED
  BY <1>1, <1>4, <1>5, PTL DEF InstanceSpec
-----------------------------------------------------------------------------
(* Types. *)

LEMMA PortsMove ==
  [InstanceNext]_instanceVars =>
    declared' \in Declarations \cup {Nothing} \/ UNCHANGED declared
BY DEF InstanceNext, instanceVars, portVars, CreatePlugin, Declare, Init, Activate, StartProcessing,
       StopProcessing, Deactivate, Forward, Destroy, ReadPorts, ScanPorts, Process, EntryCall

LEMMA LifeMoves ==
  [InstanceNext]_instanceVars =>
    life' \in {"none", "created", "inactive", "active", "processing"} \/ UNCHANGED life
BY DEF InstanceNext, instanceVars, CreatePlugin, Init, Activate, StartProcessing, StopProcessing,
       Deactivate, Forward, Destroy, ReadPorts, Process, EntryCall

\* No more is surfaced than the list holds, nor heard than the block.
AudioTypes ==
  /\ input \in Seq(Entries) /\ buffers \in Buffers /\ frames \in Nat
  /\ gain \in 0 .. Len(input) /\ surfaced \in 0 .. Len(input)
  /\ heard \in Seq(Nat) /\ Len(heard) <= frames

LEMMA AudioTypesNext == AudioTypes /\ EffectNext => AudioTypes'
<1> SUFFICES ASSUME AudioTypes, EffectNext PROVE AudioTypes'
  OBVIOUS
<1>1. CASE BeginBlock
  <2>1. input' \in Seq(Entries) /\ buffers' \in Buffers /\ frames' \in Nat
        /\ gain' = 0 /\ surfaced' = 0 /\ heard' = <<>>
    BY <1>1, BuffersAssumption DEF BeginBlock, NewBlock
  <2>2. <<>> \in Seq(Nat) /\ Len(<<>>) = 0 /\ Len(input') \in Nat
    BY <2>1
  <2> QED
    BY <2>1, <2>2 DEF AudioTypes
<1>2. CASE ApplyEvent
  <2>1. /\ surfaced + 1 \in DOMAIN input /\ surfaced' = surfaced + 1
        /\ gain' \in {surfaced + 1, gain}
        /\ UNCHANGED <<frames, input, heard, buffers>>
    BY <1>2 DEF ApplyEvent, Surface, Due
  <2>2. DOMAIN input = 1 .. Len(input) /\ Len(input) \in Nat
    BY DEF AudioTypes
  <2> QED
    BY <2>1, <2>2 DEF AudioTypes
<1>3. CASE RenderSpan
  <2>1. UNCHANGED <<frames, input, surfaced, buffers, gain>>
    BY <1>3 DEF RenderSpan, Render
  <2>2. PICK upTo \in Len(heard) + 1 .. frames :
          heard' = [f \in 1 .. upTo |-> IF f <= Len(heard) THEN heard[f] ELSE surfaced]
    BY <1>3 DEF RenderSpan, Render
  <2>3. Len(heard) \in Nat /\ frames \in Nat /\ upTo \in Nat /\ upTo <= frames /\ surfaced \in Nat
    BY <2>2 DEF AudioTypes
  <2>4. heard' \in Seq(Nat) /\ Len(heard') = upTo
    <3>1. \A f \in 1 .. upTo : (IF f <= Len(heard) THEN heard[f] ELSE surfaced) \in Nat
      BY <2>3 DEF AudioTypes
    <3> QED
      BY <2>2, <2>3, <3>1
  <2> QED
    BY <2>1, <2>3, <2>4 DEF AudioTypes
<1> QED
  BY <1>1, <1>2, <1>3 DEF EffectNext

TypeInv ==
  /\ life \in {"none", "created", "inactive", "active", "processing"}
  /\ mutex \in Threads \cup {Nobody}
  /\ declared \in Declarations \cup {Nothing}
  /\ AudioTypes

LEMMA TypeInvInit == InstanceInit => TypeInv
<1> SUFFICES ASSUME InstanceInit PROVE TypeInv
  OBVIOUS
<1>1. /\ input = <<>> /\ buffers \in Buffers /\ frames = 0 /\ gain = 0 /\ surfaced = 0
      /\ heard = <<>>
  BY DEF InstanceInit, EffectInit, SampleInit
<1>2. <<>> \in Seq(Entries) /\ <<>> \in Seq(Nat) /\ Len(<<>>) = 0
  OBVIOUS
<1>3. AudioTypes
  BY <1>1, <1>2 DEF AudioTypes
<1> QED
  BY <1>3 DEF InstanceInit, EntryInit, PortsInit, TypeInv

LEMMA TypeInvNext == TypeInv /\ [InstanceNext]_instanceVars => TypeInv'
<1> SUFFICES ASSUME TypeInv, [InstanceNext]_instanceVars PROVE TypeInv'
  OBVIOUS
<1>1. life' \in {"none", "created", "inactive", "active", "processing"}
  BY LifeMoves DEF TypeInv
<1>2. mutex' \in Threads \cup {Nobody}
  <2>1. CASE EntryNext
    BY <2>1 DEF EntryNext, Lock, InitEnd, DeinitEnd, EntryCallEnds
  <2> QED
    BY <2>1, EntryMoves DEF entryVars, TypeInv
<1>3. AudioTypes'
  <2>1. CASE EffectNext
    BY <2>1, AudioTypesNext DEF TypeInv
  <2>2. CASE UNCHANGED audioVars
    BY <2>2 DEF audioVars, sampleVars, effectVars, TypeInv, AudioTypes
  <2> QED
    BY <2>1, <2>2, AudioMoves
<1>4. declared' \in Declarations \cup {Nothing}
  BY PortsMove DEF TypeInv
<1> QED
  BY <1>1, <1>2, <1>3, <1>4 DEF TypeInv

(* The parts keep to their types together: the example is heard on no more  *)
(* frames than the block has and applies no more entries than the list      *)
(* holds, and the mutex is a thread's or nobody's (MinimalEffect.cpp,       *)
(* Entry.hpp, Plugin's life cycle).                                         *)
THEOREM InstanceTypes == InstanceSpec => []InstanceTypeOK
<1>1. InstanceInit => EntryInv
  BY EntryInvInit DEF InstanceInit
<1>2. EntryInv /\ UNCHANGED entryVars => EntryInv'
  BY DEF EntryInv, entryVars
<1>3. EntryInv /\ [InstanceNext]_instanceVars => EntryInv'
  BY <1>2, EntryMoves, EntryInvNext
<1>4. ASSUME TypeInv, EntryInv PROVE InstanceTypeOK
  <2>1. refCount \in Nat
    BY <1>4, EntryAssumption DEF EntryInv
  <2>2. Len(heard) \in 0 .. frames
    BY <1>4 DEF TypeInv, AudioTypes
  <2> QED
    BY <1>4, <2>1, <2>2 DEF TypeInv, AudioTypes, InstanceTypeOK
<1> QED
  BY <1>1, <1>3, <1>4, TypeInvInit, TypeInvNext, PTL DEF InstanceSpec
=============================================================================
