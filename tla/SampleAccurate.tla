--------------------------- MODULE SampleAccurate ---------------------------
(***************************************************************************)
(* What "sample-accurate parameter handling" promises of one audio block,  *)
(* stated over the block's frames and not over the loop that renders them: *)
(* every frame is rendered once and in order, and the events that have     *)
(* reached the plug-in when a frame is rendered are exactly those that are *)
(* due at or before it.                                                    *)
(*                                                                         *)
(* The input list is what the host gives: events with a time, and holes.   *)
(* An event is due at its time, or at the latest time before it in the     *)
(* list when the host failed to sort.  The list is honoured up to its      *)
(* first event that is not inside the block.                               *)
(***************************************************************************)
EXTENDS Integers, Sequences, FiniteSets

CONSTANTS Entries,   \* what an input list may hold
          Null,      \* a hole: the host's get() returned no event
          Blocks     \* the lengths a block may have, in frames

VARIABLES frames,    \* the length of the block
          input,     \* its input events
          surfaced,  \* how many entries of the list the plug-in is done with
          heard      \* for each frame rendered, `surfaced` as it was then

sampleVars == <<frames, input, surfaced, heard>>

IsEvent(i) == input[i] # Null
InBlock(i) == IsEvent(i) => input[i].time < frames

\* The entries of the list up to the first event outside the block.
Due == {i \in DOMAIN input : \A j \in 1 .. i : InBlock(j)}

\* Entry i of the list is due at or before frame f.
DueBy(i, f) ==
  i \in Due /\ \A j \in 1 .. i : IsEvent(j) => input[j].time <= f

\* What frame f should hear: no entry that is not due, all events that are.
Accurate(f, n) ==
  /\ \A i \in 1 .. n : IsEvent(i) => DueBy(i, f)
  /\ \A i \in Due : i > n /\ IsEvent(i) => ~DueBy(i, f)

SampleInit ==
  /\ frames = 0
  /\ input = <<>>
  /\ surfaced = 0
  /\ heard = <<>>

Finished ==
  /\ Len(heard) = frames
  /\ \A i \in Due : IsEvent(i) => i <= surfaced

NewBlock ==
  /\ Finished
  /\ frames' \in Blocks
  /\ input' \in Seq(Entries)
  /\ surfaced' = 0
  /\ heard' = <<>>

\* The next entry is due now, at the first frame that is not yet rendered.
Surface ==
  /\ surfaced + 1 \in Due
  /\ IsEvent(surfaced + 1) =>
       \A j \in 1 .. surfaced + 1 : IsEvent(j) => input[j].time <= Len(heard)
  /\ surfaced' = surfaced + 1
  /\ UNCHANGED <<frames, input, heard>>

\* Render some frames, each of which hears what it should.
Render ==
  \E upTo \in Len(heard) + 1 .. frames :
    /\ \A f \in Len(heard) .. upTo - 1 : Accurate(f, surfaced)
    /\ heard' = [f \in 1 .. upTo |-> IF f <= Len(heard) THEN heard[f] ELSE surfaced]
    /\ UNCHANGED <<frames, input, surfaced>>

SampleNext == NewBlock \/ Surface \/ Render

SampleSpec == SampleInit /\ [][SampleNext]_sampleVars
=============================================================================
