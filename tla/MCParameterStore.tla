-------------------------- MODULE MCParameterStore --------------------------
(***************************************************************************)
(* ParameterStore with three kinds of parameter: a continuous one that can *)
(* be modulated, whose last label lies beyond its maximum, or in its place *)
(* a stepped one that has no minimum and no finite default; a stepped      *)
(* read-only one whose bounds are not whole (persistent); a telemetry one  *)
(* that is not persistent; and specs that add() must refuse.               *)
(***************************************************************************)
EXTENDS ParameterStore

SpecOf(id, low, high, default, stepped, readOnly, modulatable, persistent, labels) ==
  [id |-> id, named |-> TRUE, minimum |-> low, maximum |-> high,
   defaultValue |-> default, stepped |-> stepped, readOnly |-> readOnly,
   modulatable |-> modulatable, persistent |-> persistent, labels |-> labels,
   whole |-> stepped]

MCIds == {"gain", "mode", "meter", "inverted", "unknown", InvalidId}

MCSpecs ==
  { SpecOf("gain", -3, 4, 4, FALSE, FALSE, TRUE, TRUE,
           <<Word("low"), Number(0), Word("high")>>),
    SpecOf("gain", NaN, 6, NegInf, TRUE, FALSE, TRUE, TRUE, <<>>),
    SpecOf("mode", 1, 10, 3, TRUE, TRUE, FALSE, TRUE, <<>>),
    SpecOf("meter", 0, 0, NaN, FALSE, TRUE, FALSE, FALSE, <<>>),
    SpecOf("inverted", 4, 0, 0, FALSE, FALSE, FALSE, TRUE, <<>>),
    SpecOf(InvalidId, 0, 4, 0, FALSE, FALSE, FALSE, TRUE, <<>>) }

MCTypedTexts == {Word("high"), Number(-7), Number(PosInf), Word("none")}

Event(type, global, id, amount) ==
  [type |-> type, global |-> global, id |-> id, amount |-> amount]

MCInputEvents ==
  { Event("value", TRUE, "gain", 9), Event("value", TRUE, "gain", NaN),
    Event("value", FALSE, "gain", 0), Event("value", TRUE, "mode", 10),
    Event("value", TRUE, "meter", 4), Event("value", TRUE, "unknown", 0),
    Event("mod", TRUE, "gain", PosInf), Event("mod", TRUE, "gain", NaN),
    Event("mod", FALSE, "gain", 3),
    Event("mod", TRUE, "mode", 3), Event("gesture", TRUE, "gain", 0) }

MCValues == {-9, NegInf}

MCForeignStates ==
  { <<[id |-> "meter", value |-> 0], [id |-> "unknown", value |-> 0],
      [id |-> "mode", value |-> 2]>> }
=============================================================================
