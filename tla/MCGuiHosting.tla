---------------------------- MODULE MCGuiHosting ----------------------------
(***************************************************************************)
(* GuiHosting with two delegates, one laid out with its bounds the wrong   *)
(* way round, two timer ids, so that one comes back or none is left, and   *)
(* scales below, at and above 100%, one of which must be refused.          *)
(***************************************************************************)
EXTENDS GuiHosting

MCScales == { [num |-> n, den |-> 4] : n \in {-4, 3, 5, 6} }
MCSizes == {0, 2, 3, 6}
MCLayouts ==
  { [size |-> 3, low |-> 2, high |-> 5], [size |-> 0, low |-> 3, high |-> 1] }
=============================================================================
