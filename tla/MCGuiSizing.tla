---------------------------- MODULE MCGuiSizing ----------------------------
(***************************************************************************)
(* GuiSizing with small sizes at scales that displays have.                *)
(***************************************************************************)
EXTENDS GuiSizing

MCDisplayScales == { [num |-> n, den |-> 4] : n \in {5, 6, 8} }
MCSizes == {0, 1, 2, 3, 4, 5, 7, 8, 11, 20}
=============================================================================
