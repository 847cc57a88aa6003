------------------------- MODULE MCGuiParameterSync -------------------------
(***************************************************************************)
(* GuiParameterSync with few parameters: parameters meet only in the slots *)
(* of the queue, and one that has it to itself shows the orders of its own *)
(* events.                                                                 *)
(***************************************************************************)
EXTENDS GuiParameterSync

MCEvents == GuiEvents
=============================================================================
