------------------------- MODULE MCProcessTimeline --------------------------
(***************************************************************************)
(* ProcessTimeline with blocks of up to three frames and lists of up to    *)
(* three entries, sorted or not, with holes, events that set no parameter, *)
(* and events at and beyond the end of the block.                          *)
(***************************************************************************)
EXTENDS ProcessTimeline, SequencesExt

MCEntries ==
  {Null} \cup [time : 0 .. 3, sets : {TRUE}] \cup [time : {1}, sets : {FALSE}]

MCLists == BoundedSeq(MCEntries, 3)
MCBlocks == 0 .. 3
MCOffsets == 0 .. 4
=============================================================================
