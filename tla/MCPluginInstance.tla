-------------------------- MODULE MCPluginInstance --------------------------
(***************************************************************************)
(* PluginInstance with blocks of up to two frames and lists of up to two   *)
(* entries, two threads that init and deinit the entry, what MinimalEffect *)
(* declares beside a declaration full of mistakes, and buffers in and out  *)
(* of place, with null channels, missing formats and missing ports.        *)
(***************************************************************************)
EXTENDS PluginInstance, SequencesExt

MCEntries == {Null} \cup [time : 0 .. 2, sets : {TRUE}] \cup [time : {1}, sets : {FALSE}]
MCBlocks == 0 .. 2
MCInvalidId == -1

Both == [channels |-> <<TRUE, TRUE>>, data32 |-> TRUE, data64 |-> FALSE]
Wide == [channels |-> <<TRUE, FALSE>>, data32 |-> FALSE, data64 |-> TRUE]
Mono == [channels |-> <<TRUE>>, data32 |-> TRUE, data64 |-> TRUE]
Pass(from, to, inputs, inPlace) ==
  [inputs |-> inputs, outputs |-> 1, input |-> from, output |-> to, inPlace |-> inPlace]
MCBuffers ==
  { Pass(Both, Both, 1, TRUE), Pass(Wide, Wide, 1, FALSE), Pass(Mono, Both, 1, FALSE),
    Pass(Mono, Both, 0, FALSE), Pass(Both, Wide, 1, FALSE) }

Stereo == [id |-> 0, channels |-> 2, pair |-> 0]
Midi == [id |-> 7, supported |-> {"midi"}, preferred |-> {"midi"}]
MCMinimalEffect ==
  [ audio |-> [isInput \in BOOLEAN |-> <<Stereo>>],
    note |-> [isInput \in BOOLEAN |-> IF isInput THEN <<Midi>> ELSE <<>>],
    pages |-> <<[id |-> 8, parameters |-> <<1, -1>>]>> ]
MCMistaken ==
  [ audio |-> [isInput \in BOOLEAN |-> <<>>],
    note |-> [isInput \in BOOLEAN |->
                IF isInput THEN <<[Midi EXCEPT !.preferred = {"clap"}], Midi>>
                ELSE <<[Midi EXCEPT !.id = -1], [Midi EXCEPT !.supported = {}]>>],
    pages |-> <<>> ]
MCDeclarations == {MCMinimalEffect, MCMistaken}

MCLists == BoundedSeq(MCEntries, 2)
=============================================================================
