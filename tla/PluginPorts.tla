----------------------------- MODULE PluginPorts -----------------------------
(***************************************************************************)
(* AudioPorts, NotePorts and RemoteControls: lists a plug-in fills in its  *)
(* constructor, unchecked, and that the host reads by index.  Names, types *)
(* and flags are left out; a set of note dialects is a bit mask.  A note   *)
(* port that info() refuses is counted all the same.                       *)
(***************************************************************************)
EXTENDS Integers, Sequences

CONSTANTS Declarations,  \* what the constructors of plug-ins declare
          InvalidId,     \* CLAP_INVALID_ID
          Dialects,      \* the note dialects
          Controls       \* CLAP_REMOTE_CONTROLS_COUNT

AudioPortSpec == [id : Int, channels : Nat, pair : Int]
NotePortSpec == [id : Int, supported : SUBSET Dialects, preferred : SUBSET Dialects]
RemoteControlPage == [id : Int, parameters : [1 .. Controls -> Int]]
Declaration ==
  [audio : [BOOLEAN -> Seq(AudioPortSpec)], note : [BOOLEAN -> Seq(NotePortSpec)],
   pages : Seq(RemoteControlPage)]

ASSUME DeclarationsAssumption == Declarations \subseteq Declaration

VARIABLES declared,   \* audioPorts_, notePorts_, remoteControls_
          told        \* what the host has been told: its answers, by question

portVars == <<declared, told>>

Nothing == [audio |-> [isInput \in BOOLEAN |-> <<>>],
            note |-> [isInput \in BOOLEAN |-> <<>>], pages |-> <<>>]

PortsInit == declared = Nothing /\ told = Nothing

\* Ports are counted without a look at them.
Count(list) == Len(list)

\* An answer to info() and get(): a record, or none.
Answer(list, index) == IF index >= Len(list) THEN {} ELSE {list[index + 1]}

\* NotePorts::info refuses a port that no host could use.
NoteInfo(isInput, index) ==
  {spec \in Answer(declared.note[isInput], index) :
     /\ spec.id # InvalidId
     /\ spec.supported # {} /\ spec.supported \cap spec.preferred # {}}

AudioInfo(isInput, index) == Answer(declared.audio[isInput], index)
RemoteGet(index) == Answer(declared.pages, index)

\* The calls of a host: each index below the count, and one too many.
Calls(list) == 1 .. Count(list) + 1

\* What it has after them: a record for each call that was answered.
Scan(answers) ==
  [i \in {i \in DOMAIN answers : answers[i] # {}} |-> CHOOSE spec \in answers[i] : TRUE]

\* The plug-in's constructor.
Declare ==
  /\ declared' \in Declarations
  /\ told' = Nothing

\* The host reads all there is.
ScanPorts ==
  /\ told' =
       [audio |-> [isInput \in BOOLEAN |->
          Scan([i \in Calls(declared.audio[isInput]) |-> AudioInfo(isInput, i - 1)])],
        note |-> [isInput \in BOOLEAN |->
          Scan([i \in Calls(declared.note[isInput]) |-> NoteInfo(isInput, i - 1)])],
        pages |-> Scan([i \in Calls(declared.pages) |-> RemoteGet(i - 1)])]
  /\ UNCHANGED declared
=============================================================================
