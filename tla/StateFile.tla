----------------------------- MODULE StateFile -----------------------------
(***************************************************************************)
(* Plugin::stateSave() and stateLoad() over the host's streams.  A stream  *)
(* takes or gives as many bytes at a time as it likes, may end early and   *)
(* may fail at any call.  What a save leaves behind, whole or cut short,   *)
(* is what a later load may be given, and so are the files of other        *)
(* builds.                                                                 *)
(*                                                                         *)
(* Both run on the main thread, one at a time.  The races between them and *)
(* the other writers of the values are ParameterStore's matter, and so is  *)
(* quantization, of which only the upper bound is kept here, and that a    *)
(* value that is not finite becomes the default.  What the host knows of   *)
(* the values is StateReload's matter.                                     *)
(***************************************************************************)
EXTENDS StateFormat

CONSTANTS Ids,           \* the ids of the parameters, in order of registration
          Transient,     \* those that are read-only and not persistent
          Highest,       \* the maximum of every parameter
          Default,       \* the default of every parameter
          NotFinite,     \* the bit patterns of infinities and NaNs
          Values,        \* what the user may set them to
          Extras,        \* what saveExtraState() may return
          ForeignFiles   \* files this build did not write

ASSUME StoreAssumption ==
  /\ Ids \in Seq(U32) /\ Len(Ids) \in U32
  /\ Highest \in U64 /\ Values \subseteq 0 .. Highest /\ Default \in 0 .. Highest
  /\ NotFinite \subseteq U64 /\ NotFinite \cap 0 .. Highest = {}
  /\ \A extra \in Extras : extra \in Seq(Byte)
  /\ \A foreign \in ForeignFiles : foreign \in Seq(Byte)

VARIABLES base,        \* the base value of each parameter
          op,          \* "idle", "writing", what load() is reading, or "rescan"
          pieces,      \* what save() has still to write
          file,        \* what the host has been given to keep
          verdict,     \* what the last call returned
          input,       \* the rest of the stream load() reads
          field,       \* the bytes of the field it is reading
          count, extraSize, id,  \* the fields it has read
          original,    \* ghost: the values when the call began
          written,     \* ghost: the state being, or last, saved
          given,       \* ghost: the whole stream
          restored,    \* ghost: the records load() has restored, in order
          failed       \* ghost: the stream or the plug-in failed the call

saveVars == <<pieces, file, written>>
loadVars == <<input, field, count, extraSize, id, given, restored>>
vars == <<base, op, verdict, original, failed, saveVars, loadVars>>

Registered == {Ids[i] : i \in DOMAIN Ids}
NothingWritten == [values |-> <<>>, extra |-> <<>>]

Init ==
  /\ base \in [Registered -> Values]
  /\ op = "idle" /\ verdict = "none"
  /\ pieces = <<>> /\ file = <<>>
  /\ input = <<>> /\ field = <<>> /\ count = 0 /\ extraSize = 0 /\ id = 0
  /\ original = base /\ written = NothingWritten
  /\ given = <<>> /\ restored = <<>> /\ failed = FALSE

\* The locals of the last load() are gone.
Forget ==
  /\ input' = <<>> /\ field' = <<>> /\ count' = 0 /\ extraSize' = 0 /\ id' = 0
  /\ given' = <<>> /\ restored' = <<>> /\ failed' = FALSE

\* The user, automation or the plug-in's telemetry changes a value.
Edit(x, v) ==
  /\ op = "idle"
  /\ base' = [base EXCEPT ![x] = v]
  /\ original' = base'
  /\ verdict' = "none"
  /\ Forget
  /\ UNCHANGED <<op, saveVars>>

Return(result) == op' = "idle" /\ verdict' = result
-----------------------------------------------------------------------------
(* stateSave. *)

Kept == Registered \ Transient
persistentValues ==
  LET upTo[i \in 0 .. Len(Ids)] ==
        IF i = 0 THEN <<>>
        ELSE IF Ids[i] \in Kept
             THEN Append(upTo[i - 1], [id |-> Ids[i], value |-> base[Ids[i]]])
             ELSE upTo[i - 1]
  IN  upTo[Len(Ids)]

\* A payload that is too large is refused before anything is written.
SaveBegin(extra) ==
  /\ op = "idle"
  /\ file' = <<>>
  /\ written' = [values |-> persistentValues, extra |-> extra]
  /\ original' = base
  /\ IF Len(extra) > MaximumExtraStateBytes
     THEN Return("notSaved") /\ pieces' = <<>>
     ELSE op' = "writing" /\ verdict' = "none" /\ pieces' = Pieces(persistentValues, extra)
  /\ Forget
  /\ UNCHANGED base

\* Faulty variant: after a write that took only a part the piece is sent anew.
WriteAnew ==
  /\ op = "writing" /\ pieces # <<>>
  /\ \E n \in 1 .. Len(Head(pieces)) :
       /\ file' = file \o SubSeq(Head(pieces), 1, n)
       /\ pieces' = IF n = Len(Head(pieces)) THEN Tail(pieces) ELSE pieces
  /\ UNCHANGED <<base, op, verdict, original, failed, written, loadVars>>

\* writeBytes: the stream takes a part of the piece, or all of it.
Write ==
  /\ op = "writing" /\ pieces # <<>>
  /\ \E n \in 1 .. Len(Head(pieces)) :
       /\ file' = file \o SubSeq(Head(pieces), 1, n)
       /\ pieces' = IF n = Len(Head(pieces))
                    THEN Tail(pieces)
                    ELSE <<SubSeq(Head(pieces), n + 1, Len(Head(pieces)))>> \o Tail(pieces)
  /\ UNCHANGED <<base, op, verdict, original, failed, written, loadVars>>

\* The stream takes nothing or fails, and the save is given up.
WriteFails ==
  /\ op = "writing" /\ pieces # <<>>
  /\ failed' = TRUE
  /\ pieces' = <<>>
  /\ Return("notSaved")
  /\ UNCHANGED <<base, original, file, written, loadVars>>

SaveEnd ==
  /\ op = "writing" /\ pieces = <<>>
  /\ Return("saved")
  /\ UNCHANGED <<base, original, failed, saveVars, loadVars>>
-----------------------------------------------------------------------------
(* stateLoad. *)

LoadBegin(stream) ==
  /\ op = "idle"
  /\ op' = "magic" /\ verdict' = "none"
  /\ input' = stream /\ given' = stream
  /\ field' = <<>> /\ count' = 0 /\ extraSize' = 0 /\ id' = 0
  /\ restored' = <<>>
  /\ failed' = FALSE
  /\ original' = base
  /\ UNCHANGED <<base, saveVars>>

Fields == {"magic", "version", "count", "extraSize", "id", "value", "extra"}

\* How many bytes the field has.
FieldSize ==
  CASE op = "magic" -> Len(Magic)
    [] op = "value" -> Long
    [] op = "extra" -> extraSize
    [] OTHER        -> Wide

Reading == op \in Fields /\ Len(field) < FieldSize
Complete(name) == op = name /\ Len(field) = FieldSize

\* readBytes: the stream gives some of the bytes asked for.
Read ==
  /\ Reading /\ input # <<>>
  /\ \E n \in 1 .. FieldSize - Len(field) :
       /\ n <= Len(input)
       /\ field' = field \o SubSeq(input, 1, n)
       /\ input' = SubSeq(input, n + 1, Len(input))
  /\ UNCHANGED <<base, op, verdict, original, failed, saveVars,
                 count, extraSize, id, given, restored>>

\* Faulty variant: a stream that has ended is asked again.
ReadEndRetries == Reading /\ input = <<>> /\ UNCHANGED vars

\* The stream has ended: read() returns 0.
ReadEnd ==
  /\ Reading /\ input = <<>>
  /\ Return("notLoaded")
  /\ UNCHANGED <<base, original, failed, saveVars, loadVars>>

\* The stream fails.
ReadFails ==
  /\ Reading
  /\ failed' = TRUE
  /\ Return("notLoaded")
  /\ UNCHANGED <<base, original, saveVars, loadVars>>

\* The call goes on to the next field, or is given up.
NextField(name) ==
  /\ op' = name /\ field' = <<>>
  /\ UNCHANGED <<base, verdict, original, failed, saveVars, input, given>>
Refuse ==
  /\ Return("notLoaded")
  /\ UNCHANGED <<base, original, failed, saveVars, loadVars>>

GotMagic ==
  /\ Complete("magic")
  /\ IF field # Magic THEN Refuse
     ELSE NextField("version") /\ UNCHANGED <<count, extraSize, id, restored>>

GotVersion ==
  /\ Complete("version")
  /\ IF Number(field) # FormatVersion THEN Refuse
     ELSE NextField("count") /\ UNCHANGED <<count, extraSize, id, restored>>

GotCount ==
  /\ Complete("count")
  /\ count' = Number(field)
  /\ NextField("extraSize")
  /\ UNCHANGED <<extraSize, id, restored>>

\* The loop over the records, or what follows it.
AfterRecords(n) == IF n < count THEN "id" ELSE "extra"

\* Faulty variant: any size is accepted.
GotExtraSizeUnchecked ==
  /\ Complete("extraSize")
  /\ extraSize' = Number(field)
  /\ NextField(AfterRecords(0))
  /\ UNCHANGED <<count, id, restored>>

GotExtraSize ==
  /\ Complete("extraSize")
  /\ IF Number(field) > MaximumExtraStateBytes THEN Refuse
     ELSE /\ extraSize' = Number(field)
          /\ NextField(AfterRecords(0))
          /\ UNCHANGED <<count, id, restored>>

GotId ==
  /\ Complete("id")
  /\ id' = Number(field)
  /\ NextField("value")
  /\ UNCHANGED <<count, extraSize, restored>>

clampAndQuantize(v) ==
  IF v \in NotFinite THEN Default ELSE IF v > Highest THEN Highest ELSE v

\* Faulty variant: a parameter that is not persistent is restored as well.
RestoreTransientToo(x, v) ==
  IF x \in Registered THEN [base EXCEPT ![x] = clampAndQuantize(v)] ELSE base

\* restorePersistentValue: a record of an id that is unknown, or not
\* persistent, is passed over.
RestorePersistentValue(x, v) ==
  IF x \in Kept THEN [base EXCEPT ![x] = clampAndQuantize(v)] ELSE base

\* Faulty variant: a record of an unknown id ends the load of the values.
GotValueStopsAtUnknown ==
  /\ Complete("value")
  /\ base' = RestorePersistentValue(id, Number(field))
  /\ restored' = Append(restored, [id |-> id, value |-> Number(field)])
  /\ op' = IF id \in Registered THEN AfterRecords(Len(restored) + 1) ELSE "extra"
  /\ field' = <<>>
  /\ UNCHANGED <<verdict, original, failed, saveVars,
                 input, count, extraSize, id, given>>

\* Each value is restored as soon as its record is read.
GotValue ==
  /\ Complete("value")
  /\ base' = RestorePersistentValue(id, Number(field))
  /\ restored' = Append(restored, [id |-> id, value |-> Number(field)])
  /\ op' = AfterRecords(Len(restored) + 1)
  /\ field' = <<>>
  /\ UNCHANGED <<verdict, original, failed, saveVars,
                 input, count, extraSize, id, given>>

\* loadExtraState() accepts the payload, or refuses it or throws.
GotExtra ==
  /\ Complete("extra")
  /\ \/ op' = "rescan" /\ UNCHANGED <<verdict, failed>>
     \/ Return("notLoaded") /\ failed' = TRUE
  /\ UNCHANGED <<base, original, saveVars, loadVars>>

\* The host has been asked to rescan the values, if it can, and stateLoad()
\* returns.
LoadEnd ==
  /\ op = "rescan"
  /\ Return("loaded")
  /\ UNCHANGED <<base, original, failed, saveVars, loadVars>>
-----------------------------------------------------------------------------
Save == Write \/ SaveEnd
Load ==
  \/ Read \/ ReadEnd
  \/ GotMagic \/ GotVersion \/ GotCount \/ GotExtraSize \/ GotId \/ GotValue \/ GotExtra
  \/ LoadEnd

Next ==
  \/ \E x \in Registered, v \in Values : Edit(x, v)
  \/ \E extra \in Extras : SaveBegin(extra)
  \/ \E stream \in {file} \cup ForeignFiles : LoadBegin(stream)
  \/ Save \/ WriteFails
  \/ Load \/ ReadFails

Spec == Init /\ [][Next]_vars

(* A call that has begun goes on: the host's streams answer, though they    *)
(* need not ever fail.                                                      *)
FairSpec == Spec /\ WF_vars(Save \/ Load)
-----------------------------------------------------------------------------
(* Properties. *)

TypeOK ==
  /\ base \in [Registered -> 0 .. Highest] /\ original \in [Registered -> 0 .. Highest]
  /\ op \in {"idle", "writing", "rescan"} \cup Fields
  /\ verdict \in {"none", "saved", "notSaved", "loaded", "notLoaded"}
  /\ \A piece \in {pieces[i] : i \in DOMAIN pieces} : piece \in Seq(Byte) \ {<<>>}
  /\ file \in Seq(Byte) /\ input \in Seq(Byte) /\ given \in Seq(Byte)
  /\ op \in Fields => field \in Seq(Byte) /\ Len(field) <= FieldSize
  /\ count \in U32 /\ extraSize \in U32 /\ id \in U32
  /\ extraSize <= MaximumExtraStateBytes
  /\ failed \in BOOLEAN

(* A save that reports success has written a state with exactly the values  *)
(* and the payload the plug-in had, however few bytes the stream took at a  *)
(* time.                                                                    *)
SavedFilesAreStates ==
  verdict = "saved" => IsState(file, written.values, written.extra)

(* The bytes load() has consumed when it reports success are a whole state, *)
(* and the values it restored and the payload it handed on are that         *)
(* state's; it fails only when the stream does not hold a whole state, or   *)
(* when the stream itself or loadExtraState() fails.                        *)
consumed == SubSeq(given, 1, Len(given) - Len(input))
LoadIsExact ==
  /\ verdict = "loaded" => IsState(consumed, restored, field)
  /\ verdict = "notLoaded" => failed \/ ~HoldsState(given)

(* What was saved comes back: loading what a successful save has written    *)
(* restores each of its values and its payload.                             *)
FullyWritten == Len(file) = Size(Len(written.values), Len(written.extra))
RoundTrip ==
  verdict = "loaded" /\ given = file /\ FullyWritten =>
    restored = written.values /\ field = written.extra

\* The places of x's records among those restored so far, and the last of them.
Records(x) == {i \in DOMAIN restored : restored[i].id = x}
LastRecord(x) == {i \in Records(x) : \A j \in Records(x) : j <= i}

(* During a load and after it, failed or not, a parameter has the value of  *)
(* its last record that was read, and one without a record, or that is not  *)
(* persistent, keeps the value it had: an unknown id disturbs nothing.      *)
OnlyRecordsChangeValues ==
  op \in Fields \cup {"rescan"} \/ verdict \in {"loaded", "notLoaded"} =>
    \A x \in Registered :
      IF x \in Transient \/ Records(x) = {}
      THEN base[x] = original[x]
      ELSE \A i \in LastRecord(x) : base[x] = clampAndQuantize(restored[i].value)

(* Every save and every load returns, whatever the stream does.             *)
CallsReturn == op # "idle" ~> op = "idle"
=============================================================================
