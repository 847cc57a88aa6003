--------------------------- MODULE ParameterStore ---------------------------
(***************************************************************************)
(* nullclap::ParameterStore: the registered parameters, each with a base   *)
(* value (automation, user, saved state) and a modulation amount, both     *)
(* relaxed atomics shared by the main/UI thread and the audio thread.      *)
(*                                                                         *)
(* A double is an integer number of quarters, or one of three model values *)
(* for the doubles that are not finite.  Quarters are fine enough to lie   *)
(* below, on and above the half at which std::round turns.  Every atomic   *)
(* load and store is a step of its own, so an effectiveValue(), a          *)
(* persistentValues() or a restore can be interleaved with the other       *)
(* thread's writes.                                                        *)
(***************************************************************************)
EXTENDS Integers, Sequences

CONSTANTS NaN, PosInf, NegInf,  \* the doubles that are not finite
          Ids,                  \* the clap_ids
          InvalidId,            \* CLAP_INVALID_ID
          Specs,                \* the specs the plug-in may try to add()
          InputEvents,          \* the events a host may deliver
          Values,               \* what the GUI, or the plug-in itself, may write
          TypedTexts,           \* what the user may type into the host
          ForeignStates         \* state files of other builds: sequences of
                                \* [id, value]

Finite == Int
Double == Finite \cup {NaN, PosInf, NegInf}
SavedValue == [id : Ids, value : Double]

\* A text is a word, or a number as printf writes and strtod reads it.
Text == [isNumber : BOOLEAN, word : STRING, number : Double]
Word(w) == [isNumber |-> FALSE, word |-> w, number |-> 0]
Number(v) == [isNumber |-> TRUE, word |-> "number", number |-> v]

\* A bound may be infinite, or a NaN: add() accepts both.
SpecType == [id : Ids, named : BOOLEAN,
             minimum : Finite \cup {NaN, NegInf},
             maximum : Finite \cup {NaN, PosInf}, defaultValue : Double,
             stepped : BOOLEAN, readOnly : BOOLEAN, modulatable : BOOLEAN,
             persistent : BOOLEAN,
             labels : Seq(Text),  \* valueLabels
             whole : BOOLEAN]     \* displayPrecision: 0, or 2 and more

ASSUME DoubleAssumption ==
  /\ {NaN, PosInf, NegInf} \cap Int = {}
  /\ NaN \notin {PosInf, NegInf} /\ PosInf # NegInf
\* The index of a label is an llround, which is unspecified when not finite.
ASSUME SpecsAssumption ==
  /\ Specs \subseteq SpecType /\ InvalidId \in Ids
  /\ \A spec \in Specs : spec.labels # <<>> =>
        spec.minimum \in Finite /\ spec.defaultValue \in Finite
ASSUME InputsAssumption ==
  /\ Values \subseteq Double /\ TypedTexts \subseteq Text
  /\ \A e \in InputEvents : e.id \in Ids /\ e.amount \in Double
  /\ \A state \in ForeignStates : state \in Seq(SavedValue)

VARIABLES phase,       \* "constructing" until the host initialises the plug-in
          byId,        \* the map from ids to the specs of the parameters
          parameters,  \* the ids in the order of registration
          base,        \* the base value of each parameter
          modulation,  \* the modulation amount of each parameter
          main,        \* "idle", "saving" or "restoring"
          saved,       \* the values persistentValues() has read so far
          todo,        \* the values a restore has still to write
          own,         \* they come from this very store
          loading,     \* the effectiveValue() call under way: its id and base
          effective    \* the last effectiveValue() call's result

mainVars == <<main, saved, todo, own>>
audioVars == <<loading, effective>>
vars == <<phase, byId, parameters, base, modulation, mainVars, audioVars>>

None == [id |-> InvalidId, value |-> 0]
NoResult == [id |-> InvalidId, value |-> 0, amount |-> 0]
Registered == DOMAIN byId
-----------------------------------------------------------------------------
(* Arithmetic of doubles. *)

\* The operator <: a NaN compares false with everything.
Less(v, w) ==
  \/ v \in Finite /\ w \in Finite /\ v < w
  \/ v = NegInf /\ (w \in Finite \/ w = PosInf)
  \/ v \in Finite /\ w = PosInf

\* std::clamp.
Clamp(v, low, high) ==
  IF Less(v, low) THEN low ELSE IF Less(high, v) THEN high ELSE v

\* std::round, to the nearest whole number (four quarters), halves away from 0.
Round(v) ==
  IF v \notin Finite THEN v
  ELSE IF v >= 0 THEN 4 * ((v + 2) \div 4) ELSE -(4 * ((2 - v) \div 4))

\* base + modulation.
Plus(v, w) ==
  IF v \in Finite /\ w \in Finite THEN v + w
  ELSE IF NaN \in {v, w} \/ {v, w} = {PosInf, NegInf} THEN NaN
  ELSE IF w \in Finite THEN v ELSE w

\* Faulty variant: rounding may leave the range when a bound is not whole.
QuantizeWithoutFinalClamp(spec, v) ==
  LET inRange == Clamp(IF v \in Finite THEN v ELSE spec.defaultValue,
                       spec.minimum, spec.maximum)
  IN  IF spec.stepped THEN Round(inRange) ELSE inRange

\* clampAndQuantize.
Quantize(spec, v) ==
  LET inRange == Clamp(IF v \in Finite THEN v ELSE spec.defaultValue,
                       spec.minimum, spec.maximum)
  IN  Clamp(IF spec.stepped THEN Round(inRange) ELSE inRange,
            spec.minimum, spec.maximum)
-----------------------------------------------------------------------------
(* Texts. *)

\* printf to whole numbers, halves to the even neighbour.
HalfEven(v) ==
  IF v \notin Finite THEN v
  ELSE IF v % 4 # 2 THEN 4 * ((v + 2) \div 4)
  ELSE IF v % 8 = 2 THEN v - 2 ELSE v + 2

\* valueToText: the label the value is nearest to, or else the number.
ValueToText(spec, v) ==
  LET value == Quantize(spec, v)
      index == Round(value - spec.minimum) \div 4
  IN  IF spec.labels # <<>> /\ index < Len(spec.labels)
      THEN spec.labels[index + 1]
      ELSE Number(IF spec.whole THEN HalfEven(value) ELSE value)

\* The labels that read like the text, counted from 0.
Matches(spec, text) == {i - 1 : i \in {j \in DOMAIN spec.labels : spec.labels[j] = text}}

\* Whether textToValue accepts the text.
Understood(spec, text) ==
  \/ Matches(spec, text) # {}
  \/ text.isNumber /\ text.number \in Finite

\* Faulty variant: the label's index is taken for its value.
TextToValueFromZero(spec, text) ==
  IF Matches(spec, text) # {}
  THEN 4 * (CHOOSE i \in Matches(spec, text) : \A j \in Matches(spec, text) : i <= j)
  ELSE Quantize(spec, text.number)

\* textToValue: the first label that matches gives a value that nothing clamps.
TextToValue(spec, text) ==
  IF Matches(spec, text) # {}
  THEN spec.minimum
         + 4 * (CHOOSE i \in Matches(spec, text) : \A j \in Matches(spec, text) : i <= j)
  ELSE Quantize(spec, text.number)
-----------------------------------------------------------------------------
Init ==
  /\ phase = "constructing"
  /\ byId = [id \in {} |-> {}]
  /\ parameters = <<>>
  /\ base = [id \in {} |-> 0]
  /\ modulation = [id \in {} |-> 0]
  /\ main = "idle" /\ saved = <<>> /\ todo = <<>> /\ own = FALSE
  /\ loading = None
  /\ effective = NoResult

\* f with id mapped to v as well.
With(f, id, v) == [x \in DOMAIN f \cup {id} |-> IF x = id THEN v ELSE f[x]]

\* add(): a bad or duplicate spec is refused and nothing changes.
Add(spec) ==
  LET kept == [spec EXCEPT !.defaultValue = Quantize(spec, spec.defaultValue)]
  IN  /\ phase = "constructing"
      /\ spec.id # InvalidId /\ spec.named
      /\ ~Less(spec.maximum, spec.minimum)
      /\ spec.id \notin Registered
      /\ byId' = With(byId, spec.id, kept)
      /\ parameters' = Append(parameters, spec.id)
      /\ base' = With(base, spec.id, kept.defaultValue)
      /\ modulation' = With(modulation, spec.id, 0)
      /\ UNCHANGED <<phase, mainVars, audioVars>>

\* The host initialises the plug-in: no parameter is registered after this.
HostInit ==
  /\ phase = "constructing"
  /\ phase' = "hosted"
  /\ UNCHANGED <<byId, parameters, base, modulation, mainVars, audioVars>>

\* setBaseValue's effect: what the base values are after storing v in id.
Stored(id, v, allowReadOnly) ==
  IF id \in Registered /\ (allowReadOnly \/ ~byId[id].readOnly)
  THEN [base EXCEPT ![id] = Quantize(byId[id], v)]
  ELSE base

\* The GUI writes a value (setBaseValue as setParameterFromGui calls it).
SetBaseValue(id, v) ==
  /\ phase = "hosted" /\ main = "idle"
  /\ base' = Stored(id, v, FALSE)
  /\ UNCHANGED <<phase, byId, parameters, modulation, mainVars, audioVars>>

\* The plug-in writes a value of its own (telemetry): read-only or not.
SetInternalValue(id, v) ==
  /\ phase = "hosted"
  /\ base' = Stored(id, v, TRUE)
  /\ UNCHANGED <<phase, byId, parameters, modulation, mainVars, audioVars>>
-----------------------------------------------------------------------------
(* The audio thread. *)

\* setModulation's effect.
Modulated(id, amount) ==
  IF id \in Registered /\ byId[id].modulatable
  THEN [modulation EXCEPT ![id] = amount]
  ELSE modulation

\* Faulty variant: automation may write read-only parameters too.
ApplyInputEventToAll(e) ==
  /\ phase = "hosted"
  /\ base' = IF e.type = "value" /\ e.global THEN Stored(e.id, e.amount, TRUE) ELSE base
  /\ modulation' = IF e.type = "mod" /\ e.global THEN Modulated(e.id, e.amount) ELSE modulation
  /\ UNCHANGED <<phase, byId, parameters, mainVars, audioVars>>

\* applyInputEvent: only an event for no note, port, channel or key in
\* particular counts; gestures and events of other kinds change nothing here.
ApplyInputEvent(e) ==
  /\ phase = "hosted"
  /\ base' = IF e.type = "value" /\ e.global THEN Stored(e.id, e.amount, FALSE) ELSE base
  /\ modulation' = IF e.type = "mod" /\ e.global THEN Modulated(e.id, e.amount) ELSE modulation
  /\ UNCHANGED <<phase, byId, parameters, mainVars, audioVars>>

\* The user types a value into the host, which has the plug-in read it
\* (paramsTextToValue) and sends the result as automation.
TypeText(id, text) ==
  /\ phase = "hosted" /\ Understood(byId[id], text)
  /\ base' = Stored(id, TextToValue(byId[id], text), FALSE)
  /\ UNCHANGED <<phase, byId, parameters, modulation, mainVars, audioVars>>

\* effectiveValue: one load of the base, then one of the modulation.
LoadBase(id) ==
  /\ phase = "hosted" /\ loading = None /\ id \in Registered
  /\ loading' = [id |-> id, value |-> base[id]]
  /\ effective' = NoResult
  /\ UNCHANGED <<phase, byId, parameters, base, modulation, mainVars>>

\* Faulty variant: the sum is not clamped.
LoadModulationNoClamp ==
  LET id == loading.id
  IN  /\ loading # None
      /\ effective' = [id |-> id, amount |-> modulation[id],
                       value |-> Plus(loading.value, modulation[id])]
      /\ loading' = None
      /\ UNCHANGED <<phase, byId, parameters, base, modulation, mainVars>>

LoadModulation ==
  LET id == loading.id
  IN  /\ loading # None
      /\ effective' = [id |-> id, amount |-> modulation[id],
                       value |-> Clamp(Plus(loading.value, modulation[id]),
                                       byId[id].minimum, byId[id].maximum)]
      /\ loading' = None
      /\ UNCHANGED <<phase, byId, parameters, base, modulation, mainVars>>
-----------------------------------------------------------------------------
(* Saving and restoring, on the main thread. *)

\* Whether a state file holds the parameter's value.
Kept(spec) == spec.persistent \/ ~spec.readOnly

SaveBegin ==
  /\ phase = "hosted" /\ main = "idle"
  /\ main' = "saving"
  /\ saved' = <<>>
  /\ todo' = parameters
  /\ UNCHANGED <<phase, byId, parameters, base, modulation, own, audioVars>>

\* persistentValues() loads one parameter after the other.
SaveNext ==
  /\ main = "saving" /\ todo # <<>>
  /\ LET id == Head(todo)
     IN  saved' = IF Kept(byId[id])
                  THEN Append(saved, [id |-> id, value |-> base[id]])
                  ELSE saved
  /\ todo' = Tail(todo)
  /\ UNCHANGED <<phase, byId, parameters, base, modulation, main, own, audioVars>>

SaveEnd ==
  /\ main = "saving" /\ todo = <<>>
  /\ main' = "idle"
  /\ UNCHANGED <<phase, byId, parameters, base, modulation, saved, todo, own, audioVars>>

\* A state file is loaded: the one saved last, or one of another build.
RestoreBegin ==
  /\ phase = "hosted" /\ main = "idle"
  /\ main' = "restoring"
  /\ \/ todo' = saved /\ own' = TRUE
     \/ todo' \in ForeignStates /\ own' = FALSE
  /\ UNCHANGED <<phase, byId, parameters, base, modulation, saved, audioVars>>

\* Faulty variant: the restore is refused for every read-only parameter.
RestoreNextNotReadOnly ==
  /\ main = "restoring" /\ todo # <<>>
  /\ base' = Stored(Head(todo).id, Head(todo).value, FALSE)
  /\ todo' = Tail(todo)
  /\ UNCHANGED <<phase, byId, parameters, modulation, main, saved, own, audioVars>>

\* restorePersistentValue: an unknown id, or one that is not kept, is skipped.
RestoreNext ==
  /\ main = "restoring" /\ todo # <<>>
  /\ LET id == Head(todo).id
     IN  base' = IF id \in Registered /\ Kept(byId[id])
                 THEN Stored(id, Head(todo).value, TRUE)
                 ELSE base
  /\ todo' = Tail(todo)
  /\ UNCHANGED <<phase, byId, parameters, modulation, main, saved, own, audioVars>>

RestoreEnd ==
  /\ main = "restoring" /\ todo = <<>>
  /\ main' = "idle"
  /\ UNCHANGED <<phase, byId, parameters, base, modulation, saved, todo, own, audioVars>>
-----------------------------------------------------------------------------
MainThread ==
  \/ \E spec \in Specs : Add(spec)
  \/ HostInit
  \/ \E id \in Registered, v \in Values : SetBaseValue(id, v)
  \/ SaveBegin \/ SaveNext \/ SaveEnd
  \/ RestoreBegin \/ RestoreNext \/ RestoreEnd

Telemetry == \E id \in Registered, v \in Values : SetInternalValue(id, v)
AudioThread ==
  \/ \E e \in InputEvents : ApplyInputEvent(e)
  \/ \E id \in Registered, text \in TypedTexts : TypeText(id, text)
  \/ Telemetry
  \/ \E id \in Registered : LoadBase(id)
  \/ LoadModulation

Next == MainThread \/ AudioThread

Spec == Init /\ [][Next]_vars
-----------------------------------------------------------------------------
(* Properties. *)

TypeOK ==
  /\ phase \in {"constructing", "hosted"}
  /\ byId \in [Registered -> SpecType] /\ Registered \subseteq Ids \ {InvalidId}
  /\ parameters \in Seq(Registered)
  /\ base \in [Registered -> Double]
  /\ modulation \in [Registered -> Double]
  /\ main \in {"idle", "saving", "restoring"}
  /\ own \in BOOLEAN
  /\ saved \in Seq(SavedValue)
  /\ todo \in Seq(IF main = "saving" THEN Registered ELSE SavedValue)
  /\ loading \in SavedValue

(* Nothing runs concurrently while parameters are still being registered.   *)
NothingYet ==
  phase = "constructing" =>
    /\ main = "idle" /\ saved = <<>> /\ todo = <<>>
    /\ loading = None /\ effective = NoResult

(* What the comparisons of the code can know of a value: not below the      *)
(* minimum and not above the maximum.  With two numbers for bounds, that is *)
(* a value between them or a NaN; a NaN for a bound bounds nothing.         *)
InRange(spec, v) == ~Less(v, spec.minimum) /\ ~Less(spec.maximum, v)

(* A registered parameter has an ordered range with its default value in    *)
(* it, and it is the one parameter that info() lists with that id.          *)
SpecsAreSound ==
  /\ \A id \in Registered :
       /\ ~Less(byId[id].maximum, byId[id].minimum)
       /\ InRange(byId[id], byId[id].defaultValue)
       /\ byId[id].labels # <<>> => byId[id].minimum \in Finite
  /\ \A i, j \in DOMAIN parameters : parameters[i] = parameters[j] => i = j
  /\ \A id \in Registered : \E i \in DOMAIN parameters : parameters[i] = id

(* A value of parameter id that is in its range, is not finite only if it   *)
(* is the default, and that quantizing again leaves as it is.               *)
Settled(id, v) ==
  /\ id \in Registered
  /\ InRange(byId[id], v)
  /\ v \in Finite \/ v = byId[id].defaultValue
  /\ Quantize(byId[id], v) = v

(* What a state file of this store holds: settled values of parameters that *)
(* are kept.                                                                *)
Restorable(values) ==
  \A i \in DOMAIN values :
    /\ Settled(values[i].id, values[i].value)
    /\ Kept(byId[values[i].id])

(* Whatever the host, the GUI, the plug-in or an old or foreign state file  *)
(* writes, NaN and infinities included, every base value, and every base    *)
(* value a saver or an effectiveValue() call has loaded, is settled.        *)
StoreInv ==
  /\ TypeOK
  /\ NothingYet
  /\ SpecsAreSound
  /\ \A id \in Registered : Settled(id, base[id])
  /\ loading # None => Settled(loading.id, loading.value)
  /\ Restorable(saved)
  /\ main = "restoring" /\ own => Restorable(todo)

(* An effectiveValue() that loads the base before and the modulation after  *)
(* a write by the other thread still returns a value in the range, and a    *)
(* NaN only if the amount is one (setModulation does not filter it), the    *)
(* default is, or they are opposite infinities.                             *)
EffectiveInRange ==
  effective.id \in Registered =>
    LET spec == byId[effective.id]
    IN  /\ InRange(spec, effective.value)
        /\ effective.value = NaN =>
             \/ NaN \in {effective.amount, spec.defaultValue}
             \/ {effective.amount, spec.defaultValue} = {PosInf, NegInf}

(* The labels name every value of the range, and the first of them is a     *)
(* value the parameter can take: a stepped one never stays on a half.       *)
LabelsFit(spec) ==
  spec.labels # <<>> =>
    /\ spec.maximum \in Finite
    /\ Round(spec.maximum - spec.minimum) \div 4 < Len(spec.labels)
    /\ spec.stepped => spec.minimum % 4 # 2

(* The text the host shows for a parameter, typed back by the user, is      *)
(* understood and shown again: whatever the precision, the labels and the   *)
(* bounds do to the value on the way.                                       *)
TextShowsValue ==
  \A id \in Registered :
    LET spec == byId[id]
        text == ValueToText(spec, base[id])
    IN  LabelsFit(spec) /\ base[id] \in Finite =>
          /\ Understood(spec, text)
          /\ ValueToText(spec, TextToValue(spec, text)) = text

\* A step in which only an owner of a read-only parameter moves it.
OwnersWrite ==
  \A id \in Registered :
    byId[id].readOnly /\ base'[id] # base[id] =>
      \/ Telemetry
      \/ main = "restoring" /\ byId[id].persistent

(* A read-only parameter never moves because the host automates it or the   *)
(* GUI turns it: only the plug-in's own telemetry, or a restore when it is  *)
(* persistent, writes it.                                                   *)
ReadOnlyIsPluginOwned == [][OwnersWrite]_vars

(* Restoring what this store saved writes back exactly the saved values:    *)
(* none is skipped and none is clamped or rounded to something else.        *)
RestoreIsExact ==
  [][main = "restoring" /\ own /\ todo # <<>> /\ todo' = Tail(todo) =>
       base'[Head(todo).id] = Head(todo).value]_vars
=============================================================================
