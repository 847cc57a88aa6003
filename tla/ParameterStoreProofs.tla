------------------------ MODULE ParameterStoreProofs ------------------------
(***************************************************************************)
(* Proofs about ParameterStore, for every set of specs, input events,      *)
(* written values and foreign state files: quantizing settles a value, the *)
(* store's invariant is inductive, and the properties follow from it.      *)
(***************************************************************************)
EXTENDS ParameterStore, SequenceTheorems, WellFoundedInduction, TLAPS

USE DoubleAssumption

-----------------------------------------------------------------------------
(* Rounding and clamping. *)

LEMMA RoundInt ==
  ASSUME NEW x \in Int
  PROVE  /\ Round(x) \in Int
         /\ Round(x) = IF x >= 0 THEN 4 * ((x + 2) \div 4) ELSE -(4 * ((2 - x) \div 4))
BY DEF Round, Finite

LEMMA RoundMonotone ==
  ASSUME NEW x \in Int, NEW y \in Int, x <= y
  PROVE  Round(x) <= Round(y)
BY RoundInt

LEMMA RoundWhole == ASSUME NEW x \in Int PROVE Round(Round(x)) = Round(x)
<1>1. \E k \in Int : Round(x) = 4 * k
  <2>1. (x + 2) \div 4 \in Int /\ -((2 - x) \div 4) \in Int
    OBVIOUS
  <2>2. Round(x) = 4 * ((x + 2) \div 4) \/ Round(x) = 4 * (-((2 - x) \div 4))
    BY RoundInt
  <2> QED
    BY <2>1, <2>2
<1>2. ASSUME NEW j \in Int PROVE Round(4 * j) = 4 * j
  <2>1. (4 * j + 2) \div 4 = j /\ (2 - 4 * j) \div 4 = -j
    OBVIOUS
  <2>2. 4 * j \in Int
    OBVIOUS
  <2> QED
    BY <2>1, <2>2 DEF Round
<1>3. PICK k \in Int : Round(x) = 4 * k
  BY <1>1
<1> QED
  BY <1>2, <1>3

(* Rounding moves a number by at most a half, and by a quarter if it is not *)
(* on a half.                                                               *)
LEMMA RoundNear ==
  ASSUME NEW x \in Int
  PROVE  /\ x - 2 <= Round(x) /\ Round(x) <= x + 2
         /\ x % 4 # 2 => x - 1 <= Round(x) /\ Round(x) <= x + 1
<1>1. CASE x >= 0
  <2>1. PICK k \in Int : k = (x + 2) \div 4
    OBVIOUS
  <2>2. Round(x) = 4 * k /\ 4 * k <= x + 2 /\ x + 2 <= 4 * k + 3
    BY <1>1, <2>1, RoundInt
  <2>3. x + 2 = 4 * k => x % 4 = 2
    <3>1. ASSUME x + 2 = 4 * k PROVE x = 4 * (k - 1) + 2
      BY <3>1
    <3> QED
      BY <3>1
  <2> QED
    BY <2>2, <2>3
<1>2. CASE x < 0
  <2>1. PICK k \in Int : k = (2 - x) \div 4
    OBVIOUS
  <2>2. Round(x) = -(4 * k) /\ 4 * k <= 2 - x /\ 2 - x <= 4 * k + 3
    BY <1>2, <2>1, RoundInt
  <2>3. 2 - x = 4 * k => x % 4 = 2
    <3>1. ASSUME 2 - x = 4 * k PROVE x = 4 * (-k) + 2
      BY <3>1
    <3> QED
      BY <3>1
  <2> QED
    BY <2>2, <2>3
<1> QED
  BY <1>1, <1>2

LEMMA LessInt == ASSUME NEW x \in Int, NEW y \in Int PROVE Less(x, y) <=> x < y
BY DEF Less, Finite

(* Clamping stays in the range, turns no number into an infinity or a NaN,  *)
(* and leaves what is in the range alone.                                   *)
LEMMA ClampBounds ==
  ASSUME NEW low \in Int \cup {NaN, NegInf}, NEW high \in Int \cup {NaN, PosInf},
         ~Less(high, low), NEW v \in Double, NEW c, c = Clamp(v, low, high)
  PROVE  /\ c \in Double /\ ~Less(c, low) /\ ~Less(high, c)
         /\ v \in Int => c \in Int
         /\ c \in Int \/ c = v
         /\ ~Less(v, low) /\ ~Less(high, v) => c = v
BY DEF Clamp, Less, Double, Finite

(* Rounding inside a range and clamping the result again is stable, also    *)
(* when a bound is not whole.                                               *)
LEMMA RoundThenClampIsStable ==
  ASSUME NEW low \in Int \cup {NaN, NegInf}, NEW high \in Int \cup {NaN, PosInf},
         ~Less(high, low), NEW x \in Int, ~Less(x, low), ~Less(high, x),
         NEW r, r = Clamp(Round(x), low, high)
  PROVE  Clamp(Round(r), low, high) = r
<1>1. Round(x) \in Int /\ Round(x) \in Double
  BY RoundInt DEF Double, Finite
<1>2. r \in Int
  BY <1>1, ClampBounds
<1>3. Round(r) \in Int
  BY <1>2, RoundInt
<1>4. CASE ~Less(Round(x), low) /\ ~Less(high, Round(x))
  <2>1. r = Round(x)
    BY <1>4 DEF Clamp
  <2> QED
    BY <2>1, RoundWhole
<1>5. CASE Less(Round(x), low)
  <2>1. r = low /\ low \in Int
    BY <1>1, <1>2, <1>5 DEF Clamp
  <2>2. low <= x /\ Round(x) < low
    BY <1>1, <1>5, <2>1, LessInt
  <2>3. Round(r) < low
    BY <1>1, <1>3, <2>1, <2>2, RoundMonotone
  <2> QED
    BY <1>3, <2>1, <2>3, LessInt DEF Clamp
<1>6. CASE ~Less(Round(x), low) /\ Less(high, Round(x))
  <2>1. r = high /\ high \in Int
    BY <1>1, <1>2, <1>6 DEF Clamp
  <2>2. x <= high /\ high < Round(x)
    BY <1>1, <1>6, <2>1, LessInt
  <2>3. high < Round(r)
    BY <1>1, <1>3, <2>1, <2>2, RoundMonotone
  <2>4. ~Less(Round(r), low)
    BY <1>3, <2>1, <2>3 DEF Less, Finite
  <2> QED
    BY <1>3, <2>1, <2>3, <2>4, LessInt DEF Clamp
<1> QED
  BY <1>4, <1>5, <1>6

(* What quantizing does to a number that is in the range already.           *)
LEMMA QuantizeInRange ==
  ASSUME NEW spec, NEW v \in Int, InRange(spec, v)
  PROVE  Quantize(spec, v) = Clamp(IF spec.stepped THEN Round(v) ELSE v,
                                   spec.minimum, spec.maximum)
BY DEF Quantize, InRange, Clamp, Finite

(* Quantizing any double gives a value that is in the parameter's range, is *)
(* a number or the default, and that quantizing again does not change.      *)
LEMMA QuantizeSettles ==
  ASSUME NEW spec \in SpecType, ~Less(spec.maximum, spec.minimum), NEW v \in Double,
         NEW q, q = Quantize(spec, v)
  PROVE  /\ q \in Double
         /\ InRange(spec, q)
         /\ q \in Finite \/ q = spec.defaultValue
         /\ v \in Finite => q \in Finite
         /\ Quantize(spec, q) = q
<1> DEFINE low == spec.minimum
           high == spec.maximum
           default == spec.defaultValue
           source == IF v \in Finite THEN v ELSE default
           inRange == Clamp(source, low, high)
           rounded == IF spec.stepped THEN Round(inRange) ELSE inRange
<1>1. /\ low \in Int \cup {NaN, NegInf} /\ high \in Int \cup {NaN, PosInf}
      /\ ~Less(high, low) /\ default \in Double /\ spec.stepped \in BOOLEAN
  BY DEF SpecType, Finite
<1>2. source \in Double /\ (source \in Int \/ source = default)
      /\ (v \in Finite => source \in Int)
  BY <1>1 DEF Double, Finite
<1>3. q = Clamp(rounded, low, high)
  BY DEF Quantize
<1> HIDE DEF source, low, high, default
<1>4. /\ inRange \in Double /\ ~Less(inRange, low) /\ ~Less(high, inRange)
      /\ source \in Int => inRange \in Int
      /\ inRange \in Int \/ inRange = source
  BY <1>1, <1>2, ClampBounds
<1> HIDE DEF inRange
<1>5. /\ rounded \in Double
      /\ inRange \in Int => rounded \in Int
      /\ inRange \notin Int => rounded = inRange
  BY <1>4, RoundInt DEF Round, Double, Finite
<1>6. q \in Double /\ ~Less(q, low) /\ ~Less(high, q) /\ (rounded \in Int => q \in Int)
      /\ (~Less(rounded, low) /\ ~Less(high, rounded) => q = rounded)
  BY <1>1, <1>3, <1>5, ClampBounds
<1>7. InRange(spec, q)
  BY <1>6 DEF InRange, low, high
<1>8. CASE inRange \in Int
  <2>1. q \in Int
    BY <1>5, <1>6, <1>8
  <2>2. Quantize(spec, q) = Clamp(IF spec.stepped THEN Round(q) ELSE q, low, high)
    BY <1>7, <2>1, QuantizeInRange DEF low, high
  <2>3. CASE spec.stepped
    <3>1. q = Clamp(Round(inRange), low, high)
      BY <1>3, <2>3
    <3>2. Clamp(Round(q), low, high) = q
      BY <1>1, <1>4, <1>8, <3>1, RoundThenClampIsStable
    <3> QED
      BY <1>6, <1>7, <2>1, <2>2, <2>3, <3>2 DEF Finite
  <2>4. CASE ~spec.stepped
    <3>1. Clamp(q, low, high) = q
      BY <1>6 DEF Clamp
    <3> QED
      BY <1>6, <1>7, <2>1, <2>2, <2>4, <3>1 DEF Finite
  <2> QED
    BY <1>1, <2>3, <2>4
<1>9. CASE inRange \notin Int
  <2>1. /\ inRange = default /\ rounded = default /\ q = default
        /\ default \notin Int /\ v \notin Finite
    BY <1>2, <1>4, <1>5, <1>6, <1>9
  <2>2. Clamp(default, low, high) = default /\ Round(default) = default
    BY <1>6, <2>1 DEF Clamp, Round, Finite
  <2>3. Quantize(spec, default) = default
    BY <2>1, <2>2 DEF Quantize, Finite, low, high, default
  <2> QED
    BY <1>6, <1>7, <2>1, <2>3 DEF default
<1> QED
  BY <1>8, <1>9

(* A text that is a label is a first one somewhere.                         *)
LEMMA FirstMatch ==
  ASSUME NEW spec, NEW text, spec.labels \in Seq(Text), Matches(spec, text) # {},
         NEW m, m = CHOOSE i \in Matches(spec, text) : \A j \in Matches(spec, text) : i <= j
  PROVE  /\ Matches(spec, text) \subseteq Nat
         /\ m \in Matches(spec, text)
         /\ \A j \in Matches(spec, text) : m <= j
<1> DEFINE M == Matches(spec, text)
           smaller == {ss \in Nat \X Nat : ss[1] < ss[2]}
<1>1. M \subseteq Nat
  BY LenProperties DEF Matches
<1>2. IsWellFoundedOn(smaller, Nat)
  BY NatLessThanWellFounded DEF OpToRel
<1> HIDE DEF M, smaller
<1>3. \E x \in M : \A y \in M : ~(<<y, x>> \in smaller)
  BY <1>1, <1>2, WFMin DEF M
<1>4. \E x \in M : \A y \in M : x <= y
  <2>1. \A x, y \in Nat : y < x => <<y, x>> \in smaller
    BY DEF smaller
  <2>2. PICK x \in M : \A y \in M : ~(<<y, x>> \in smaller)
    BY <1>3
  <2>3. \A y \in M : ~(y < x)
    BY <1>1, <2>1, <2>2
  <2> QED
    BY <1>1, <2>2, <2>3
<1> QED
  BY <1>1, <1>4 DEF M

(* The value a text stands for is a double.                                 *)
LEMMA TextIsDouble ==
  ASSUME NEW spec \in SpecType, ~Less(spec.maximum, spec.minimum), NEW text \in Text,
         spec.labels # <<>> => spec.minimum \in Finite
  PROVE  TextToValue(spec, text) \in Double
<1>1. text.number \in Double
  BY DEF Text
<1>2. CASE Matches(spec, text) = {}
  BY <1>1, <1>2, QuantizeSettles DEF TextToValue
<1>3. CASE Matches(spec, text) # {}
  <2> DEFINE m == CHOOSE i \in Matches(spec, text) : \A j \in Matches(spec, text) : i <= j
  <2>1. spec.labels \in Seq(Text)
    BY DEF SpecType
  <2>2. spec.labels # <<>>
    BY <1>3, <2>1 DEF Matches
  <2>3. /\ Matches(spec, text) \subseteq Nat
        /\ m \in Matches(spec, text)
        /\ \A j \in Matches(spec, text) : m <= j
    BY <1>3, <2>1, FirstMatch
  <2> QED
    BY <1>3, <2>2, <2>3 DEF TextToValue, Double, Finite
<1> QED
  BY <1>2, <1>3

(* printf to whole numbers keeps the order, moves a number by at most a     *)
(* half, and has whole numbers for results.                                 *)
LEMMA HalfEvenInt ==
  ASSUME NEW x \in Int
  PROVE  /\ HalfEven(x) \in Int
         /\ x - 2 <= HalfEven(x) /\ HalfEven(x) <= x + 2
         /\ HalfEven(HalfEven(x)) = HalfEven(x)
         /\ Round(HalfEven(x)) = HalfEven(x)
<1>1. \E k \in Int : /\ HalfEven(x) = 4 * k
                     /\ x - 2 <= 4 * k /\ 4 * k <= x + 2
  <2> DEFINE k == (x + 2) \div 4
  <2>1. k \in Int /\ 4 * k <= x + 2 /\ x + 2 <= 4 * k + 3
    OBVIOUS
  <2>2. CASE x % 4 # 2
    BY <2>1, <2>2 DEF HalfEven, Finite
  <2>3. CASE x % 4 = 2
    <3>1. \E i, j \in Int : x - 2 = 4 * i /\ x + 2 = 4 * j
      <4>1. x - 2 = 4 * (x \div 4) /\ x + 2 = 4 * (x \div 4 + 1)
        BY <2>3
      <4>2. x \div 4 \in Int /\ x \div 4 + 1 \in Int
        OBVIOUS
      <4> QED
        BY <4>1, <4>2
    <3>2. HalfEven(x) = x - 2 \/ HalfEven(x) = x + 2
      BY <2>3 DEF HalfEven, Finite
    <3>3. x - 2 <= HalfEven(x) /\ HalfEven(x) <= x + 2
      BY <3>2
    <3> QED
      BY <3>1, <3>2, <3>3
  <2> QED
    BY <2>2, <2>3
<1>2. ASSUME NEW k \in Int PROVE HalfEven(4 * k) = 4 * k /\ Round(4 * k) = 4 * k
  <2>1. 4 * k \in Int /\ (4 * k) % 4 = 0 /\ (4 * k + 2) \div 4 = k
        /\ (2 - 4 * k) \div 4 = -k
    OBVIOUS
  <2> QED
    BY <2>1 DEF HalfEven, Round, Finite
<1> QED
  BY <1>1, <1>2

(* A quarter beside a whole number rounds to it either way.                 *)
LEMMA OneOffWhole ==
  ASSUME NEW v \in Int, NEW w \in Int, NEW s, s = HalfEven(v), w = s + 1 \/ w = s - 1
  PROVE  Round(w) = s /\ HalfEven(w) = s
<1>1. PICK k \in Int : s = 4 * k
  <2>1. s \in Int /\ Round(s) = s
    BY HalfEvenInt
  <2>2. s = 4 * ((s + 2) \div 4) \/ s = 4 * (-((2 - s) \div 4))
    BY <2>1, RoundInt
  <2>3. (s + 2) \div 4 \in Int /\ -((2 - s) \div 4) \in Int
    BY <2>1
  <2> QED
    BY <2>2, <2>3
<1>2. CASE w = 4 * k + 1
  <2>1. w \in Int /\ w % 4 = 1 /\ (w + 2) \div 4 = k /\ (2 - w) \div 4 = -k
    BY <1>2
  <2> QED
    BY <1>1, <2>1 DEF Round, HalfEven, Finite
<1>3. CASE w = 4 * k - 1
  <2>1. w \in Int /\ w % 4 = 3 /\ (w + 2) \div 4 = k /\ (2 - w) \div 4 = -k
    BY <1>3
  <2> QED
    BY <1>1, <2>1 DEF Round, HalfEven, Finite
<1> QED
  BY <1>1, <1>2, <1>3

(* The whole number shown for a value that quantizing leaves alone, read    *)
(* back and quantized, shows the same: rounding for display, rounding to a  *)
(* step and clamping may each turn at other places, but agree on this.      *)
LEMMA WholeNumberStays ==
  ASSUME NEW spec \in SpecType, ~Less(spec.maximum, spec.minimum),
         NEW v \in Int, InRange(spec, v), Quantize(spec, v) = v
  PROVE  HalfEven(Quantize(spec, HalfEven(v))) = HalfEven(v)
<1> DEFINE low == spec.minimum
           high == spec.maximum
           shown == HalfEven(v)
           back == Quantize(spec, shown)
           inRange == Clamp(shown, low, high)
           Step(w) == IF spec.stepped THEN Round(w) ELSE w
<1>1. /\ low \in Int \cup {NaN, NegInf} /\ high \in Int \cup {NaN, PosInf}
      /\ ~Less(high, low) /\ spec.stepped \in BOOLEAN
      /\ ~Less(v, low) /\ ~Less(high, v)
  BY DEF SpecType, Finite, InRange
<1>2. /\ shown \in Int /\ v - 2 <= shown /\ shown <= v + 2
      /\ HalfEven(shown) = shown /\ Round(shown) = shown
  BY HalfEvenInt
<1>3. back = Clamp(Step(inRange), low, high) /\ v = Clamp(Step(v), low, high)
  BY <1>2, QuantizeInRange DEF Quantize, Finite
<1> HIDE DEF low, high, shown, back, inRange
<1>4. CASE ~Less(shown, low) /\ ~Less(high, shown)
  <2>1. inRange = shown /\ Step(shown) = shown
    BY <1>2, <1>4 DEF inRange, Clamp
  <2>2. back = shown
    BY <1>3, <1>4, <2>1 DEF Clamp
  <2> QED
    BY <1>2, <2>2 DEF shown, back
<1>5. CASE Less(shown, low)
  <2>1. low \in Int /\ inRange = low /\ shown < low /\ low <= v
    BY <1>1, <1>2, <1>5, LessInt DEF inRange, Clamp, Less, Finite
  <2>2. CASE low = v
    BY <1>3, <2>1, <2>2 DEF shown, back
  <2>3. CASE low # v
    <3>1. low = shown + 1
      BY <1>2, <2>1, <2>3
    <3>2. Round(low) = shown /\ HalfEven(low) = shown
      BY <1>2, <3>1, OneOffWhole DEF shown
    <3>3. Clamp(low, low, high) = low /\ Clamp(shown, low, high) = low
      BY <1>1, <1>5, <2>1, LessInt DEF Clamp
    <3>4. back = low
      BY <1>3, <2>1, <3>2, <3>3
    <3> QED
      BY <3>2, <3>4 DEF shown, back
  <2> QED
    BY <2>2, <2>3
<1>6. CASE ~Less(shown, low) /\ Less(high, shown)
  <2>1. high \in Int /\ inRange = high /\ high < shown /\ v <= high
    BY <1>1, <1>2, <1>6, LessInt DEF inRange, Clamp, Less, Finite
  <2>2. CASE high = v
    BY <1>3, <2>1, <2>2 DEF shown, back
  <2>3. CASE high # v
    <3>1. high = shown - 1
      BY <1>2, <2>1, <2>3
    <3>2. Round(high) = shown /\ HalfEven(high) = shown
      BY <1>2, <3>1, OneOffWhole DEF shown
    <3>3. Clamp(high, low, high) = high /\ Clamp(shown, low, high) = high
      BY <1>1, <1>6, <2>1, LessInt DEF Clamp
    <3>4. back = high
      BY <1>3, <2>1, <3>2, <3>3
    <3> QED
      BY <3>2, <3>4 DEF shown, back
  <2> QED
    BY <2>2, <2>3
<1> QED
  BY <1>4, <1>5, <1>6

(* A label stands for a value that shows the same label, if not for one     *)
(* beyond the maximum, and then the maximum shows it.                       *)
LEMMA LabelStays ==
  ASSUME NEW low \in Int, NEW high \in Int, low <= high,
         NEW stepped \in BOOLEAN, stepped => low % 4 # 2,
         NEW v \in Int, low <= v, v <= high,
         v = Clamp(IF stepped THEN Round(v) ELSE v, low, high),
         NEW m \in Nat, m <= Round(v - low) \div 4,
         NEW w \in Int, w = Clamp(low + 4 * m, low, high),
         NEW q, q = Clamp(IF stepped THEN Round(w) ELSE w, low, high)
  PROVE  q \in Int /\ Round(q - low) \div 4 = m
<1>1. v - low \in Nat /\ high - low \in Nat
  OBVIOUS
<1>2. Round(v - low) = 4 * ((v - low + 2) \div 4)
  BY <1>1, RoundInt
<1>3. 4 * m <= v - low + 2
  BY <1>1, <1>2
<1>4. w = (IF high < low + 4 * m THEN high ELSE low + 4 * m)
  BY LessInt DEF Clamp
<1>5. 4 * m - 2 <= w - low /\ w - low <= 4 * m /\ low <= w /\ w <= high
  BY <1>3, <1>4
<1>6. Round(w) \in Int
  BY RoundInt
<1>7. q \in Int /\ low <= q /\ q <= high /\ 4 * m - 2 <= q - low /\ q - low <= 4 * m + 1
  <2>1. CASE ~stepped
    <3>1. q = Clamp(w, low, high)
      BY <2>1
    <3>2. q = w
      BY <1>5, <3>1, LessInt DEF Clamp
    <3> QED
      BY <1>5, <3>2
  <2>2. CASE stepped
    <3>1. q = (IF Round(w) < low THEN low ELSE IF high < Round(w) THEN high ELSE Round(w))
      BY <1>6, <2>2, LessInt DEF Clamp
    <3>2. CASE high < low + 4 * m
      <4>1. w = high
        BY <1>4, <3>2
      <4>2. v = high \/ (v = high - 1 /\ high - low = 4 * m - 1)
        BY <1>3, <3>2
      <4>3. v = (IF Round(v) < low THEN low ELSE IF high < Round(v) THEN high ELSE Round(v))
            /\ Round(v) \in Int
        BY <2>2, RoundInt, LessInt DEF Clamp
      <4>4. CASE v = high
        <5>1. q = high
          BY <3>1, <4>1, <4>3, <4>4
        <5> QED
          BY <1>5, <4>1, <5>1
      <4>5. CASE v # high
        <5>1. v = high - 1 /\ low < v
          BY <4>2, <4>5
        <5>2. Round(v) = v
          BY <4>3, <5>1
        <5>3. Round(high) = v
          <6>1. v = 4 * ((v + 2) \div 4) \/ v = 4 * (-((2 - v) \div 4))
            BY <5>2, RoundInt
          <6>2. PICK k \in Int : v = 4 * k
            <7>1. (v + 2) \div 4 \in Int /\ -((2 - v) \div 4) \in Int
              OBVIOUS
            <7> QED
              BY <6>1, <7>1
          <6>3. high = 4 * k + 1 /\ (high + 2) \div 4 = k /\ (2 - high) \div 4 = -k
            BY <5>1, <6>2
          <6>4. Round(high) = 4 * k \/ Round(high) = -(4 * (-k))
            BY <6>3, RoundInt
          <6>5. -(4 * (-k)) = 4 * k
            OBVIOUS
          <6> QED
            BY <6>2, <6>4, <6>5
        <5>4. q = v
          BY <3>1, <4>1, <5>1, <5>3
        <5> QED
          BY <1>3, <4>2, <4>5, <5>1, <5>4
      <4> QED
        BY <4>4, <4>5
    <3>3. CASE ~(high < low + 4 * m)
      <4>1. w = low + 4 * m /\ w % 4 # 2
        BY <1>4, <2>2, <3>3
      <4>2. w - 1 <= Round(w) /\ Round(w) <= w + 1
        BY <4>1, RoundNear
      <4> QED
        BY <1>5, <1>6, <3>1, <4>1, <4>2
    <3> QED
      BY <3>2, <3>3
  <2> QED
    BY <2>1, <2>2
<1>8. Round(q - low) = 4 * ((q - low + 2) \div 4)
  BY <1>7, RoundInt
<1>9. (q - low + 2) \div 4 = m
  BY <1>7
<1> QED
  BY <1>7, <1>8, <1>9
-----------------------------------------------------------------------------
(* The invariant. *)

LEMMA InitInv == Init => StoreInv
<1> SUFFICES ASSUME Init PROVE StoreInv
  OBVIOUS
<1>1. TypeOK
  <2>1. Registered = {}
    BY DEF Init, Registered
  <2>2. /\ byId \in [Registered -> SpecType]
        /\ base \in [Registered -> Double]
        /\ modulation \in [Registered -> Double]
    BY <2>1 DEF Init
  <2>3. /\ parameters \in Seq(Registered) /\ saved \in Seq(SavedValue)
        /\ todo \in Seq(SavedValue)
    BY DEF Init
  <2>4. loading \in SavedValue
    BY SpecsAssumption DEF Init, None, SavedValue, Double, Finite
  <2> QED
    BY <2>1, <2>2, <2>3, <2>4 DEF Init, TypeOK
<1>2. NothingYet /\ SpecsAreSound
  BY DEF Init, NothingYet, SpecsAreSound, Registered
<1> QED
  BY <1>1, <1>2 DEF Init, StoreInv, Registered, Restorable

(* Storing any double in any id leaves every base value settled.            *)
LEMMA StoredSettles ==
  ASSUME StoreInv, NEW id, NEW v \in Double, NEW allow \in BOOLEAN
  PROVE  /\ Stored(id, v, allow) \in [Registered -> Double]
         /\ \A x \in Registered : Settled(x, Stored(id, v, allow)[x])
<1>1. base \in [Registered -> Double] /\ byId \in [Registered -> SpecType]
  BY DEF StoreInv, TypeOK
<1>2. CASE id \in Registered /\ (allow \/ ~byId[id].readOnly)
  <2> DEFINE q == Quantize(byId[id], v)
  <2>1. byId[id] \in SpecType /\ ~Less(byId[id].maximum, byId[id].minimum)
    BY <1>1, <1>2 DEF StoreInv, SpecsAreSound
  <2>2. /\ q \in Double /\ InRange(byId[id], q)
        /\ q \in Finite \/ q = byId[id].defaultValue
        /\ Quantize(byId[id], q) = q
    BY <2>1, QuantizeSettles
  <2> HIDE DEF q
  <2>3. Settled(id, q)
    BY <1>2, <2>2 DEF Settled
  <2>5. Stored(id, v, allow) = [base EXCEPT ![id] = q]
    BY <1>2 DEF Stored, q
  <2> QED
    BY <1>1, <1>2, <2>2, <2>3, <2>5 DEF StoreInv
<1>3. CASE ~(id \in Registered /\ (allow \/ ~byId[id].readOnly))
  BY <1>1, <1>3 DEF Stored, StoreInv
<1> QED
  BY <1>2, <1>3

(* What no step but add() changes stays as it is.                           *)
LEMMA SameMap ==
  ASSUME byId' = byId, parameters' = parameters
  PROVE  /\ Registered' = Registered
         /\ SpecsAreSound => SpecsAreSound'
         /\ \A id, v : Settled(id, v) => Settled(id, v)'
BY DEF Registered, SpecsAreSound, Settled

(* A step that stores one value and touches nothing else but base and       *)
(* modulation keeps the invariant.                                          *)
LEMMA WriteKeepsInv ==
  ASSUME StoreInv, NEW id, NEW v \in Double, NEW allow \in BOOLEAN,
         base' \in {base, Stored(id, v, allow)},
         modulation' \in [Registered -> Double],
         phase = "hosted", UNCHANGED <<phase, byId, parameters, mainVars, audioVars>>
  PROVE  StoreInv'
<1>1. base' \in [Registered -> Double] /\ \A x \in Registered : Settled(x, base'[x])
  <2>1. CASE base' = base
    BY <2>1 DEF StoreInv, TypeOK
  <2>2. CASE base' = Stored(id, v, allow)
    BY <2>2, StoredSettles
  <2> QED
    BY <2>1, <2>2
<1>2. TypeOK'
  BY <1>1 DEF StoreInv, TypeOK, Registered, mainVars, audioVars
<1>3. NothingYet'
  BY DEF NothingYet
<1> QED
  BY <1>1, <1>2, <1>3, SameMap
     DEF StoreInv, mainVars, audioVars, Restorable, Settled, Registered, SpecsAreSound

(* One step of either thread keeps the invariant.                           *)
LEMMA NextInv == StoreInv /\ [Next]_vars => StoreInv'
<1> SUFFICES ASSUME StoreInv, [Next]_vars PROVE StoreInv'
  OBVIOUS
<1>0. TypeOK /\ NothingYet /\ SpecsAreSound
  BY DEF StoreInv
<1>1. ASSUME NEW spec \in Specs, Add(spec) PROVE StoreInv'
  <2> DEFINE id == spec.id
             kept == [spec EXCEPT !.defaultValue = Quantize(spec, spec.defaultValue)]
  <2>1. /\ spec \in SpecType /\ ~Less(spec.maximum, spec.minimum)
        /\ id \in Ids /\ spec.defaultValue \in Double
        /\ spec.labels # <<>> => spec.minimum \in Finite
    BY <1>1, SpecsAssumption DEF Add, SpecType
  <2> DEFINE q == Quantize(spec, spec.defaultValue)
  <2>2. /\ kept = [spec EXCEPT !.defaultValue = q]
        /\ q \in Double /\ InRange(spec, q)
        /\ q \in Finite \/ q = spec.defaultValue
        /\ Quantize(spec, q) = q
    BY <2>1, QuantizeSettles
  <2> HIDE DEF q
  <2>3. /\ kept \in SpecType /\ kept.defaultValue = q
        /\ kept.minimum = spec.minimum /\ kept.maximum = spec.maximum
        /\ kept.stepped = spec.stepped /\ kept.labels = spec.labels
    BY <2>1, <2>2 DEF SpecType
  <2>4. Quantize(kept, q) = q
    <3>1. (IF q \in Finite THEN q ELSE kept.defaultValue)
            = (IF q \in Finite THEN q ELSE spec.defaultValue)
      BY <2>2, <2>3
    <3> QED
      BY <2>2, <2>3, <3>1 DEF Quantize
  <2>5. /\ main = "idle" /\ saved = <<>> /\ todo = <<>> /\ loading = None
        /\ phase = "constructing" /\ id \notin Registered /\ id # InvalidId
        /\ UNCHANGED <<phase, mainVars, audioVars>>
    BY <1>0, <1>1 DEF Add, NothingYet
  <2>6. /\ byId' = With(byId, id, kept)
        /\ base' = With(base, id, q)
        /\ modulation' = With(modulation, id, 0)
        /\ parameters' = Append(parameters, id)
    BY <1>1, <2>3 DEF Add
  <2> HIDE DEF kept, id
  <2>7. Registered' = Registered \cup {id}
    BY <2>6 DEF Registered, With
  <2>8. /\ byId' \in [Registered' -> SpecType]
        /\ base' \in [Registered' -> Double]
        /\ modulation' \in [Registered' -> Double]
    BY <1>0, <2>2, <2>3, <2>6, <2>7 DEF TypeOK, With, Registered, Double, Finite
  <2>9. parameters' \in Seq(Registered')
    <3>1. parameters \in Seq(Registered') /\ id \in Registered'
      BY <1>0, <2>7, SeqMonotonic DEF TypeOK
    <3> QED
      BY <2>6, <3>1, AppendProperties
  <2>10. \A x \in Registered' :
           /\ x = id => byId'[x] = kept /\ base'[x] = q
           /\ x # id => x \in Registered /\ byId'[x] = byId[x] /\ base'[x] = base[x]
    BY <1>0, <2>6, <2>7 DEF TypeOK, With, Registered
  <2>11. TypeOK'
    BY <1>0, <2>1, <2>5, <2>7, <2>8, <2>9 DEF TypeOK, mainVars, audioVars
  <2>12. SpecsAreSound'
    <3>1. \A x \in Registered' :
            /\ ~Less(byId'[x].maximum, byId'[x].minimum)
            /\ InRange(byId'[x], byId'[x].defaultValue)
            /\ byId'[x].labels # <<>> => byId'[x].minimum \in Finite
      <4> SUFFICES ASSUME NEW x \in Registered'
                   PROVE  /\ ~Less(byId'[x].maximum, byId'[x].minimum)
                          /\ InRange(byId'[x], byId'[x].defaultValue)
                          /\ byId'[x].labels # <<>> => byId'[x].minimum \in Finite
        OBVIOUS
      <4>1. CASE x = id
        <5>1. byId'[x] = kept
          BY <2>10, <4>1
        <5>2. InRange(kept, q)
          BY <2>2, <2>3 DEF InRange
        <5> QED
          BY <2>1, <2>3, <5>1, <5>2
      <4>2. CASE x # id
        <5>1. x \in Registered /\ byId'[x] = byId[x]
          BY <2>10, <4>2
        <5> QED
          BY <1>0, <5>1 DEF SpecsAreSound
      <4> QED
        BY <4>1, <4>2
    <3>2. /\ parameters \in Seq(Registered) /\ Len(parameters) \in Nat
          /\ DOMAIN parameters = 1 .. Len(parameters)
          /\ DOMAIN parameters' = 1 .. Len(parameters) + 1
          /\ \A i \in 1 .. Len(parameters) : parameters'[i] = parameters[i]
          /\ parameters'[Len(parameters) + 1] = id
      BY <1>0, <2>6, AppendProperties, LenProperties DEF TypeOK
    <3>3. \A i \in DOMAIN parameters : parameters[i] # id
      BY <2>5, <3>2
    <3>4. \A i, j \in DOMAIN parameters' : parameters'[i] = parameters'[j] => i = j
      BY <1>0, <3>2, <3>3 DEF SpecsAreSound
    <3>5. \A x \in Registered' : \E i \in DOMAIN parameters' : parameters'[i] = x
      BY <1>0, <2>7, <3>2 DEF SpecsAreSound
    <3> QED
      BY <3>1, <3>4, <3>5 DEF SpecsAreSound
  <2>13. \A x \in Registered' : Settled(x, base[x])'
    <3> SUFFICES ASSUME NEW x \in Registered' PROVE Settled(x, base[x])'
      OBVIOUS
    <3>1. CASE x = id
      <4>1. byId'[x] = kept /\ base'[x] = q
        BY <2>10, <3>1
      <4>2. InRange(kept, q) /\ (q \in Finite \/ q = kept.defaultValue)
        BY <2>2, <2>3 DEF InRange
      <4> QED
        BY <2>4, <4>1, <4>2 DEF Settled
    <3>2. CASE x # id
      <4>1. x \in Registered /\ byId'[x] = byId[x] /\ base'[x] = base[x]
        BY <2>10, <3>2
      <4>2. Settled(x, base[x])
        BY <4>1 DEF StoreInv
      <4> QED
        BY <4>1, <4>2 DEF Settled
    <3> QED
      BY <3>1, <3>2
  <2> QED
    BY <1>0, <2>5, <2>11, <2>12, <2>13
       DEF StoreInv, NothingYet, Restorable, mainVars, audioVars
<1>2. CASE HostInit
  BY <1>2, <1>0, SameMap
     DEF StoreInv, HostInit, TypeOK, NothingYet, mainVars, audioVars, Registered,
         Restorable, Settled, SpecsAreSound
<1>3. ASSUME NEW id \in Registered, NEW v \in Values, SetBaseValue(id, v) PROVE StoreInv'
  BY <1>0, <1>3, WriteKeepsInv, InputsAssumption DEF SetBaseValue, TypeOK
<1>4. ASSUME NEW id \in Registered, NEW v \in Values, SetInternalValue(id, v) PROVE StoreInv'
  BY <1>0, <1>4, WriteKeepsInv, InputsAssumption DEF SetInternalValue, TypeOK
<1>5. ASSUME NEW e \in InputEvents, ApplyInputEvent(e) PROVE StoreInv'
  <2>1. e.amount \in Double /\ phase = "hosted"
        /\ UNCHANGED <<phase, byId, parameters, mainVars, audioVars>>
    BY <1>5, InputsAssumption DEF ApplyInputEvent
  <2>2. base' \in {base, Stored(e.id, e.amount, FALSE)}
    BY <1>5 DEF ApplyInputEvent
  <2>3. modulation' \in [Registered -> Double]
    BY <1>0, <1>5, <2>1 DEF ApplyInputEvent, Modulated, TypeOK
  <2> QED
    BY <2>1, <2>2, <2>3, WriteKeepsInv
<1>15. ASSUME NEW id \in Registered, NEW text \in TypedTexts, TypeText(id, text)
       PROVE  StoreInv'
  <2>1. byId[id] \in SpecType /\ text \in Text /\ ~Less(byId[id].maximum, byId[id].minimum)
    BY <1>0, InputsAssumption DEF TypeOK, SpecsAreSound
  <2>2. TextToValue(byId[id], text) \in Double
    BY <1>0, <2>1, TextIsDouble DEF SpecsAreSound
  <2> QED
    BY <1>0, <1>15, <2>2, WriteKeepsInv DEF TypeText, TypeOK
<1>6. ASSUME NEW id \in Registered, LoadBase(id) PROVE StoreInv'
  <2>1. loading' = [id |-> id, value |-> base[id]] /\ Settled(id, base[id])
    BY <1>6 DEF LoadBase, StoreInv
  <2>2. loading' \in SavedValue
    BY <1>0, <1>6, <2>1 DEF TypeOK, SavedValue
  <2> QED
    BY <1>0, <1>6, <2>1, <2>2, SameMap
       DEF StoreInv, LoadBase, TypeOK, NothingYet, mainVars, Registered,
           Restorable, Settled, SpecsAreSound
<1>7. CASE LoadModulation
  <2>1. loading' = None /\ None \in SavedValue
    BY <1>7, SpecsAssumption DEF LoadModulation, None, SavedValue, Double, Finite
  <2> QED
    BY <1>0, <1>7, <2>1, SameMap
       DEF StoreInv, LoadModulation, TypeOK, NothingYet, mainVars, Registered,
           Restorable, Settled, SpecsAreSound
<1>8. CASE SaveBegin
  <2>1. /\ main' = "saving" /\ saved' = <<>> /\ todo' = parameters
        /\ UNCHANGED <<phase, byId, parameters, base, modulation, own, audioVars>>
        /\ phase = "hosted"
    BY <1>8 DEF SaveBegin
  <2>2. TypeOK'
    BY <1>0, <2>1 DEF TypeOK, Registered, audioVars
  <2> QED
    BY <2>1, <2>2, SameMap
       DEF StoreInv, NothingYet, audioVars, Registered, Restorable, Settled, SpecsAreSound
<1>9. CASE SaveNext
  <2> DEFINE id == Head(todo)
             item == [id |-> id, value |-> base[id]]
  <2>1. /\ main = "saving" /\ todo # <<>> /\ todo' = Tail(todo)
        /\ saved' = IF Kept(byId[id]) THEN Append(saved, item) ELSE saved
        /\ UNCHANGED <<phase, byId, parameters, base, modulation, main, own, audioVars>>
    BY <1>9 DEF SaveNext
  <2>2. todo \in Seq(Registered) /\ saved \in Seq(SavedValue) /\ phase = "hosted"
    BY <1>0, <2>1 DEF TypeOK, NothingYet
  <2>3. todo' \in Seq(Registered) /\ id \in Registered
    BY <2>1, <2>2, HeadTailProperties
  <2>4. item \in SavedValue /\ Settled(id, base[id])
    BY <1>0, <2>3 DEF TypeOK, SavedValue, StoreInv
  <2>5. saved' \in Seq(SavedValue)
    BY <2>1, <2>2, <2>4, AppendProperties
  <2>6. TypeOK'
    BY <1>0, <2>1, <2>3, <2>5 DEF TypeOK, Registered, audioVars
  <2>7. Restorable(saved')
    <3>1. CASE ~Kept(byId[id])
      BY <2>1, <3>1 DEF StoreInv
    <3>2. CASE Kept(byId[id])
      <4>1. saved' = Append(saved, item) /\ Restorable(saved)
        BY <2>1, <3>2 DEF StoreInv
      <4>2. /\ DOMAIN saved' = 1 .. Len(saved) + 1 /\ DOMAIN saved = 1 .. Len(saved)
            /\ Len(saved) \in Nat
            /\ \A i \in 1 .. Len(saved) : saved'[i] = saved[i]
            /\ saved'[Len(saved) + 1] = item
        BY <2>2, <2>4, <2>5, <4>1, AppendProperties, LenProperties
      <4> HIDE DEF item
      <4>3. ASSUME NEW i \in DOMAIN saved'
            PROVE  i \in DOMAIN saved \/ saved'[i] = item
        BY <4>2
      <4> QED
        BY <2>4, <3>2, <4>1, <4>2, <4>3 DEF Restorable, item
    <3> QED
      BY <3>1, <3>2
  <2> QED
    BY <1>0, <2>1, <2>2, <2>6, <2>7, SameMap
       DEF StoreInv, NothingYet, audioVars, Registered, Restorable, Settled, SpecsAreSound
<1>10. CASE SaveEnd
  <2>1. TypeOK'
    <3>1. todo = <<>> /\ todo \in Seq(SavedValue)
      BY <1>10 DEF SaveEnd
    <3> QED
      BY <1>0, <1>10, <3>1 DEF SaveEnd, TypeOK, Registered, audioVars
  <2> QED
    BY <1>0, <1>10, <2>1, SameMap
       DEF StoreInv, SaveEnd, NothingYet, audioVars, Registered, Restorable, Settled,
           SpecsAreSound
<1>11. CASE RestoreBegin
  <2>1. todo' \in Seq(SavedValue)
    BY <1>0, <1>11, InputsAssumption DEF RestoreBegin, TypeOK
  <2>2. TypeOK'
    BY <1>0, <1>11, <2>1 DEF RestoreBegin, TypeOK, Registered, audioVars
  <2> QED
    BY <1>0, <1>11, <2>2, SameMap
       DEF StoreInv, RestoreBegin, NothingYet, audioVars, Registered, Restorable, Settled,
           SpecsAreSound
<1>12. CASE RestoreNext
  <2>1. /\ main = "restoring" /\ todo # <<>> /\ todo' = Tail(todo)
        /\ base' \in {base, Stored(Head(todo).id, Head(todo).value, TRUE)}
        /\ UNCHANGED <<phase, byId, parameters, modulation, main, saved, own, audioVars>>
    BY <1>12 DEF RestoreNext
  <2>2. todo \in Seq(SavedValue) /\ phase = "hosted"
    BY <1>0, <2>1 DEF TypeOK, NothingYet
  <2>3. todo' \in Seq(SavedValue) /\ Head(todo) \in SavedValue
    BY <2>1, <2>2, HeadTailProperties
  <2>4. Head(todo).value \in Double
    BY <2>3 DEF SavedValue
  <2>5. base' \in [Registered -> Double] /\ \A x \in Registered : Settled(x, base'[x])
    <3>1. CASE base' = base
      BY <1>0, <3>1 DEF StoreInv, TypeOK
    <3>2. CASE base' = Stored(Head(todo).id, Head(todo).value, TRUE)
      BY <2>4, <3>2, StoredSettles
    <3> QED
      BY <2>1, <3>1, <3>2
  <2>6. TypeOK'
    BY <1>0, <2>1, <2>3, <2>5 DEF TypeOK, Registered, audioVars
  <2>7. own => Restorable(todo')
    <3>1. /\ DOMAIN todo' = 1 .. Len(todo) - 1 /\ DOMAIN todo = 1 .. Len(todo)
          /\ Len(todo) \in Nat
          /\ \A i \in 1 .. Len(todo) - 1 : todo'[i] = todo[i + 1]
      BY <2>1, <2>2, <2>3, HeadTailProperties, LenProperties
    <3>2. \A i \in DOMAIN todo' : i + 1 \in DOMAIN todo /\ todo'[i] = todo[i + 1]
      BY <3>1
    <3>3. own => Restorable(todo)
      BY <2>1 DEF StoreInv
    <3> QED
      BY <3>2, <3>3 DEF Restorable
  <2> QED
    BY <1>0, <2>1, <2>2, <2>5, <2>6, <2>7, SameMap
       DEF StoreInv, NothingYet, audioVars, Registered, Restorable, Settled, SpecsAreSound
<1>13. CASE RestoreEnd
  BY <1>0, <1>13, SameMap
     DEF StoreInv, RestoreEnd, TypeOK, NothingYet, audioVars, Registered, Restorable,
         Settled, SpecsAreSound
<1>14. CASE UNCHANGED vars
  BY <1>0, <1>14, SameMap
     DEF StoreInv, vars, TypeOK, NothingYet, mainVars, audioVars, Registered, Restorable,
         Settled, SpecsAreSound
<1> QED
  BY <1>1, <1>2, <1>3, <1>4, <1>5, <1>6, <1>7, <1>8, <1>9, <1>10, <1>11, <1>12,
     <1>13, <1>14, <1>15 DEF Next, MainThread, AudioThread, Telemetry

(* In every reachable state every base value, and every base value a saver  *)
(* or an effectiveValue() call holds, is in range and stable.               *)
THEOREM StoreInvariant == Spec => []StoreInv
BY InitInv, NextInv, PTL DEF Spec
-----------------------------------------------------------------------------
(* What follows from it. *)

(* The result of an effectiveValue() that interleaves with writes is in the *)
(* range unless a NaN was sent as modulation, or registered as default.     *)
THEOREM EffectiveStaysInRange == Spec => []EffectiveInRange
<1>1. Init => EffectiveInRange
  BY DEF Init, EffectiveInRange, Registered
<1>2. StoreInv /\ EffectiveInRange /\ [Next]_vars => EffectiveInRange'
  <2> SUFFICES ASSUME StoreInv, EffectiveInRange, [Next]_vars PROVE EffectiveInRange'
    OBVIOUS
  <2>1. CASE LoadModulation
    <3> DEFINE id == loading.id
               amount == modulation[id]
               sum == Plus(loading.value, amount)
    <3>1. /\ Settled(id, loading.value) /\ id \in Registered
          /\ byId' = byId
          /\ effective' = [id |-> id, amount |-> amount,
                           value |-> Clamp(sum, byId[id].minimum, byId[id].maximum)]
      BY <2>1 DEF LoadModulation, StoreInv, Settled
    <3>2. /\ byId[id].minimum \in Int \cup {NaN, NegInf}
          /\ byId[id].maximum \in Int \cup {NaN, PosInf}
          /\ ~Less(byId[id].maximum, byId[id].minimum)
          /\ amount \in Double /\ loading.value \in Double
      BY <3>1 DEF StoreInv, TypeOK, SpecsAreSound, SpecType, SavedValue, Finite
    <3>3. loading.value \in Int \/ loading.value = byId[id].defaultValue
      BY <3>1 DEF Settled, Finite
    <3> HIDE DEF id, amount
    <3>4. sum \in Double
      BY <3>2 DEF Plus, Double, Finite
    <3>5. sum = NaN => \/ NaN \in {amount, byId[id].defaultValue}
                       \/ {amount, byId[id].defaultValue} = {PosInf, NegInf}
      BY <3>2, <3>3 DEF Plus, Double, Finite
    <3> HIDE DEF sum
    <3> DEFINE low == byId[id].minimum
               high == byId[id].maximum
               result == Clamp(sum, low, high)
    <3>6. /\ InRange(byId[id], result)
          /\ result \in Int \/ result = sum
      <4> HIDE DEF low, high
      <4>1. /\ low \in Int \cup {NaN, NegInf} /\ high \in Int \cup {NaN, PosInf}
            /\ ~Less(high, low)
        BY <3>2 DEF low, high
      <4>2. /\ ~Less(result, low) /\ ~Less(high, result)
            /\ result \in Int \/ result = sum
        BY <3>4, <4>1, ClampBounds
      <4> QED
        BY <4>2 DEF InRange, low, high
    <3> HIDE DEF result
    <3>7. effective' = [id |-> id, amount |-> amount, value |-> result]
      BY <3>1 DEF result
    <3>8. result = NaN => sum = NaN
      BY <3>6
    <3> QED
      BY <3>1, <3>5, <3>6, <3>7, <3>8 DEF EffectiveInRange, Registered
  <2>2. ASSUME NEW id \in Registered, LoadBase(id) PROVE EffectiveInRange'
    BY <2>2 DEF LoadBase, NoResult, EffectiveInRange, StoreInv, TypeOK, Registered
  <2>3. ASSUME NEW spec \in Specs, Add(spec) PROVE EffectiveInRange'
    <3>1. effective' = NoResult /\ spec.id # InvalidId
      BY <2>3 DEF Add, StoreInv, NothingYet, audioVars
    <3>2. InvalidId \notin Registered'
      BY <2>3, <3>1 DEF Add, With, Registered, StoreInv, TypeOK
    <3> QED
      BY <3>1, <3>2 DEF NoResult, EffectiveInRange
  <2>4. CASE UNCHANGED <<byId, effective>>
    BY <2>4 DEF EffectiveInRange, Registered
  <2> QED
    BY <2>1, <2>2, <2>3, <2>4
       DEF Next, MainThread, AudioThread, Telemetry, HostInit, SetBaseValue,
           SetInternalValue, ApplyInputEvent, TypeText, SaveBegin, SaveNext, SaveEnd,
           RestoreBegin, RestoreNext, RestoreEnd, vars, audioVars
<1> QED
  BY <1>1, <1>2, StoreInvariant, PTL DEF Spec

(* The text shown for a settled number is understood and shown again.       *)
LEMMA TextStays ==
  ASSUME NEW spec \in SpecType, ~Less(spec.maximum, spec.minimum),
         spec.labels # <<>> => spec.minimum \in Finite, LabelsFit(spec),
         NEW v \in Int, InRange(spec, v), Quantize(spec, v) = v,
         NEW text, text = ValueToText(spec, v)
  PROVE  Understood(spec, text) /\ ValueToText(spec, TextToValue(spec, text)) = text
<1> DEFINE labels == spec.labels
           low == spec.minimum
           high == spec.maximum
           i == Round(v - low) \div 4
<1>1. /\ labels \in Seq(Text) /\ spec.whole \in BOOLEAN /\ spec.stepped \in BOOLEAN
      /\ low \in Int \cup {NaN, NegInf} /\ high \in Int \cup {NaN, PosInf}
  BY DEF SpecType, Finite
<1>2. CASE labels = <<>>
  <2> DEFINE shown == IF spec.whole THEN HalfEven(v) ELSE v
             back == Quantize(spec, shown)
  <2>1. text = Number(shown) /\ shown \in Int
    BY <1>1, <1>2, HalfEvenInt DEF ValueToText
  <2>2. Matches(spec, text) = {}
    BY <1>2 DEF Matches
  <2>3. text.isNumber /\ text.number = shown
    BY <2>1 DEF Number
  <2>8. Understood(spec, text)
    BY <2>1, <2>3 DEF Understood, Finite
  <2>4. TextToValue(spec, text) = back
    BY <2>2, <2>3 DEF TextToValue
  <2>5. Quantize(spec, back) = back
    BY <2>1, QuantizeSettles DEF Double, Finite
  <2>6. (IF spec.whole THEN HalfEven(back) ELSE back) = shown
    BY <1>1, WholeNumberStays
  <2> HIDE DEF back, shown
  <2>7. ValueToText(spec, back) = Number(IF spec.whole THEN HalfEven(back) ELSE back)
    BY <1>2, <2>5 DEF ValueToText
  <2> QED
    BY <2>1, <2>4, <2>6, <2>7, <2>8
<1>3. CASE labels # <<>>
  <2> DEFINE m == CHOOSE k \in Matches(spec, text) : \A j \in Matches(spec, text) : k <= j
             w == Clamp(low + 4 * m, low, high)
             q == Clamp(IF spec.stepped THEN Round(w) ELSE w, low, high)
  <2>1. /\ low \in Int /\ high \in Int /\ low <= high /\ low <= v /\ v <= high
        /\ Round(high - low) \div 4 < Len(labels)
        /\ spec.stepped => low % 4 # 2
    BY <1>1, <1>3, LessInt DEF LabelsFit, Finite, InRange
  <2>2. i \in Nat /\ i < Len(labels) /\ Len(labels) \in Nat /\ DOMAIN labels = 1 .. Len(labels)
    <3>1. v - low \in Int /\ high - low \in Int /\ 0 <= v - low /\ v - low <= high - low
      BY <2>1
    <3>2. Round(v - low) <= Round(high - low) /\ Round(v - low) \in Int
          /\ Round(high - low) \in Int /\ 0 <= Round(v - low)
      BY <3>1, RoundMonotone, RoundInt
    <3> QED
      BY <1>1, <2>1, <3>2
  <2>3. text = labels[i + 1]
    BY <1>3, <2>2 DEF ValueToText
  <2>4. i \in Matches(spec, text)
    <3>1. i + 1 \in DOMAIN labels /\ labels[i + 1] = text /\ i = (i + 1) - 1
      BY <2>2, <2>3
    <3> HIDE DEF i
    <3> QED
      BY <3>1 DEF Matches
  <2> HIDE DEF i
  <2>5. /\ Matches(spec, text) \subseteq Nat /\ m \in Matches(spec, text)
        /\ \A j \in Matches(spec, text) : m <= j
    BY <1>1, <2>4, FirstMatch
  <2>6. m \in Nat /\ m <= i /\ labels[m + 1] = text
    <3>1. m <= i /\ m \in Nat
      BY <2>4, <2>5
    <3>2. PICK j \in DOMAIN labels : labels[j] = text /\ m = j - 1
      BY <2>5 DEF Matches
    <3> HIDE DEF m
    <3>3. j = m + 1
      BY <2>2, <3>1, <3>2
    <3> QED
      BY <3>1, <3>2, <3>3
  <2>7. TextToValue(spec, text) = low + 4 * m /\ Understood(spec, text)
    BY <2>4 DEF TextToValue, Understood
  <2> HIDE DEF m
  <2>8. low + 4 * m \in Int
    BY <2>1, <2>6
  <2>9. Quantize(spec, low + 4 * m) = q
    BY <2>8 DEF Quantize, Finite
  <2>10. v = Clamp(IF spec.stepped THEN Round(v) ELSE v, low, high)
    BY QuantizeInRange
  <2>11. w \in Int
    BY <2>1, <2>8, LessInt DEF Clamp
  <2> HIDE DEF w, q, low, high
  <2>12. Round(q - low) \div 4 = m
    BY <1>1, <2>1, <2>6, <2>10, <2>11, LabelStays DEF w, q, i
  <2>13. ValueToText(spec, low + 4 * m) = labels[m + 1]
    BY <1>3, <2>2, <2>6, <2>9, <2>12 DEF ValueToText, low
  <2> QED
    BY <2>6, <2>7, <2>13
<1> QED
  BY <1>2, <1>3

(* The text the host shows for any parameter, typed back, is shown again.   *)
THEOREM TextsShowValues == Spec => []TextShowsValue
<1>1. StoreInv => TextShowsValue
  <2> SUFFICES ASSUME StoreInv, NEW id \in Registered, LabelsFit(byId[id]), base[id] \in Finite
               PROVE  LET text == ValueToText(byId[id], base[id])
                      IN  /\ Understood(byId[id], text)
                          /\ ValueToText(byId[id], TextToValue(byId[id], text)) = text
    BY DEF TextShowsValue
  <2>1. /\ byId[id] \in SpecType /\ ~Less(byId[id].maximum, byId[id].minimum)
        /\ byId[id].labels # <<>> => byId[id].minimum \in Finite
    BY DEF StoreInv, TypeOK, SpecsAreSound
  <2>2. base[id] \in Int /\ InRange(byId[id], base[id]) /\ Quantize(byId[id], base[id]) = base[id]
    BY DEF StoreInv, Settled, Finite
  <2> QED
    BY <2>1, <2>2, TextStays
<1> QED
  BY <1>1, StoreInvariant, PTL

(* Restoring what this store saved writes back exactly the saved values.    *)
THEOREM RestoreWritesSavedValues == Spec => RestoreIsExact
<1> DEFINE restores == main = "restoring" /\ own /\ todo # <<>> /\ todo' = Tail(todo)
<1>1. StoreInv /\ [Next]_vars =>
        [restores => base'[Head(todo).id] = Head(todo).value]_vars
  <2> SUFFICES ASSUME StoreInv, [Next]_vars, restores
               PROVE  base'[Head(todo).id] = Head(todo).value
    OBVIOUS
  <2>1. todo \in Seq(SavedValue) /\ Len(todo) \in Nat \ {0} /\ Restorable(todo)
    BY EmptySeq DEF StoreInv, TypeOK
  <2>2. todo' # todo
    BY <2>1, HeadTailProperties
  <2>3. RestoreNext
    BY <2>2 DEF Next, MainThread, AudioThread, Telemetry, Add, HostInit, SetBaseValue,
       SetInternalValue, ApplyInputEvent, TypeText, LoadBase, LoadModulation, SaveBegin, SaveNext,
       SaveEnd, RestoreBegin, RestoreEnd, vars, mainVars
  <2>4. Head(todo) = todo[1] /\ 1 \in DOMAIN todo
    BY <2>1
  <2>5. Settled(Head(todo).id, Head(todo).value) /\ Kept(byId[Head(todo).id])
    BY <2>1, <2>4 DEF Restorable
  <2>6. base' = [base EXCEPT ![Head(todo).id] = Head(todo).value]
    BY <2>3, <2>5 DEF RestoreNext, Stored, Settled
  <2> QED
    BY <2>5, <2>6 DEF StoreInv, TypeOK, Settled
<1> QED
  BY <1>1, StoreInvariant, PTL DEF Spec, RestoreIsExact

(* Neither automation nor the GUI ever moves a read-only parameter.         *)
THEOREM ReadOnlyStaysWithPlugin == Spec => ReadOnlyIsPluginOwned
<1>1. StoreInv /\ [Next]_vars => [OwnersWrite]_vars
  <2> SUFFICES ASSUME StoreInv, [Next]_vars, NEW id \in Registered,
                      byId[id].readOnly, base'[id] # base[id], ~Telemetry
               PROVE  main = "restoring" /\ byId[id].persistent
    BY DEF OwnersWrite
  <2>1. base \in [Registered -> Double]
    BY DEF StoreInv, TypeOK
  <2>2. ASSUME NEW other, NEW v PROVE Stored(other, v, FALSE)[id] = base[id]
    BY <2>1 DEF Stored
  <2>3. ASSUME NEW spec \in Specs, Add(spec) PROVE FALSE
    BY <2>1, <2>3 DEF Add, With, Registered
  <2>4. ASSUME NEW other, NEW v, SetBaseValue(other, v) PROVE FALSE
    BY <2>2, <2>4 DEF SetBaseValue
  <2>5. ASSUME NEW e \in InputEvents, ApplyInputEvent(e) PROVE FALSE
    BY <2>2, <2>5 DEF ApplyInputEvent
  <2>7. ASSUME NEW other, NEW text, TypeText(other, text) PROVE FALSE
    BY <2>2, <2>7 DEF TypeText
  <2>6. CASE RestoreNext
    <3>1. main = "restoring" /\ base' # base
      BY <2>6 DEF RestoreNext
    <3>2. /\ Kept(byId[Head(todo).id])
          /\ base' = Stored(Head(todo).id, Head(todo).value, TRUE)
      BY <2>6, <3>1 DEF RestoreNext
    <3>3. id = Head(todo).id
      BY <2>1, <3>2 DEF Stored
    <3> QED
      BY <3>1, <3>2, <3>3 DEF Kept
  <2> QED
    BY <2>3, <2>4, <2>5, <2>6, <2>7
       DEF Next, MainThread, AudioThread, HostInit, LoadBase, LoadModulation, SaveBegin,
           SaveNext, SaveEnd, RestoreBegin, RestoreEnd, vars
<1> QED
  BY <1>1, StoreInvariant, PTL DEF Spec, ReadOnlyIsPluginOwned
=============================================================================
