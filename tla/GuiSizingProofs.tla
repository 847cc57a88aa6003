--------------------------- MODULE GuiSizingProofs ---------------------------
(***************************************************************************)
(* Proofs about GuiSizing, for every scale, every bound and every size:    *)
(* the clamp is well defined, offered sizes fit, a size that is set is     *)
(* kept up to rounding, and sizes do not drift.                            *)
(***************************************************************************)
EXTENDS GuiSizing, TLAPS

USE SizingAssumption

-----------------------------------------------------------------------------
(* Arithmetic. *)

LEMMA Cancel ==
  ASSUME NEW a \in Int, NEW b \in Int, NEW k \in Nat \ {0}, a * k < b * k
  PROVE  a < b
OBVIOUS

LEMMA TimesMonotone ==
  ASSUME NEW a \in Int, NEW b \in Int, NEW k \in Nat, a <= b
  PROVE  a * k <= b * k
OBVIOUS

LEMMA Quotient ==
  ASSUME NEW x \in Int, NEW d \in Nat \ {0}
  PROVE  /\ x \div d \in Int
         /\ (x \div d) * d <= x
         /\ x < (x \div d + 1) * d
OBVIOUS

LEMMA QuotientMonotone ==
  ASSUME NEW x \in Int, NEW y \in Int, NEW d \in Nat \ {0}, x <= y
  PROVE  x \div d <= y \div d
<1>1. (x \div d) * d < (y \div d + 1) * d
  BY Quotient
<1> QED
  BY <1>1, Quotient, Cancel

(* A rounded fraction is in reach of the fraction, when that is a size.     *)
LEMMA RoundedNear ==
  ASSUME NEW n \in Nat, NEW d \in Nat \ {0}, d <= n, n <= Largest * d
  PROVE  LET r == RoundedPositive(n, d)
         IN  /\ r \in 1 .. Largest
             /\ 2 * (r * d) <= 2 * n + d
             /\ 2 * n < 2 * (r * d) + d
<1> DEFINE r == (2 * n + d) \div (2 * d)
<1>1. RoundedPositive(n, d) = r
  BY DEF RoundedPositive
<1>2. r \in Int /\ r * (2 * d) <= 2 * n + d /\ 2 * n + d < (r + 1) * (2 * d)
  <2>1. 2 * n + d \in Int /\ 2 * d \in Nat \ {0}
    OBVIOUS
  <2> HIDE DEF r
  <2>2. \A x \in Int, k \in Nat \ {0} :
          x \div k \in Int /\ (x \div k) * k <= x /\ x < (x \div k + 1) * k
    BY Quotient
  <2> QED
    BY <2>1, <2>2 DEF r
<1> HIDE DEF r
<1>3. 2 * (r * d) <= 2 * n + d /\ 2 * n < 2 * (r * d) + d
  BY <1>2
<1>4. 1 < r + 1
  <2>1. 1 * (2 * d) < (r + 1) * (2 * d)
    BY <1>2
  <2> QED
    BY <1>2, <2>1, Cancel
<1>5. r < Largest + 1
  <2>1. r * (2 * d) < (Largest + 1) * (2 * d)
    BY <1>2
  <2> QED
    BY <1>2, <2>1, Cancel
<1> QED
  BY <1>1, <1>2, <1>3, <1>4, <1>5

LEMMA RoundedRange ==
  ASSUME NEW n \in Nat, NEW d \in Nat \ {0}
  PROVE  RoundedPositive(n, d) \in 1 .. Largest
<1>1. CASE d <= n /\ n <= Largest * d
  BY <1>1, RoundedNear
<1>2. CASE n < d \/ n > Largest * d
  BY <1>2 DEF RoundedPositive
<1> QED
  BY <1>1, <1>2

LEMMA RoundedMonotone ==
  ASSUME NEW n \in Nat, NEW m \in Nat, NEW d \in Nat \ {0}, n <= m
  PROVE  RoundedPositive(n, d) <= RoundedPositive(m, d)
<1>1. CASE n < d
  BY <1>1, RoundedRange DEF RoundedPositive
<1>2. CASE m > Largest * d
  <2>1. d <= Largest * d
    BY TimesMonotone
  <2> QED
    BY <1>2, <2>1, RoundedRange DEF RoundedPositive
<1>3. CASE d <= n /\ m <= Largest * d
  <2>1. (2 * n + d) \div (2 * d) <= (2 * m + d) \div (2 * d)
    BY QuotientMonotone
  <2> QED
    BY <1>3, <2>1 DEF RoundedPositive
<1> QED
  BY <1>1, <1>2, <1>3

(* Rounding a multiple of the divisor changes nothing.                      *)
LEMMA RoundedExact ==
  ASSUME NEW r \in 1 .. Largest, NEW n \in Nat, NEW d \in Nat \ {0},
         2 * (r * d) <= 2 * n + d, 2 * n < 2 * (r * d) + d
  PROVE  RoundedPositive(n, d) = r
<1>1. d <= r * d /\ r * d <= Largest * d
  BY TimesMonotone
<1>2. CASE n < d
  <2>1. (r - 1) * (2 * d) < 1 * (2 * d)
    BY <1>2
  <2>2. r - 1 < 1
    BY <2>1, Cancel
  <2> QED
    BY <1>2, <2>2 DEF RoundedPositive
<1>3. CASE n > Largest * d /\ ~(n < d)
  <2>1. (2 * Largest) * d < (2 * r + 1) * d
    BY <1>3
  <2>2. 2 * Largest < 2 * r + 1
    BY <2>1, Cancel
  <2> QED
    BY <1>3, <2>2 DEF RoundedPositive
<1>4. CASE d <= n /\ n <= Largest * d
  <2> DEFINE q == RoundedPositive(n, d)
  <2>1. q \in 1 .. Largest /\ 2 * (q * d) <= 2 * n + d /\ 2 * n < 2 * (q * d) + d
    BY <1>4, RoundedNear
  <2>2. q \in Int /\ q = (2 * n + d) \div (2 * d)
    BY <1>4, <2>1 DEF RoundedPositive
  <2> HIDE DEF q
  <2>3. 2 * n + d < (q + 1) * (2 * d)
    <3>1. 2 * n + d \in Nat /\ 2 * d \in Nat \ {0}
      OBVIOUS
    <3>2. 2 * n + d < ((2 * n + d) \div (2 * d) + 1) * (2 * d)
      BY <3>1, Quotient
    <3> QED
      BY <2>2, <3>2
  <2>4. r * (2 * d) < (q + 1) * (2 * d)
    BY <2>2, <2>3
  <2>5. q * (2 * d) < (r + 1) * (2 * d)
    BY <2>1, <2>2
  <2>6. r < q + 1 /\ q < r + 1
    BY <2>2, <2>4, <2>5, Cancel
  <2> QED
    BY <2>2, <2>6 DEF q
<1> QED
  BY <1>2, <1>3, <1>4

(* Scaling up and back down gives the size one started with.                *)
LEMMA UpAndDown ==
  ASSUME NEW m \in 1 .. Largest, NEW a \in Nat \ {0}, NEW b \in Nat \ {0},
         b <= a, m * a <= Largest * b
  PROVE  RoundedPositive(RoundedPositive(m * a, b) * b, a) = m
<1> DEFINE p == RoundedPositive(m * a, b)
<1>1. m * a \in Nat /\ b <= m * a
  BY TimesMonotone
<1>2. p \in 1 .. Largest /\ 2 * (p * b) <= 2 * (m * a) + b /\ 2 * (m * a) < 2 * (p * b) + b
  BY <1>1, RoundedNear
<1> HIDE DEF p
<1>3. p * b \in Nat
  BY <1>2
<1>4. ASSUME b < a PROVE RoundedPositive(p * b, a) = m
  BY <1>1, <1>2, <1>3, <1>4, RoundedExact
<1>5. ASSUME b = a PROVE RoundedPositive(p * b, a) = m
  <2>1. m * a < (p + 1) * a /\ p * a < (m + 1) * a
    BY <1>2, <1>5
  <2>2. m < p + 1 /\ p < m + 1
    BY <1>2, <2>1, Cancel
  <2>3. p = m
    BY <1>2, <2>2
  <2> QED
    BY <1>1, <1>3, <1>5, <2>3, RoundedExact
<1> QED
  BY <1>4, <1>5 DEF p

(* And down and back up, from a size that was reached by scaling up (here   *)
(* a is smaller than b): the first size comes back, at the end of the range *)
(* too.                                                                     *)
LEMMA DownAndUp ==
  ASSUME NEW m \in 1 .. Largest, NEW a \in Nat \ {0}, NEW b \in Nat \ {0}, a < b
  PROVE  LET p == RoundedPositive(m * a, b)
         IN  RoundedPositive(RoundedPositive(p * b, a) * a, b) = p
<1> DEFINE p == RoundedPositive(m * a, b)
           q == RoundedPositive(p * b, a)
<1>1. m * a \in Nat /\ p \in 1 .. Largest /\ p * b \in Nat
  <2>1. m * a \in Nat
    OBVIOUS
  <2>2. p \in 1 .. Largest
    BY <2>1, RoundedRange
  <2> QED
    BY <2>1, <2>2
<1>2. ASSUME p * b <= Largest * a PROVE RoundedPositive(q * a, b) = p
  BY <1>1, <1>2, UpAndDown
<1>3. ASSUME p * b > Largest * a PROVE RoundedPositive(q * a, b) = p
  <2>1. a <= p * b
    <3>1. 1 * b <= p * b
      BY <1>1, TimesMonotone
    <3> QED
      BY <1>1, <3>1
  <2>2. q = Largest
    BY <1>1, <1>3, <2>1 DEF RoundedPositive
  <2>3. m * a <= Largest * a
    BY TimesMonotone
  <2>4. p <= RoundedPositive(Largest * a, b)
    BY <1>1, <2>3, RoundedMonotone
  <2>5. RoundedPositive(Largest * a, b) <= RoundedPositive(p * b, b)
    BY <1>1, <1>3, RoundedMonotone
  <2>6. RoundedPositive(p * b, b) = p
    <3>1. 2 * (p * b) <= 2 * (p * b) + b /\ 2 * (p * b) < 2 * (p * b) + b
      BY <1>1
    <3> HIDE DEF p
    <3> QED
      BY <1>1, <3>1, RoundedExact
  <2>7. RoundedPositive(Largest * a, b) \in 1 .. Largest
    BY RoundedRange
  <2> QED
    BY <1>1, <2>2, <2>4, <2>5, <2>6, <2>7
<1> QED
  BY <1>1, <1>2, <1>3

(* Down and back up from any size that has a logical one: half a unit of     *)
(* each kind is lost at most.                                               *)
LEMMA DownAndUpNear ==
  ASSUME NEW v \in 1 .. Largest, NEW a \in Nat \ {0}, NEW b \in Nat \ {0},
         a <= v * b, v * b <= Largest * a
  PROVE  LET p == RoundedPositive(RoundedPositive(v * b, a) * a, b)
         IN  2 * b * (p - v) <= a + b /\ 2 * b * (v - p) <= a + b
<1> DEFINE m == RoundedPositive(v * b, a)
           p == RoundedPositive(m * a, b)
<1>1. m \in 1 .. Largest /\ 2 * (m * a) <= 2 * (v * b) + a /\ 2 * (v * b) < 2 * (m * a) + a
  <2>1. v * b \in Nat
    OBVIOUS
  <2> QED
    BY <2>1, RoundedNear
<1> HIDE DEF m
<1>2. m * a \in Nat /\ v * b \in Nat /\ Largest * b \in Nat
  BY <1>1
<1>3. p \in 1 .. Largest
  BY <1>2, RoundedRange
<1>4. 2 * (p * b) <= 2 * (v * b) + a + b /\ 2 * (v * b) <= 2 * (p * b) + a + b
  <2>1. CASE b <= m * a /\ m * a <= Largest * b
    <3>1. 2 * (p * b) <= 2 * (m * a) + b /\ 2 * (m * a) < 2 * (p * b) + b
      BY <1>2, <2>1, RoundedNear
    <3> HIDE DEF p
    <3> QED
      BY <1>1, <1>2, <1>3, <3>1
  <2>2. CASE m * a < b
    <3>1. p = 1
      BY <2>2 DEF RoundedPositive
    <3>2. 1 * b <= v * b
      BY TimesMonotone
    <3> QED
      BY <1>1, <1>2, <2>2, <3>1, <3>2
  <2>3. CASE m * a > Largest * b
    <3>1. p = Largest
      <4>1. 1 * b <= Largest * b
        BY TimesMonotone
      <4> QED
        BY <1>2, <2>3, <4>1 DEF RoundedPositive
    <3>2. v * b <= Largest * b
      BY TimesMonotone
    <3> QED
      BY <1>1, <1>2, <2>3, <3>1, <3>2
  <2> QED
    BY <1>2, <2>1, <2>2, <2>3
<1> HIDE DEF p
<1>5. 2 * b * (p - v) <= a + b /\ 2 * b * (v - p) <= a + b
  <2>1. 2 * b * (p - v) = 2 * (p * b) - 2 * (v * b) /\ 2 * b * (v - p) = 2 * (v * b) - 2 * (p * b)
    BY <1>3
  <2>2. p * b \in Int /\ v * b \in Int
    BY <1>3
  <2> QED
    BY <1>4, <2>1, <2>2
<1> QED
  BY <1>5 DEF p, m
-----------------------------------------------------------------------------
(* The invariant. *)

LEMMA ToLogicalRange ==
  ASSUME TypeOK, NEW v \in Nat PROVE ToLogical(v) \in 1 .. Largest
<1>1. scale.num \in Nat \ {0} /\ scale.den \in Nat \ {0}
  BY DEF TypeOK
<1>2. v * scale.den \in Nat
  BY <1>1
<1> QED
  BY <1>1, <1>2, RoundedRange DEF ToLogical

LEMMA ToPhysicalRange ==
  ASSUME TypeOK, NEW v \in Nat PROVE ToPhysical(v) \in 1 .. Largest
<1>1. scale.num \in Nat \ {0} /\ scale.den \in Nat \ {0}
  BY DEF TypeOK
<1>2. v * scale.num \in Nat
  BY <1>1
<1> QED
  BY <1>1, <1>2, RoundedRange DEF ToPhysical

LEMMA BoundsInOrder ==
  ASSUME TypeOK, minimum <= maximum PROVE ToPhysical(minimum) <= ToPhysical(maximum)
<1>1. minimum * scale.num \in Nat /\ maximum * scale.num \in Nat
      /\ minimum * scale.num <= maximum * scale.num
  BY TimesMonotone DEF TypeOK
<1> QED
  BY <1>1, RoundedMonotone DEF ToPhysical, TypeOK

LEMMA InitInv == Init => SizingInv
BY DEF Init, SizingInv, TypeOK, Larger, Maximum

LEMMA SetScaleInv == ASSUME SizingInv, NEW s \in Scales, SetScale(s) PROVE SizingInv'
BY DEF SetScale, SizingInv, TypeOK, bounds

\* A size of any kind may be set, not only one of those the runs name.
LEMMA SetSizeInv ==
  ASSUME SizingInv, NEW v \in 0 .. Largest, SetPhysicalSize(v) PROVE SizingInv'
<1>0. TypeOK
  BY DEF SizingInv
<1>1. Larger(1, v) \in Nat /\ (v # 0 => Larger(1, v) = v)
  BY DEF Larger
<1>2. ToLogical(Larger(1, v)) \in 1 .. Largest
  BY <1>0, <1>1, ToLogicalRange
<1>3. TypeOK'
  BY <1>0, <1>1, <1>2 DEF SetPhysicalSize, TypeOK, bounds
<1>4. (set # 0 => logical = ToLogical(set))'
  BY <1>1 DEF SetPhysicalSize, ToLogical
<1> QED
  BY <1>3, <1>4 DEF SetPhysicalSize, SizingInv, bounds, ToPhysical

LEMMA AdjustSizeInv ==
  ASSUME SizingInv, NEW v \in Sizes, AdjustPhysicalSize(v) PROVE SizingInv'
<1>0. TypeOK
  BY DEF SizingInv
<1>1. /\ ToPhysical(minimum) \in 1 .. Largest /\ ToPhysical(maximum) \in 1 .. Largest
      /\ ToPhysical(minimum) <= ToPhysical(maximum)
  BY <1>0, ToPhysicalRange, BoundsInOrder DEF SizingInv, TypeOK
<1>2. offered' \in ToPhysical(minimum) .. ToPhysical(maximum)
  BY <1>1 DEF AdjustPhysicalSize, Clamp
<1> QED
  BY <1>0, <1>1, <1>2
     DEF AdjustPhysicalSize, SizingInv, TypeOK, bounds, ToPhysical, ToLogical

LEMMA SizingStutters == SizingInv /\ UNCHANGED vars => SizingInv'
BY DEF vars, bounds, SizingInv, TypeOK, ToPhysical, ToLogical

LEMMA NextInv == SizingInv /\ [Next]_vars => SizingInv'
BY SetScaleInv, SetSizeInv, AdjustSizeInv, SizingStutters, SizingAssumption DEF Next

(* The size set last and the size offered last mean what they should at the *)
(* present scale.                                                           *)
THEOREM SizingInvariant == Spec => []SizingInv
BY InitInv, NextInv, PTL DEF Spec

LEMMA InvClampIsDefined == SizingInv => ClampIsDefined
BY BoundsInOrder DEF SizingInv, ClampIsDefined

(* adjustPhysicalSize() always calls std::clamp with ordered bounds.        *)
THEOREM ClampIsAlwaysDefined == Spec => []ClampIsDefined
BY InvClampIsDefined, SizingInvariant, PTL
-----------------------------------------------------------------------------
(* What the properties say. *)

LEMMA InvOfferedSizesFit == SizingInv => OfferedSizesFit
<1> SUFFICES ASSUME SizingInv, set # 0, set = offered, scale.num >= scale.den,
                    maximum * scale.num <= Largest * scale.den
             PROVE  logical \in minimum .. maximum
  BY DEF OfferedSizesFit
<1>1. TypeOK /\ minimum <= maximum /\ logical = ToLogical(set)
      /\ set \in ToPhysical(minimum) .. ToPhysical(maximum)
  BY DEF SizingInv
<1>2. /\ scale.num \in Nat \ {0} /\ scale.den \in Nat \ {0} /\ set \in 1 .. Largest
      /\ minimum \in 1 .. Largest /\ maximum \in 1 .. Largest
  BY <1>1 DEF TypeOK
<1>3. minimum * scale.num <= maximum * scale.num
  BY <1>1, <1>2, TimesMonotone
<1>4. ToLogical(ToPhysical(maximum)) = maximum
  BY <1>2, UpAndDown DEF ToLogical, ToPhysical
<1>5. minimum * scale.num <= Largest * scale.den
  BY <1>2, <1>3
<1>6. ToLogical(ToPhysical(minimum)) = minimum
  BY <1>2, <1>5, UpAndDown DEF ToLogical, ToPhysical
<1>7. /\ ToPhysical(minimum) \in 1 .. Largest /\ ToPhysical(maximum) \in 1 .. Largest
  BY <1>1, <1>2, ToPhysicalRange
<1>8. ToLogical(ToPhysical(minimum)) <= ToLogical(set)
  <2>1. ToPhysical(minimum) * scale.den <= set * scale.den
    BY <1>1, <1>2, <1>7, TimesMonotone
  <2> QED
    BY <1>2, <1>7, <2>1, RoundedMonotone DEF ToLogical
<1>9. ToLogical(set) <= ToLogical(ToPhysical(maximum))
  <2>1. set * scale.den <= ToPhysical(maximum) * scale.den
    BY <1>1, <1>2, <1>7, TimesMonotone
  <2> QED
    BY <1>2, <1>7, <2>1, RoundedMonotone DEF ToLogical
<1> QED
  BY <1>1, <1>2, <1>4, <1>6, <1>8, <1>9, ToLogicalRange

(* A size that adjust_size() offered respects the plug-in's bounds once it  *)
(* is set, at every scale of 100% and more.                                 *)
THEOREM OfferedSizesAlwaysFit == Spec => []OfferedSizesFit
BY InvOfferedSizesFit, SizingInvariant, PTL

LEMMA StepStays ==
  ASSUME SizingInv, SetsWhatItWasTold,
         logical' = logical \/ logical' = ToLogical(physical)
  PROVE  Stays
<1>1. TypeOK /\ scale' = scale /\ set' = physical
  BY DEF SizingInv, SetsWhatItWasTold
<1>2. /\ scale.num \in Nat \ {0} /\ scale.den \in Nat \ {0} /\ logical \in 1 .. Largest
      /\ logical * scale.num <= Largest * scale.den
  BY <1>1 DEF TypeOK, SetsWhatItWasTold
<1>3. physical \in 1 .. Largest
  BY <1>1, <1>2, ToPhysicalRange DEF physical
<1>4. CASE logical' = logical
  BY <1>1, <1>4 DEF Stays, physical, ToPhysical
<1>5. CASE logical' = ToLogical(physical)
  <2>1. CASE scale.num >= scale.den
    <3>1. ToLogical(physical) = logical
      BY <1>2, <2>1, UpAndDown DEF ToLogical, physical, ToPhysical
    <3> QED
      BY <1>1, <1>5, <3>1 DEF Stays, physical, ToPhysical
  <2>2. CASE scale.num < scale.den
    <3>1. ToPhysical(ToLogical(physical)) = physical
      BY <1>2, <2>2, DownAndUp DEF ToLogical, physical, ToPhysical
    <3> QED
      BY <1>1, <1>2, <1>5, <2>2, <3>1 DEF Stays, physical, ToPhysical
  <2> QED
    BY <1>2, <2>1, <2>2
<1> QED
  BY <1>4, <1>5

(* Setting the size that was reported changes neither that size nor, from   *)
(* 100% on, the layout.                                                     *)
THEOREM SizesDoNotDrift == Spec => NoDrift
<1>1. SizingInv /\ [Next]_vars => (SetsWhatItWasTold => Stays)
  <2> SUFFICES ASSUME SizingInv, [Next]_vars, SetsWhatItWasTold PROVE Stays
    OBVIOUS
  <2>1. physical \in 1 .. Largest /\ set' = physical
    BY ToPhysicalRange DEF SizingInv, TypeOK, physical, SetsWhatItWasTold
  <2>2. logical' = logical \/ logical' = ToLogical(physical)
    BY <2>1 DEF Next, SetScale, SetPhysicalSize, AdjustPhysicalSize, vars, Larger
  <2> QED
    BY <2>2, StepStays
<1> QED
  BY <1>1, SizingInvariant, PTL DEF Spec, NoDrift

LEMMA InvSetSizeIsNearlyKept == SizingInv => SetSizeIsNearlyKept
<1> SUFFICES ASSUME SizingInv, set * scale.den \in scale.num .. Largest * scale.num
             PROVE  /\ 2 * scale.den * (physical - set) <= scale.num + scale.den
                    /\ 2 * scale.den * (set - physical) <= scale.num + scale.den
  BY DEF SetSizeIsNearlyKept
<1>1. scale.num \in Nat \ {0} /\ scale.den \in Nat \ {0} /\ set \in 0 .. Largest
  BY DEF SizingInv, TypeOK
<1>2. scale.num <= set * scale.den /\ set * scale.den <= Largest * scale.num
  BY <1>1
<1>3. set # 0
  BY <1>1, <1>2
<1>4. set \in 1 .. Largest
  BY <1>1, <1>3
<1>5. physical = RoundedPositive(RoundedPositive(set * scale.den, scale.num) * scale.num, scale.den)
  BY <1>3 DEF SizingInv, physical, ToPhysical, ToLogical
<1> QED
  BY <1>1, <1>2, <1>4, <1>5, DownAndUpNear

(* A size the host sets is kept but for rounding: setPhysicalSize() and then *)
(* getPhysicalSize() lose half a logical unit and half a pixel at most.     *)
THEOREM SetSizesAreNearlyKept == Spec => []SetSizeIsNearlyKept
BY InvSetSizeIsNearlyKept, SizingInvariant, PTL
=============================================================================
