----------------------------- MODULE GuiSizing -----------------------------
(***************************************************************************)
(* PhysicalPixelGuiSizing: the editor's size is kept in logical units,     *)
(* told to the host in physical pixels, and the host's physical sizes are  *)
(* turned back into logical ones.  Width and height never meet in the      *)
(* code; this module is about either.                                      *)
(*                                                                         *)
(* The scale is a fraction, and products and quotients are exact; those of *)
(* the doubles in the code are, too, for the scales displays have unless a *)
(* quotient falls on a half.                                               *)
(***************************************************************************)
EXTENDS Integers

CONSTANTS Largest,   \* the largest size, UINT32_MAX in the code
          Scales,    \* the scales the host may set: [num, den]
          Sizes      \* the sizes the plug-in and the host may name

ASSUME SizingAssumption ==
  /\ Largest \in Nat \ {0}
  /\ Scales \subseteq [num : Int, den : Nat \ {0}]
  /\ Sizes \subseteq 0 .. Largest

VARIABLES scale,
          logical, minimum, maximum,  \* logicalWidth_, minimumLogicalWidth_ ...
          set,      \* ghost: the size the host set last, at this scale, or 0
          offered   \* ghost: the size adjust_size() last gave it, or 0

bounds == <<minimum, maximum>>
vars == <<scale, logical, bounds, set, offered>>

Larger(a, b) == IF a < b THEN b ELSE a
Clamp(v, low, high) == IF v < low THEN low ELSE IF high < v THEN high ELSE v

\* Faulty variant: the fraction is cut off.
CutPositive(n, d) == Clamp(n \div d, 1, Largest)

\* roundedPositive(n / d): clamped, then rounded, halves up.
RoundedPositive(n, d) ==
  IF n < d THEN 1 ELSE IF n > Largest * d THEN Largest ELSE (2 * n + d) \div (2 * d)

ToPhysical(v) == RoundedPositive(v * scale.num, scale.den)
ToLogical(v) == RoundedPositive(v * scale.den, scale.num)

\* getPhysicalSize.
physical == ToPhysical(logical)

\* Faulty variant: a maximum below the minimum is kept.
KeptMaximum(low, high) == Larger(high, 1)

\* The constructor's maximum: never below the minimum.
Maximum(low, high) == Larger(high, Larger(1, low))

Init ==
  /\ scale = [num |-> 1, den |-> 1]
  /\ \E size, low, high \in Sizes :
       /\ logical = Larger(1, size)
       /\ minimum = Larger(1, low)
       /\ maximum = Maximum(low, high)
  /\ set = 0 /\ offered = 0

\* Faulty variant: any scale is taken.
SetScaleUnchecked(s) ==
  /\ scale' = s
  /\ set' = 0 /\ offered' = 0
  /\ UNCHANGED <<logical, bounds>>

\* A scale that is not positive (or not finite) is refused.
SetScale(s) ==
  /\ s.num > 0
  /\ scale' = s
  /\ set' = 0 /\ offered' = 0
  /\ UNCHANGED <<logical, bounds>>

SetPhysicalSize(v) ==
  /\ logical' = ToLogical(Larger(1, v))
  /\ set' = v
  /\ UNCHANGED <<scale, bounds, offered>>

\* Faulty variant: logical bounds are applied to a physical size.
AdjustToLogicalBounds(v) ==
  /\ offered' = Clamp(v, minimum, maximum)
  /\ UNCHANGED <<scale, logical, bounds, set>>

AdjustPhysicalSize(v) ==
  /\ offered' = Clamp(v, ToPhysical(minimum), ToPhysical(maximum))
  /\ UNCHANGED <<scale, logical, bounds, set>>

Next ==
  \/ \E s \in Scales : SetScale(s)
  \/ \E v \in Sizes : SetPhysicalSize(v) \/ AdjustPhysicalSize(v)

Spec == Init /\ [][Next]_vars
-----------------------------------------------------------------------------
(* Properties. *)

TypeOK ==
  /\ scale \in [num : Nat \ {0}, den : Nat \ {0}]
  /\ logical \in 1 .. Largest
  /\ minimum \in 1 .. Largest /\ maximum \in 1 .. Largest
  /\ set \in 0 .. Largest /\ offered \in 0 .. Largest

(* The logical size is the one the last size set stands for, and a size     *)
(* that was offered lies between the bounds as they are at this scale.      *)
SizingInv ==
  /\ TypeOK
  /\ minimum <= maximum
  /\ set # 0 => logical = ToLogical(set)
  /\ offered # 0 => offered \in ToPhysical(minimum) .. ToPhysical(maximum)

(* adjustPhysicalSize() never calls std::clamp with its bounds the wrong    *)
(* way round, which would be undefined, at any scale.                       *)
ClampIsDefined == ToPhysical(minimum) <= ToPhysical(maximum)

(* A size that adjust_size() has offered and set_size() then sets respects  *)
(* the plug-in's logical bounds, at every scale of 100% and more at which   *)
(* those bounds are sizes still.                                            *)
OfferedSizesFit ==
  /\ set # 0 /\ set = offered
  /\ scale.num >= scale.den /\ maximum * scale.num <= Largest * scale.den
  => logical \in minimum .. maximum

(* A size the host sets is kept but for rounding: what is reported          *)
(* afterwards differs by half a logical unit and half a pixel at most.      *)
(* (A size of less than one logical unit, or one beyond the range of sizes  *)
(* when it is scaled, is out of reach.)                                     *)
SetSizeIsNearlyKept ==
  set * scale.den \in scale.num .. Largest * scale.num =>
    /\ 2 * scale.den * (physical - set) <= scale.num + scale.den
    /\ 2 * scale.den * (set - physical) <= scale.num + scale.den

(* Sizes do not drift: a host that sets the size it was told, as often as   *)
(* it likes, sees that size stay, and from 100% on the layout stays as it   *)
(* is too.  (A layout too large to be told in pixels is out of reach.)      *)
Stays == physical' = physical /\ (scale.num >= scale.den => logical' = logical)
SetsWhatItWasTold ==
  set' = physical /\ UNCHANGED scale /\ logical * scale.num <= Largest * scale.den
NoDrift == [][SetsWhatItWasTold => Stays]_vars

(* The comment on setPhysicalSize() says that the size the host sets is     *)
(* used exactly and never silently changed.                                 *)
SetSizeIsExact == set # 0 => physical = set
=============================================================================
