--------------------------- MODULE StateFileProofs ---------------------------
(***************************************************************************)
(* Proofs about StateFile, for every format, every build and every stream: *)
(* which values a load changes, however far it gets, and which of them the *)
(* host may miss; that what is saved is a state, that a load reads just    *)
(* what it is given, and that what was saved comes back.                   *)
(*                                                                         *)
(* The last three rest on what bytes stand for (a number is written and    *)
(* read back), on where the pieces of a state lie, and on two invariants,  *)
(* of the file being written and of the stream being read.                 *)
(***************************************************************************)
EXTENDS StateReload, TLAPS, WellFoundedInduction

(* Induction, without an operator: S is the set of the numbers for which    *)
(* the statement holds.                                                     *)
LEMMA Induction ==
  ASSUME NEW S, 0 \in S, \A n \in Nat : n \in S => n + 1 \in S
  PROVE  Nat \subseteq S
<1> DEFINE T == Nat \ S
           R == OpToRel(<, Nat)
<1>1. SUFFICES ASSUME T # {} PROVE FALSE
  OBVIOUS
<1>2. IsWellFoundedOn(R, Nat)
  BY NatLessThanWellFounded
<1>3. T \subseteq Nat
  OBVIOUS
<1> HIDE DEF R
<1>4. PICK x \in T : \A y \in T : ~ (<<y, x>> \in R)
  BY <1>1, <1>2, <1>3, WFMin
<1>5. x # 0 /\ x - 1 \in Nat /\ x - 1 \notin S
  OBVIOUS
<1>6. <<x - 1, x>> \in R
  BY <1>5 DEF R, OpToRel
<1> QED
  BY <1>4, <1>5, <1>6

(* A loop over the natural numbers computes something: f[n] is what it has  *)
(* after n rounds.                                                          *)
LoopOf(f, V, first, step) ==
  f \in [Nat -> V] /\ f[0] = first /\ \A n \in Nat : f[n + 1] = step[<<n, f[n]>>]

LEMMA Loop ==
  ASSUME NEW V, NEW first \in V, NEW step \in [Nat \X V -> V]
  PROVE  \E f : LoopOf(f, V, first, step)
<1> DEFINE Runs(n) == {f \in [0 .. n -> V] :
                         f[0] = first /\ \A m \in 0 .. n - 1 : f[m + 1] = step[<<m, f[m]>>]}
<1>1. \A n \in Nat : Runs(n) # {}
  <2> DEFINE S == {n \in Nat : Runs(n) # {}}
  <2>1. 0 \in S
    <3>1. [m \in 0 .. 0 |-> first] \in Runs(0)
      OBVIOUS
    <3> QED
      BY <3>1
  <2>2. ASSUME NEW n \in Nat, n \in S PROVE n + 1 \in S
    <3>1. PICK f : f \in Runs(n)
      BY <2>2
    <3> DEFINE g == [m \in 0 .. n + 1 |-> IF m <= n THEN f[m] ELSE step[<<n, f[n]>>]]
    <3>2. f[n] \in V
      BY <3>1
    <3>3. step[<<n, f[n]>>] \in V
      BY <3>2
    <3>4. g \in [0 .. n + 1 -> V] /\ g[0] = first
      BY <3>1, <3>3
    <3>5. \A m \in 0 .. n : g[m + 1] = step[<<m, g[m]>>]
      <4>1. \A m \in 0 .. n - 1 : f[m + 1] = step[<<m, f[m]>>] /\ g[m] = f[m] /\ g[m + 1] = f[m + 1]
        BY <3>1
      <4>2. g[n] = f[n] /\ g[n + 1] = step[<<n, f[n]>>]
        OBVIOUS
      <4>3. \A m \in 0 .. n : m \in 0 .. n - 1 \/ m = n
        OBVIOUS
      <4> HIDE DEF g
      <4> QED
        BY <4>1, <4>2, <4>3
    <3>6. g \in Runs(n + 1)
      <4>1. n + 1 - 1 = n
        OBVIOUS
      <4> HIDE DEF g
      <4> QED
        BY <3>4, <3>5, <4>1
    <3> HIDE DEF Runs
    <3> QED
      BY <3>6
  <2> HIDE DEF S
  <2>3. Nat \subseteq S
    BY <2>1, <2>2, Induction
  <2> QED
    BY <2>3 DEF S
<1>2. \A n, k \in Nat : \A f, g : n <= k /\ f \in Runs(n) /\ g \in Runs(k) => f[n] = g[n]
  <2> DEFINE S == {n \in Nat : \A k \in Nat : \A f, g :
                     n <= k /\ f \in Runs(n) /\ g \in Runs(k) => f[n] = g[n]}
  <2>1. 0 \in S
    OBVIOUS
  <2>2. ASSUME NEW n \in Nat, n \in S PROVE n + 1 \in S
    <3>1. SUFFICES ASSUME NEW k \in Nat, NEW f, NEW g, n + 1 <= k, f \in Runs(n + 1), g \in Runs(k)
                   PROVE  f[n + 1] = g[n + 1]
      OBVIOUS
    <3> DEFINE h == [m \in 0 .. n |-> f[m]]
    <3>2. h \in Runs(n)
      BY <3>1
    <3>3. h[n] = f[n]
      OBVIOUS
    <3>4. h[n] = g[n]
      <4> HIDE DEF h, Runs
      <4> QED
        BY <2>2, <3>1, <3>2
    <3>5. f[n + 1] = step[<<n, f[n]>>] /\ g[n + 1] = step[<<n, g[n]>>]
      <4>1. n \in 0 .. (n + 1) - 1 /\ n \in 0 .. k - 1
        BY <3>1
      <4> QED
        BY <3>1, <4>1
    <3> QED
      BY <3>3, <3>4, <3>5
  <2> HIDE DEF S
  <2>3. Nat \subseteq S
    BY <2>1, <2>2, Induction
  <2> QED
    BY <2>3 DEF S
<1> DEFINE run == [n \in Nat |-> CHOOSE f \in Runs(n) : TRUE]
           F == [n \in Nat |-> run[n][n]]
<1>3. \A n \in Nat : run[n] \in Runs(n)
  BY <1>1
<1> HIDE DEF run
<1>4. ASSUME NEW n \in Nat PROVE F[n] \in V /\ F[n + 1] = step[<<n, F[n]>>]
  <2>1. run[n] \in Runs(n) /\ run[n + 1] \in Runs(n + 1)
    BY <1>3
  <2>2. run[n][n] = run[n + 1][n]
    BY <1>2, <2>1
  <2> QED
    BY <2>1, <2>2
<1>5. F[0] = first
  BY <1>3
<1>6. LoopOf(F, V, first, step)
  BY <1>4, <1>5 DEF LoopOf
<1> QED
  BY <1>6
-----------------------------------------------------------------------------
(* Powers and digits. *)

LEMMA BaseIs == Base \in Nat /\ Base > 1
BY FormatAssumption

LEMMA PowerIs ==
  /\ \A n \in Nat : Power[n] \in Nat /\ Power[n + 1] = Base * Power[n]
  /\ Power[0] = 1
<1> DEFINE step == [p \in Nat \X Nat |-> Base * p[2]]
<1>1. step \in [Nat \X Nat -> Nat] /\ 1 \in Nat
  BY BaseIs
<1>2. \A p \in Nat \X Nat : step[p] = Base * p[2]
  OBVIOUS
<1> HIDE DEF step
<1>3. PICK f \in [Nat -> Nat] : f[0] = 1 /\ \A n \in Nat : f[n + 1] = step[<<n, f[n]>>]
  <2>1. \E f : LoopOf(f, Nat, 1, step)
    BY <1>1, Loop
  <2> QED
    BY <2>1 DEF LoopOf
<1>4. \A n \in Nat : f[n + 1] = Base * f[n]
  BY <1>2, <1>3
<1>5. f = [n \in Nat |-> IF n = 0 THEN 1 ELSE Base * f[n - 1]]
  <2>1. ASSUME NEW n \in Nat PROVE f[n] = IF n = 0 THEN 1 ELSE Base * f[n - 1]
    <3>1. n = 0 \/ (n - 1 \in Nat /\ (n - 1) + 1 = n)
      OBVIOUS
    <3> QED
      BY <1>3, <1>4, <3>1
  <2> QED
    BY <1>3, <2>1
<1>6. Power = [n \in Nat |-> IF n = 0 THEN 1 ELSE Base * Power[n - 1]]
  BY <1>5 DEF Power
<1>7. Power[0] = 1 
  BY <1>6
<1>8. ASSUME NEW n \in Nat PROVE Power[n + 1] = Base * Power[n]
  <2>1. n + 1 \in Nat /\ n + 1 # 0 /\ (n + 1) - 1 = n
    OBVIOUS
  <2> QED
    BY <1>6, <2>1
<1>9. \A n \in Nat : Power[n] \in Nat
  <2> DEFINE S == {n \in Nat : Power[n] \in Nat}
  <2>1. 0 \in S
    BY <1>7
  <2>2. ASSUME NEW n \in Nat, n \in S PROVE n + 1 \in S
    <3>1. Power[n] \in Nat
      BY <2>2
    <3>2. Base * Power[n] \in Nat
      BY <3>1, BaseIs
    <3> QED
      BY <1>8, <3>2
  <2> HIDE DEF S
  <2>3. Nat \subseteq S
    BY <2>1, <2>2, Induction
  <2> QED
    BY <2>3 DEF S
<1> QED
  BY <1>7, <1>8, <1>9

LEMMA PowerPositive == \A n \in Nat : Power[n] > 0
<1> DEFINE S == {n \in Nat : Power[n] > 0}
<1>1. 0 \in S
  BY PowerIs
<1>2. ASSUME NEW n \in Nat, n \in S PROVE n + 1 \in S
  <2>1. Power[n] \in Nat /\ Power[n] > 0 /\ Power[n + 1] = Base * Power[n]
    BY <1>2, PowerIs
  <2>2. \A p \in Nat : p > 0 => Base * p > 0
    BY BaseIs
  <2> QED
    BY <2>1, <2>2
<1> HIDE DEF S
<1>3. Nat \subseteq S
  BY <1>1, <1>2, Induction
<1> QED
  BY <1>3 DEF S

LEMMA NumberIs ==
  ASSUME NEW bytes \in Seq(Nat)
  PROVE  \E f : /\ Number(bytes) = f[Len(bytes)] /\ f[0] = 0
                 /\ \A i \in 0 .. Len(bytes) - 1 :
                      f[i + 1] = f[i] + bytes[i + 1] * Power[i]
<1> DEFINE L == Len(bytes)
           step == [p \in Nat \X Nat |->
                      IF p[1] < L THEN p[2] + bytes[p[1] + 1] * Power[p[1]] ELSE p[2]]
<1>1. L \in Nat /\ \A i \in 1 .. L : bytes[i] \in Nat
  OBVIOUS
<1>2. step \in [Nat \X Nat -> Nat]
  <2>1. ASSUME NEW i \in Nat, NEW x \in Nat, i < L PROVE x + bytes[i + 1] * Power[i] \in Nat
    <3>1. bytes[i + 1] \in Nat /\ Power[i] \in Nat
      BY <1>1, <2>1, PowerIs
    <3>2. \A a, b, c \in Nat : a + b * c \in Nat
      OBVIOUS
    <3> QED
      BY <3>1, <3>2
  <2> QED
    BY <2>1
<1>3. PICK f : LoopOf(f, Nat, 0, step)
  <2>1. 0 \in Nat
    OBVIOUS
  <2> HIDE DEF step
  <2> QED
    BY <1>2, <2>1, Loop
<1>4. f[0] = 0 /\ \A i \in 0 .. L - 1 : f[i + 1] = f[i] + bytes[i + 1] * Power[i]
  <2>1. ASSUME NEW i \in 0 .. L - 1 PROVE f[i + 1] = f[i] + bytes[i + 1] * Power[i]
    <3>1. i \in Nat /\ i < L
      BY <1>1
    <3>2. \A n, x \in Nat : n < L => step[<<n, x>>] = x + bytes[n + 1] * Power[n]
      OBVIOUS
    <3> HIDE DEF step, L
    <3>3. f[i] \in Nat /\ f[i + 1] = step[<<i, f[i]>>]
      BY <1>3, <3>1 DEF LoopOf
    <3> QED
      BY <3>1, <3>2, <3>3
  <2> QED
    BY <1>3, <2>1 DEF LoopOf
<1> DEFINE G(g) == g = [i \in 0 .. L |-> IF i = 0 THEN 0 ELSE g[i - 1] + bytes[i] * Power[i - 1]]
           upTo == CHOOSE g : G(g)
<1>5. G([i \in 0 .. L |-> f[i]])
  <2> DEFINE h == [i \in 0 .. L |-> f[i]]
  <2>1. ASSUME NEW i \in 0 .. L
        PROVE  f[i] = IF i = 0 THEN 0 ELSE h[i - 1] + bytes[i] * Power[i - 1]
    <3>1. CASE i = 0
      BY <1>4, <3>1
    <3>2. CASE i # 0
      <4>1. i - 1 \in 0 .. L - 1 /\ (i - 1) + 1 = i /\ i - 1 \in 0 .. L
        BY <1>1, <3>2
      <4>2. f[i] = f[i - 1] + bytes[i] * Power[i - 1]
        BY <1>4, <4>1
      <4> QED
        BY <3>2, <4>1, <4>2
    <3> QED
      BY <3>1, <3>2
  <2> QED
    BY <2>1
<1>6. G(upTo)
  <2> HIDE DEF G
  <2> QED
    BY <1>5
<1>7. Number(bytes) = upTo[L]
  BY DEF Number
<1> HIDE DEF upTo
<1>8. upTo[0] = 0
  BY <1>1, <1>6
<1>9. ASSUME NEW i \in 0 .. L - 1 PROVE upTo[i + 1] = upTo[i] + bytes[i + 1] * Power[i]
  <2>1. i + 1 \in 0 .. L /\ i + 1 # 0 /\ (i + 1) - 1 = i
    BY <1>1
  <2> QED
    BY <1>6, <2>1
<1> QED
  BY <1>7, <1>8, <1>9

(* Little-endian bytes stand for less than the power of their number.       *)
LEMMA NumberBound ==
  ASSUME NEW bytes \in Seq(Byte)
  PROVE  Number(bytes) \in Nat /\ Number(bytes) < Power[Len(bytes)]
<1> DEFINE L == Len(bytes)
<1>1. L \in Nat /\ bytes \in Seq(Nat) /\ \A i \in 1 .. L : bytes[i] \in 0 .. Base - 1
  BY BaseIs DEF Byte
<1>2. PICK f : /\ Number(bytes) = f[L] /\ f[0] = 0
               /\ \A i \in 0 .. L - 1 : f[i + 1] = f[i] + bytes[i + 1] * Power[i]
  BY <1>1, NumberIs
<1> DEFINE S == {n \in Nat : n <= L => f[n] \in Nat /\ f[n] < Power[n]}
<1>3. 0 \in S
  <2>1. Power[0] = 1 /\ f[0] = 0
    BY <1>2, PowerIs
  <2> QED
    BY <2>1
<1>4. ASSUME NEW n \in Nat, n \in S PROVE n + 1 \in S
  <2>1. SUFFICES ASSUME n < L PROVE f[n + 1] \in Nat /\ f[n + 1] < Power[n + 1]
    BY <1>1
  <2>2. f[n] \in Nat /\ f[n] < Power[n]
    BY <1>1, <1>4, <2>1
  <2>3. bytes[n + 1] \in Nat /\ bytes[n + 1] <= Base - 1
    BY <1>1, <2>1
  <2>4. f[n + 1] = f[n] + bytes[n + 1] * Power[n] /\ Power[n + 1] = Base * Power[n]
    BY <1>1, <1>2, <2>1, PowerIs
  <2>5. \A x, d, P \in Nat : x < P /\ d <= Base - 1 => x + d * P \in Nat /\ x + d * P < Base * P
    <3>1. SUFFICES ASSUME NEW x \in Nat, NEW d \in Nat, NEW P \in Nat, x < P, d <= Base - 1
                   PROVE  x + d * P \in Nat /\ x + d * P < Base * P
      OBVIOUS
    <3>2. d * P <= (Base - 1) * P
      BY <3>1, BaseIs
    <3>3. (Base - 1) * P = Base * P - P
      BY BaseIs
    <3> QED
      BY <3>1, <3>2, <3>3, BaseIs
  <2> QED
    <3>1. Power[n] \in Nat
      BY PowerIs
    <3>2. f[n] + bytes[n + 1] * Power[n] < Base * Power[n] /\ f[n] + bytes[n + 1] * Power[n] \in Nat
      BY <2>2, <2>3, <2>5, <3>1
    <3> QED
      BY <2>4, <3>2
<1> HIDE DEF S
<1>5. Nat \subseteq S
  BY <1>3, <1>4, Induction
<1> QED
  BY <1>1, <1>2, <1>5 DEF S

LEMMA Remainder ==
  ASSUME NEW q \in Nat, NEW m \in Nat \ {0}, NEW r \in 0 .. m - 1
  PROVE  (q * m + r) % m = r
<1> DEFINE x == q * m + r
<1>1. x \in Nat /\ x \div m \in Nat /\ x % m \in 0 .. m - 1 /\ x = (x \div m) * m + (x % m)
  OBVIOUS
<1> DEFINE k == x \div m
<1>2. k \in Nat /\ k * m + (x % m) = q * m + r
  BY <1>1
<1> HIDE DEF k
<1>3. k = q
  <2>1. CASE k < q
    <3>1. (k + 1) * m <= q * m
      BY <2>1, <1>2
    <3> QED
      BY <3>1, <1>1, <1>2
  <2>2. CASE q < k
    <3>1. (q + 1) * m <= k * m
      BY <2>2, <1>2
    <3>2. q * m + m <= k * m
      BY <3>1
    <3> QED
      BY <3>2, <1>1, <1>2
  <2> QED
    BY <2>1, <2>2, <1>2
<1> QED
  BY <1>1, <1>2, <1>3

(* One more digit.                                                          *)
LEMMA NextDigit ==
  ASSUME NEW v \in Nat, NEW p \in Nat \ {0}
  PROVE  v % (Base * p) = (v % p) + ((v \div p) % Base) * p
<1> DEFINE b == Base
           q == v \div p
           r == v % p
<1>1. b \in Nat \ {0}
  BY BaseIs
<1>2. q \in Nat /\ r \in 0 .. p - 1 /\ v = q * p + r
  OBVIOUS
<1> HIDE DEF q, r, b
<1> DEFINE d == q % b
           k == q \div b
<1>3. k \in Nat /\ d \in 0 .. b - 1 /\ q = k * b + d
  BY <1>1, <1>2
<1> HIDE DEF d, k
<1>4. v = k * (b * p) + (r + d * p)
  <2>1. (k * b + d) * p = k * (b * p) + d * p
    BY <1>1, <1>3
  <2>2. v = (k * b + d) * p + r
    BY <1>2, <1>3
  <2>3. \A a, c, e \in Nat : (a + c) + e = a + (e + c)
    OBVIOUS
  <2>4. k * (b * p) \in Nat /\ d * p \in Nat
    BY <1>1, <1>3
  <2> QED
    BY <1>2, <2>1, <2>2, <2>3, <2>4
<1>5. b * p \in Nat \ {0} /\ r + d * p \in 0 .. b * p - 1
  <2>1. d * p <= (b - 1) * p
    BY <1>1, <1>3
  <2>2. (b - 1) * p = b * p - p
    BY <1>1
  <2>3. b * p \in Nat /\ d * p \in Nat /\ b * p # 0
    BY <1>1, <1>3
  <2> QED
    BY <1>2, <2>1, <2>2, <2>3
<1>6. v % (b * p) = r + d * p
  <2> DEFINE m == b * p
             x == r + d * p
  <2>1. m \in Nat \ {0} /\ x \in 0 .. m - 1 /\ v = k * m + x
    BY <1>4, <1>5
  <2> HIDE DEF m, x
  <2>2. v % m = x
    BY <2>1, <1>3, Remainder
  <2> QED
    BY <2>2 DEF m, x
<1> QED
  BY <1>6 DEF b, q, r, d

LEMMA BytesAre ==
  ASSUME NEW v \in Nat, NEW w \in Nat
  PROVE  Bytes(v, w) \in Seq(Byte) /\ Len(Bytes(v, w)) = w
<1>1. ASSUME NEW i \in 1 .. w PROVE (v \div Power[i - 1]) % Base \in Byte
  <2>1. i - 1 \in Nat
    OBVIOUS
  <2>2. Power[i - 1] \in Nat \ {0}
    BY <2>1, PowerIs, PowerPositive
  <2>3. \A p \in Nat \ {0} : v \div p \in Nat
    OBVIOUS
  <2>4. \A x \in Nat : x % Base \in 0 .. Base - 1
    BY BaseIs
  <2> QED
    BY <2>2, <2>3, <2>4 DEF Byte
<1> QED
  BY <1>1 DEF Bytes

(* What was written is read.                                                *)
LEMMA NumberOfBytes ==
  ASSUME NEW v \in Nat, NEW w \in Nat, v < Power[w]
  PROVE  Number(Bytes(v, w)) = v
<1> DEFINE bytes == Bytes(v, w)
<1>1. /\ bytes \in Seq(Nat) /\ Len(bytes) = w
      /\ \A i \in 0 .. w - 1 : bytes[i + 1] = (v \div Power[i]) % Base
  <2>1. bytes \in Seq(Byte) /\ Len(bytes) = w
    BY BytesAre
  <2>2. ASSUME NEW i \in 0 .. w - 1 PROVE bytes[i + 1] = (v \div Power[i]) % Base
    <3>1. i + 1 \in 1 .. w /\ (i + 1) - 1 = i
      OBVIOUS
    <3> QED
      BY <3>1 DEF Bytes
  <2> HIDE DEF bytes
  <2>3. bytes \in Seq(Nat)
    BY <2>1, BaseIs DEF Byte
  <2> QED
    BY <2>1, <2>2, <2>3, Zenon
<1> HIDE DEF bytes
<1>2. PICK f : /\ Number(bytes) = f[w] /\ f[0] = 0
               /\ \A i \in 0 .. w - 1 : f[i + 1] = f[i] + bytes[i + 1] * Power[i]
  BY <1>1, NumberIs
<1> DEFINE S == {n \in Nat : n <= w => f[n] = v % Power[n]}
<1>3. 0 \in S
  <2>1. v % 1 = 0
    OBVIOUS
  <2> QED
    BY <1>2, <2>1, PowerIs
<1>4. ASSUME NEW n \in Nat, n \in S PROVE n + 1 \in S
  <2>1. SUFFICES ASSUME n < w PROVE f[n + 1] = v % Power[n + 1]
    OBVIOUS
  <2>2. f[n] = v % Power[n]
    BY <1>4, <2>1
  <2>3. n \in 0 .. w - 1
    BY <2>1
  <2>4. f[n + 1] = f[n] + bytes[n + 1] * Power[n] /\ bytes[n + 1] = (v \div Power[n]) % Base
    BY <1>1, <1>2, <2>3
  <2>5. Power[n] \in Nat \ {0} /\ Power[n + 1] = Base * Power[n]
    BY PowerIs, PowerPositive
  <2> QED
    BY <2>2, <2>4, <2>5, NextDigit
<1> HIDE DEF S
<1>5. f[w] = v % Power[w]
  <2>1. Nat \subseteq S
    BY <1>3, <1>4, Induction
  <2> QED
    BY <2>1 DEF S
<1>6. v % Power[w] = v
  <2>1. Power[w] \in Nat
    BY PowerIs
  <2>2. \A m \in Nat : v < m => v % m = v
    OBVIOUS
  <2> QED
    BY <2>1, <2>2
<1> QED
  BY <1>2, <1>5, <1>6 DEF bytes
-----------------------------------------------------------------------------
(* What a load changes. *)

\* What OnlyRecordsChangeValues says, at all times: outside a load nothing is
\* restored and the values are the original ones.
RecordsInv ==
  /\ \E S : restored \in Seq(S)
  /\ DOMAIN base = Registered
  /\ \A x \in Registered :
       IF x \in Transient \/ Records(x) = {}
       THEN base[x] = original[x]
       ELSE \A i \in LastRecord(x) : base[x] = clampAndQuantize(restored[i].value)

LEMMA RecordsInit == Init => RecordsInv
<1> SUFFICES ASSUME Init PROVE RecordsInv
  OBVIOUS
<1>1. restored \in Seq({}) /\ DOMAIN restored = {} /\ base = original /\ DOMAIN base = Registered
  BY DEF Init
<1> QED
  BY <1>1 DEF RecordsInv, Records

LEMMA NothingRestored ==
  ASSUME restored' = <<>>, original' = base', DOMAIN base' = Registered
  PROVE  RecordsInv'
<1>1. restored' \in Seq({}) /\ DOMAIN restored' = {}
  OBVIOUS
<1> QED
  BY <1>1 DEF RecordsInv, Records

LEMMA RestoredStays ==
  ASSUME RecordsInv, UNCHANGED <<restored, base, original>> PROVE RecordsInv'
BY DEF RecordsInv, Records, LastRecord

LEMMA RestoredGrows ==
  ASSUME RecordsInv, GotValue PROVE RecordsInv'
<1> DEFINE v == Number(field)
           record == [id |-> id, value |-> v]
<1>1. PICK S : restored \in Seq(S)
  BY DEF RecordsInv
<1>2. /\ restored' = Append(restored, record) /\ base' = RestorePersistentValue(id, v)
      /\ original' = original
  BY DEF GotValue
<1> record.id = id /\ record.value = v
  OBVIOUS
<1> HIDE DEF v, record
<1>3. /\ DOMAIN restored = 1 .. Len(restored) /\ Len(restored) \in Nat
      /\ DOMAIN restored' = 1 .. Len(restored) + 1
      /\ restored'[Len(restored) + 1] = record
      /\ \A i \in 1 .. Len(restored) : restored'[i] = restored[i]
  BY <1>1, <1>2
<1>4. restored' \in Seq(S \cup {record})
  <2>1. restored \in Seq(S \cup {record})
    BY <1>1
  <2> QED
    BY <1>2, <2>1
<1>5. DOMAIN base' = Registered
  BY <1>2 DEF RestorePersistentValue, Kept, RecordsInv
<1>6. ASSUME NEW x \in Registered
      PROVE  IF x \in Transient \/ Records(x)' = {}
             THEN base'[x] = original'[x]
             ELSE \A i \in LastRecord(x)' : base'[x] = clampAndQuantize(restored'[i].value)
  <2>1. CASE x = id /\ x \notin Transient
    <3>1. Len(restored) + 1 \in Records(x)'
      BY <1>3, <2>1 DEF Records
    <3>2. \A i \in LastRecord(x)' : i = Len(restored) + 1
      BY <1>3, <3>1 DEF Records, LastRecord
    <3>3. base'[x] = clampAndQuantize(v)
      BY <1>2, <2>1 DEF RestorePersistentValue, Kept, RecordsInv
    <3> QED
      BY <1>3, <2>1, <3>1, <3>2, <3>3
  <2>3. CASE x \in Transient
    BY <1>2, <2>3 DEF RestorePersistentValue, Kept, RecordsInv
  <2>2. CASE x # id
    <3>1. Records(x)' = Records(x)
      BY <1>3, <2>2 DEF Records
    <3>2. base'[x] = base[x]
      BY <1>2, <2>2 DEF RestorePersistentValue, Kept, RecordsInv
    <3>3. \A i \in Records(x) : restored'[i] = restored[i]
      BY <1>3 DEF Records
    <3> QED
      BY <1>2, <3>1, <3>2, <3>3 DEF RecordsInv, LastRecord
  <2> QED
    BY <2>1, <2>2, <2>3
<1> QED
  BY <1>4, <1>5, <1>6 DEF RecordsInv

LEMMA RecordsNext == RecordsInv /\ [Next]_vars => RecordsInv'
<1> SUFFICES ASSUME RecordsInv, [Next]_vars PROVE RecordsInv'
  OBVIOUS
<1> USE DEF saveVars, loadVars
<1>1. ASSUME NEW x \in Registered, NEW v \in Values, Edit(x, v) PROVE RecordsInv'
  BY <1>1, NothingRestored DEF Edit, Forget, RecordsInv
<1>2. ASSUME NEW extra \in Extras, SaveBegin(extra) PROVE RecordsInv'
  BY <1>2, NothingRestored DEF SaveBegin, Forget, RecordsInv
<1>3. ASSUME NEW stream, LoadBegin(stream) PROVE RecordsInv'
  BY <1>3, NothingRestored DEF LoadBegin, RecordsInv
<1>4. CASE Save \/ WriteFails
  BY <1>4, RestoredStays DEF Save, Write, SaveEnd, WriteFails
<1>5. CASE Read \/ ReadEnd \/ ReadFails \/ GotExtra \/ LoadEnd
  BY <1>5, RestoredStays DEF Read, ReadEnd, ReadFails, GotExtra, LoadEnd
<1>6. CASE GotMagic \/ GotVersion \/ GotCount \/ GotExtraSize \/ GotId
  BY <1>6, RestoredStays
     DEF GotMagic, GotVersion, GotCount, GotExtraSize, GotId, NextField, Refuse
<1>7. CASE GotValue
  BY <1>7, RestoredGrows
<1>8. CASE UNCHANGED vars
  BY <1>8, RestoredStays DEF vars
<1> QED
  BY <1>1, <1>2, <1>3, <1>4, <1>5, <1>6, <1>7, <1>8 DEF Next, Load

(* During a load and after it, however it ends, each parameter has the value *)
(* of its last record that was read, brought into range, or the one it had  *)
(* (State.cpp:134-152, restorePersistentValue).                             *)
THEOREM OnlyRecordsChange == Spec => []OnlyRecordsChangeValues
<1>1. RecordsInv => OnlyRecordsChangeValues
  BY DEF RecordsInv, OnlyRecordsChangeValues
<1> QED
  BY RecordsInit, RecordsNext, <1>1, PTL DEF Spec
-----------------------------------------------------------------------------
(* Where things are in a state. *)

LEMMA Widths ==
  /\ Wide \in Nat \ {0} /\ Long \in Nat \ {0}
  /\ Magic \in Seq(Byte) /\ Len(Magic) \in Nat \ {0}
BY FormatAssumption

LEMMA Header ==
  /\ VersionAt \in Nat /\ VersionAt = Len(Magic)
  /\ CountAt \in Nat /\ CountAt = VersionAt + Wide
  /\ ExtraSizeAt \in Nat /\ ExtraSizeAt = CountAt + Wide
  /\ HeaderSize \in Nat /\ HeaderSize = ExtraSizeAt + Wide
BY Widths DEF VersionAt, CountAt, ExtraSizeAt, HeaderSize

LEMMA FirstRecord == RecordAt(1) = HeaderSize
<1>1. (1 - 1) * (Wide + Long) = 0
  BY Widths
<1> QED
  BY <1>1, Header DEF RecordAt

LEMMA RecordsLie ==
  ASSUME NEW i \in Nat \ {0}, NEW j \in Nat \ {0}
  PROVE  /\ RecordAt(i) \in Nat /\ RecordAt(i) >= HeaderSize
         /\ RecordAt(i + 1) = RecordAt(i) + Wide + Long
         /\ i < j => RecordAt(i) + Wide + Long <= RecordAt(j)
<1> DEFINE step == Wide + Long
<1>1. step \in Nat
  BY Widths
<1>2. RecordAt(i) = HeaderSize + (i - 1) * step /\ RecordAt(j) = HeaderSize + (j - 1) * step
      /\ RecordAt(i + 1) = HeaderSize + (i + 1 - 1) * step
  BY DEF RecordAt
<1> HIDE DEF step
<1>3. (i - 1) * step \in Nat /\ (j - 1) * step \in Nat /\ (i + 1 - 1) * step = (i - 1) * step + step
  BY <1>1
<1>4. i < j => (i - 1) * step + step <= (j - 1) * step
  <2>1. i < j => i * step <= (j - 1) * step
    BY <1>1
  <2> QED
    BY <1>1, <1>3, <2>1
<1>5. RecordAt(i + 1) = RecordAt(i) + step /\ (i < j => RecordAt(i) + step <= RecordAt(j))
  <2> DEFINE mi == (i - 1) * step
             mj == (j - 1) * step
  <2>1. /\ RecordAt(i) = HeaderSize + mi /\ RecordAt(j) = HeaderSize + mj
        /\ RecordAt(i + 1) = HeaderSize + (mi + step)
    BY <1>2, <1>3
  <2>2. mi \in Nat /\ mj \in Nat /\ HeaderSize \in Nat /\ (i < j => mi + step <= mj)
    BY <1>3, <1>4, Header
  <2> HIDE DEF mi, mj
  <2> QED
    BY <1>1, <2>1, <2>2
<1> QED
  BY <1>1, <1>2, <1>3, <1>5, Widths, Header DEF step

LEMMA SliceIs ==
  ASSUME NEW f \in Seq(Byte), NEW at \in Nat, NEW n \in Nat, at + n <= Len(f)
  PROVE  /\ Slice(f, at, n) \in Seq(Byte) /\ Len(Slice(f, at, n)) = n
         /\ \A j \in 1 .. n : Slice(f, at, n)[j] = f[at + j]
BY DEF Slice

LEMMA SameSequence ==
  ASSUME NEW s, NEW t, NEW S, s \in Seq(S), t \in Seq(S), Len(s) = Len(t),
         \A j \in 1 .. Len(s) : s[j] = t[j]
  PROVE  s = t
OBVIOUS

LEMMA ConcatIs ==
  ASSUME NEW S, NEW s \in Seq(S), NEW t \in Seq(S)
  PROVE  /\ s \o t \in Seq(S) /\ Len(s \o t) = Len(s) + Len(t)
         /\ \A k \in 1 .. Len(s) : (s \o t)[k] = s[k]
         /\ \A k \in 1 .. Len(t) : (s \o t)[Len(s) + k] = t[k]
OBVIOUS

LEMMA U32AtIs ==
  ASSUME NEW f \in Seq(Byte), NEW at \in Nat, at + Wide <= Len(f)
  PROVE  U32At(f, at) \in U32 /\ U32At(f, at) \in Nat
<1>1. Slice(f, at, Wide) \in Seq(Byte) /\ Len(Slice(f, at, Wide)) = Wide
  BY SliceIs, Widths
<1>2. Power[Wide] \in Nat
  BY PowerIs, Widths
<1> QED
  BY <1>1, <1>2, NumberBound DEF U32At, U32

\* The first bytes of a file hold the same.
LEMMA SliceOfPart ==
  ASSUME NEW f \in Seq(Byte), NEW part \in Seq(Byte), Len(part) <= Len(f),
         \A j \in 1 .. Len(part) : part[j] = f[j],
         NEW at \in Nat, NEW n \in Nat, at + n <= Len(part)
  PROVE  Slice(part, at, n) = Slice(f, at, n)
<1>1. /\ Slice(part, at, n) \in Seq(Byte) /\ Len(Slice(part, at, n)) = n
      /\ \A j \in 1 .. n : Slice(part, at, n)[j] = part[at + j]
  BY SliceIs
<1>2. /\ Slice(f, at, n) \in Seq(Byte) /\ Len(Slice(f, at, n)) = n
      /\ \A j \in 1 .. n : Slice(f, at, n)[j] = f[at + j]
  BY SliceIs
<1>3. \A j \in 1 .. n : part[at + j] = f[at + j]
  OBVIOUS
<1> QED
  BY <1>1, <1>2, <1>3, SameSequence
-----------------------------------------------------------------------------
(* What is saved, and its pieces. *)

Saved == [id : U32, value : U64]

LEMMA WriteU32Is ==
  ASSUME NEW v \in U32
  PROVE  /\ WriteU32(v) \in Seq(Byte) \ {<<>>} /\ Len(WriteU32(v)) = Wide
         /\ Number(WriteU32(v)) = v
<1>1. v \in Nat /\ v < Power[Wide]
  <2>1. Power[Wide] \in Nat
    BY PowerIs, Widths
  <2> QED
    BY <2>1 DEF U32
<1>2. WriteU32(v) \in Seq(Byte) /\ Len(WriteU32(v)) = Wide
  BY <1>1, BytesAre, Widths DEF WriteU32
<1>3. WriteU32(v) # <<>>
  BY <1>2, Widths
<1> QED
  BY <1>1, <1>2, <1>3, NumberOfBytes, Widths DEF WriteU32

LEMMA WriteU64Is ==
  ASSUME NEW v \in U64
  PROVE  /\ WriteU64(v) \in Seq(Byte) \ {<<>>} /\ Len(WriteU64(v)) = Long
         /\ Number(WriteU64(v)) = v
<1>1. v \in Nat /\ v < Power[Long]
  <2>1. Power[Long] \in Nat
    BY PowerIs, Widths
  <2> QED
    BY <2>1 DEF U64
<1>2. WriteU64(v) \in Seq(Byte) /\ Len(WriteU64(v)) = Long
  BY <1>1, BytesAre, Widths DEF WriteU64
<1>3. WriteU64(v) # <<>>
  BY <1>2, Widths
<1> QED
  BY <1>1, <1>2, <1>3, NumberOfBytes, Widths DEF WriteU64

\* What one call of save() can hand over.
Savable(values, extra) ==
  /\ values \in Seq(Saved) /\ Len(values) \in U32
  /\ extra \in Seq(Byte) /\ Len(extra) \in U32

LEMMA PiecesAre ==
  ASSUME NEW values, NEW extra, Savable(values, extra)
  PROVE  LET P == Pieces(values, extra)
             n == Len(values)
         IN  /\ P \in Seq(Seq(Byte) \ {<<>>})
             /\ Len(P) = IF extra = <<>> THEN 4 + 2 * n ELSE 5 + 2 * n
             /\ P[1] = Magic /\ P[2] = WriteU32(FormatVersion)
             /\ P[3] = WriteU32(n) /\ P[4] = WriteU32(Len(extra))
             /\ \A i \in 1 .. n : /\ P[3 + 2 * i] = WriteU32(values[i].id)
                                  /\ P[4 + 2 * i] = WriteU64(values[i].value)
             /\ extra # <<>> => P[5 + 2 * n] = extra
<1> DEFINE P == Pieces(values, extra)
           n == Len(values)
           T == Seq(Byte) \ {<<>>}
           record(k) == LET value == values[(k + 1) \div 2]
                        IN  IF k % 2 = 1 THEN WriteU32(value.id) ELSE WriteU64(value.value)
           head == <<Magic, WriteU32(FormatVersion), WriteU32(n), WriteU32(Len(extra))>>
           middle == [k \in 1 .. 2 * n |-> record(k)]
           last == IF extra = <<>> THEN <<>> ELSE <<extra>>
<1>1. n \in Nat /\ n \in U32 /\ Len(extra) \in U32 /\ FormatVersion \in U32
      /\ \A i \in 1 .. n : values[i].id \in U32 /\ values[i].value \in U64
  <2>1. values \in Seq(Saved) /\ n \in U32 /\ Len(extra) \in U32
    BY DEF Savable
  <2>2. \A i \in 1 .. n : values[i] \in Saved
    BY <2>1
  <2> QED
    BY <2>1, <2>2, FormatAssumption DEF Saved
<1>2. Magic \in T
  BY FormatAssumption
<1>3. head \in Seq(T) /\ Len(head) = 4
  BY <1>1, <1>2, WriteU32Is
<1>4. \A k \in 1 .. 2 * n : record(k) \in T
  <2>1. ASSUME NEW k \in 1 .. 2 * n PROVE (k + 1) \div 2 \in 1 .. n
    BY <1>1
  <2> QED
    BY <1>1, <2>1, WriteU32Is, WriteU64Is
<1>5. middle \in Seq(T) /\ Len(middle) = 2 * n /\ \A k \in 1 .. 2 * n : middle[k] = record(k)
  <2> HIDE DEF record, T
  <2>1. 2 * n \in Nat
    BY <1>1
  <2> HIDE DEF n
  <2> QED
    BY <1>4, <2>1
<1>6. last \in Seq(T) /\ Len(last) = IF extra = <<>> THEN 0 ELSE 1
  <2>1. extra # <<>> => extra \in T
    BY DEF Savable
  <2> HIDE DEF T
  <2>2. CASE extra = <<>>
    BY <2>2
  <2>3. CASE extra # <<>>
    BY <2>1, <2>3
  <2> QED
    BY <2>2, <2>3
<1>7. P = (head \o middle) \o last
  BY DEF Pieces
<1>8. \A i \in 1 .. n : /\ record(2 * i - 1) = WriteU32(values[i].id)
                       /\ record(2 * i) = WriteU64(values[i].value)
  <2>1. \A i \in 1 .. n : /\ (2 * i - 1 + 1) \div 2 = i /\ (2 * i - 1) % 2 = 1
                         /\ (2 * i + 1) \div 2 = i /\ (2 * i) % 2 = 0
    BY <1>1
  <2> QED
    BY <2>1
<1>9. head[1] = Magic /\ head[2] = WriteU32(FormatVersion)
      /\ head[3] = WriteU32(n) /\ head[4] = WriteU32(Len(extra))
  OBVIOUS
<1>10. extra # <<>> => last[1] = extra
  OBVIOUS
<1> HIDE DEF P, head, middle, last, record, T, n
<1>11. /\ P \in Seq(T) /\ Len(P) = 4 + 2 * n + Len(last)
       /\ \A k \in 1 .. 4 : P[k] = head[k]
       /\ \A k \in 1 .. 2 * n : P[4 + k] = middle[k]
       /\ \A k \in 1 .. Len(last) : P[4 + 2 * n + k] = last[k]
  <2> DEFINE front == head \o middle
  <2>1. /\ front \in Seq(T) /\ Len(front) = 4 + 2 * n
        /\ \A k \in 1 .. 4 : front[k] = head[k]
        /\ \A k \in 1 .. 2 * n : front[4 + k] = middle[k]
    <3>0. head \in Seq(T) /\ middle \in Seq(T)
      BY <1>3, <1>5
    <3>1. /\ front \in Seq(T) /\ Len(front) = Len(head) + Len(middle)
          /\ \A k \in 1 .. Len(head) : front[k] = head[k]
          /\ \A k \in 1 .. Len(middle) : front[Len(head) + k] = middle[k]
      BY <3>0, ConcatIs
    <3> HIDE DEF front
    <3> QED
      BY <1>3, <1>5, <3>1
  <2>2. P = front \o last
    BY <1>7
  <2> HIDE DEF front
  <2>3. /\ P \in Seq(T) /\ Len(P) = 4 + 2 * n + Len(last)
        /\ \A k \in 1 .. 4 + 2 * n : P[k] = front[k]
        /\ \A k \in 1 .. Len(last) : P[4 + 2 * n + k] = last[k]
    <3>0. front \in Seq(T) /\ last \in Seq(T)
      BY <1>6, <2>1
    <3>1. /\ P \in Seq(T) /\ Len(P) = Len(front) + Len(last)
          /\ \A k \in 1 .. Len(front) : P[k] = front[k]
          /\ \A k \in 1 .. Len(last) : P[Len(front) + k] = last[k]
      BY <2>2, <3>0, ConcatIs
    <3> QED
      BY <2>1, <3>1
  <2>4. /\ \A k \in 1 .. 4 : k \in 1 .. 4 + 2 * n
        /\ \A k \in 1 .. 2 * n : 4 + k \in 1 .. 4 + 2 * n
    BY <1>1
  <2> QED
    BY <2>1, <2>3, <2>4
<1>12. ASSUME NEW i \in 1 .. n
       PROVE  P[3 + 2 * i] = WriteU32(values[i].id) /\ P[4 + 2 * i] = WriteU64(values[i].value)
  <2>1. 2 * i - 1 \in 1 .. 2 * n /\ 2 * i \in 1 .. 2 * n /\ 4 + (2 * i - 1) = 3 + 2 * i
    BY <1>1
  <2>2. P[4 + (2 * i - 1)] = middle[2 * i - 1] /\ P[4 + 2 * i] = middle[2 * i]
    BY <1>11, <2>1
  <2> QED
    BY <1>5, <1>8, <2>1, <2>2
<1>13. Len(P) = IF extra = <<>> THEN 4 + 2 * n ELSE 5 + 2 * n
  BY <1>1, <1>6, <1>11
<1>14. extra # <<>> => P[5 + 2 * n] = extra
  <2>1. 4 + 2 * n + 1 = 5 + 2 * n
    BY <1>1
  <2>2. extra # <<>> => 1 \in 1 .. Len(last)
    BY <1>6
  <2> QED
    BY <1>10, <1>11, <2>1, <2>2
<1>15. P[1] = Magic /\ P[2] = WriteU32(FormatVersion)
       /\ P[3] = WriteU32(n) /\ P[4] = WriteU32(Len(extra))
  BY <1>9, <1>11
<1> QED
  BY <1>11, <1>12, <1>13, <1>14, <1>15 DEF P, n, T

\* The position at which the k-th piece begins.
PieceAt(k) ==
  IF k = 1 THEN 0
  ELSE IF k <= 4 THEN VersionAt + (k - 2) * Wide
  ELSE IF k % 2 = 1 THEN RecordAt((k - 3) \div 2) ELSE RecordAt((k - 3) \div 2) + Wide

LEMMA HeaderPieces ==
  /\ PieceAt(1) = 0 /\ PieceAt(2) = VersionAt /\ PieceAt(3) = CountAt /\ PieceAt(4) = ExtraSizeAt
  /\ PieceAt(5) = HeaderSize
<1>1. (2 - 2) * Wide = 0 /\ (3 - 2) * Wide = Wide /\ (4 - 2) * Wide = Wide + Wide
  BY Widths
<1>2. (5 - 3) \div 2 = 1 /\ 5 % 2 = 1
  OBVIOUS
<1>3. /\ PieceAt(1) = 0 /\ PieceAt(2) = VersionAt + (2 - 2) * Wide
      /\ PieceAt(3) = VersionAt + (3 - 2) * Wide /\ PieceAt(4) = VersionAt + (4 - 2) * Wide
      /\ PieceAt(5) = RecordAt(1)
  BY <1>2 DEF PieceAt
<1>4. VersionAt \in Nat /\ Wide \in Nat /\ CountAt = VersionAt + Wide /\ ExtraSizeAt = CountAt + Wide
  BY Widths, Header
<1> QED
  BY <1>1, <1>3, <1>4, FirstRecord

LEMMA RecordPieces ==
  ASSUME NEW i \in Nat \ {0}
  PROVE  PieceAt(3 + 2 * i) = RecordAt(i) /\ PieceAt(4 + 2 * i) = RecordAt(i) + Wide
<1>1. /\ (3 + 2 * i) % 2 = 1 /\ (3 + 2 * i - 3) \div 2 = i
      /\ (4 + 2 * i) % 2 = 0 /\ (4 + 2 * i - 3) \div 2 = i
      /\ 3 + 2 * i > 4 /\ 4 + 2 * i > 4
  OBVIOUS
<1> DEFINE a == 3 + 2 * i
           b == 4 + 2 * i
<1>2. a # 1 /\ ~(a <= 4) /\ b # 1 /\ ~(b <= 4)
  OBVIOUS
<1> QED
  BY <1>1, <1>2 DEF PieceAt

\* Which piece a number stands for.
LEMMA PieceKinds ==
  ASSUME NEW n \in Nat, NEW k \in 1 .. 5 + 2 * n
  PROVE  \/ k \in 1 .. 4
         \/ \E i \in 1 .. n : k = 3 + 2 * i \/ k = 4 + 2 * i
         \/ k = 5 + 2 * n
<1>1. SUFFICES ASSUME k > 4, k < 5 + 2 * n
               PROVE  \E i \in 1 .. n : k = 3 + 2 * i \/ k = 4 + 2 * i
  OBVIOUS
<1> DEFINE i == (k - 3) \div 2
<1>2. i \in 1 .. n /\ (k = 3 + 2 * i \/ k = 4 + 2 * i)
  BY <1>1
<1> QED
  BY <1>2

(* The pieces lie end to end, from the beginning of the file to its end.    *)
LEMMA PiecesLie ==
  ASSUME NEW values, NEW extra, Savable(values, extra)
  PROVE  LET P == Pieces(values, extra)
         IN  /\ \A k \in 1 .. Len(P) : PieceAt(k) \in Nat /\ Len(P[k]) \in Nat
             /\ \A k \in 1 .. Len(P) - 1 : PieceAt(k) + Len(P[k]) = PieceAt(k + 1)
             /\ PieceAt(Len(P)) + Len(P[Len(P)]) = Size(Len(values), Len(extra))
<1> DEFINE P == Pieces(values, extra)
           n == Len(values)
           end == 5 + 2 * n
<1>1. n \in Nat /\ n \in U32 /\ Len(extra) \in U32 /\ Len(extra) \in Nat /\ FormatVersion \in U32
      /\ \A i \in 1 .. n : values[i].id \in U32 /\ values[i].value \in U64
  <2>1. values \in Seq(Saved) /\ n \in U32 /\ extra \in Seq(Byte) /\ Len(extra) \in U32
    BY DEF Savable
  <2>2. \A i \in 1 .. n : values[i] \in Saved
    BY <2>1
  <2> QED
    BY <2>1, <2>2, FormatAssumption DEF Saved
<1>2. /\ Len(P) = IF extra = <<>> THEN 4 + 2 * n ELSE end
      /\ P[1] = Magic /\ P[2] = WriteU32(FormatVersion)
      /\ P[3] = WriteU32(n) /\ P[4] = WriteU32(Len(extra))
      /\ \A i \in 1 .. n : /\ P[3 + 2 * i] = WriteU32(values[i].id)
                           /\ P[4 + 2 * i] = WriteU64(values[i].value)
      /\ extra # <<>> => P[end] = extra
  BY PiecesAre
<1> HIDE DEF P, n
<1>3. /\ PieceAt(end) = RecordAt(n + 1) /\ RecordAt(n + 1) \in Nat
      /\ \A i \in 1 .. n : /\ PieceAt(3 + 2 * i) = RecordAt(i) /\ PieceAt(4 + 2 * i) = RecordAt(i) + Wide
                           /\ RecordAt(i) \in Nat /\ RecordAt(i + 1) = RecordAt(i) + Wide + Long
                           /\ PieceAt(5 + 2 * i) = RecordAt(i + 1)
  <2>1. \A i \in Nat \ {0} : PieceAt(3 + 2 * i) = RecordAt(i) /\ PieceAt(4 + 2 * i) = RecordAt(i) + Wide
    BY RecordPieces
  <2>2. \A i \in Nat \ {0} : RecordAt(i) \in Nat /\ RecordAt(i + 1) = RecordAt(i) + Wide + Long
    BY RecordsLie
  <2>3. n + 1 \in Nat \ {0} /\ 3 + 2 * (n + 1) = end
    BY <1>1
  <2>4. \A i \in 1 .. n : i \in Nat \ {0} /\ i + 1 \in Nat \ {0} /\ 3 + 2 * (i + 1) = 5 + 2 * i
    BY <1>1
  <2> HIDE DEF end
  <2> QED
    BY <2>1, <2>2, <2>3, <2>4
<1>4. /\ \A k \in 1 .. 4 : PieceAt(k) \in Nat /\ Len(P[k]) \in Nat /\ PieceAt(k) + Len(P[k]) = PieceAt(k + 1)
      /\ PieceAt(4) + Len(P[4]) = HeaderSize
  <2>1. Len(P[1]) = Len(Magic) /\ Len(P[2]) = Wide /\ Len(P[3]) = Wide /\ Len(P[4]) = Wide
    BY <1>1, <1>2, WriteU32Is
  <2>2. \A k \in 1 .. 4 : k = 1 \/ k = 2 \/ k = 3 \/ k = 4
    OBVIOUS
  <2>3. 1 + 1 = 2 /\ 2 + 1 = 3 /\ 3 + 1 = 4 /\ 4 + 1 = 5
    OBVIOUS
  <2>4. /\ PieceAt(1) \in Nat /\ PieceAt(1) + Len(P[1]) = PieceAt(2)
        /\ PieceAt(2) \in Nat /\ PieceAt(2) + Len(P[2]) = PieceAt(3)
        /\ PieceAt(3) \in Nat /\ PieceAt(3) + Len(P[3]) = PieceAt(4)
        /\ PieceAt(4) \in Nat /\ PieceAt(4) + Len(P[4]) = PieceAt(5)
    <3>1. /\ VersionAt \in Nat /\ VersionAt = Len(Magic) /\ CountAt \in Nat /\ ExtraSizeAt \in Nat
      BY Header
    <3>2. /\ CountAt = VersionAt + Wide /\ ExtraSizeAt = CountAt + Wide /\ HeaderSize = ExtraSizeAt + Wide
      BY Header
    <3>3. /\ PieceAt(1) \in Nat /\ PieceAt(1) + Len(P[1]) = PieceAt(2) /\ PieceAt(2) \in Nat
      BY <2>1, <3>1, HeaderPieces
    <3>4. /\ PieceAt(2) + Len(P[2]) = PieceAt(3) /\ PieceAt(3) \in Nat
          /\ PieceAt(3) + Len(P[3]) = PieceAt(4) /\ PieceAt(4) \in Nat
          /\ PieceAt(4) + Len(P[4]) = PieceAt(5)
      BY <2>1, <3>1, <3>2, HeaderPieces
    <3> QED
      BY <3>3, <3>4
  <2>5. \A k \in 1 .. 4 : Len(P[k]) \in Nat
    BY <2>1, <2>2, Widths
  <2> QED
    BY <2>2, <2>3, <2>4, <2>5, HeaderPieces
<1>5. ASSUME NEW i \in 1 .. n, NEW k, k = 3 + 2 * i \/ k = 4 + 2 * i
      PROVE  PieceAt(k) \in Nat /\ Len(P[k]) \in Nat /\ PieceAt(k) + Len(P[k]) = PieceAt(k + 1)
  <2>1. Len(P[3 + 2 * i]) = Wide /\ Len(P[4 + 2 * i]) = Long
    <3> DEFINE value == values[i]
    <3>1. value.id \in U32 /\ value.value \in U64
      BY <1>1
    <3>2. P[3 + 2 * i] = WriteU32(value.id) /\ P[4 + 2 * i] = WriteU64(value.value)
      BY <1>2
    <3> HIDE DEF value
    <3> QED
      BY <3>1, <3>2, WriteU32Is, WriteU64Is
  <2>2. 3 + 2 * i + 1 = 4 + 2 * i /\ 4 + 2 * i + 1 = 5 + 2 * i
    BY <1>1
  <2>3. CASE k = 3 + 2 * i
    BY <1>3, <2>1, <2>2, <2>3, Widths
  <2>4. CASE k = 4 + 2 * i
    BY <1>3, <2>1, <2>2, <2>4, Widths
  <2> QED
    BY <1>5, <2>3, <2>4
<1>6. extra # <<>> => Len(P[end]) = Len(extra)
  BY <1>2
<1>7. Len(P) \in Nat /\ Len(P) <= end /\ (Len(P) = end => extra # <<>>)
  <2>1. CASE extra = <<>>
    BY <1>1, <1>2, <2>1
  <2>2. CASE extra # <<>>
    BY <1>1, <1>2, <2>2
  <2> QED
    BY <2>1, <2>2
<1>8. \A k \in 1 .. Len(P) : PieceAt(k) \in Nat /\ Len(P[k]) \in Nat
  <2>1. ASSUME NEW k \in 1 .. Len(P) PROVE PieceAt(k) \in Nat /\ Len(P[k]) \in Nat
    <3>1. k \in 1 .. 5 + 2 * n
      BY <1>1, <1>7
    <3>2. k \in 1 .. 4 \/ (\E i \in 1 .. n : k = 3 + 2 * i \/ k = 4 + 2 * i) \/ k = end
      BY <1>1, <3>1, PieceKinds
    <3>3. CASE k = end
      BY <1>1, <1>3, <1>6, <1>7, <3>3
    <3> QED
      BY <1>4, <1>5, <3>2, <3>3
  <2> QED
    BY <2>1
<1>9. \A k \in 1 .. Len(P) - 1 : PieceAt(k) + Len(P[k]) = PieceAt(k + 1)
  <2>1. ASSUME NEW k \in 1 .. Len(P) - 1 PROVE PieceAt(k) + Len(P[k]) = PieceAt(k + 1)
    <3>1. k \in 1 .. 5 + 2 * n /\ k # end
      BY <1>1, <1>7
    <3>2. k \in 1 .. 4 \/ (\E i \in 1 .. n : k = 3 + 2 * i \/ k = 4 + 2 * i)
      BY <1>1, <3>1, PieceKinds
    <3> QED
      BY <1>4, <1>5, <3>2
  <2> QED
    BY <2>1
<1>10. PieceAt(Len(P)) + Len(P[Len(P)]) = Size(n, Len(extra))
  <2>1. Size(n, Len(extra)) = RecordAt(n + 1) + Len(extra)
    BY DEF Size
  <2>2. CASE extra # <<>>
    BY <1>2, <1>3, <1>6, <2>1, <2>2
  <2>3. CASE extra = <<>>
    <3>1. Len(P) = 4 + 2 * n /\ Len(extra) = 0
      BY <1>2, <2>3
    <3>2. PieceAt(4 + 2 * n) + Len(P[4 + 2 * n]) = PieceAt(5 + 2 * n)
      <4>1. CASE n = 0
        BY <1>4, <4>1
      <4>2. CASE n # 0
        <5>1. n \in 1 .. n /\ 4 + 2 * n + 1 = 5 + 2 * n
          BY <1>1, <4>2
        <5> QED
          BY <1>5, <5>1
      <4> QED
        BY <4>1, <4>2
    <3> QED
      BY <1>3, <2>1, <3>1, <3>2
  <2> QED
    BY <2>2, <2>3
<1> QED
  BY <1>8, <1>9, <1>10 DEF P, n

(* A piece ends before the next ones begin.                                 *)
LEMMA PiecesOrdered ==
  ASSUME NEW values, NEW extra, Savable(values, extra)
  PROVE  LET P == Pieces(values, extra)
         IN  /\ \A k \in 1 .. Len(P), m \in 1 .. Len(P) : k < m => PieceAt(k) + Len(P[k]) <= PieceAt(m)
             /\ \A k \in 1 .. Len(P) : PieceAt(k) + Len(P[k]) <= Size(Len(values), Len(extra))
<1> DEFINE P == Pieces(values, extra)
           L == Len(P)
           size == Size(Len(values), Len(extra))
<1>1. /\ L \in Nat
      /\ \A k \in 1 .. L : PieceAt(k) \in Nat /\ Len(P[k]) \in Nat
      /\ \A k \in 1 .. L - 1 : PieceAt(k) + Len(P[k]) = PieceAt(k + 1)
      /\ PieceAt(L) + Len(P[L]) = size
  <2>1. P \in Seq(Seq(Byte) \ {<<>>})
    BY PiecesAre
  <2>2. L \in Nat
    BY <2>1
  <2> HIDE DEF L, size
  <2>3. L = Len(P) /\ size = Size(Len(values), Len(extra))
    BY DEF L, size
  <2> QED
    BY <2>2, <2>3, PiecesLie
<1> HIDE DEF P, L, size
<1> DEFINE S == {d \in Nat : \A k \in 1 .. L : k + d + 1 <= L => PieceAt(k) + Len(P[k]) <= PieceAt(k + d + 1)}
<1>2. 0 \in S
  <2>1. ASSUME NEW k \in 1 .. L, k + 0 + 1 <= L PROVE PieceAt(k) + Len(P[k]) <= PieceAt(k + 0 + 1)
    <3>1. k \in 1 .. L - 1 /\ k + 0 + 1 = k + 1 /\ k + 1 \in 1 .. L
      BY <1>1, <2>1
    <3>2. PieceAt(k) + Len(P[k]) = PieceAt(k + 1) /\ PieceAt(k + 1) \in Nat
      BY <1>1, <3>1
    <3> QED
      BY <3>1, <3>2
  <2> QED
    BY <2>1
<1>3. ASSUME NEW d \in Nat, d \in S PROVE d + 1 \in S
  <2>1. ASSUME NEW k \in 1 .. L, k + (d + 1) + 1 <= L
        PROVE  PieceAt(k) + Len(P[k]) <= PieceAt(k + (d + 1) + 1)
    <3> DEFINE m == k + d + 1
    <3>1. m \in 1 .. L - 1 /\ m \in 1 .. L /\ m + 1 \in 1 .. L /\ k + (d + 1) + 1 = m + 1 /\ k + d + 1 <= L
      BY <1>1, <2>1
    <3>2. PieceAt(k) + Len(P[k]) <= PieceAt(m)
      BY <1>3, <3>1
    <3> HIDE DEF m
    <3>3. PieceAt(m) + Len(P[m]) = PieceAt(m + 1) /\ PieceAt(m) \in Nat /\ Len(P[m]) \in Nat
          /\ PieceAt(m + 1) \in Nat /\ PieceAt(k) \in Nat /\ Len(P[k]) \in Nat
      BY <1>1, <3>1
    <3>4. PieceAt(k) + Len(P[k]) <= PieceAt(m + 1)
      BY <3>2, <3>3
    <3> QED
      BY <3>1, <3>4
  <2> QED
    BY <2>1
<1> HIDE DEF S
<1>4. Nat \subseteq S
  BY <1>2, <1>3, Induction
<1>5. ASSUME NEW k \in 1 .. L, NEW m \in 1 .. L, k < m PROVE PieceAt(k) + Len(P[k]) <= PieceAt(m)
  <2>1. m - k - 1 \in Nat /\ k + (m - k - 1) + 1 = m /\ m <= L
    BY <1>1, <1>5
  <2>2. m - k - 1 \in S
    BY <1>4, <2>1
  <2> QED
    BY <2>1, <2>2 DEF S
<1>6. ASSUME NEW k \in 1 .. L PROVE PieceAt(k) + Len(P[k]) <= size
  <2>1. L \in 1 .. L
    BY <1>1
  <2>2. PieceAt(k) \in Nat /\ Len(P[k]) \in Nat /\ PieceAt(L) \in Nat /\ Len(P[L]) \in Nat
    BY <1>1, <2>1
  <2>3. CASE k = L
    BY <1>1, <2>2, <2>3
  <2>4. CASE k < L
    <3>1. PieceAt(k) + Len(P[k]) <= PieceAt(L)
      BY <1>5, <2>1, <2>4
    <3> QED
      BY <1>1, <2>2, <3>1
  <2> QED
    BY <1>1, <2>3, <2>4
<1> QED
  BY <1>5, <1>6 DEF P, L, size

(* What save() takes from the parameters.                                   *)
LEMMA PersistentValuesAre ==
  ASSUME base \in [Registered -> 0 .. Highest]
  PROVE  persistentValues \in Seq(Saved) /\ Len(persistentValues) \in U32
<1> DEFINE L == Len(Ids)
           record(i) == [id |-> Ids[i], value |-> base[Ids[i]]]
           step == [p \in Nat \X Seq(Saved) |->
                      IF p[1] < L /\ Ids[p[1] + 1] \in Kept THEN Append(p[2], record(p[1] + 1)) ELSE p[2]]
<1>1. L \in Nat /\ L \in U32 /\ \A i \in 1 .. L : Ids[i] \in U32 /\ Ids[i] \in Registered
  BY StoreAssumption DEF Registered
<1>2. \A i \in 1 .. L : record(i) \in Saved
  <2>1. 0 .. Highest \subseteq U64
    <3>1. Power[Long] \in Nat
      BY PowerIs, Widths
    <3> QED
      BY <3>1, StoreAssumption DEF U64
  <2> QED
    BY <1>1, <2>1 DEF Saved
<1> HIDE DEF record
<1>3. step \in [Nat \X Seq(Saved) -> Seq(Saved)]
  <2>1. ASSUME NEW i \in Nat, NEW s \in Seq(Saved), i < L PROVE Append(s, record(i + 1)) \in Seq(Saved)
    <3>1. i + 1 \in 1 .. L
      BY <1>1, <2>1
    <3> QED
      BY <1>2, <3>1
  <2> QED
    BY <2>1
<1>4. \A n \in Nat, s \in Seq(Saved) :
        step[<<n, s>>] = IF n < L /\ Ids[n + 1] \in Kept THEN Append(s, record(n + 1)) ELSE s
  OBVIOUS
<1> HIDE DEF step
<1>5. PICK f : LoopOf(f, Seq(Saved), <<>>, step)
  <2>1. <<>> \in Seq(Saved)
    OBVIOUS
  <2> QED
    BY <1>3, <2>1, Loop
<1>6. /\ f \in [Nat -> Seq(Saved)] /\ f[0] = <<>>
      /\ \A n \in Nat : f[n + 1] = IF n < L /\ Ids[n + 1] \in Kept THEN Append(f[n], record(n + 1)) ELSE f[n]
  BY <1>4, <1>5 DEF LoopOf
<1> DEFINE next(g, i) == IF Ids[i] \in Kept THEN Append(g[i - 1], record(i)) ELSE g[i - 1]
           G(g) == g = [i \in 0 .. L |-> IF i = 0 THEN <<>> ELSE next(g, i)]
           upTo == CHOOSE g : G(g)
<1>7. G([i \in 0 .. L |-> f[i]])
  <2> DEFINE h == [i \in 0 .. L |-> f[i]]
  <2>1. ASSUME NEW i \in 0 .. L PROVE f[i] = IF i = 0 THEN <<>> ELSE next(h, i)
    <3>1. CASE i = 0
      BY <1>6, <3>1
    <3>2. CASE i # 0
      <4>1. i - 1 \in Nat /\ i - 1 < L /\ (i - 1) + 1 = i /\ i - 1 \in 0 .. L
        BY <1>1, <3>2
      <4>2. h[i - 1] = f[i - 1]
        BY <4>1
      <4> HIDE DEF h
      <4> QED
        BY <1>6, <3>2, <4>1, <4>2
    <3> QED
      BY <3>1, <3>2
  <2> HIDE DEF next
  <2> QED
    BY <2>1
<1>8. G(upTo)
  <2> HIDE DEF G
  <2> QED
    BY <1>7
<1>9. persistentValues = upTo[L]
  BY DEF persistentValues, record
<1> HIDE DEF upTo
<1>10. upTo[0] = <<>>
  BY <1>1, <1>8
<1>11. ASSUME NEW n \in Nat, n < L
       PROVE  upTo[n + 1] = IF Ids[n + 1] \in Kept THEN Append(upTo[n], record(n + 1)) ELSE upTo[n]
  <2>1. n + 1 \in 0 .. L /\ n + 1 # 0 /\ (n + 1) - 1 = n
    BY <1>1, <1>11
  <2> QED
    BY <1>8, <2>1
<1> DEFINE S == {n \in Nat : n <= L => upTo[n] \in Seq(Saved) /\ Len(upTo[n]) <= n}
<1>12. 0 \in S
  <2>1. <<>> \in Seq(Saved) /\ Len(<<>>) <= 0
    OBVIOUS
  <2> QED
    BY <1>10, <2>1
<1>13. ASSUME NEW n \in Nat, n \in S PROVE n + 1 \in S
  <2>1. SUFFICES ASSUME n < L PROVE upTo[n + 1] \in Seq(Saved) /\ Len(upTo[n + 1]) <= n + 1
    BY <1>1
  <2>2. upTo[n] \in Seq(Saved) /\ Len(upTo[n]) <= n
    BY <1>1, <1>13, <2>1
  <2>3. record(n + 1) \in Saved
    BY <1>1, <1>2, <2>1
  <2>4. Append(upTo[n], record(n + 1)) \in Seq(Saved) /\ Len(Append(upTo[n], record(n + 1))) = Len(upTo[n]) + 1
        /\ Len(upTo[n]) \in Nat
    BY <2>2, <2>3
  <2>5. upTo[n + 1] = upTo[n] \/ upTo[n + 1] = Append(upTo[n], record(n + 1))
    BY <1>11, <2>1
  <2>6. Len(upTo[n]) <= n + 1 /\ Len(upTo[n]) + 1 <= n + 1
    BY <2>2, <2>4
  <2> QED
    BY <2>2, <2>4, <2>5, <2>6
<1> HIDE DEF S, L
<1>14. L \in S
  BY <1>1, <1>12, <1>13, Induction
<1>15. persistentValues \in Seq(Saved) /\ Len(persistentValues) <= L
  BY <1>1, <1>9, <1>14 DEF S
<1> QED
  <2> DEFINE m == Len(persistentValues)
  <2>0. Power[Wide] \in Nat
    BY PowerIs, Widths
  <2>1. m \in Nat /\ m <= L
    BY <1>15
  <2> HIDE DEF m, L
  <2>2. L <= Power[Wide] - 1
    BY <1>1 DEF U32
  <2>3. m \in U32
    BY <1>1, <2>0, <2>1, <2>2 DEF U32
  <2> QED
    BY <1>15, <2>3 DEF m
-----------------------------------------------------------------------------
(* Types. *)

\* What TypeOK leaves open: what was saved and restored can be saved.
TypeInv ==
  /\ TypeOK
  /\ restored \in Seq(Saved)
  /\ written \in [values : Seq(Saved), extra : Seq(Byte)]
  /\ Len(written.values) \in U32
  /\ pieces \in Seq(Seq(Byte) \ {<<>>})
  /\ op # "idle" => verdict = "none"

\* What save() has written of what it was given is what the file begins with.
Parts == Pieces(written.values, written.extra)
Begun ==
  \A k \in 1 .. Len(Parts) : \A j \in 1 .. Len(Parts[k]) :
    PieceAt(k) + j <= Len(file) => file[PieceAt(k) + j] = Parts[k][j]

\* The first piece left is what remains of the k-th, of which `done` bytes are
\* written; the others are the pieces after it.
Left(k, done) ==
  /\ Len(pieces) = Len(Parts) - k + 1
  /\ \A i \in 2 .. Len(pieces) : pieces[i] = Parts[k + i - 1]
  /\ Len(pieces[1]) = Len(Parts[k]) - done
  /\ \A j \in 1 .. Len(pieces[1]) : pieces[1][j] = Parts[k][done + j]
  /\ Len(file) = PieceAt(k) + done

Pending ==
  \/ pieces = <<>> /\ FullyWritten
  \/ \E k \in 1 .. Len(Parts) : \E done \in 0 .. Len(Parts[k]) - 1 : Left(k, done)

FileInv ==
  \/ file = <<>> /\ op # "writing" /\ verdict # "saved"
  \/ /\ Len(written.extra) <= MaximumExtraStateBytes
     /\ Begun
     /\ op = "writing" => Pending
     /\ verdict = "saved" => FullyWritten

\* How far load() is, and where the field it reads begins.
Position == Len(given) - Len(input)
FieldAt ==
  CASE op = "version"   -> VersionAt
    [] op = "count"     -> CountAt
    [] op = "extraSize" -> ExtraSizeAt
    [] op = "id"        -> RecordAt(Len(restored) + 1)
    [] op = "value"     -> RecordAt(Len(restored) + 1) + Wide
    [] op = "extra"     -> RecordAt(count + 1)
    [] OTHER            -> 0

\* What has been read is what stands there.
FieldsRead ==
  /\ op # "magic" => Slice(given, 0, Len(Magic)) = Magic
  /\ op \notin {"magic", "version"} => U32At(given, VersionAt) = FormatVersion
  /\ op \in {"magic", "version", "count", "extraSize"} => restored = <<>>
  /\ op \in {"extraSize", "id", "value", "extra"} => count = U32At(given, CountAt)
  /\ op \in {"id", "value", "extra"} => extraSize = U32At(given, ExtraSizeAt)
  /\ op \in {"id", "value"} => Len(restored) < count
  /\ op = "value" => id = U32At(given, RecordAt(Len(restored) + 1))
  /\ op = "extra" => Len(restored) = count
  /\ HasRecords(given, restored)

LoadInv ==
  /\ Len(input) <= Len(given)
  /\ \A j \in 1 .. Len(input) : input[j] = given[Position + j]
  /\ op \in Fields =>
       /\ Position = FieldAt + Len(field)
       /\ field = Slice(given, FieldAt, Len(field))
       /\ FieldsRead
  /\ op = "rescan" => IsState(consumed, restored, field)
  /\ LoadIsExact

LEMMA Numbers ==
  /\ 0 \in U32 /\ U32 \subseteq Nat /\ U64 \subseteq Nat
  /\ MaximumExtraStateBytes \in Nat /\ Highest \in Nat /\ 0 .. Highest \subseteq U64
<1>1. Power[Wide] \in Nat /\ Power[Wide] > 0 /\ Power[Long] \in Nat
  BY PowerIs, PowerPositive, Widths
<1>2. 0 \in U32 /\ U32 \subseteq Nat /\ U64 \subseteq Nat
  BY <1>1 DEF U32, U64
<1>3. Highest \in U64 /\ MaximumExtraStateBytes \in U32
  BY FormatAssumption, StoreAssumption
<1>4. 0 .. Highest \subseteq U64
  BY <1>1, <1>3 DEF U64
<1> QED
  BY <1>2, <1>3, <1>4

LEMMA FieldSizes ==
  ASSUME extraSize \in U32
  PROVE  /\ FieldSize \in Nat
         /\ op = "magic" => FieldSize = Len(Magic)
         /\ op \in {"version", "count", "extraSize", "id"} => FieldSize = Wide
         /\ op = "value" => FieldSize = Long
         /\ op = "extra" => FieldSize = extraSize
BY Widths, Numbers DEF FieldSize

LEMMA FieldIsNumber ==
  ASSUME field \in Seq(Byte)
  PROVE  /\ Len(field) = Wide => Number(field) \in U32
         /\ Len(field) = Long => Number(field) \in U64
<1>1. Number(field) \in Nat /\ Number(field) < Power[Len(field)]
  BY NumberBound
<1>2. Power[Wide] \in Nat /\ Power[Long] \in Nat
  BY PowerIs, Widths
<1>3. Len(field) = Wide => Number(field) \in U32
  BY <1>1, <1>2 DEF U32
<1>4. Len(field) = Long => Number(field) \in U64
  BY <1>1, <1>2 DEF U64
<1> QED
  BY <1>3, <1>4

LEMMA ClampIs ==
  ASSUME NEW v \in U64 PROVE clampAndQuantize(v) \in 0 .. Highest
<1>1. v \in Nat /\ Highest \in Nat /\ Default \in 0 .. Highest
  BY Numbers, StoreAssumption
<1> QED
  BY <1>1 DEF clampAndQuantize

LEMMA TypeInit == Init => TypeInv
<1> SUFFICES ASSUME Init PROVE TypeInv
  OBVIOUS
<1>1. base \in [Registered -> 0 .. Highest] /\ original = base
  BY StoreAssumption DEF Init
<1>2. <<>> \in Seq(Byte) /\ <<>> \in Seq(Saved) /\ <<>> \in Seq(Seq(Byte) \ {<<>>})
      /\ Len(<<>>) = 0 /\ DOMAIN <<>> = {}
  OBVIOUS
<1>3. TypeOK
  <2>1. \A piece \in {pieces[i] : i \in DOMAIN pieces} : piece \in Seq(Byte) \ {<<>>}
    BY <1>2 DEF Init
  <2>2. op = "idle" /\ op \notin Fields
    BY DEF Init, Fields
  <2>3. 0 <= MaximumExtraStateBytes
    BY Numbers
  <2>4. count \in U32 /\ extraSize \in U32 /\ id \in U32 /\ extraSize <= MaximumExtraStateBytes
    BY <2>3, Numbers DEF Init
  <2> QED
    BY <1>1, <1>2, <2>1, <2>2, <2>4 DEF Init, TypeOK
<1> QED
  BY <1>2, <1>3, Numbers DEF Init, TypeInv, NothingWritten

\* The calls between them, and those that save.
LEMMA TypeEdit ==
  ASSUME TypeInv, NEW x \in Registered, NEW v \in Values, Edit(x, v) PROVE TypeInv'
<1>1. v \in 0 .. Highest
  BY StoreAssumption
<1>2. base' \in [Registered -> 0 .. Highest] /\ original' = base'
  BY <1>1 DEF Edit, TypeInv, TypeOK
<1>3. <<>> \in Seq(Byte) /\ <<>> \in Seq(Saved)
  OBVIOUS
<1>4. TypeOK'
  <2>1. op' = "idle" /\ op' \notin Fields
    BY DEF Edit, Fields
  <2>2. count' \in U32 /\ extraSize' \in U32 /\ id' \in U32 /\ extraSize' <= MaximumExtraStateBytes
    BY Numbers DEF Edit, Forget
  <2> QED
    BY <1>2, <1>3, <2>1, <2>2 DEF Edit, Forget, saveVars, TypeInv, TypeOK
<1> QED
  BY <1>3, <1>4 DEF Edit, Forget, saveVars, TypeInv

LEMMA TypeSaveBegin ==
  ASSUME TypeInv, NEW extra \in Extras, SaveBegin(extra) PROVE TypeInv'
<1>1. persistentValues \in Seq(Saved) /\ Len(persistentValues) \in U32
  BY PersistentValuesAre DEF TypeInv, TypeOK
<1>2. extra \in Seq(Byte) /\ Len(extra) \in Nat
  BY StoreAssumption
<1>3. <<>> \in Seq(Byte) /\ <<>> \in Seq(Saved) /\ <<>> \in Seq(Seq(Byte) \ {<<>>})
  OBVIOUS
<1>4. pieces' \in Seq(Seq(Byte) \ {<<>>})
  <2>1. CASE Len(extra) > MaximumExtraStateBytes
    BY <2>1, <1>3 DEF SaveBegin
  <2>2. CASE ~(Len(extra) > MaximumExtraStateBytes)
    <3>1. Len(extra) \in U32
      <4> DEFINE l == Len(extra)
      <4>1. l \in Nat /\ ~(l > MaximumExtraStateBytes) /\ MaximumExtraStateBytes \in Nat
        BY <1>2, <2>2, Numbers
      <4> HIDE DEF l
      <4>2. MaximumExtraStateBytes \in U32 /\ Power[Wide] \in Nat
        BY FormatAssumption, PowerIs, Widths
      <4>3. l \in U32
        BY <4>1, <4>2 DEF U32
      <4> QED
        BY <4>3 DEF l
    <3>2. Savable(persistentValues, extra)
      BY <1>1, <1>2, <3>1 DEF Savable
    <3> QED
      BY <2>2, <3>2, PiecesAre DEF SaveBegin
  <2> QED
    BY <2>1, <2>2
<1>5. written' \in [values : Seq(Saved), extra : Seq(Byte)] /\ Len(written'.values) \in U32
  BY <1>1, <1>2 DEF SaveBegin
<1>6. TypeOK'
  <2>1. \A piece \in {pieces'[i] : i \in DOMAIN pieces'} : piece \in Seq(Byte) \ {<<>>}
    BY <1>4
  <2>2. op' \in {"idle", "writing"} /\ verdict' \in {"none", "notSaved"}
    BY DEF SaveBegin, Return
  <2>3. op' \notin Fields
    BY <2>2 DEF Fields
  <2>4. count' \in U32 /\ extraSize' \in U32 /\ id' \in U32 /\ extraSize' <= MaximumExtraStateBytes
    BY Numbers DEF SaveBegin, Forget
  <2> QED
    BY <1>3, <2>1, <2>2, <2>3, <2>4 DEF SaveBegin, Forget, TypeInv, TypeOK
<1>7. op' # "idle" => verdict' = "none"
  BY DEF SaveBegin, Return
<1> QED
  BY <1>3, <1>4, <1>5, <1>6, <1>7 DEF SaveBegin, Forget, TypeInv

LEMMA TypeWrite ==
  ASSUME TypeInv, Write PROVE TypeInv'
<1> DEFINE T == Seq(Byte) \ {<<>>}
           head == Head(pieces)
           tail == Tail(pieces)
<1>1. pieces \in Seq(T) /\ pieces # <<>> /\ file \in Seq(Byte)
  BY DEF TypeInv, TypeOK, Write
<1>2. head \in Seq(Byte) /\ head # <<>> /\ tail \in Seq(T)
  <2> HIDE DEF T
  <2>1. head \in T /\ tail \in Seq(T)
    BY <1>1
  <2> QED
    BY <2>1 DEF T
<1> HIDE DEF head, tail
<1>3. PICK n \in 1 .. Len(head) :
        /\ file' = file \o SubSeq(head, 1, n)
        /\ pieces' = IF n = Len(head) THEN tail ELSE <<SubSeq(head, n + 1, Len(head))>> \o tail
  BY DEF Write, head, tail
<1>4. file' \in Seq(Byte)
  <2>1. SubSeq(head, 1, n) \in Seq(Byte)
    BY <1>2
  <2> QED
    BY <1>1, <1>3, <2>1
<1>5. pieces' \in Seq(T)
  <2>1. CASE n = Len(head)
    BY <1>2, <1>3, <2>1
  <2>2. CASE n # Len(head)
    <3>1. SubSeq(head, n + 1, Len(head)) \in T
      <4>1. Len(head) \in Nat /\ n \in Nat /\ n + 1 \in 1 .. Len(head)
        BY <1>2, <2>2
      <4>2. /\ SubSeq(head, n + 1, Len(head)) \in Seq(Byte)
            /\ Len(SubSeq(head, n + 1, Len(head))) = Len(head) - n
        BY <1>2, <4>1
      <4>3. Len(head) - n # 0 /\ Len(<<>>) = 0
        BY <4>1
      <4>4. SubSeq(head, n + 1, Len(head)) # <<>>
        BY <4>2, <4>3, Zenon
      <4> QED
        BY <4>2, <4>4
    <3> HIDE DEF T
    <3>2. <<SubSeq(head, n + 1, Len(head))>> \in Seq(T)
      BY <3>1
    <3> QED
      BY <1>2, <1>3, <2>2, <3>2
  <2> QED
    BY <2>1, <2>2
<1>6. \A piece \in {pieces'[i] : i \in DOMAIN pieces'} : piece \in Seq(Byte) \ {<<>>}
  BY <1>5
<1>7. TypeOK'
  BY <1>4, <1>6 DEF Write, loadVars, TypeInv, TypeOK, FieldSize, Fields
<1> QED
  BY <1>5, <1>7 DEF Write, loadVars, TypeInv

LEMMA TypeSaveEnds ==
  ASSUME TypeInv, WriteFails \/ SaveEnd PROVE TypeInv'
<1>1. <<>> \in Seq(Seq(Byte) \ {<<>>}) /\ DOMAIN <<>> = {}
  OBVIOUS
<1> QED
  BY <1>1 DEF WriteFails, SaveEnd, Return, saveVars, loadVars, TypeInv, TypeOK, Fields

\* The calls that load.
LEMMA TypeLoadBegin ==
  ASSUME TypeInv, NEW stream \in {file} \cup ForeignFiles, LoadBegin(stream) PROVE TypeInv'
<1>1. stream \in Seq(Byte)
  BY StoreAssumption DEF TypeInv, TypeOK
<1>2. <<>> \in Seq(Byte) /\ <<>> \in Seq(Saved) /\ Len(<<>>) = 0
  OBVIOUS
<1>3. TypeOK'
  <2>1. op' = "magic" /\ op' \in Fields
    BY DEF LoadBegin, Fields
  <2>2. count' \in U32 /\ extraSize' \in U32 /\ id' \in U32 /\ extraSize' <= MaximumExtraStateBytes
    BY Numbers DEF LoadBegin
  <2>3. FieldSize' \in Nat
    BY <2>1, Widths DEF FieldSize
  <2>4. Len(field') <= FieldSize' /\ field' \in Seq(Byte)
    BY <1>2, <2>3 DEF LoadBegin
  <2> QED
    BY <1>1, <2>1, <2>2, <2>4 DEF LoadBegin, saveVars, TypeInv, TypeOK
<1> QED
  BY <1>2, <1>3 DEF LoadBegin, saveVars, TypeInv

LEMMA TypeRead ==
  ASSUME TypeInv, Read PROVE TypeInv'
<1>1. /\ field \in Seq(Byte) /\ input \in Seq(Byte) /\ FieldSize \in Nat /\ Len(field) < FieldSize
      /\ op \in Fields
  BY FieldSizes DEF Read, Reading, TypeInv, TypeOK
<1>2. PICK n \in 1 .. FieldSize - Len(field) :
        /\ n <= Len(input)
        /\ field' = field \o SubSeq(input, 1, n)
        /\ input' = SubSeq(input, n + 1, Len(input))
  BY DEF Read
<1>3. FieldSize' = FieldSize /\ op' = op
  BY DEF Read, FieldSize
<1>4. field' \in Seq(Byte) /\ Len(field') <= FieldSize
  <2>1. SubSeq(input, 1, n) \in Seq(Byte) /\ Len(SubSeq(input, 1, n)) = n
    BY <1>1, <1>2
  <2>2. field' \in Seq(Byte) /\ Len(field') = Len(field) + n
    BY <1>1, <1>2, <2>1
  <2>3. Len(field) \in Nat /\ n \in Nat /\ n <= FieldSize - Len(field)
    BY <1>1
  <2> QED
    BY <1>1, <2>2, <2>3
<1>5. input' \in Seq(Byte)
  <2>1. n + 1 \in 1 .. Len(input) + 1
    BY <1>1, <1>2
  <2> QED
    BY <1>1, <1>2, <2>1
<1>6. TypeOK'
  BY <1>1, <1>3, <1>4, <1>5 DEF Read, saveVars, TypeInv, TypeOK
<1> QED
  BY <1>6 DEF Read, saveVars, TypeInv

\* A load that is given up, or is over.
LEMMA TypeStops ==
  ASSUME TypeInv, failed' \in BOOLEAN,
         \/ op' = "idle" /\ verdict' \in {"loaded", "notLoaded"}
         \/ op' = "rescan" /\ verdict' = "none",
         UNCHANGED <<base, original, saveVars, input, field, count, extraSize, id, given, restored>>
  PROVE  TypeInv'
<1>1. op' \notin Fields
  BY DEF Fields
<1> QED
  BY <1>1 DEF saveVars, TypeInv, TypeOK

LEMMA TypeReadStops ==
  ASSUME TypeInv, ReadEnd \/ ReadFails \/ GotExtra \/ LoadEnd PROVE TypeInv'
<1>1. /\ \/ op' = "idle" /\ verdict' \in {"loaded", "notLoaded"}
         \/ op' = "rescan" /\ verdict' = "none"
      /\ failed' \in BOOLEAN
      /\ UNCHANGED <<base, original, saveVars, input, field, count, extraSize, id, given, restored>>
  BY DEF ReadEnd, ReadFails, GotExtra, LoadEnd, Complete, Return, loadVars, TypeInv, TypeOK
<1> QED
  BY <1>1, TypeStops

LEMMA TypeRefuse ==
  ASSUME TypeInv, Refuse PROVE TypeInv'
<1>1. /\ op' = "idle" /\ verdict' \in {"loaded", "notLoaded"}
      /\ failed' \in BOOLEAN
      /\ UNCHANGED <<base, original, saveVars, input, field, count, extraSize, id, given, restored>>
  BY DEF Refuse, Return, loadVars, TypeInv, TypeOK
<1> QED
  BY <1>1, TypeStops

\* A load that goes on.
LEMMA TypeGoesOn ==
  ASSUME TypeInv, op \in Fields, op' \in Fields, field' = <<>>,
         count' \in U32, extraSize' \in U32, extraSize' <= MaximumExtraStateBytes, id' \in U32,
         restored' \in Seq(Saved), base' \in [Registered -> 0 .. Highest],
         UNCHANGED <<verdict, original, failed, saveVars, input, given>>
  PROVE  TypeInv'
<1>1. <<>> \in Seq(Byte) /\ Len(<<>>) = 0
  OBVIOUS
<1>2. FieldSize' \in Nat
  BY Widths, Numbers DEF FieldSize
<1>3. field' \in Seq(Byte) /\ Len(field') <= FieldSize'
  BY <1>1, <1>2
<1>4. op # "idle" /\ verdict = "none"
  BY DEF Fields, TypeInv
<1> QED
  BY <1>3, <1>4 DEF saveVars, TypeInv, TypeOK

LEMMA TypeGot ==
  ASSUME TypeInv, GotMagic \/ GotVersion \/ GotCount \/ GotExtraSize \/ GotId \/ GotValue
  PROVE  TypeInv'
<1>1. /\ op \in Fields /\ field \in Seq(Byte) /\ Len(field) = FieldSize
      /\ extraSize \in U32 /\ extraSize <= MaximumExtraStateBytes
      /\ count \in U32 /\ id \in U32 /\ restored \in Seq(Saved)
      /\ base \in [Registered -> 0 .. Highest]
  BY DEF GotMagic, GotVersion, GotCount, GotExtraSize, GotId, GotValue, Complete, Fields, TypeInv, TypeOK
<1> DEFINE number == Number(field)
<1>2. \A n : AfterRecords(n) \in Fields
  BY DEF AfterRecords, Fields
<1>3. CASE GotMagic \/ GotVersion
  <2>1. CASE Refuse
    BY <2>1, TypeRefuse
  <2>2. CASE \E name \in {"version", "count"} :
               NextField(name) /\ UNCHANGED <<count, extraSize, id, restored>>
    BY <1>1, <2>2, TypeGoesOn DEF NextField, Fields
  <2> QED
    BY <1>3, <2>1, <2>2 DEF GotMagic, GotVersion
<1>4. CASE GotCount
  <2>1. number \in U32
    BY <1>1, <1>4, FieldSizes, FieldIsNumber DEF GotCount, Complete
  <2> QED
    BY <1>1, <1>4, <2>1, TypeGoesOn DEF GotCount, NextField, Fields
<1>5. CASE GotExtraSize
  <2>1. number \in U32
    BY <1>1, <1>5, FieldSizes, FieldIsNumber DEF GotExtraSize, Complete
  <2>2. CASE number > MaximumExtraStateBytes
    BY <1>5, <2>2, TypeRefuse DEF GotExtraSize
  <2>3. CASE ~(number > MaximumExtraStateBytes)
    <3>1. number \in Nat /\ MaximumExtraStateBytes \in Nat
      BY <2>1, Numbers
    <3> HIDE DEF number
    <3>2. number <= MaximumExtraStateBytes
      BY <2>3, <3>1
    <3> QED
      BY <1>1, <1>2, <1>5, <2>1, <2>3, <3>2, TypeGoesOn DEF GotExtraSize, NextField, number
  <2> QED
    BY <2>2, <2>3
<1>6. CASE GotId
  <2>1. number \in U32
    BY <1>1, <1>6, FieldSizes, FieldIsNumber DEF GotId, Complete
  <2> QED
    BY <1>1, <1>6, <2>1, TypeGoesOn DEF GotId, NextField, Fields
<1>7. CASE GotValue
  <2>1. number \in U64
    BY <1>1, <1>7, FieldSizes, FieldIsNumber DEF GotValue, Complete
  <2>2. base' \in [Registered -> 0 .. Highest]
    <3>1. clampAndQuantize(number) \in 0 .. Highest
      BY <2>1, ClampIs
    <3> QED
      BY <1>1, <1>7, <3>1 DEF GotValue, RestorePersistentValue
  <2>3. restored' \in Seq(Saved)
    <3>1. [id |-> id, value |-> number] \in Saved
      BY <1>1, <2>1 DEF Saved
    <3> QED
      BY <1>1, <1>7, <3>1 DEF GotValue
  <2>4. op' \in Fields
    BY <1>2, <1>7 DEF GotValue
  <2> QED
    BY <1>1, <1>7, <2>2, <2>3, <2>4, TypeGoesOn DEF GotValue
<1> QED
  BY <1>3, <1>4, <1>5, <1>6, <1>7

LEMMA TypeNext == TypeInv /\ [Next]_vars => TypeInv'
<1> SUFFICES ASSUME TypeInv, [Next]_vars PROVE TypeInv'
  OBVIOUS
<1>1. CASE \E x \in Registered, v \in Values : Edit(x, v)
  BY <1>1, TypeEdit
<1>2. CASE \E extra \in Extras : SaveBegin(extra)
  BY <1>2, TypeSaveBegin
<1>3. CASE \E stream \in {file} \cup ForeignFiles : LoadBegin(stream)
  BY <1>3, TypeLoadBegin
<1>4. CASE Save \/ WriteFails
  BY <1>4, TypeWrite, TypeSaveEnds DEF Save
<1>5. CASE Load \/ ReadFails
  BY <1>5, TypeRead, TypeReadStops, TypeGot DEF Load
<1>6. CASE UNCHANGED vars
  BY <1>6 DEF vars, saveVars, loadVars, TypeInv, TypeOK, FieldSize
<1> QED
  BY <1>1, <1>2, <1>3, <1>4, <1>5, <1>6 DEF Next

(* The fields of a stream are numbers of their width, whatever its bytes,   *)
(* no parameter leaves its range, and no payload that is read is larger     *)
(* than the limit (readU32, readU64, clampAndQuantize).                     *)
THEOREM TypesAreKept == Spec => []TypeOK
<1>1. TypeInv => TypeOK
  BY DEF TypeInv
<1> QED
  BY TypeInit, TypeNext, <1>1, PTL DEF Spec
-----------------------------------------------------------------------------
(* What save() leaves behind. *)

LEMMA SmallExtra ==
  ASSUME NEW n \in Nat, n <= MaximumExtraStateBytes PROVE n \in U32
<1>1. MaximumExtraStateBytes \in U32 /\ Power[Wide] \in Nat /\ MaximumExtraStateBytes \in Nat
  BY FormatAssumption, PowerIs, Widths, Numbers
<1> QED
  BY <1>1 DEF U32

LEMMA WrittenIsSavable ==
  ASSUME TypeInv, Len(written.extra) <= MaximumExtraStateBytes
  PROVE  Savable(written.values, written.extra)
<1>1. /\ written.values \in Seq(Saved) /\ Len(written.values) \in U32
      /\ written.extra \in Seq(Byte) /\ Len(written.extra) \in Nat
  BY DEF TypeInv
<1> QED
  BY <1>1, SmallExtra DEF Savable

\* The pieces, and where they lie.
LEMMA PiecesFit ==
  ASSUME NEW v, NEW e, Savable(v, e)
  PROVE  LET P == Pieces(v, e)
             size == Size(Len(v), Len(e))
         IN  /\ P \in Seq(Seq(Byte) \ {<<>>}) /\ Len(P) \in Nat \ {0}
             /\ \A k \in 1 .. Len(P) :
                  /\ P[k] \in Seq(Byte) /\ Len(P[k]) \in Nat \ {0} /\ PieceAt(k) \in Nat
                  /\ PieceAt(k) + Len(P[k]) <= size
             /\ \A k \in 1 .. Len(P), m \in 1 .. Len(P) :
                  k < m => PieceAt(k) + Len(P[k]) <= PieceAt(m)
             /\ \A k \in 1 .. Len(P) - 1 : PieceAt(k) + Len(P[k]) = PieceAt(k + 1)
             /\ PieceAt(Len(P)) + Len(P[Len(P)]) = size
<1> DEFINE P == Pieces(v, e)
           T == Seq(Byte) \ {<<>>}
<1>2. Len(v) \in Nat
  BY DEF Savable
<1>4. P \in Seq(T) /\ Len(P) = IF e = <<>> THEN 4 + 2 * Len(v) ELSE 5 + 2 * Len(v)
  BY PiecesAre
<1>8. /\ \A k \in 1 .. Len(P) : PieceAt(k) \in Nat
      /\ \A k \in 1 .. Len(P) - 1 : PieceAt(k) + Len(P[k]) = PieceAt(k + 1)
      /\ PieceAt(Len(P)) + Len(P[Len(P)]) = Size(Len(v), Len(e))
  BY PiecesLie
<1>9. /\ \A k \in 1 .. Len(P), m \in 1 .. Len(P) : k < m => PieceAt(k) + Len(P[k]) <= PieceAt(m)
      /\ \A k \in 1 .. Len(P) : PieceAt(k) + Len(P[k]) <= Size(Len(v), Len(e))
  BY PiecesOrdered
<1> HIDE DEF P
<1>5. Len(P) \in Nat \ {0}
  BY <1>2, <1>4
<1>6. \A k \in 1 .. Len(P) : P[k] \in T
  <2> HIDE DEF T
  <2> QED
    BY <1>4
<1>7. \A t \in T : t \in Seq(Byte) /\ Len(t) \in Nat \ {0}
  OBVIOUS
<1> QED
  BY <1>4, <1>5, <1>6, <1>7, <1>8, <1>9 DEF P

LEMMA FileInit == Init => FileInv
BY DEF Init, FileInv

LEMMA FileStays ==
  ASSUME FileInv, op' # "writing", verdict' # "saved", UNCHANGED <<file, written>>
  PROVE  FileInv'
BY DEF FileInv, Begun, Parts, FullyWritten

LEMMA FileSaveBegin ==
  ASSUME TypeInv, NEW extra \in Extras, SaveBegin(extra) PROVE FileInv'
<1>1. CASE Len(extra) > MaximumExtraStateBytes
  BY <1>1 DEF SaveBegin, Return, FileInv
<1>2. CASE ~(Len(extra) > MaximumExtraStateBytes)
  <2> DEFINE T == Seq(Byte) \ {<<>>}
             P == Pieces(persistentValues, extra)
  <2>1. Len(extra) \in Nat /\ Len(extra) <= MaximumExtraStateBytes
    <3>1. Len(extra) \in Nat /\ MaximumExtraStateBytes \in Nat
      BY StoreAssumption, Numbers
    <3> QED
      BY <1>2, <3>1
  <2>2. /\ file' = <<>> /\ pieces' = P /\ verdict' = "none" /\ op' = "writing"
        /\ written' = [values |-> persistentValues, extra |-> extra]
    BY <1>2 DEF SaveBegin
  <2>3. written'.extra = extra /\ Parts' = P
    BY <2>2 DEF Parts
  <2>4. Savable(persistentValues, extra)
    BY <2>1, PersistentValuesAre, StoreAssumption, SmallExtra DEF Savable, TypeInv, TypeOK
  <2>5. /\ P \in Seq(T) /\ Len(P) \in Nat \ {0}
        /\ \A k \in 1 .. Len(P) : P[k] \in Seq(Byte) /\ Len(P[k]) \in Nat \ {0} /\ PieceAt(k) \in Nat
    BY <2>4, PiecesFit
  <2> HIDE DEF P, T
  <2>6. Begun'
    <3>1. Len(file') = 0
      BY <2>2
    <3>2. \A k \in 1 .. Len(P) : \A j \in 1 .. Len(P[k]) : ~(PieceAt(k) + j <= 0)
      BY <2>5
    <3> QED
      BY <2>3, <3>1, <3>2 DEF Begun
  <2>7. Left(1, 0)'
    <3>1. Len(file') = PieceAt(1) + 0
      BY <2>2, HeaderPieces
    <3>2. /\ Len(P) = Len(P) - 1 + 1
          /\ \A i \in 2 .. Len(P) : i = 1 + i - 1
          /\ Len(P[1]) = Len(P[1]) - 0
          /\ \A j \in 1 .. Len(P[1]) : j = 0 + j
      BY <2>5
    <3> QED
      BY <2>2, <2>3, <3>1, <3>2 DEF Left
  <2>8. 1 \in 1 .. Len(Parts') /\ 0 \in 0 .. Len(Parts'[1]) - 1
    BY <2>3, <2>5
  <2>9. Pending'
    BY <2>7, <2>8 DEF Pending
  <2> QED
    BY <2>1, <2>2, <2>3, <2>6, <2>9 DEF FileInv
<1> QED
  BY <1>1, <1>2

LEMMA FileGrows ==
  \A f, part \in Seq(Byte) :
    /\ Len(f \o part) = Len(f) + Len(part)
    /\ \A x \in 1 .. Len(f) : (f \o part)[x] = f[x]
    /\ \A x \in 1 .. Len(part) : (f \o part)[Len(f) + x] = part[x]
BY ConcatIs

LEMMA IsBefore ==
  ASSUME NEW at \in Nat, NEW j \in Nat, 1 <= j, NEW l \in Nat, at + j <= l
  PROVE  at + j \in 1 .. l
OBVIOUS

\* The n bytes that are taken of the piece at hand go where they belong.
LEMMA WrittenInPlace ==
  ASSUME TypeInv, Len(written.extra) <= MaximumExtraStateBytes, Begun, UNCHANGED written,
         NEW k \in 1 .. Len(Parts), NEW done \in 0 .. Len(Parts[k]) - 1, NEW n \in Nat \ {0},
         done + n <= Len(Parts[k]), Len(file) = PieceAt(k) + done,
         NEW part \in Seq(Byte), Len(part) = n, \A j \in 1 .. n : part[j] = Parts[k][done + j],
         file' = file \o part
  PROVE  Begun' /\ Len(file') = PieceAt(k) + (done + n)
<1> DEFINE P == Parts
           L == Len(P)
           l == Len(file)
           here == PieceAt(k)
<1>1. /\ Parts' = P /\ L \in Nat /\ l \in Nat /\ here \in Nat /\ l = here + done
      /\ \A m \in 1 .. L : PieceAt(m) \in Nat /\ Len(P[m]) \in Nat
      /\ \A a \in 1 .. L, b \in 1 .. L : a < b => PieceAt(a) + Len(P[a]) <= PieceAt(b)
  <2>1. file \in Seq(Byte)
    BY DEF TypeInv, TypeOK
  <2>2. Parts' = Parts
    BY DEF Parts
  <2>3. Savable(written.values, written.extra)
    BY WrittenIsSavable
  <2>4. /\ L \in Nat
        /\ \A m \in 1 .. L : PieceAt(m) \in Nat /\ Len(P[m]) \in Nat
        /\ \A a \in 1 .. L, b \in 1 .. L : a < b => PieceAt(a) + Len(P[a]) <= PieceAt(b)
    BY <2>3, PiecesFit DEF Parts
  <2>5. here \in Nat /\ l = here + done /\ l \in Nat
    BY <2>1, <2>4
  <2> QED
    BY <2>2, <2>4, <2>5
<1>2. /\ Len(file') = l + n
      /\ \A x \in 1 .. l : file'[x] = file[x]
      /\ \A x \in 1 .. n : file'[l + x] = part[x]
  <2>1. file \in Seq(Byte) /\ part \in Seq(Byte)
    BY DEF TypeInv, TypeOK
  <2>2. /\ Len(file \o part) = Len(file) + Len(part)
        /\ \A x \in 1 .. Len(file) : (file \o part)[x] = file[x]
        /\ \A x \in 1 .. Len(part) : (file \o part)[Len(file) + x] = part[x]
    BY <2>1, FileGrows
  <2> QED
    BY <2>2
<1>3. \A m \in 1 .. L : \A j \in 1 .. Len(P[m]) :
        PieceAt(m) + j <= l => file[PieceAt(m) + j] = P[m][j]
  BY DEF Begun
<1>4. /\ \A j \in 1 .. n : part[j] = P[k][done + j]
      /\ done + n <= Len(P[k])
  OBVIOUS
<1> HIDE DEF P, L, l, here
<1>5. ASSUME NEW m \in 1 .. L, NEW j \in 1 .. Len(P[m]), PieceAt(m) + j <= Len(file')
      PROVE  file'[PieceAt(m) + j] = P[m][j]
  <2>0. PieceAt(m) \in Nat /\ Len(P[m]) \in Nat /\ Len(P[k]) \in Nat /\ k \in 1 .. L /\ done \in Nat
    BY <1>1 DEF L, P
  <2>a. /\ j \in Nat /\ 1 <= j /\ j <= Len(P[m])
        /\ l \in Nat /\ here \in Nat /\ l = here + done
    BY <1>1, <2>0
  <2>b. PieceAt(m) + j <= l + n /\ done + n <= Len(P[k])
    BY <1>2, <1>4, <1>5
  <2>1. CASE PieceAt(m) + j <= l
    <3>1. PieceAt(m) + j \in 1 .. l
      BY <2>0, <2>1, <2>a, IsBefore
    <3> QED
      BY <1>2, <1>3, <2>1, <3>1
  <2>2. CASE l < PieceAt(m) + j
    <3>1. ~(m < k)
      <4>1. m < k => PieceAt(m) + Len(P[m]) <= here
        BY <1>1, <2>0 DEF here
      <4> QED
        BY <2>0, <2>2, <2>a, <4>1
    <3>2. ~(k < m)
      <4>1. k < m => here + Len(P[k]) <= PieceAt(m)
        BY <1>1, <2>0 DEF here
      <4> QED
        BY <2>0, <2>a, <2>b, <4>1
    <3>3. m = k
      BY <2>0, <3>1, <3>2
    <3> DEFINE x == j - done
    <3>4. x \in 1 .. n /\ PieceAt(m) + j = l + x /\ done + x = j
      BY <1>1, <1>2, <1>5, <2>0, <2>2, <3>3 DEF here
    <3> HIDE DEF x
    <3>5. file'[l + x] = part[x] /\ part[x] = P[k][done + x]
      BY <1>2, <1>4, <3>4
    <3> QED
      BY <3>3, <3>4, <3>5
  <2>3. PieceAt(m) + j <= l \/ l < PieceAt(m) + j
    BY <2>0, <2>a
  <2> QED
    BY <2>1, <2>2, <2>3
<1>6. Begun'
  BY <1>1, <1>5 DEF Begun, L, P
<1> QED
  BY <1>1, <1>2, <1>6 DEF here

LEMMA FileWrite ==
  ASSUME TypeInv, FileInv, Write PROVE FileInv'
<1> DEFINE T == Seq(Byte) \ {<<>>}
           P == Parts
           L == Len(P)
           head == Head(pieces)
           tail == Tail(pieces)
           size == Size(Len(written.values), Len(written.extra))
<1>1. /\ op = "writing" /\ pieces # <<>> /\ op' = op /\ verdict' = verdict
      /\ UNCHANGED written /\ verdict = "none"
  BY DEF Write, TypeInv
<1>2. Len(written.extra) <= MaximumExtraStateBytes /\ Begun /\ Pending
  BY <1>1 DEF FileInv
<1>0. PICK k \in 1 .. Len(Parts) : \E done \in 0 .. Len(Parts[k]) - 1 : Left(k, done)
  BY <1>1, <1>2 DEF Pending
<1>3. PICK done \in 0 .. Len(Parts[k]) - 1 : Left(k, done)
  BY <1>0
<1>4. Savable(written.values, written.extra)
  BY <1>2, WrittenIsSavable
<1>5. /\ P \in Seq(T) /\ L \in Nat \ {0}
      /\ \A m \in 1 .. L : P[m] \in Seq(Byte) /\ Len(P[m]) \in Nat \ {0} /\ PieceAt(m) \in Nat
      /\ \A m \in 1 .. L - 1 : PieceAt(m) + Len(P[m]) = PieceAt(m + 1)
      /\ PieceAt(L) + Len(P[L]) = size
  BY <1>4, PiecesFit DEF Parts
<1>6. /\ head \in Seq(Byte) /\ tail \in Seq(T) /\ Len(tail) = Len(pieces) - 1 /\ head = pieces[1]
      /\ \A i \in 1 .. Len(tail) : tail[i] = pieces[i + 1]
  <2>1. pieces \in Seq(T)
    BY DEF TypeInv
  <2>2. \A t \in T : t \in Seq(Byte)
    OBVIOUS
  <2> HIDE DEF T
  <2> QED
    BY <1>1, <2>1, <2>2
<1>7. PICK n \in 1 .. Len(head) :
        /\ file' = file \o SubSeq(head, 1, n)
        /\ pieces' = IF n = Len(head) THEN tail ELSE <<SubSeq(head, n + 1, Len(head))>> \o tail
  BY DEF Write
<1> HIDE DEF head, tail, T, size
<1>8. /\ Len(pieces) = L - k + 1 /\ Len(tail) = L - k /\ Len(head) = Len(P[k]) - done
      /\ \A i \in 1 .. Len(tail) : tail[i] = P[k + i]
      /\ \A j \in 1 .. Len(head) : head[j] = P[k][done + j]
      /\ Len(file) = PieceAt(k) + done
  <2>1. /\ Len(pieces) = L - k + 1 /\ Len(head) = Len(P[k]) - done
        /\ \A j \in 1 .. Len(head) : head[j] = P[k][done + j]
        /\ Len(file) = PieceAt(k) + done
    BY <1>3, <1>6 DEF Left
  <2>2. Len(tail) = L - k
    BY <1>5, <1>6, <2>1
  <2>3. ASSUME NEW i \in 1 .. Len(tail) PROVE tail[i] = P[k + i]
    <3>1. i + 1 \in 2 .. Len(pieces) /\ k + (i + 1) - 1 = k + i
      BY <1>5, <1>6, <2>1, <2>2
    <3> QED
      BY <1>3, <1>6, <3>1 DEF Left
  <2> QED
    BY <2>1, <2>2, <2>3
<1>9. Begun' /\ Len(file') = PieceAt(k) + (done + n)
  <2> DEFINE part == SubSeq(head, 1, n)
  <2>1. part \in Seq(Byte) /\ Len(part) = n /\ \A j \in 1 .. n : part[j] = head[j]
    BY <1>6
  <2>2. \A j \in 1 .. n : part[j] = P[k][done + j]
    <3>1. \A j \in 1 .. n : j \in 1 .. Len(head)
      BY <1>6
    <3> HIDE DEF part
    <3> QED
      BY <1>8, <2>1, <3>1
  <2>3. done + n <= Len(P[k]) /\ n \in Nat \ {0}
    <3>1. /\ Len(head) \in Nat /\ Len(P[k]) \in Nat /\ done \in Nat
          /\ Len(head) = Len(P[k]) - done
      BY <1>5, <1>6, <1>8
    <3> QED
      BY <3>1
  <2>4. file' = file \o part
    BY <1>7
  <2> HIDE DEF part
  <2> QED
    <3>1. /\ Len(written.extra) <= MaximumExtraStateBytes /\ Begun /\ UNCHANGED written
          /\ Len(file) = PieceAt(k) + done
      BY <1>1, <1>2, <1>8
    <3> QED
      BY <2>1, <2>2, <2>3, <2>4, <3>1, WrittenInPlace
<1>10. Parts' = P
  BY <1>1 DEF Parts
<1>11. Pending'
  <2>1. CASE n = Len(head)
    <3>1. pieces' = tail /\ Len(file') = PieceAt(k) + Len(P[k])
      BY <1>5, <1>7, <1>8, <1>9, <2>1
    <3>2. CASE k = L
      <4>1. pieces' = <<>>
        BY <1>5, <1>6, <1>8, <3>1, <3>2
      <4>2. Len(file') = size
        BY <1>5, <3>1, <3>2
      <4> QED
        BY <1>1, <4>1, <4>2 DEF Pending, FullyWritten, size
    <3>3. CASE k # L
      <4>1. /\ k + 1 \in 1 .. L /\ 0 \in 0 .. Len(P[k + 1]) - 1
            /\ Len(file') = PieceAt(k + 1) + 0
        BY <1>5, <3>1, <3>3
      <4>2. /\ Len(pieces') = L - (k + 1) + 1
            /\ pieces'[1] = P[k + 1]
            /\ \A i \in 2 .. Len(pieces') : pieces'[i] = P[(k + 1) + i - 1]
        <5>1. 1 \in 1 .. Len(tail) /\ Len(tail) = L - (k + 1) + 1
          BY <1>5, <1>8, <3>3
        <5>2. \A i \in 2 .. Len(tail) : i \in 1 .. Len(tail) /\ (k + 1) + i - 1 = k + i
          BY <1>5, <1>8
        <5> QED
          <6>1. tail[1] = P[k + 1] /\ \A i \in 2 .. Len(tail) : tail[i] = P[k + i]
            BY <1>8, <5>1, <5>2
          <6>2. pieces' = tail
            BY <3>1
          <6> HIDE DEF P
          <6> QED
            BY <5>1, <5>2, <6>1, <6>2
      <4>3. /\ Len(P[k + 1]) = Len(P[k + 1]) - 0
            /\ \A j \in 1 .. Len(P[k + 1]) : j = 0 + j
        BY <1>5, <4>1
      <4>4. Left(k + 1, 0)'
        BY <1>10, <4>1, <4>2, <4>3 DEF Left
      <4> QED
        BY <1>10, <4>1, <4>4 DEF Pending
    <3> QED
      BY <3>2, <3>3
  <2>2. CASE n # Len(head)
    <3> DEFINE rest == SubSeq(head, n + 1, Len(head))
    <3>1. n + 1 \in 1 .. Len(head) /\ Len(head) \in Nat
      BY <1>6, <2>2
    <3>2. /\ rest \in Seq(Byte) /\ Len(rest) = Len(head) - n
          /\ \A j \in 1 .. Len(rest) : rest[j] = head[n + j]
      BY <1>6, <3>1
    <3>3. pieces' = <<rest>> \o tail
      BY <1>7, <2>2
    <3> HIDE DEF rest
    <3>4. /\ Len(pieces') = 1 + Len(tail) /\ pieces'[1] = rest
          /\ \A i \in 1 .. Len(tail) : pieces'[1 + i] = tail[i]
      <4>1. <<rest>> \in Seq(Seq(Byte)) /\ tail \in Seq(Seq(Byte)) /\ Len(<<rest>>) = 1
        <5>1. tail \in Seq(Seq(Byte))
          BY <1>6 DEF T
        <5> QED
          BY <3>2, <5>1
      <4> QED
        BY <3>3, <4>1, ConcatIs
    <3>5. done + n \in 0 .. Len(P[k]) - 1
      BY <1>5, <1>8, <3>1
    <3>6. /\ Len(pieces') = L - k + 1
          /\ \A i \in 2 .. Len(pieces') : pieces'[i] = P[k + i - 1]
      <4>1. Len(pieces') = L - k + 1
        BY <1>5, <1>8, <3>4
      <4>2. ASSUME NEW i \in 2 .. Len(pieces') PROVE pieces'[i] = P[k + i - 1]
        <5>1. i - 1 \in 1 .. Len(tail) /\ 1 + (i - 1) = i /\ k + (i - 1) = k + i - 1
          BY <1>5, <1>8, <3>4
        <5> QED
          BY <1>8, <3>4, <5>1
      <4> QED
        BY <4>1, <4>2
    <3>7. Len(pieces'[1]) = Len(P[k]) - (done + n)
      BY <1>5, <1>8, <3>1, <3>2, <3>4
    <3>8. ASSUME NEW j \in 1 .. Len(pieces'[1]) PROVE pieces'[1][j] = P[k][(done + n) + j]
      <4>1. j \in 1 .. Len(rest) /\ n + j \in 1 .. Len(head) /\ done + (n + j) = (done + n) + j
        <5>1. j \in 1 .. Len(rest)
          BY <3>4
        <5>2. n \in Nat /\ done \in Nat /\ n + Len(rest) = Len(head)
          BY <1>6, <3>1, <3>2
        <5> QED
          BY <3>1, <5>1, <5>2
      <4> QED
        BY <1>8, <3>2, <3>4, <4>1
    <3>9. Left(k, done + n)'
      BY <1>9, <1>10, <3>6, <3>7, <3>8 DEF Left
    <3> QED
      BY <1>10, <3>5, <3>9 DEF Pending
  <2> QED
    BY <2>1, <2>2
<1> QED
  BY <1>1, <1>2, <1>9, <1>11 DEF FileInv

LEMMA FileSaveEnd ==
  ASSUME TypeInv, FileInv, SaveEnd PROVE FileInv'
<1>1. op = "writing" /\ pieces = <<>> /\ op' = "idle" /\ UNCHANGED <<file, written>>
  BY DEF SaveEnd, Return, saveVars
<1>2. Len(written.extra) <= MaximumExtraStateBytes /\ Begun /\ Pending
  BY <1>1 DEF FileInv
<1>3. FullyWritten
  <2>1. ASSUME NEW k \in 1 .. Len(Parts), NEW done, Left(k, done) PROVE FALSE
    <3>1. Len(Parts) \in Nat
      BY <1>2, WrittenIsSavable, PiecesFit DEF Parts
    <3>2. Len(pieces) = 0
      BY <1>1
    <3>3. Len(pieces) = Len(Parts) - k + 1
      BY <2>1 DEF Left
    <3> QED
      BY <3>1, <3>2, <3>3
  <2> QED
    BY <1>2, <2>1 DEF Pending
<1> QED
  BY <1>1, <1>2, <1>3 DEF FileInv, Begun, Parts, FullyWritten

LEMMA FileNext == TypeInv /\ FileInv /\ [Next]_vars => FileInv'
<1> SUFFICES ASSUME TypeInv, FileInv, [Next]_vars PROVE FileInv'
  OBVIOUS
<1>1. ASSUME NEW x \in Registered, NEW v \in Values, Edit(x, v) PROVE FileInv'
  BY <1>1, FileStays DEF Edit, saveVars
<1>2. ASSUME NEW extra \in Extras, SaveBegin(extra) PROVE FileInv'
  BY <1>2, FileSaveBegin
<1>3. ASSUME NEW stream, LoadBegin(stream) PROVE FileInv'
  BY <1>3, FileStays DEF LoadBegin, saveVars
<1>4. CASE Write
  BY <1>4, FileWrite
<1>5. CASE SaveEnd
  BY <1>5, FileSaveEnd
<1>6. CASE WriteFails
  BY <1>6, FileStays DEF WriteFails, Return
<1>7. CASE Load \/ ReadFails
  <2>1. op \in Fields \cup {"rescan"}
    BY <1>7 DEF Load, Read, ReadEnd, GotMagic, GotVersion, GotCount, GotExtraSize, GotId, GotValue,
                GotExtra, LoadEnd, ReadFails, Reading, Complete, Fields
  <2>2. verdict = "none"
    BY <2>1 DEF TypeInv, Fields
  <2>3. op' \in Fields \cup {"idle", "rescan"} /\ verdict' # "saved" /\ UNCHANGED <<file, written>>
    BY <1>7, <2>1, <2>2
       DEF Load, Read, ReadEnd, GotMagic, GotVersion, GotCount, GotExtraSize, GotId, GotValue,
           GotExtra, LoadEnd, ReadFails, Refuse, NextField, AfterRecords, Return, saveVars, Fields
  <2>4. op' # "writing"
    BY <2>3 DEF Fields
  <2> QED
    BY <2>3, <2>4, FileStays
<1>8. CASE UNCHANGED vars
  <2>1. UNCHANGED <<op, verdict, file, written, pieces>>
    BY <1>8 DEF vars, saveVars
  <2>2. Parts' = Parts /\ FullyWritten' = FullyWritten
    BY <2>1 DEF Parts, FullyWritten
  <2>3. Begun' = Begun /\ Pending' = Pending
    BY <2>1, <2>2 DEF Begun, Pending, Left
  <2> QED
    BY <2>1, <2>2, <2>3 DEF FileInv
<1> QED
  BY <1>1, <1>2, <1>3, <1>4, <1>5, <1>6, <1>7, <1>8 DEF Next, Save

(* A file that holds every piece at its place, and no more, is a state with *)
(* what was saved.                                                          *)
LEMMA PiecesMakeAState ==
  ASSUME NEW f \in Seq(Byte), NEW v, NEW e, Savable(v, e), Len(e) <= MaximumExtraStateBytes,
         Len(f) = Size(Len(v), Len(e)),
         \A k \in 1 .. Len(Pieces(v, e)) : \A j \in 1 .. Len(Pieces(v, e)[k]) :
           f[PieceAt(k) + j] = Pieces(v, e)[k][j]
  PROVE  IsState(f, v, e)
<1> DEFINE P == Pieces(v, e)
           n == Len(v)
           m == Len(e)
<1>1. /\ n \in Nat /\ n \in U32 /\ e \in Seq(Byte) /\ m \in U32 /\ m \in Nat
      /\ FormatVersion \in U32
      /\ \A i \in 1 .. n : v[i].id \in U32 /\ v[i].value \in U64
  <2>1. v \in Seq(Saved) /\ n \in U32 /\ e \in Seq(Byte) /\ m \in U32
    BY DEF Savable
  <2>2. \A i \in 1 .. n : v[i] \in Saved
    BY <2>1
  <2> QED
    BY <2>1, <2>2, FormatAssumption DEF Saved
<1>2. /\ Len(P) = IF e = <<>> THEN 4 + 2 * n ELSE 5 + 2 * n
      /\ P[1] = Magic /\ P[2] = WriteU32(FormatVersion) /\ P[3] = WriteU32(n) /\ P[4] = WriteU32(m)
      /\ \A i \in 1 .. n : /\ P[3 + 2 * i] = WriteU32(v[i].id)
                           /\ P[4 + 2 * i] = WriteU64(v[i].value)
      /\ e # <<>> => P[5 + 2 * n] = e
  BY PiecesAre
<1>3. \A k \in 1 .. Len(P) :
        /\ P[k] \in Seq(Byte) /\ Len(P[k]) \in Nat /\ PieceAt(k) \in Nat
        /\ PieceAt(k) + Len(P[k]) <= Len(f)
  BY PiecesFit
<1>4. \A k \in 1 .. Len(P) : \A j \in 1 .. Len(P[k]) : f[PieceAt(k) + j] = P[k][j]
  OBVIOUS
<1>5. Size(n, m) = RecordAt(n + 1) + m /\ Len(f) = Size(n, m) /\ m <= MaximumExtraStateBytes
  BY DEF Size
<1> HIDE DEF P, n, m
<1>6. ASSUME NEW k \in 1 .. Len(P) PROVE Slice(f, PieceAt(k), Len(P[k])) = P[k]
  <2>1. P[k] \in Seq(Byte) /\ Len(P[k]) \in Nat /\ PieceAt(k) \in Nat /\ PieceAt(k) + Len(P[k]) <= Len(f)
    BY <1>3
  <2>2. /\ Slice(f, PieceAt(k), Len(P[k])) \in Seq(Byte)
        /\ Len(Slice(f, PieceAt(k), Len(P[k]))) = Len(P[k])
        /\ \A j \in 1 .. Len(P[k]) : Slice(f, PieceAt(k), Len(P[k]))[j] = f[PieceAt(k) + j]
    BY <2>1, SliceIs
  <2> QED
    BY <1>4, <2>1, <2>2, SameSequence
<1>7. /\ 1 \in 1 .. Len(P) /\ 2 \in 1 .. Len(P) /\ 3 \in 1 .. Len(P) /\ 4 \in 1 .. Len(P)
      /\ \A i \in 1 .. n : 3 + 2 * i \in 1 .. Len(P) /\ 4 + 2 * i \in 1 .. Len(P)
      /\ e # <<>> => 5 + 2 * n \in 1 .. Len(P)
  <2>1. CASE e = <<>>
    BY <1>1, <1>2, <2>1
  <2>2. CASE e # <<>>
    BY <1>1, <1>2, <2>2
  <2> QED
    BY <2>1, <2>2
<1>8. ASSUME NEW k \in 1 .. Len(P), NEW x \in U32, P[k] = WriteU32(x) PROVE U32At(f, PieceAt(k)) = x
  BY <1>6, <1>8, WriteU32Is DEF U32At
<1>9. ASSUME NEW k \in 1 .. Len(P), NEW x \in U64, P[k] = WriteU64(x) PROVE U64At(f, PieceAt(k)) = x
  BY <1>6, <1>9, WriteU64Is DEF U64At
<1>10. U32At(f, VersionAt) = FormatVersion /\ U32At(f, CountAt) = n /\ U32At(f, ExtraSizeAt) = m
  BY <1>1, <1>2, <1>7, <1>8, HeaderPieces
<1>11. Slice(f, 0, Len(Magic)) = Magic
  BY <1>2, <1>6, <1>7, HeaderPieces
<1>12. n + 1 \in Nat \ {0} /\ RecordAt(n + 1) \in Nat /\ RecordAt(n + 1) >= HeaderSize
  <2>1. n + 1 \in Nat \ {0}
    BY <1>1
  <2> QED
    BY <2>1, RecordsLie
<1>13. HasHeader(f)
  <2>1. Len(f) >= HeaderSize
    BY <1>1, <1>5, <1>12, Header
  <2> QED
    BY <1>5, <1>10, <1>11, <2>1 DEF HasHeader
<1>14. HasRecords(f, v)
  <2>1. ASSUME NEW i \in 1 .. n
        PROVE  U32At(f, RecordAt(i)) = v[i].id /\ U64At(f, RecordAt(i) + Wide) = v[i].value
    <3>1. i \in Nat \ {0}
      BY <1>1
    <3>2. PieceAt(3 + 2 * i) = RecordAt(i) /\ PieceAt(4 + 2 * i) = RecordAt(i) + Wide
      BY <3>1, RecordPieces
    <3>3. v[i].id \in U32 /\ v[i].value \in U64
      BY <1>1
    <3>4. U32At(f, PieceAt(3 + 2 * i)) = v[i].id
      BY <1>2, <1>7, <1>8, <3>3
    <3>5. U64At(f, PieceAt(4 + 2 * i)) = v[i].value
      BY <1>2, <1>7, <1>9, <3>3
    <3> QED
      BY <3>2, <3>4, <3>5
  <2>2. DOMAIN v = 1 .. n
    BY DEF Savable, n
  <2> QED
    BY <2>1, <2>2 DEF HasRecords
<1>15. Slice(f, RecordAt(n + 1), m) = e
  <2>1. CASE e = <<>>
    <3>1. m = 0
      BY <2>1 DEF m
    <3>2. RecordAt(n + 1) + 0 <= Len(f)
      BY <1>5, <1>12, <3>1
    <3>3. Slice(f, RecordAt(n + 1), 0) \in Seq(Byte) /\ Len(Slice(f, RecordAt(n + 1), 0)) = 0
      BY <1>12, <3>2, SliceIs
    <3> QED
      BY <2>1, <3>1, <3>3
  <2>2. CASE e # <<>>
    <3>1. PieceAt(5 + 2 * n) = RecordAt(n + 1)
      <4>1. 3 + 2 * (n + 1) = 5 + 2 * n
        BY <1>1
      <4> QED
        BY <1>12, <4>1, RecordPieces
    <3> QED
      BY <1>2, <1>6, <1>7, <2>2, <3>1 DEF m
  <2> QED
    BY <2>1, <2>2
<1> QED
  BY <1>5, <1>10, <1>13, <1>14, <1>15 DEF IsState, n, m

\* A file that is complete is a state.
LEMMA WholeFile ==
  ASSUME TypeInv, FileInv, FullyWritten
  PROVE  verdict = "saved" \/ file # <<>> => IsState(file, written.values, written.extra)
<1> SUFFICES ASSUME verdict = "saved" \/ file # <<>>
             PROVE  IsState(file, written.values, written.extra)
  OBVIOUS
<1> DEFINE v == written.values
           e == written.extra
<1>1. Len(e) <= MaximumExtraStateBytes /\ Begun
  BY DEF FileInv
<1>2. Savable(v, e) /\ file \in Seq(Byte)
  BY <1>1, WrittenIsSavable DEF TypeInv, TypeOK
<1>3. Len(file) = Size(Len(v), Len(e)) /\ Parts = Pieces(v, e)
  BY DEF FullyWritten, Parts
<1> HIDE DEF v, e
<1>4. ASSUME NEW k \in 1 .. Len(Parts), NEW j \in 1 .. Len(Parts[k])
      PROVE  file[PieceAt(k) + j] = Parts[k][j]
  <2>1. /\ PieceAt(k) \in Nat /\ Len(Parts[k]) \in Nat /\ Len(file) \in Nat
        /\ PieceAt(k) + Len(Parts[k]) <= Len(file)
    BY <1>2, <1>3, PiecesFit
  <2>2. PieceAt(k) + j <= Len(file)
    BY <2>1
  <2> QED
    BY <1>1, <2>2 DEF Begun
<1> QED
  BY <1>1, <1>2, <1>3, <1>4, PiecesMakeAState DEF v, e

(* What a save leaves behind when it says it has succeeded is a state, with *)
(* the values and the payload it was given, whatever parts of the pieces    *)
(* the stream took at a time (StateWriter, writeBytes, Plugin::stateSave).  *)
THEOREM SavesAreStates == Spec => []SavedFilesAreStates
<1>1. TypeInv /\ FileInv => SavedFilesAreStates
  BY WholeFile DEF SavedFilesAreStates, FileInv
<1> QED
  BY TypeInit, TypeNext, FileInit, FileNext, <1>1, PTL DEF Spec
-----------------------------------------------------------------------------
(* What load() reads. *)

LEMMA FieldsLie ==
  ASSUME TypeInv
  PROVE  /\ FieldAt \in Nat /\ Len(restored) \in Nat /\ count \in Nat /\ extraSize \in Nat
         /\ \A n \in Nat \ {0} : /\ RecordAt(n) \in Nat /\ RecordAt(n) >= HeaderSize
                                 /\ RecordAt(n + 1) = RecordAt(n) + Wide + Long
<1>1. Len(restored) \in Nat /\ count \in Nat /\ extraSize \in Nat
  BY Numbers DEF TypeInv, TypeOK
<1>2. \A n \in Nat \ {0} : /\ RecordAt(n) \in Nat /\ RecordAt(n) >= HeaderSize
                           /\ RecordAt(n + 1) = RecordAt(n) + Wide + Long
  BY RecordsLie
<1>3. RecordAt(Len(restored) + 1) \in Nat /\ RecordAt(count + 1) \in Nat
  <2>1. Len(restored) + 1 \in Nat \ {0} /\ count + 1 \in Nat \ {0}
    BY <1>1
  <2> QED
    BY <1>2, <2>1
<1>4. FieldAt \in Nat
  <2>1. RecordAt(Len(restored) + 1) + Wide \in Nat
    BY <1>3, Widths
  <2> QED
    BY <1>3, <2>1, Header DEF FieldAt
<1> QED
  BY <1>1, <1>2, <1>4

\* A field that is complete is what stands at its place.
LEMMA CompleteField ==
  ASSUME TypeInv, LoadInv, op \in Fields, Len(field) = FieldSize
  PROVE  /\ field = Slice(given, FieldAt, FieldSize) /\ field \in Seq(Byte)
         /\ FieldAt \in Nat /\ FieldSize \in Nat /\ Position = FieldAt + FieldSize
         /\ Position \in Nat /\ Position <= Len(given)
<1>1. field = Slice(given, FieldAt, Len(field)) /\ Position = FieldAt + Len(field)
  BY DEF LoadInv
<1>2. field \in Seq(Byte) /\ input \in Seq(Byte) /\ given \in Seq(Byte) /\ extraSize \in U32
  BY DEF TypeInv, TypeOK
<1>3. FieldSize \in Nat /\ FieldAt \in Nat
  BY <1>2, FieldSizes, FieldsLie
<1>4. Position <= Len(given)
  BY <1>2 DEF Position
<1> QED
  BY <1>1, <1>2, <1>3, <1>4

\* What a stream that holds a state has room for.
LEMMA StateHasRoom ==
  ASSUME NEW f \in Seq(Byte), HoldsState(f)
  PROVE  /\ HeaderSize <= Len(f) /\ U32At(f, CountAt) \in Nat /\ U32At(f, ExtraSizeAt) \in Nat
         /\ RecordAt(U32At(f, CountAt) + 1) + U32At(f, ExtraSizeAt) <= Len(f)
         /\ \A i \in 1 .. U32At(f, CountAt) : RecordAt(i) + Wide + Long <= Len(f)
<1> DEFINE c == U32At(f, CountAt)
           e == U32At(f, ExtraSizeAt)
<1>1. HeaderSize <= Len(f) /\ RecordAt(c + 1) + e <= Len(f)
  BY DEF HoldsState, HasHeader, Size
<1>2. CountAt + Wide <= Len(f) /\ ExtraSizeAt + Wide <= Len(f)
  BY <1>1, Header, Widths
<1>3. c \in Nat /\ e \in Nat
  BY <1>2, Header, U32AtIs
<1> HIDE DEF c, e
<1>4. ASSUME NEW i \in 1 .. c PROVE RecordAt(i) + Wide + Long <= Len(f)
  <2>1. i \in Nat \ {0} /\ c + 1 \in Nat \ {0} /\ i < c + 1
    BY <1>3
  <2>2. RecordAt(i) + Wide + Long <= RecordAt(c + 1) /\ RecordAt(c + 1) \in Nat /\ RecordAt(i) \in Nat
    BY <2>1, RecordsLie
  <2> QED
    BY <1>1, <1>3, <2>2, Widths
<1> QED
  BY <1>1, <1>3, <1>4 DEF c, e

\* A stream that has ended within a field holds no state.
LEMMA EndedTooSoon ==
  ASSUME TypeInv, LoadInv, Reading, input = <<>> PROVE ~HoldsState(given)
<1>1. /\ op \in Fields /\ Len(field) < FieldSize /\ given \in Seq(Byte) /\ field \in Seq(Byte)
      /\ extraSize \in U32
  BY DEF Reading, TypeInv, TypeOK
<1>2. Position = FieldAt + Len(field) /\ Position = Len(given) /\ FieldsRead
  BY <1>1 DEF LoadInv, Position
<1>3. FieldAt \in Nat /\ FieldSize \in Nat /\ Len(field) \in Nat /\ Len(given) \in Nat
  <2>1. FieldSize \in Nat
    BY <1>1, FieldSizes
  <2>2. FieldAt \in Nat
    BY FieldsLie
  <2> QED
    BY <1>1, <2>1, <2>2
<1>4. Len(given) < FieldAt + FieldSize
  BY <1>1, <1>2, <1>3
<1>5. SUFFICES ASSUME HoldsState(given) PROVE FieldAt + FieldSize <= Len(given)
  BY <1>3, <1>4
<1> DEFINE c == U32At(given, CountAt)
           e == U32At(given, ExtraSizeAt)
<1>6. /\ HeaderSize <= Len(given) /\ c \in Nat /\ e \in Nat
      /\ RecordAt(c + 1) + e <= Len(given)
      /\ \A i \in 1 .. c : RecordAt(i) + Wide + Long <= Len(given)
  BY <1>1, <1>5, StateHasRoom
<1> HIDE DEF c, e
<1>7. CASE op \in {"magic", "version", "count", "extraSize"}
  <2>1. CASE op = "magic"
    <3>1. FieldAt = 0 /\ FieldSize = Len(Magic)
      BY <2>1 DEF FieldAt, FieldSize
    <3> QED
      BY <1>6, <3>1, Header, Widths
  <2>2. CASE op = "version"
    <3>1. FieldAt = VersionAt /\ FieldSize = Wide
      BY <2>2 DEF FieldAt, FieldSize
    <3> QED
      BY <1>3, <1>6, <3>1, Header, Widths
  <2>3. CASE op = "count"
    <3>1. FieldAt = CountAt /\ FieldSize = Wide
      BY <2>3 DEF FieldAt, FieldSize
    <3> QED
      BY <1>3, <1>6, <3>1, Header, Widths
  <2>4. CASE op = "extraSize"
    <3>1. FieldAt = ExtraSizeAt /\ FieldSize = Wide
      BY <2>4 DEF FieldAt, FieldSize
    <3> QED
      BY <1>3, <1>6, <3>1, Header, Widths
  <2> QED
    BY <1>7, <2>1, <2>2, <2>3, <2>4
<1>8. CASE op \in {"id", "value"}
  <2> DEFINE i == Len(restored) + 1
  <2>1. count = c /\ Len(restored) < count /\ Len(restored) \in Nat
    BY <1>2, <1>8, FieldsLie DEF FieldsRead, c
  <2>2. i \in 1 .. c /\ i \in Nat \ {0}
    BY <1>6, <2>1
  <2> HIDE DEF i
  <2>3. RecordAt(i) + Wide + Long <= Len(given) /\ RecordAt(i) \in Nat
    BY <1>6, <2>2, FieldsLie
  <2>4. CASE op = "id"
    <3>1. FieldAt = RecordAt(i) /\ FieldSize = Wide
      BY <2>4 DEF FieldAt, FieldSize, i
    <3> QED
      BY <1>3, <2>3, <3>1, Widths
  <2>5. CASE op = "value"
    <3>1. FieldAt = RecordAt(i) + Wide /\ FieldSize = Long
      BY <2>5 DEF FieldAt, FieldSize, i
    <3> QED
      BY <1>3, <2>3, <3>1, Widths
  <2> QED
    BY <1>8, <2>4, <2>5
<1>9. CASE op = "extra"
  <2>1. FieldAt = RecordAt(count + 1) /\ FieldSize = extraSize /\ count = c /\ extraSize = e
    BY <1>2, <1>9 DEF FieldAt, FieldSize, FieldsRead, c, e
  <2> QED
    BY <1>6, <2>1
<1> QED
  BY <1>1, <1>7, <1>8, <1>9 DEF Fields

LEMMA LoadInit == Init => LoadInv
<1> SUFFICES ASSUME Init PROVE LoadInv
  OBVIOUS
<1>1. Len(<<>>) = 0
  OBVIOUS
<1> QED
  BY <1>1 DEF Init, LoadInv, LoadIsExact, Fields

\* No load is under way, and none has just ended.
LEMMA NothingLoads ==
  ASSUME op' \notin Fields \cup {"rescan"}, verdict' \notin {"loaded", "notLoaded"},
         \/ LoadInv /\ UNCHANGED <<input, given>>
         \/ input' = <<>> /\ given' = <<>>
  PROVE  LoadInv'
<1>1. Len(<<>>) = 0
  OBVIOUS
<1>2. CASE LoadInv /\ UNCHANGED <<input, given>>
  BY <1>2 DEF LoadInv, LoadIsExact, Position
<1>3. CASE input' = <<>> /\ given' = <<>>
  BY <1>1, <1>3 DEF LoadInv, LoadIsExact
<1> QED
  BY <1>2, <1>3

LEMMA LoadBegins ==
  ASSUME TypeInv, NEW stream \in {file} \cup ForeignFiles, LoadBegin(stream) PROVE LoadInv'
<1>1. stream \in Seq(Byte) /\ Len(stream) \in Nat
  BY StoreAssumption DEF TypeInv, TypeOK
<1>2. /\ op' = "magic" /\ verdict' = "none" /\ input' = stream /\ given' = stream
      /\ field' = <<>> /\ restored' = <<>>
  BY DEF LoadBegin
<1>3. Position' = 0 /\ FieldAt' = 0 /\ Len(field') = 0
  BY <1>1, <1>2 DEF Position, FieldAt
<1>4. field' = Slice(given', FieldAt', Len(field'))
  BY <1>1, <1>2, <1>3 DEF Slice
<1>5. \A j \in 1 .. Len(stream) : 0 + j = j
  BY <1>1
<1>6. FieldsRead'
  BY <1>2 DEF FieldsRead, HasRecords
<1>7. LoadIsExact'
  BY <1>2 DEF LoadIsExact
<1> QED
  BY <1>1, <1>2, <1>3, <1>4, <1>5, <1>6, <1>7 DEF LoadInv

LEMMA LoadReads ==
  ASSUME TypeInv, LoadInv, Read PROVE LoadInv'
<1>1. /\ field \in Seq(Byte) /\ input \in Seq(Byte) /\ given \in Seq(Byte) /\ op \in Fields
      /\ FieldAt \in Nat /\ Len(input) <= Len(given) /\ verdict = "none" /\ op # "idle"
  BY FieldsLie DEF Read, Reading, LoadInv, TypeInv, TypeOK, Fields
<1>2. PICK n \in 1 .. FieldSize - Len(field) :
        /\ n <= Len(input)
        /\ field' = field \o SubSeq(input, 1, n)
        /\ input' = SubSeq(input, n + 1, Len(input))
  BY DEF Read
<1>3. /\ op' = op /\ verdict' = verdict
      /\ UNCHANGED <<count, extraSize, id, given, restored>>
  BY DEF Read
<1>4. /\ Position = FieldAt + Len(field) /\ field = Slice(given, FieldAt, Len(field))
      /\ \A j \in 1 .. Len(input) : input[j] = given[Position + j]
      /\ FieldsRead
  BY <1>1 DEF LoadInv
<1>5. n \in Nat \ {0} /\ Len(input) \in Nat /\ Len(given) \in Nat /\ Len(field) \in Nat
      /\ Position \in Nat /\ Position = Len(given) - Len(input)
  BY <1>1, <1>2 DEF Position
<1> DEFINE part == SubSeq(input, 1, n)
<1>6. part \in Seq(Byte) /\ Len(part) = n /\ \A j \in 1 .. n : part[j] = input[j]
  BY <1>1, <1>2, <1>5
<1>7. /\ input' \in Seq(Byte) /\ Len(input') = Len(input) - n
      /\ \A j \in 1 .. Len(input') : input'[j] = input[n + j]
  <2>1. n + 1 \in 1 .. Len(input) + 1
    BY <1>2, <1>5
  <2>2. input' \in Seq(Byte) /\ Len(input') = Len(input) - n
    BY <1>1, <1>2, <1>5, <2>1
  <2>3. \A j \in 1 .. Len(input) - n : SubSeq(input, n + 1, Len(input))[j] = input[n + j]
    BY <1>1, <1>5, <2>1
  <2> QED
    BY <1>2, <2>2, <2>3
<1> HIDE DEF part
<1>8. /\ field' \in Seq(Byte) /\ Len(field') = Len(field) + n
      /\ \A j \in 1 .. Len(field) : field'[j] = field[j]
      /\ \A j \in 1 .. n : field'[Len(field) + j] = part[j]
  <2>1. field' = field \o part
    BY <1>2 DEF part
  <2>2. /\ field \o part \in Seq(Byte) /\ Len(field \o part) = Len(field) + Len(part)
        /\ \A j \in 1 .. Len(field) : (field \o part)[j] = field[j]
        /\ \A j \in 1 .. Len(part) : (field \o part)[Len(field) + j] = part[j]
    <3>1. field \in Seq(Byte) /\ part \in Seq(Byte)
      BY <1>1, <1>6
    <3> QED
      BY <3>1, ConcatIs
  <2> QED
    BY <1>6, <2>1, <2>2
<1>9. Position' = Position + n /\ Len(input') <= Len(given') /\ FieldAt' = FieldAt
  <2>1. Position' = Len(given) - (Len(input) - n)
    BY <1>3, <1>7 DEF Position
  <2>2. FieldAt' = FieldAt
    BY <1>3 DEF FieldAt
  <2>3. Len(input') <= Len(given')
    BY <1>1, <1>3, <1>5, <1>7
  <2> QED
    BY <1>5, <2>1, <2>2, <2>3
<1>10. ASSUME NEW j \in 1 .. Len(input') PROVE input'[j] = given'[Position' + j]
  <2>1. n + j \in 1 .. Len(input) /\ Position + (n + j) = (Position + n) + j
    BY <1>2, <1>5, <1>7
  <2> QED
    BY <1>3, <1>4, <1>7, <1>9, <2>1
<1>11. field' = Slice(given, FieldAt, Len(field'))
  <2> DEFINE l == Len(field)
             slice == Slice(given, FieldAt, l + n)
  <2>1. FieldAt + (l + n) <= Len(given) /\ l + n \in Nat /\ FieldAt + l <= Len(given)
    BY <1>1, <1>2, <1>4, <1>5
  <2>2. /\ slice \in Seq(Byte) /\ Len(slice) = l + n
        /\ \A j \in 1 .. l + n : slice[j] = given[FieldAt + j]
    BY <1>1, <2>1, SliceIs
  <2>3. \A j \in 1 .. l : field[j] = given[FieldAt + j]
    <3>1. \A j \in 1 .. l : Slice(given, FieldAt, l)[j] = given[FieldAt + j]
      <4>1. given \in Seq(Byte) /\ FieldAt \in Nat /\ l \in Nat /\ FieldAt + l <= Len(given)
        BY <1>1, <1>5, <2>1
      <4> HIDE DEF l
      <4> QED
        BY <4>1, SliceIs
    <3> QED
      BY <1>4, <3>1
  <2> HIDE DEF slice, l
  <2>4. ASSUME NEW j \in 1 .. l + n PROVE field'[j] = given[FieldAt + j]
    <3>1. l \in Nat /\ Position = FieldAt + l
      BY <1>4, <1>5 DEF l
    <3>2. CASE j <= l
      <4>1. j \in 1 .. l
        BY <3>1, <3>2
      <4> QED
        BY <1>8, <2>3, <4>1 DEF l
    <3>3. CASE l < j
      <4> DEFINE x == j - l
      <4>1. x \in 1 .. n /\ l + x = j /\ x \in 1 .. Len(input) /\ Position + x = FieldAt + j
        <5>1. n <= Len(input) /\ n \in Nat /\ Len(input) \in Nat /\ FieldAt \in Nat
          BY <1>1, <1>2, <1>5
        <5>2. x \in 1 .. n /\ l + x = j
          BY <3>1, <3>3, <5>1
        <5>3. (FieldAt + l) + x = FieldAt + j
          BY <3>1, <5>1
        <5> HIDE DEF x
        <5> QED
          BY <3>1, <5>1, <5>2, <5>3
      <4> HIDE DEF x
      <4>2. field'[l + x] = part[x] /\ part[x] = input[x] /\ input[x] = given[Position + x]
        BY <1>4, <1>6, <1>8, <4>1 DEF l
      <4> QED
        BY <4>1, <4>2
    <3>4. j <= l \/ l < j
      BY <1>5, <3>1
    <3> QED
      BY <3>2, <3>3, <3>4
  <2>5. field' = slice
    <3>1. Len(field') = l + n
      BY <1>8 DEF l
    <3> QED
      BY <1>8, <2>2, <2>4, <3>1, SameSequence
  <2> QED
    BY <1>8, <2>5 DEF slice, l
<1>12. FieldsRead'
  BY <1>3, <1>4 DEF FieldsRead
<1>13. LoadIsExact'
  BY <1>1, <1>3 DEF LoadIsExact
<1>14. Position' = FieldAt' + Len(field')
  <2>1. Position' = (FieldAt + Len(field)) + n /\ FieldAt' + Len(field') = FieldAt + (Len(field) + n)
    BY <1>4, <1>8, <1>9
  <2>2. FieldAt \in Nat /\ Len(field) \in Nat /\ n \in Nat
    BY <1>1, <1>5
  <2> QED
    BY <2>1, <2>2
<1> QED
  BY <1>1, <1>3, <1>9, <1>10, <1>11, <1>12, <1>13, <1>14 DEF LoadInv, Fields

\* A load that is given up: the stream or the plug-in failed it, or the stream
\* holds no state.
LEMMA LoadStops ==
  ASSUME LoadInv, op' = "idle", verdict' = "notLoaded", UNCHANGED <<input, given>>,
         failed' \/ ~HoldsState(given)
  PROVE  LoadInv'
BY DEF LoadInv, LoadIsExact, Position, Fields

\* A load that goes on to the next field.
LEMMA LoadContinues ==
  ASSUME TypeInv, LoadInv, op \in Fields, op' \in Fields, field' = <<>>,
         UNCHANGED <<verdict, input, given>>,
         FieldAt' = Position, FieldsRead'
  PROVE  LoadInv'
<1>1. Position' = Position /\ Len(field') = 0 /\ verdict' = "none"
  BY DEF Position, TypeInv, Fields
<1>2. Position \in Nat /\ Position <= Len(given) /\ given \in Seq(Byte)
  BY DEF Position, LoadInv, TypeInv, TypeOK
<1>3. Slice(given, Position, 0) = <<>>
  <2>1. 0 \in Nat /\ Position + 0 <= Len(given)
    BY <1>2
  <2>2. Slice(given, Position, 0) \in Seq(Byte) /\ Len(Slice(given, Position, 0)) = 0
    BY <1>2, <2>1, SliceIs
  <2> QED
    BY <2>2
<1>4. Position' = FieldAt' + Len(field') /\ field' = Slice(given', FieldAt', Len(field'))
  BY <1>1, <1>2, <1>3
<1>5. LoadIsExact'
  BY <1>1 DEF LoadIsExact
<1>6. Len(input') <= Len(given') /\ \A j \in 1 .. Len(input') : input'[j] = given'[Position' + j]
  BY <1>1 DEF LoadInv
<1> QED
  BY <1>4, <1>5, <1>6 DEF LoadInv, Fields

LEMMA LoadGotMagic ==
  ASSUME TypeInv, LoadInv, GotMagic PROVE LoadInv'
<1>1. op = "magic" /\ op \in Fields /\ Len(field) = FieldSize
  BY DEF GotMagic, Complete, Fields
<1>2. field = Slice(given, 0, Len(Magic)) /\ Position = 0 + Len(Magic) /\ FieldsRead
  <2>1. FieldAt = 0 /\ FieldSize = Len(Magic)
    BY <1>1 DEF FieldAt, FieldSize
  <2> QED
    BY <1>1, <2>1, CompleteField DEF LoadInv
<1>3. CASE field # Magic
  <2>1. ~HoldsState(given)
    BY <1>2, <1>3 DEF HoldsState, HasHeader
  <2> QED
    BY <1>3, <2>1, LoadStops DEF GotMagic, Refuse, Return, loadVars
<1>4. CASE field = Magic
  <2>1. /\ op' = "version" /\ field' = <<>>
        /\ UNCHANGED <<verdict, input, given, count, extraSize, id, restored>>
    BY <1>4 DEF GotMagic, NextField
  <2>2. FieldAt' = Position
    BY <1>2, <2>1, Header, Widths DEF FieldAt
  <2>3. FieldsRead'
    BY <1>1, <1>2, <1>4, <2>1 DEF FieldsRead
  <2> QED
    BY <1>1, <2>1, <2>2, <2>3, LoadContinues DEF Fields
<1> QED
  BY <1>3, <1>4

LEMMA LoadGotVersion ==
  ASSUME TypeInv, LoadInv, GotVersion PROVE LoadInv'
<1>1. op = "version" /\ op \in Fields /\ Len(field) = FieldSize
  BY DEF GotVersion, Complete, Fields
<1>2. Number(field) = U32At(given, VersionAt) /\ Position = VersionAt + Wide /\ FieldsRead
  <2>1. FieldAt = VersionAt /\ FieldSize = Wide
    BY <1>1 DEF FieldAt, FieldSize
  <2> QED
    BY <1>1, <2>1, CompleteField DEF LoadInv, U32At
<1>3. CASE Number(field) # FormatVersion
  <2>1. ~HoldsState(given)
    BY <1>2, <1>3 DEF HoldsState, HasHeader
  <2> QED
    BY <1>3, <2>1, LoadStops DEF GotVersion, Refuse, Return, loadVars
<1>4. CASE Number(field) = FormatVersion
  <2>1. /\ op' = "count" /\ field' = <<>>
        /\ UNCHANGED <<verdict, input, given, count, extraSize, id, restored>>
    BY <1>4 DEF GotVersion, NextField
  <2>2. FieldAt' = Position
    BY <1>2, <2>1, Header DEF FieldAt
  <2>3. FieldsRead'
    BY <1>1, <1>2, <1>4, <2>1 DEF FieldsRead
  <2> QED
    BY <1>1, <2>1, <2>2, <2>3, LoadContinues DEF Fields
<1> QED
  BY <1>3, <1>4

LEMMA LoadGotCount ==
  ASSUME TypeInv, LoadInv, GotCount PROVE LoadInv'
<1>1. op = "count" /\ op \in Fields /\ Len(field) = FieldSize
  BY DEF GotCount, Complete, Fields
<1>2. Number(field) = U32At(given, CountAt) /\ Position = CountAt + Wide /\ FieldsRead
  <2>1. FieldAt = CountAt /\ FieldSize = Wide
    BY <1>1 DEF FieldAt, FieldSize
  <2> QED
    BY <1>1, <2>1, CompleteField DEF LoadInv, U32At
<1>3. /\ op' = "extraSize" /\ field' = <<>> /\ count' = Number(field)
      /\ UNCHANGED <<verdict, input, given, extraSize, id, restored>>
  BY DEF GotCount, NextField
<1>4. FieldAt' = Position
  BY <1>2, <1>3, Header DEF FieldAt
<1>5. FieldsRead'
  BY <1>1, <1>2, <1>3 DEF FieldsRead
<1> QED
  BY <1>1, <1>3, <1>4, <1>5, LoadContinues DEF Fields

LEMMA LoadGotExtraSize ==
  ASSUME TypeInv, LoadInv, GotExtraSize PROVE LoadInv'
<1>1. op = "extraSize" /\ op \in Fields /\ Len(field) = FieldSize
  BY DEF GotExtraSize, Complete, Fields
<1>2. Number(field) = U32At(given, ExtraSizeAt) /\ Position = ExtraSizeAt + Wide /\ FieldsRead
      /\ Number(field) \in Nat
  <2>1. FieldAt = ExtraSizeAt /\ FieldSize = Wide
    BY <1>1 DEF FieldAt, FieldSize
  <2>2. Number(field) \in Nat
    BY <1>1, CompleteField, NumberBound
  <2> QED
    BY <1>1, <2>1, <2>2, CompleteField DEF LoadInv, U32At
<1>3. CASE Number(field) > MaximumExtraStateBytes
  <2>1. ~(U32At(given, ExtraSizeAt) <= MaximumExtraStateBytes)
    BY <1>2, <1>3, Numbers
  <2>2. ~HoldsState(given)
    BY <2>1 DEF HoldsState, HasHeader
  <2> QED
    BY <1>3, <2>2, LoadStops DEF GotExtraSize, Refuse, Return, loadVars
<1>4. CASE ~(Number(field) > MaximumExtraStateBytes)
  <2>1. /\ op' = AfterRecords(0) /\ field' = <<>> /\ extraSize' = Number(field)
        /\ UNCHANGED <<verdict, input, given, count, id, restored>>
    BY <1>4 DEF GotExtraSize, NextField
  <2>2. restored = <<>> /\ Len(restored) = 0 /\ count \in Nat
    BY <1>1, <1>2, FieldsLie DEF FieldsRead
  <2>3. CASE 0 < count
    <3>1. op' = "id"
      BY <2>1, <2>3 DEF AfterRecords
    <3>2. FieldAt' = RecordAt(0 + 1)
      BY <2>1, <2>2, <3>1 DEF FieldAt
    <3>3. FieldAt' = Position
      BY <1>2, <3>2, Header, FirstRecord
    <3>4. FieldsRead'
      BY <1>1, <1>2, <2>1, <2>2, <2>3, <3>1 DEF FieldsRead
    <3> QED
      BY <1>1, <2>1, <3>1, <3>3, <3>4, LoadContinues DEF Fields
  <2>4. CASE ~(0 < count)
    <3>1. op' = "extra" /\ count = 0
      BY <2>1, <2>2, <2>4 DEF AfterRecords
    <3>2. FieldAt' = RecordAt(0 + 1)
      BY <2>1, <3>1 DEF FieldAt
    <3>3. FieldAt' = Position
      BY <1>2, <3>2, Header, FirstRecord
    <3>4. FieldsRead'
      BY <1>1, <1>2, <2>1, <2>2, <3>1 DEF FieldsRead
    <3> QED
      BY <1>1, <2>1, <3>1, <3>3, <3>4, LoadContinues DEF Fields
  <2> QED
    BY <2>3, <2>4
<1> QED
  BY <1>3, <1>4

LEMMA LoadGotId ==
  ASSUME TypeInv, LoadInv, GotId PROVE LoadInv'
<1>1. op = "id" /\ op \in Fields /\ Len(field) = FieldSize
  BY DEF GotId, Complete, Fields
<1> DEFINE at == RecordAt(Len(restored) + 1)
<1>2. Number(field) = U32At(given, at) /\ Position = at + Wide /\ FieldsRead
  <2>1. FieldAt = at /\ FieldSize = Wide
    BY <1>1 DEF FieldAt, FieldSize
  <2> HIDE DEF at
  <2> QED
    BY <1>1, <2>1, CompleteField DEF LoadInv, U32At
<1>3. /\ op' = "value" /\ field' = <<>> /\ id' = Number(field)
      /\ UNCHANGED <<verdict, input, given, count, extraSize, restored>>
  BY DEF GotId, NextField
<1>4. FieldAt' = Position
  BY <1>2, <1>3 DEF FieldAt
<1>5. FieldsRead'
  BY <1>1, <1>2, <1>3 DEF FieldsRead
<1> QED
  BY <1>1, <1>3, <1>4, <1>5, LoadContinues DEF Fields

LEMMA LoadGotValue ==
  ASSUME TypeInv, LoadInv, GotValue PROVE LoadInv'
<1>1. op = "value" /\ op \in Fields /\ Len(field) = FieldSize
  BY DEF GotValue, Complete, Fields
<1> DEFINE n == Len(restored)
           at == RecordAt(n + 1)
           record == [id |-> id, value |-> Number(field)]
<1>2. Number(field) = U64At(given, at + Wide) /\ Position = (at + Wide) + Long /\ FieldsRead
  <2>1. FieldAt = at + Wide /\ FieldSize = Long
    BY <1>1 DEF FieldAt, FieldSize
  <2> HIDE DEF at
  <2> QED
    BY <1>1, <2>1, CompleteField DEF LoadInv, U64At
<1>3. /\ op' = AfterRecords(n + 1) /\ field' = <<>> /\ restored' = Append(restored, record)
      /\ UNCHANGED <<verdict, input, given, count, extraSize, id>>
  BY DEF GotValue
<1>4. /\ n \in Nat /\ count \in Nat /\ n < count /\ id = U32At(given, at)
      /\ RecordAt((n + 1) + 1) = at + Wide + Long
  <2>1. n \in Nat /\ count \in Nat /\ n < count /\ id = U32At(given, at)
    BY <1>1, <1>2, FieldsLie DEF FieldsRead
  <2>2. n + 1 \in Nat \ {0}
    BY <2>1
  <2> QED
    BY <2>1, <2>2, FieldsLie
<1>5. record.id = id /\ record.value = Number(field)
  OBVIOUS
<1>6. /\ Len(restored') = n + 1 /\ DOMAIN restored' = 1 .. n + 1
      /\ \A i \in 1 .. n : restored'[i] = restored[i]
      /\ restored'[n + 1] = record
      /\ DOMAIN restored = 1 .. n
  <2>1. restored \in Seq(Saved)
    BY DEF TypeInv
  <2> HIDE DEF record
  <2> QED
    BY <1>3, <2>1
<1> HIDE DEF record, n, at
<1>7. HasRecords(given', restored')
  <2>1. ASSUME NEW i \in 1 .. n + 1
        PROVE  /\ U32At(given', RecordAt(i)) = restored'[i].id
               /\ U64At(given', RecordAt(i) + Wide) = restored'[i].value
    <3>1. CASE i \in 1 .. n
      BY <1>2, <1>3, <1>6, <3>1 DEF FieldsRead, HasRecords
    <3>2. CASE i = n + 1
      BY <1>2, <1>3, <1>4, <1>5, <1>6, <3>2 DEF at
    <3> QED
      BY <1>4, <3>1, <3>2
  <2> QED
    BY <1>6, <2>1 DEF HasRecords
<1>8. CASE n + 1 < count
  <2>1. op' = "id"
    BY <1>3, <1>8 DEF AfterRecords
  <2>2. FieldAt' = Position
    BY <1>2, <1>4, <1>6, <2>1 DEF FieldAt
  <2>3. FieldsRead'
    BY <1>1, <1>2, <1>3, <1>6, <1>7, <1>8, <2>1 DEF FieldsRead
  <2> QED
    BY <1>1, <1>3, <2>1, <2>2, <2>3, LoadContinues DEF Fields
<1>9. CASE ~(n + 1 < count)
  <2>1. op' = "extra" /\ n + 1 = count
    BY <1>3, <1>4, <1>9 DEF AfterRecords
  <2>2. FieldAt' = Position
    BY <1>2, <1>3, <1>4, <2>1 DEF FieldAt
  <2>3. FieldsRead'
    BY <1>1, <1>2, <1>3, <1>6, <1>7, <2>1 DEF FieldsRead
  <2> QED
    BY <1>1, <1>3, <2>1, <2>2, <2>3, LoadContinues DEF Fields
<1> QED
  BY <1>8, <1>9

\* The bytes before a position say what they say in the whole file.
LEMMA BeginningSays ==
  ASSUME NEW f \in Seq(Byte), NEW p \in 0 .. Len(f)
  PROVE  LET part == SubSeq(f, 1, p)
         IN  /\ part \in Seq(Byte) /\ Len(part) = p
             /\ \A at, n \in Nat : at + n <= p => Slice(part, at, n) = Slice(f, at, n)
<1> DEFINE part == SubSeq(f, 1, p)
<1>1. part \in Seq(Byte) /\ Len(part) = p /\ \A j \in 1 .. p : part[j] = f[j]
  OBVIOUS
<1> HIDE DEF part
<1>2. Len(part) <= Len(f) /\ \A j \in 1 .. Len(part) : part[j] = f[j]
  BY <1>1
<1>3. ASSUME NEW at \in Nat, NEW n \in Nat, at + n <= p PROVE Slice(part, at, n) = Slice(f, at, n)
  BY <1>1, <1>2, <1>3, SliceOfPart
<1> QED
  BY <1>1, <1>3 DEF part

\* Its first bytes say the same.
LEMMA ReadIsState ==
  ASSUME TypeInv, LoadInv, op = "extra", Len(field) = FieldSize
  PROVE  IsState(SubSeq(given, 1, Position), restored, field)
<1> DEFINE part == SubSeq(given, 1, Position)
           n == Len(restored)
           m == extraSize
<1>1. op \in Fields /\ given \in Seq(Byte) /\ FieldsRead
  BY DEF Fields, LoadInv, TypeInv, TypeOK
<1>2. FieldAt = RecordAt(count + 1) /\ FieldSize = extraSize
  BY DEF FieldAt, FieldSize
<1>3. /\ n = count /\ n \in Nat /\ m \in Nat /\ Len(field) = m
      /\ field = Slice(given, RecordAt(n + 1), m)
      /\ Position = RecordAt(n + 1) + m /\ Position \in 0 .. Len(given)
  <2>1. n = count /\ n \in Nat /\ m \in Nat
    BY <1>1, FieldsLie DEF FieldsRead
  <2>2. /\ field = Slice(given, FieldAt, FieldSize) /\ Position = FieldAt + FieldSize
        /\ Position \in Nat /\ Position <= Len(given)
    BY <1>1, CompleteField
  <2>3. Position \in 0 .. Len(given)
    BY <2>2, <1>1
  <2> QED
    BY <1>2, <2>1, <2>2, <2>3
<1>4. /\ n + 1 \in Nat \ {0} /\ RecordAt(n + 1) \in Nat /\ RecordAt(n + 1) >= HeaderSize
      /\ \A i \in 1 .. n : RecordAt(i) \in Nat /\ RecordAt(i) + Wide + Long <= RecordAt(n + 1)
  <2>1. n + 1 \in Nat \ {0}
    BY <1>3
  <2>2. \A i \in 1 .. n : i \in Nat \ {0} /\ i < n + 1
    BY <1>3
  <2> HIDE DEF n
  <2> QED
    BY <2>1, <2>2, RecordsLie
<1>5. /\ part \in Seq(Byte) /\ Len(part) = Position
      /\ \A at, l \in Nat : at + l <= Position => Slice(part, at, l) = Slice(given, at, l)
  BY <1>1, <1>3, BeginningSays
<1> HIDE DEF part, n, m
<1>6. RecordAt(n + 1) + m = Position /\ HeaderSize <= Position /\ RecordAt(n + 1) <= Position
  BY <1>3, <1>4, Header
<1>7. \A at \in Nat : at + Wide <= Position => U32At(part, at) = U32At(given, at)
  BY <1>5, Widths DEF U32At
<1>8. \A at \in Nat : at + Long <= Position => U64At(part, at) = U64At(given, at)
  BY <1>5, Widths DEF U64At
<1>9. /\ Slice(part, 0, Len(Magic)) = Magic
      /\ U32At(part, VersionAt) = FormatVersion
      /\ U32At(part, CountAt) = n
      /\ U32At(part, ExtraSizeAt) = m
  <2>1. Position \in Nat
    BY <1>3, <1>4
  <2>2. /\ Len(Magic) \in Nat /\ 0 + Len(Magic) <= Position /\ VersionAt + Wide <= Position
        /\ CountAt + Wide <= Position /\ ExtraSizeAt + Wide <= Position
    BY <1>6, <2>1, Header, Widths
  <2>3. Slice(part, 0, Len(Magic)) = Slice(given, 0, Len(Magic))
    BY <1>5, <2>2
  <2>4. /\ U32At(part, VersionAt) = U32At(given, VersionAt)
        /\ U32At(part, CountAt) = U32At(given, CountAt)
        /\ U32At(part, ExtraSizeAt) = U32At(given, ExtraSizeAt)
    BY <1>7, <2>2, Header
  <2> QED
    BY <1>1, <1>3, <2>3, <2>4 DEF FieldsRead, m
<1>10. HasHeader(part)
  <2>1. m <= MaximumExtraStateBytes
    BY DEF m, TypeInv, TypeOK
  <2>2. Len(part) >= HeaderSize
    BY <1>3, <1>4, <1>5, <1>6, Header
  <2> QED
    BY <1>9, <2>1, <2>2 DEF HasHeader
<1>11. HasRecords(part, restored)
  <2>1. DOMAIN restored = 1 .. n
    BY DEF TypeInv, n
  <2>2. ASSUME NEW i \in 1 .. n
        PROVE  /\ U32At(part, RecordAt(i)) = restored[i].id
               /\ U64At(part, RecordAt(i) + Wide) = restored[i].value
    <3>1. RecordAt(i) \in Nat /\ RecordAt(i) + Wide + Long <= RecordAt(n + 1) /\ Position \in Nat
      BY <1>3, <1>4
    <3>2. /\ RecordAt(i) + Wide <= Position /\ RecordAt(i) + Wide \in Nat
          /\ (RecordAt(i) + Wide) + Long <= Position
      BY <1>4, <1>6, <3>1, Widths
    <3>3. /\ U32At(part, RecordAt(i)) = U32At(given, RecordAt(i))
          /\ U64At(part, RecordAt(i) + Wide) = U64At(given, RecordAt(i) + Wide)
      BY <1>7, <1>8, <3>1, <3>2
    <3> QED
      BY <1>1, <2>1, <3>3 DEF FieldsRead, HasRecords
  <2> QED
    BY <2>1, <2>2 DEF HasRecords
<1>12. Slice(part, RecordAt(n + 1), m) = field
  <2>1. RecordAt(n + 1) + m <= Position
    BY <1>3, <1>4, <1>6
  <2> QED
    BY <1>3, <1>4, <1>5, <2>1
<1>13. Len(part) = Size(n, m)
  BY <1>5, <1>6 DEF Size
<1> QED
  BY <1>3, <1>9, <1>10, <1>11, <1>12, <1>13 DEF IsState, part, n

LEMMA LoadGotExtra ==
  ASSUME TypeInv, LoadInv, GotExtra PROVE LoadInv'
<1>1. /\ op = "extra" /\ Len(field) = FieldSize /\ verdict = "none"
      /\ UNCHANGED <<input, given, restored, field>>
  BY DEF GotExtra, Complete, loadVars, TypeInv
<1>2. CASE op' = "idle" /\ verdict' = "notLoaded" /\ failed'
  BY <1>1, <1>2, LoadStops
<1>3. CASE op' = "rescan" /\ verdict' = "none"
  <2>1. IsState(SubSeq(given, 1, Position), restored, field)
    BY <1>1, ReadIsState
  <2>2. IsState(consumed, restored, field)'
    BY <1>1, <2>1 DEF consumed, Position
  <2>3. LoadIsExact'
    BY <1>3 DEF LoadIsExact
  <2> QED
    BY <1>1, <1>3, <2>2, <2>3 DEF LoadInv, Position, Fields
<1> QED
  BY <1>1, <1>2, <1>3 DEF GotExtra, Return

LEMMA LoadEnds ==
  ASSUME TypeInv, LoadInv, LoadEnd PROVE LoadInv'
<1>1. /\ op = "rescan" /\ op' = "idle" /\ verdict' = "loaded"
      /\ UNCHANGED <<input, given, restored, field>>
  BY DEF LoadEnd, Return, loadVars
<1>2. IsState(consumed, restored, field)'
  BY <1>1 DEF LoadInv, consumed
<1>3. LoadIsExact'
  BY <1>1, <1>2 DEF LoadIsExact
<1> QED
  BY <1>1, <1>2, <1>3 DEF LoadInv, Position, Fields

LEMMA LoadNext == TypeInv /\ LoadInv /\ [Next]_vars => LoadInv'
<1> SUFFICES ASSUME TypeInv, LoadInv, [Next]_vars PROVE LoadInv'
  OBVIOUS
<1>1. ASSUME NEW x \in Registered, NEW v \in Values, Edit(x, v) PROVE LoadInv'
  BY <1>1, NothingLoads DEF Edit, Forget, Fields
<1>2. ASSUME NEW extra \in Extras, SaveBegin(extra) PROVE LoadInv'
  BY <1>2, NothingLoads DEF SaveBegin, Forget, Return, Fields
<1>3. ASSUME NEW stream \in {file} \cup ForeignFiles, LoadBegin(stream) PROVE LoadInv'
  BY <1>3, LoadBegins
<1>4. CASE Save \/ WriteFails
  <2>1. verdict = "none" /\ op = "writing"
    BY <1>4 DEF Save, Write, SaveEnd, WriteFails, TypeInv
  <2>2. op' \in {"writing", "idle"} /\ verdict' \in {"none", "saved", "notSaved"}
        /\ UNCHANGED <<input, given>>
    BY <1>4, <2>1 DEF Save, Write, SaveEnd, WriteFails, Return, loadVars
  <2> QED
    BY <2>2, NothingLoads DEF Fields
<1>5. CASE Read
  BY <1>5, LoadReads
<1>6. CASE ReadEnd
  BY <1>6, EndedTooSoon, LoadStops DEF ReadEnd, Return, loadVars
<1>7. CASE ReadFails
  BY <1>7, LoadStops DEF ReadFails, Return, loadVars
<1>8. CASE GotMagic \/ GotVersion \/ GotCount \/ GotExtraSize \/ GotId \/ GotValue \/ GotExtra
             \/ LoadEnd
  BY <1>8, LoadGotMagic, LoadGotVersion, LoadGotCount, LoadGotExtraSize, LoadGotId, LoadGotValue,
     LoadGotExtra, LoadEnds
<1>9. CASE UNCHANGED vars
  BY <1>9 DEF vars, loadVars, LoadInv, LoadIsExact, consumed, Position, FieldAt, FieldsRead
<1> QED
  BY <1>1, <1>2, <1>3, <1>4, <1>5, <1>6, <1>7, <1>8, <1>9 DEF Next, Load

(* A load that succeeds has consumed a whole state and restored just what   *)
(* it says, and one that fails was failed by the stream or the plug-in, or  *)
(* was given no state (StateReader, readBytes, Plugin::stateLoad).          *)
THEOREM LoadsAreExact == Spec => []LoadIsExact
<1>1. LoadInv => LoadIsExact
  BY DEF LoadInv
<1> QED
  BY TypeInit, TypeNext, LoadInit, LoadNext, <1>1, PTL DEF Spec
-----------------------------------------------------------------------------
(* What was saved comes back. *)

\* A file has one state at most: one it begins with and one it is are the same.
LEMMA OneState ==
  ASSUME NEW f \in Seq(Byte), NEW p \in 0 .. Len(f),
         NEW v \in Seq(Saved), NEW e \in Seq(Byte), NEW r \in Seq(Saved), NEW x,
         IsState(f, v, e), IsState(SubSeq(f, 1, p), r, x)
  PROVE  r = v /\ x = e
<1> DEFINE part == SubSeq(f, 1, p)
           n == Len(r)
           m == Len(x)
<1>1. /\ part \in Seq(Byte) /\ Len(part) = p
      /\ \A at, l \in Nat : at + l <= p => Slice(part, at, l) = Slice(f, at, l)
  BY BeginningSays
<1>2. /\ U32At(f, CountAt) = Len(v) /\ U32At(f, ExtraSizeAt) = Len(e)
      /\ HasRecords(f, v) /\ Slice(f, RecordAt(Len(v) + 1), Len(e)) = e
  BY DEF IsState
<1>3. /\ U32At(part, CountAt) = n /\ U32At(part, ExtraSizeAt) = m
      /\ HasRecords(part, r) /\ Slice(part, RecordAt(n + 1), m) = x
      /\ Len(part) = RecordAt(n + 1) + m /\ Len(part) >= HeaderSize
  BY DEF IsState, HasHeader, Size
<1>4. n \in Nat /\ Len(v) \in Nat /\ Len(e) \in Nat /\ p \in Nat
  OBVIOUS
<1>5. DOMAIN r = 1 .. n /\ DOMAIN v = 1 .. Len(v)
  OBVIOUS
<1> HIDE DEF part, n, m
<1>6. \A at \in Nat : at + Wide <= p => U32At(part, at) = U32At(f, at)
  BY <1>1, Widths DEF U32At
<1>7. \A at \in Nat : at + Long <= p => U64At(part, at) = U64At(f, at)
  BY <1>1, Widths DEF U64At
<1>8. n = Len(v) /\ m = Len(e)
  <2>1. CountAt + Wide <= p /\ ExtraSizeAt + Wide <= p
    BY <1>1, <1>3, <1>4, Header, Widths
  <2> QED
    BY <1>2, <1>3, <1>6, <2>1, Header
<1>9. RecordAt(n + 1) \in Nat /\ RecordAt(n + 1) + m = p /\ RecordAt(n + 1) <= p
  <2>1. n + 1 \in Nat \ {0}
    BY <1>4
  <2>2. RecordAt(n + 1) \in Nat
    BY <2>1, RecordsLie
  <2> QED
    BY <1>1, <1>3, <1>4, <1>8, <2>2
<1>10. x = e
  BY <1>1, <1>2, <1>3, <1>4, <1>8, <1>9
<1>11. ASSUME NEW i \in 1 .. n PROVE r[i] = v[i]
  <2>1. i \in Nat \ {0} /\ n + 1 \in Nat \ {0} /\ i < n + 1
    BY <1>4
  <2>2. RecordAt(i) \in Nat /\ RecordAt(i) + Wide + Long <= RecordAt(n + 1)
    BY <2>1, RecordsLie
  <2>3. /\ RecordAt(i) + Wide <= p /\ RecordAt(i) + Wide \in Nat
        /\ (RecordAt(i) + Wide) + Long <= p
    BY <1>4, <1>9, <2>2, Widths
  <2>4. /\ U32At(part, RecordAt(i)) = U32At(f, RecordAt(i))
        /\ U64At(part, RecordAt(i) + Wide) = U64At(f, RecordAt(i) + Wide)
    BY <1>6, <1>7, <2>2, <2>3
  <2>5. /\ U32At(part, RecordAt(i)) = r[i].id /\ U64At(part, RecordAt(i) + Wide) = r[i].value
        /\ U32At(f, RecordAt(i)) = v[i].id /\ U64At(f, RecordAt(i) + Wide) = v[i].value
    BY <1>2, <1>3, <1>5, <1>8 DEF HasRecords
  <2>6. r[i] \in Saved /\ v[i] \in Saved
    BY <1>5, <1>8
  <2>7. r[i].id = v[i].id /\ r[i].value = v[i].value
    BY <2>4, <2>5
  <2>8. \A a, b \in Saved : a.id = b.id /\ a.value = b.value => a = b
    BY DEF Saved
  <2> QED
    BY <2>6, <2>7, <2>8
<1>12. r = v
  BY <1>8, <1>11, SameSequence DEF n
<1> QED
  BY <1>10, <1>12

(* A load that is given what a save has left, and succeeds, restores the    *)
(* values and the payload that were saved (stateSave, stateLoad).           *)
THEOREM SavedComesBack == Spec => []RoundTrip
<1>1. ASSUME TypeInv, FileInv, LoadInv PROVE RoundTrip
  <2>1. SUFFICES ASSUME verdict = "loaded", given = file, FullyWritten
                 PROVE  restored = written.values /\ field = written.extra
    BY DEF RoundTrip
  <2>2. /\ file \in Seq(Byte) /\ input \in Seq(Byte) /\ restored \in Seq(Saved)
        /\ written.values \in Seq(Saved) /\ written.extra \in Seq(Byte)
    BY <1>1 DEF TypeInv, TypeOK
  <2>3. Position \in 0 .. Len(file) /\ IsState(SubSeq(file, 1, Position), restored, field)
    <3>1. Len(input) <= Len(given) /\ IsState(consumed, restored, field)
      BY <1>1, <2>1 DEF LoadInv, LoadIsExact
    <3> QED
      BY <2>1, <2>2, <3>1 DEF consumed, Position
  <2>4. file # <<>>
    <3>1. Len(SubSeq(file, 1, Position)) >= HeaderSize
      BY <2>3 DEF IsState, HasHeader
    <3>2. Len(SubSeq(file, 1, Position)) = Position
      BY <2>2, <2>3
    <3>3. HeaderSize \in Nat /\ HeaderSize > 0
      BY Header, Widths
    <3>4. Len(file) # 0
      BY <2>2, <2>3, <3>1, <3>2, <3>3
    <3> QED
      BY <3>4
  <2>5. IsState(file, written.values, written.extra)
    BY <1>1, <2>1, <2>4, WholeFile
  <2> QED
    BY <2>2, <2>3, <2>5, OneState
<1> QED
  BY TypeInit, TypeNext, FileInit, FileNext, LoadInit, LoadNext, <1>1, PTL DEF Spec
-----------------------------------------------------------------------------
(* What the host knows. *)

\* What HostMissesOnlyFailedLoads says, during a load as well: until it ends,
\* the host may miss what it has restored so far.
HostInv ==
  /\ DOMAIN base = Registered /\ DOMAIN hostValues = Registered
  /\ \E S : restored \in Seq(S)
  /\ op # "idle" => verdict = "none"
  /\ canUseParams =>
       \A x \in Registered : hostValues[x] # base[x] =>
         x \in leftBehind \/ (op \in Fields \cup {"rescan"} /\ x \in RestoredIds)

LEMMA HostInit == ReloadInit => HostInv
<1> SUFFICES ASSUME ReloadInit PROVE HostInv
  OBVIOUS
<1>1. hostValues = base /\ DOMAIN base = Registered /\ restored \in Seq({}) /\ op = "idle"
  BY DEF ReloadInit, Init
<1> QED
  BY <1>1 DEF HostInv

\* A save, or the beginning of a call: no value changes.
LEMMA HostStateCalls ==
  ASSUME HostInv, StateCalls PROVE HostInv'
<1> USE DEF saveVars, loadVars, hostVars, Fields
<1>1. op \in {"idle", "writing"} /\ UNCHANGED <<base, canUseParams, hostValues, leftBehind>>
  BY DEF StateCalls, SaveBegin, LoadBegin, Save, Write, SaveEnd, WriteFails
<1>2. op' # "idle" => verdict' = "none"
  BY DEF StateCalls, SaveBegin, LoadBegin, Save, Write, SaveEnd, WriteFails, Return, HostInv
<1>3. restored' = restored \/ restored' = <<>>
  BY DEF StateCalls, SaveBegin, LoadBegin, Forget, Save, Write, SaveEnd, WriteFails
<1>4. \E S : restored' \in Seq(S)
  <2>1. <<>> \in Seq({})
    OBVIOUS
  <2> QED
    BY <1>3, <2>1 DEF HostInv
<1> QED
  BY <1>1, <1>2, <1>4 DEF HostInv

\* A step of a load changes no value but that of the record it restores.
LEMMA LoadRestores ==
  ASSUME HostInv, Load, op' # "idle"
  PROVE  /\ op \in Fields \cup {"rescan"} /\ op' \in Fields \cup {"rescan"}
         /\ verdict' = verdict /\ RestoredIds \subseteq RestoredIds'
         /\ \E S : restored' \in Seq(S)
         /\ DOMAIN base' = Registered
         /\ \A x \in Registered : base'[x] # base[x] => x \in RestoredIds'
<1> USE DEF Fields
<1>1. CASE GotValue
  <2> DEFINE record == [id |-> id, value |-> Number(field)]
  <2>1. op = "value" /\ op' \in {"id", "extra"} /\ verdict' = verdict
    BY <1>1 DEF GotValue, Complete, AfterRecords
  <2>2. base' = RestorePersistentValue(id, Number(field)) /\ restored' = Append(restored, record)
    BY <1>1 DEF GotValue
  <2>3. PICK S : restored \in Seq(S)
    BY DEF HostInv
  <2> DEFINE T == S \cup {record}
  <2>4. restored \in Seq(T) /\ record \in T
    BY <2>3
  <2>5. record.id = id
    OBVIOUS
  <2> HIDE DEF T, record
  <2>6. /\ restored' \in Seq(T) /\ DOMAIN restored' = DOMAIN restored \cup {Len(restored) + 1}
        /\ \A i \in DOMAIN restored : restored'[i] = restored[i]
        /\ restored'[Len(restored) + 1].id = id
    BY <2>2, <2>4, <2>5
  <2>7. RestoredIds \subseteq RestoredIds' /\ (id \in Kept => id \in RestoredIds')
    BY <2>6 DEF RestoredIds
  <2>8. DOMAIN base' = Registered
        /\ \A x \in Registered : base'[x] # base[x] => x = id /\ x \in Kept
    BY <2>2 DEF HostInv, RestorePersistentValue, Kept
  <2> QED
    BY <2>1, <2>6, <2>7, <2>8
<1>2. CASE ~GotValue
  <2>1. /\ op \in Fields \cup {"rescan"} /\ op' \in Fields \cup {"rescan"}
        /\ UNCHANGED <<base, verdict, restored>>
    BY <1>2 DEF Load, Read, ReadEnd, GotMagic, GotVersion, GotCount, GotExtraSize, GotId, GotExtra,
                LoadEnd, Reading, Complete, AfterRecords, NextField, Refuse, Return, loadVars
  <2> QED
    BY <2>1 DEF HostInv, RestoredIds
<1> QED
  BY <1>1, <1>2

LEMMA HostLoadGoesOn ==
  ASSUME HostInv, LoadGoesOn PROVE HostInv'
<1>1. /\ op \in Fields \cup {"rescan"} /\ op' \in Fields \cup {"rescan"}
      /\ verdict' = verdict /\ RestoredIds \subseteq RestoredIds'
      /\ \E S : restored' \in Seq(S)
      /\ DOMAIN base' = Registered
      /\ \A x \in Registered : base'[x] # base[x] => x \in RestoredIds'
  BY LoadRestores DEF LoadGoesOn
<1>2. UNCHANGED <<canUseParams, hostValues, leftBehind>>
  BY DEF LoadGoesOn, hostVars
<1>3. op # "idle"
  BY <1>1 DEF Fields
<1> QED
  BY <1>1, <1>2, <1>3 DEF HostInv

LEMMA HostLoadGivesUp ==
  ASSUME HostInv, LoadGivesUp PROVE HostInv'
<1>1. verdict = "none" /\ verdict' = "notLoaded"
  BY DEF LoadGivesUp, Load, Read, ReadEnd, GotMagic, GotVersion, GotCount, GotExtraSize, GotId,
         GotValue, GotExtra, LoadEnd, ReadFails, Reading, Complete, Fields, HostInv
<1>2. op' = "idle" /\ UNCHANGED <<base, restored>>
  BY <1>1 DEF LoadGivesUp, Load, Read, ReadEnd, GotMagic, GotVersion, GotCount, GotExtraSize, GotId,
              GotValue, GotExtra, LoadEnd, ReadFails, NextField, Refuse, Return, loadVars
<1>3. /\ leftBehind' = leftBehind \cup RestoredIds
      /\ UNCHANGED <<canUseParams, hostValues>>
  BY DEF LoadGivesUp
<1> QED
  BY <1>2, <1>3 DEF HostInv

LEMMA HostNext == HostInv /\ [ReloadNext]_reloadVars => HostInv'
<1> SUFFICES ASSUME HostInv, [ReloadNext]_reloadVars PROVE HostInv'
  OBVIOUS
<1>1. ASSUME NEW x \in Registered, NEW v \in Values, Play(x, v) PROVE HostInv'
  BY <1>1 DEF Play, HostInv, RestoredIds, loadVars
<1>2. CASE StateCalls
  BY <1>2, HostStateCalls
<1>3. CASE LoadGoesOn
  BY <1>3, HostLoadGoesOn
<1>4. CASE LoadGivesUp
  BY <1>4, HostLoadGivesUp
<1>5. CASE Rescan
  BY <1>5 DEF Rescan, LoadEnd, Return, loadVars, HostInv
<1>6. CASE UNCHANGED reloadVars
  BY <1>6 DEF reloadVars, vars, loadVars, hostVars, HostInv, RestoredIds
<1> QED
  BY <1>1, <1>2, <1>3, <1>4, <1>5, <1>6 DEF ReloadNext

(* Between calls, a host that is asked to read the values again misses only *)
(* what failed loads have restored (Plugin::stateLoad): every load that     *)
(* succeeds makes up for all loads before it, whatever the audio thread     *)
(* played in the middle of them.                                            *)
THEOREM HostLearnsOfLoads == ReloadSpec => []HostMissesOnlyFailedLoads
<1>1. HostInv => HostMissesOnlyFailedLoads
  BY DEF HostInv, HostMissesOnlyFailedLoads, Fields
<1> QED
  BY HostInit, HostNext, <1>1, PTL DEF ReloadSpec
=============================================================================
