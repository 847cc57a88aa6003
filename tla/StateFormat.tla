---------------------------- MODULE StateFormat ----------------------------
(***************************************************************************)
(* The bytes of a saved state: how State.cpp encodes it, piece by piece,   *)
(* and, apart from that, what a state file is, read by position.           *)
(*                                                                         *)
(* A byte has Base values, a u32 has Wide bytes and a u64 Long bytes       *)
(* (256, 4 and 8 in the code; smaller ones are enough to tell apart bytes, *)
(* fields and values).  A double is its bit pattern, a u64.                *)
(***************************************************************************)
EXTENDS Integers, Sequences

CONSTANTS Base, Wide, Long, Magic, FormatVersion, MaximumExtraStateBytes

\* What a shift by n bytes multiplies by.
Power[n \in Nat] == IF n = 0 THEN 1 ELSE Base * Power[n - 1]

Byte == 0 .. Base - 1
U32 == 0 .. Power[Wide] - 1
U64 == 0 .. Power[Long] - 1

ASSUME FormatAssumption ==
  /\ Base \in Nat /\ Base > 1
  /\ Wide \in Nat \ {0} /\ Long \in Nat \ {0}
  /\ Magic \in Seq(Byte) \ {<<>>}
  /\ FormatVersion \in U32
  /\ MaximumExtraStateBytes \in U32

\* The w bytes of v, least significant first.
Bytes(v, w) == [i \in 1 .. w |-> (v \div Power[i - 1]) % Base]

\* The number that little-endian bytes stand for, taken in one after another.
Number(bytes) ==
  LET upTo[i \in 0 .. Len(bytes)] ==
        IF i = 0 THEN 0 ELSE upTo[i - 1] + bytes[i] * Power[i - 1]
  IN  upTo[Len(bytes)]

WriteU32(v) == Bytes(v, Wide)

\* Faulty variant: the most significant byte comes first.
WriteU64Reversed(v) == [i \in 1 .. Long |-> (v \div Power[Long - i]) % Base]

WriteU64(v) == Bytes(v, Long)

\* What save() hands to writeBytes(), call by call.
Pieces(values, extra) ==
  <<Magic, WriteU32(FormatVersion), WriteU32(Len(values)), WriteU32(Len(extra))>>
    \o [k \in 1 .. 2 * Len(values) |->
          LET value == values[(k + 1) \div 2]
          IN  IF k % 2 = 1 THEN WriteU32(value.id) ELSE WriteU64(value.value)]
    \o (IF extra = <<>> THEN <<>> ELSE <<extra>>)
-----------------------------------------------------------------------------
(* The layout STATE.md draws, by position. *)

Slice(file, from, length) == SubSeq(file, from + 1, from + length)
U32At(file, at) == Number(Slice(file, at, Wide))
U64At(file, at) == Number(Slice(file, at, Long))

VersionAt == Len(Magic)
CountAt == VersionAt + Wide
ExtraSizeAt == CountAt + Wide
HeaderSize == ExtraSizeAt + Wide
RecordAt(i) == HeaderSize + (i - 1) * (Wide + Long)
Size(count, extraSize) == RecordAt(count + 1) + extraSize

HasHeader(file) ==
  /\ Len(file) >= HeaderSize
  /\ Slice(file, 0, Len(Magic)) = Magic
  /\ U32At(file, VersionAt) = FormatVersion
  /\ U32At(file, ExtraSizeAt) <= MaximumExtraStateBytes

\* The file begins with a whole state; more may follow it.
HoldsState(file) ==
  HasHeader(file) /\ Len(file) >= Size(U32At(file, CountAt), U32At(file, ExtraSizeAt))

\* The file's first records are these.
HasRecords(file, values) ==
  \A i \in DOMAIN values :
    /\ U32At(file, RecordAt(i)) = values[i].id
    /\ U64At(file, RecordAt(i) + Wide) = values[i].value

\* The file is a state with exactly these values and this payload.
IsState(file, values, extra) ==
  /\ HasHeader(file)
  /\ U32At(file, CountAt) = Len(values)
  /\ U32At(file, ExtraSizeAt) = Len(extra)
  /\ Len(file) = Size(Len(values), Len(extra))
  /\ HasRecords(file, values)
  /\ Slice(file, RecordAt(Len(values) + 1), Len(extra)) = extra
=============================================================================
