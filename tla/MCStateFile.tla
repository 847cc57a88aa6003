---------------------------- MODULE MCStateFile ----------------------------
(***************************************************************************)
(* StateFile with bytes of one bit and fields of two bytes, three          *)
(* parameters, one of them not persistent, and payloads of up to one byte  *)
(* (one of two is too large).  Of the values 0 to 3, 2 is out of range and *)
(* 3 is not finite.                                                        *)
(***************************************************************************)
EXTENDS StateFile

MCMagic == <<1, 0>>
MCIds == <<1, 0, 2>>
MCValues == {0, 1}
MCExtras == {<<>>, <<1>>, <<0, 1>>}

Header(magic, version, n, extra) ==
  magic \o WriteU32(version) \o WriteU32(n) \o WriteU32(extra)
Record(x, v) == WriteU32(x) \o WriteU64(v)

MCForeignFiles ==
  { Header(<<1, 1>>, 1, 0, 0),                          \* another magic
    Header(<<1, 0>>, 2, 0, 0),                          \* another version
    Header(<<1, 0>>, 1, 0, 2) \o <<1, 1>>,              \* too large a payload
    Header(<<1, 0>>, 1, 0, 0) \o <<1>>,                 \* bytes after the end
    Header(<<1, 0>>, 1, 3, 0) \o Record(3, 1) \o Record(1, 3) \o Record(1, 2),
    Header(<<1, 0>>, 1, 3, 1) \o Record(2, 3) \o Record(0, 1) }  \* a record is missing
=============================================================================
