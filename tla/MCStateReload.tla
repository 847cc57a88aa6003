---------------------------- MODULE MCStateReload ----------------------------
(***************************************************************************)
(* StateReload with bytes of two bits, fields of one byte and values of    *)
(* two, two parameters, a payload of one byte or none, and files with one  *)
(* record, with two (one of an id that is unknown, or one whose value is   *)
(* not finite), and with one that has no value.                            *)
(***************************************************************************)
EXTENDS StateReload

MCMagic == <<1>>
MCIds == <<1, 2>>
MCValues == {0, 1}
MCExtras == {<<>>}

File(n, extra) == MCMagic \o WriteU32(1) \o WriteU32(n) \o WriteU32(extra)
Record(x, v) == WriteU32(x) \o WriteU64(v)

MCForeignFiles ==
  { File(1, 0) \o Record(1, 1),
    File(2, 1) \o Record(2, 15) \o Record(0, 1) \o <<1>>,
    File(2, 0) \o Record(2, 1) \o WriteU32(1) }
=============================================================================
