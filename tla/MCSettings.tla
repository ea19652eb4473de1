----------------------------- MODULE MCSettings -----------------------------
(***************************************************************************)
(* Small instances of SettingsFlash: bytes of Base = 4 values, records of  *)
(* 6 bytes in a sector of 24.  As on the target (0xFF98, 0xFFFF against    *)
(* 152 and 131072) the sizes of torn headers, 14 and 15, exceed the record *)
(* and stay inside the sector.                                             *)
(***************************************************************************)
EXTENDS SettingsFlash, Sequences

(* An interrupted erase leaves any part of the record. *)
MCRemains == SUBSET (0 .. RecSize - 1)

(* A sector fresh from the factory. *)
FactoryImages == {Blank}

(* Sectors another firmware may have left: records of another size, marked *)
(* overwritten or not, up to the end of the sector or with size zero.      *)
Rec(live, size) ==
  <<0, IF live THEN Live ELSE 0, size % Base, size \div Base>> \o
    [i \in 1 .. size - 4 |-> 2]

ImageOf(bytes) == [c \in Cells |-> IF c < Len(bytes) THEN bytes[c + 1] ELSE Erased]

LogImages == {
  Blank,
  ImageOf(Rec(FALSE, 8) \o Rec(TRUE, 8)),
  ImageOf(Rec(FALSE, 8) \o Rec(FALSE, 8) \o Rec(FALSE, 8)),
  ImageOf(Rec(FALSE, 6) \o Rec(TRUE, 5)),
  ImageOf(<<0, 0, 0, 0>>),
  ImageOf(<<0, Live, 0, 0>>) }

(* With an interrupted erase of such a log, any part of its first record may *)
(* remain, or the beginning of the second, or the tail.                      *)
LogRemains == MCRemains \cup { 0 .. 9, 8 .. 23 }

=============================================================================
