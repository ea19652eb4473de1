----------------------------- MODULE MCTerminal -----------------------------
(***************************************************************************)
(* Four peripherals of main() and a registry with room for three: an input *)
(* that takes no value, a setting, the Manual variable, and a motor that   *)
(* is constructed when the registry is full.  A buffer of three words, and *)
(* lines of up to five, so that a command of two words fits, or is what    *)
(* the wrapped index leaves of a longer line.                              *)
(***************************************************************************)
EXTENDS Terminal

MCOrder == <<"P_1", "S_Temp", "Manual", "M_1">>

MCKind == [P_1 |-> "float", S_Temp |-> "float", Manual |-> "bool", M_1 |-> "float"]

MCInitial == [P_1 |-> 0, S_Temp |-> 0, Manual |-> FALSE, M_1 |-> 0]

Huge == [text |-> "huge", n |-> 0]
False == [text |-> "false", n |-> 0]
Number(i) == [text |-> "number", n |-> i]

MCNumbers == {-1, 0, 1, 2, 3}

(* "set -1", ..., "set 99999999999", "set 2false", "s cal", " 1", ...      *)
Words ==
  {[index |-> a, glued |-> FALSE] : a \in {Number(i) : i \in MCNumbers} \cup {Huge}}
    \cup {[index |-> Number(2), glued |-> TRUE], [cal |-> "s cal"]}
    \cup {[value |-> a] : a \in {Number(1), Huge, False}}

MCNUL == [char |-> "NUL"]
MCLF == [char |-> "LF"]
MCCR == [char |-> "CR"]
MCChar == Words \cup {MCNUL, MCLF, MCCR}

=============================================================================
