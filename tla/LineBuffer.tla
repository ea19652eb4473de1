----------------------------- MODULE LineBuffer -----------------------------
(***************************************************************************)
(* Term::try_command(): one byte of the serial line per call, kept in a    *)
(* buffer whose index is a uint8_t and wraps with it.  A line feed ends    *)
(* the command and hands the buffer to parse_cmd() as a C string.          *)
(***************************************************************************)
EXTENDS Integers, Sequences

CONSTANTS
  BufSize,  \* sizeof(m_cmdbuf), and the number of values of m_idx: 256
  Char,     \* values of a byte
  NUL,      \* '\0'
  LF,       \* '\n'
  CR,       \* '\r'
  MaxLine   \* bound: bytes stored between two line feeds

ASSUME LineAssumption ==
  /\ BufSize \in Nat \ {0}
  /\ {NUL, LF, CR} \subseteq Char
  /\ NUL # LF /\ NUL # CR /\ LF # CR
  /\ MaxLine \in Nat

VARIABLES
  buf,      \* m_cmdbuf
  idx,      \* m_idx
  view,     \* what parse_cmd() saw if the last byte was a line feed
  typed,    \* history: bytes received since the last line feed, without '\r'
  entered   \* history: the line that the last byte ended, if it was a line feed

vars == <<buf, idx, view, typed, entered>>

(* The characters before the first NUL. *)
CString(s) == [k \in {j \in 1 .. Len(s) : \A i \in 1 .. j : s[i] # NUL} |-> s[k]]

Init ==
  /\ buf = [k \in 1 .. BufSize |-> NUL]
  /\ idx = 0
  /\ view = <<>>
  /\ typed = <<>>
  /\ entered = <<>>

(* Mutant: the buffer is not terminated. *)
EnterUnterminated ==
  /\ view' = CString(buf)
  /\ entered' = typed
  /\ idx' = 0
  /\ typed' = <<>>
  /\ UNCHANGED buf

Enter ==
  /\ buf' = [buf EXCEPT ![idx + 1] = NUL]
  /\ view' = CString(buf')
  /\ entered' = typed
  /\ idx' = 0
  /\ typed' = <<>>

(* Mutant: the index is wider than a byte. *)
StoreNoWrap(ch) ==
  /\ Len(typed) < MaxLine
  /\ buf' = [buf EXCEPT ![idx + 1] = ch]
  /\ idx' = idx + 1
  /\ typed' = Append(typed, ch)
  /\ view' = <<>>
  /\ entered' = <<>>

Store(ch) ==
  /\ Len(typed) < MaxLine
  /\ buf' = [buf EXCEPT ![idx + 1] = ch]
  /\ idx' = (idx + 1) % BufSize
  /\ typed' = Append(typed, ch)
  /\ view' = <<>>
  /\ entered' = <<>>

(* A '\r' is dropped, and so changes nothing. *)
Receive(ch) ==
  \/ ch = LF /\ Enter
  \/ ch \notin {LF, CR} /\ Store(ch)

Next == \E ch \in Char : Receive(ch)

Spec == Init /\ [][Next]_vars

-----------------------------------------------------------------------------
(***************************************************************************)
(* Properties.                                                             *)
(***************************************************************************)

(* Types of the variables. *)
TypeOK ==
  /\ buf \in [1 .. BufSize -> Char]
  /\ idx \in 0 .. BufSize - 1
  /\ DOMAIN view \subseteq 1 .. BufSize - 1
  /\ \A k \in DOMAIN view : view[k] \in Char \ {NUL}
  /\ typed \in Seq(Char)
  /\ entered \in Seq(Char)

(* A line that fits is what parse_cmd() gets, with no character of an      *)
(* older line still in the buffer.  A longer one is not refused: its       *)
(* beginning is overwritten, and what is left over after the last full     *)
(* buffer is run as a command of its own (Term.hpp:168-179).               *)
ParsesTheRemainder ==
  \E laps \in 0 .. Len(entered) :
    LET lost == laps * BufSize
    IN  /\ Len(entered) - lost \in 0 .. BufSize - 1
        /\ view = CString(SubSeq(entered, lost + 1, Len(entered)))

=============================================================================
