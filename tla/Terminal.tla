------------------------------ MODULE Terminal ------------------------------
(***************************************************************************)
(* The terminal: the registry of peripherals, and the commands that arrive *)
(* through the line buffer.  parse_cmd() runs when a line ends, on what    *)
(* the buffer then holds; "set" has an index and a value, errno is the     *)
(* only sign of a number out of range, and a value is read by the type of  *)
(* the peripheral addressed.                                               *)
(*                                                                         *)
(* A character of the line buffer is here a word of a command.  Arguments  *)
(* are shorter than the 64 bytes from_chars() copies.                      *)
(***************************************************************************)
EXTENDS LineBuffer

CONSTANTS
  Order,     \* the peripherals in the order their constructors run
  Kind,      \* Kind[p]: the type p accepts
  Accepts,   \* the peripherals whose accept_value() takes a value
  Initial,   \* Initial[p]: value before the first set
  Cap,       \* VC_PERIPH_CAP
  Numbers    \* numbers the operator types

Periph == {Order[k] : k \in DOMAIN Order}

(* What strtol() or strtof() meets: a number, one out of range, no number. *)
Arg == [text : {"number"}, n : Numbers] \cup [text : {"huge", "other", "false"}, n : {0}]

NoArg == [text |-> "other", n |-> 0]

(* "set 14", or "set 14false" when glued. *)
SetWord == [index : Arg, glued : BOOLEAN]

(* " 14": a space and a value. *)
ValueWord == [value : Arg]

CalWord == [cal : {"s cal"}]

ASSUME TerminalAssumption ==
  /\ Order \in Seq(Periph)
  /\ \A j, k \in DOMAIN Order : Order[j] = Order[k] => j = k
  /\ \A p \in Periph : Kind[p] \in {"float", "int", "bool"}
  /\ Accepts \subseteq Periph
  /\ DOMAIN Initial = Periph
  /\ \A p \in Periph : Initial[p] \in IF Kind[p] = "bool" THEN BOOLEAN ELSE Int
  /\ Cap \in Nat
  /\ Numbers \subseteq Int
  /\ Char \ {NUL, LF, CR} \subseteq SetWord \cup ValueWord \cup CalWord

VARIABLES
  registry,  \* m_peripherals
  built,     \* constructors that have run
  values,    \* what each peripheral was given last
  errno      \* "ERANGE", or "other": nothing else the loop calls writes it

termvars == <<buf, idx, view, typed, entered, registry, built, values, errno>>

TermInit ==
  /\ Init
  /\ registry = <<>>
  /\ built = 0
  /\ values = Initial
  /\ errno = "other"

-----------------------------------------------------------------------------
(* Mutant: full() is not asked. *)
RegisterUnchecked ==
  /\ built < Len(Order)
  /\ built' = built + 1
  /\ registry' = Append(registry, Order[built'])
  /\ UNCHANGED <<vars, values, errno>>

(* Mutant: a full registry gives its last place to the newcomer. *)
RegisterReplaces ==
  /\ built < Len(Order)
  /\ built' = built + 1
  /\ registry' = IF Len(registry) < Cap THEN Append(registry, Order[built'])
                                        ELSE [registry EXCEPT ![Cap] = Order[built']]
  /\ UNCHANGED <<vars, values, errno>>

(* The constructors push the peripherals; a full registry drops them. *)
Register ==
  /\ built < Len(Order)
  /\ built' = built + 1
  /\ registry' = IF Len(registry) < Cap THEN Append(registry, Order[built'])
                                        ELSE registry
  /\ UNCHANGED <<vars, values, errno>>

(* from_chars() sets a result from errno, which only a failure writes. *)
ErrnoAfter(arg) == IF arg.text = "huge" THEN "ERANGE" ELSE errno

(* Mutant: errno is cleared before the conversion. *)
ReadsCleared(arg) == arg.text = "number"

Reads(arg) == arg.text = "number" /\ ErrnoAfter(arg) # "ERANGE"

(* The int is compared with a size_t: a negative number is too large. *)
Indexed(n) == n \in 0 .. Len(registry) - 1

(* The words of a line. *)
IsSet(line) == 1 \in DOMAIN line /\ line[1] \in SetWord
IsCal(line) == 1 \in DOMAIN line /\ line[1] \in CalWord

Index(line) == line[1].index

Target(line) == registry[Index(line).n + 1]

(* What is left after the first number or name; text that is not a number  *)
(* when another command follows, or when "false" is glued to the index.    *)
Value(line) ==
  IF 2 \in DOMAIN line /\ line[2] \in ValueWord /\ ~(IsSet(line) /\ line[1].glued)
  THEN line[2].value ELSE NoArg

(* Mutant: a leading space is skipped. *)
BoolSkipsSpace(line) == ~line[1].glued /\ Value(line).text # "false"

(* parse_arg<bool>(): the view still starts with the space. *)
BoolRead(line) == ~line[1].glued

Assign(p, v) == values' = IF p \in Accepts THEN [values EXCEPT ![p] = v] ELSE values

SetUnreadIndex(line) ==
  /\ ~Reads(Index(line))
  /\ errno' = ErrnoAfter(Index(line))
  /\ UNCHANGED values

SetNoSuchIndex(line) ==
  /\ Reads(Index(line)) /\ ~Indexed(Index(line).n)
  /\ UNCHANGED <<values, errno>>

SetBool(line) ==
  /\ Reads(Index(line)) /\ Indexed(Index(line).n)
  /\ Kind[Target(line)] = "bool"
  /\ Assign(Target(line), BoolRead(line))
  /\ UNCHANGED errno

SetNumber(line) ==
  /\ Reads(Index(line)) /\ Indexed(Index(line).n)
  /\ Kind[Target(line)] # "bool"
  /\ IF Reads(Value(line)) THEN Assign(Target(line), Value(line).n) ELSE UNCHANGED values
  /\ errno' = ErrnoAfter(Value(line))

Set(line) ==
  /\ IsSet(line)
  /\ SetUnreadIndex(line) \/ SetNoSuchIndex(line) \/ SetBool(line) \/ SetNumber(line)

(* "s cal" reads a number and does nothing with it. *)
Cal(line) ==
  /\ IsCal(line)
  /\ errno' = ErrnoAfter(Value(line))
  /\ UNCHANGED values

(* Every other command leaves the peripherals and errno alone. *)
OtherCommand(line) == ~IsSet(line) /\ ~IsCal(line) /\ UNCHANGED <<values, errno>>

(* A line feed: the buffer is closed and its content parsed. *)
Command ==
  /\ Receive(LF)
  /\ Set(view') \/ Cal(view') \/ OtherCommand(view')

Type(ch) == ch # LF /\ Receive(ch) /\ UNCHANGED <<values, errno>>

TryCommand ==
  /\ built = Len(Order)
  /\ Command \/ \E ch \in Char : Type(ch)
  /\ UNCHANGED <<registry, built>>

TermNext == Register \/ TryCommand

TermSpec == TermInit /\ [][TermNext]_termvars

-----------------------------------------------------------------------------
(***************************************************************************)
(* Properties.                                                             *)
(***************************************************************************)

(* The registry holds the peripherals constructed first, as many as it has *)
(* room for, and a bool never gets a number.                               *)
TermTypeOK ==
  /\ built \in 0 .. Len(Order)
  /\ registry = SubSeq(Order, 1, IF built < Cap THEN built ELSE Cap)
  /\ DOMAIN values = Periph
  /\ \A p \in Periph : values[p] \in IF Kind[p] = "bool" THEN BOOLEAN ELSE Int
  /\ errno \in {"ERANGE", "other"}

(* One number out of range, typed for whatever peripheral or even for      *)
(* "s cal", and no set has an effect until the next reset: errno is read   *)
(* after conversions that succeed, and nothing clears it.  The operator    *)
(* can then neither leave Manual nor switch an output                      *)
(* (charconv.hpp:46-52, Term.hpp:43-44, 123).                              *)
RangeErrorIsFinal == [][errno = "ERANGE" => UNCHANGED <<values, errno>>]_termvars

(* The first word parse_cmd() sees of a line: the buffer wraps every       *)
(* BufSize characters.                                                     *)
FirstSeen(line) == line[(Len(line) \div BufSize) * BufSize + 1]

(* A boolean is cleared only by "false" typed right after the index, as in *)
(* "set 14false": after a space every value reads as true                  *)
(* (Term.hpp:43, 66-71, charconv.hpp:79-101).                              *)
OnlyGluedClears ==
  [][ \A p \in Periph :
        Kind[p] = "bool" /\ values[p] = TRUE /\ values'[p] = FALSE =>
          FirstSeen(typed).glued ]_termvars

(* A set reaches only the peripheral constructed at the place it names,    *)
(* and none that was constructed after the registry was full; the command  *)
(* is what the wrapped buffer kept of the line, whatever its beginning     *)
(* said (Peripheral.hpp:53-58, Term.hpp:45-50, 168-179).                   *)
ReachesTheNamed ==
  [][ \A k \in DOMAIN Order :
        values'[Order[k]] # values[Order[k]] =>
          k <= Cap /\ FirstSeen(typed).index = [text |-> "number", n |-> k - 1] ]_termvars

=============================================================================
