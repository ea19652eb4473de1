--------------------------- MODULE Terminal_proofs ---------------------------
(***************************************************************************)
(* Proofs about Terminal, for every registry, buffer and set of words.     *)
(* What reaches parse_cmd() is settled in LineBuffer_proofs; here the line *)
(* is followed from its first word to the peripheral it changes.           *)
(***************************************************************************)
EXTENDS Terminal, LineBuffer_proofs

(* The terminal drives the line buffer as LineBuffer says.                 *)
LEMMA StepOfBuffer == [TermNext]_termvars => [Next]_vars
<1>1. ASSUME Register PROVE UNCHANGED vars
  BY <1>1 DEF Register
<1>2. ASSUME TryCommand PROVE Next
  <2>1. LF \in Char
    BY LineAssumption
  <2>2. QED
    BY <1>2, <2>1 DEF TryCommand, Command, Type, Next
<1>3. QED
  BY <1>1, <1>2 DEF TermNext, termvars, vars

LEMMA BufferStepInv == IInv /\ [Next]_vars => IInv'
<1> SUFFICES ASSUME IInv, [Next]_vars PROVE IInv'
  OBVIOUS
<1>1. ASSUME NEW ch \in Char, Receive(ch) PROVE IInv'
  BY <1>1, EnterInv, StoreInv DEF Receive
<1>2. CASE UNCHANGED vars
  BY <1>2 DEF vars, IInv, TypeOK, HoldsTheEnd, ParsesTheRemainder
<1>3. QED
  BY <1>1, <1>2 DEF Next

LEMMA BufferInvariance == TermSpec => []IInv
<1>1. TermInit => IInv
  BY InitInv DEF TermInit
<1>2. IInv /\ [TermNext]_termvars => IInv'
  BY StepOfBuffer, BufferStepInv
<1>3. QED
  BY <1>1, <1>2, PTL DEF TermSpec

-----------------------------------------------------------------------------
(* The first word parse_cmd() sees is the first that the wrapped buffer    *)
(* kept of the line.                                                       *)
LEMMA Wraps ==
  ASSUME NEW b \in Nat \ {0}, NEW q \in Nat, NEW r \in 0 .. b - 1
  PROVE  (q * b + r) \div b = q
  BY SMT

LEMMA SeesFirst ==
  ASSUME IInv, Enter, 1 \in DOMAIN view'
  PROVE  view'[1] = FirstSeen(typed)
<1>1. BufSize \in Nat \ {0} /\ NUL \in Char
  BY LineAssumption
<1>2. TypeOK /\ idx \in 0 .. BufSize - 1 /\ Len(typed) \in Nat
  BY DEF IInv, TypeOK
<1>3. PICK laps \in Nat : /\ Len(typed) = laps * BufSize + idx
                          /\ \A k \in 1 .. idx : buf[k] = typed[laps * BufSize + k]
  BY DEF IInv, HoldsTheEnd
<1>4. view'[1] = buf'[1] /\ buf'[1] # NUL
  BY DEF Enter, CString
<1>5. idx # 0
  <2>1. buf'[idx + 1] = NUL
    BY <1>1, <1>2 DEF Enter, TypeOK
  <2>2. QED
    BY <1>4, <2>1
<1>6. buf'[1] = buf[1]
  BY <1>1, <1>2, <1>5 DEF Enter, TypeOK
<1>7. Len(typed) \div BufSize = laps
  BY <1>1, <1>2, <1>3, Wraps
<1>8. QED
  BY <1>2, <1>3, <1>4, <1>5, <1>6, <1>7 DEF FirstSeen

-----------------------------------------------------------------------------
(* The registry is the beginning of Order.                                 *)
LEMMA RegistryShape ==
  ASSUME TermTypeOK
  PROVE  /\ registry \in Seq(Periph)
         /\ Len(registry) \in Nat /\ Len(registry) <= Cap /\ Len(registry) <= built
         /\ built < Len(Order) /\ Len(registry) < Cap => Len(registry) = built
         /\ 1 .. Len(registry) \subseteq DOMAIN Order
         /\ \A k \in 1 .. Len(registry) : registry[k] = Order[k]
<1> DEFINE n == IF built < Cap THEN built ELSE Cap
<1>1. Order \in Seq(Periph) /\ Cap \in Nat /\ built \in 0 .. Len(Order)
  BY TerminalAssumption DEF TermTypeOK
<1>2. n \in 0 .. Len(Order) /\ n <= Cap /\ n <= built /\ (n < Cap => n = built)
  BY <1>1
<1>3. registry = SubSeq(Order, 1, n)
  BY DEF TermTypeOK
<1> HIDE DEF n
<1>4. /\ SubSeq(Order, 1, n) \in Seq(Periph)
      /\ Len(SubSeq(Order, 1, n)) = n
      /\ \A k \in 1 .. n : SubSeq(Order, 1, n)[k] = Order[k]
  BY <1>1, <1>2
<1>5. QED
  BY <1>1, <1>2, <1>3, <1>4

(* What a set that finds its peripheral changes.                           *)
LEMMA Found ==
  ASSUME TermTypeOK, NEW line, IsSet(line), Reads(Index(line)), Indexed(Index(line).n)
  PROVE  /\ Index(line).n + 1 \in DOMAIN Order
         /\ Index(line).n + 1 <= Cap
         /\ Target(line) = Order[Index(line).n + 1]
         /\ Index(line) = [text |-> "number", n |-> Index(line).n]
<1>1. Index(line) \in Arg
  BY DEF IsSet, Index, SetWord
<1>2. Index(line).text = "number"
  BY DEF Reads
<1>3. Index(line) = [text |-> "number", n |-> Index(line).n]
  BY <1>1, <1>2 DEF Arg
<1>4. Index(line).n + 1 \in 1 .. Len(registry)
  BY RegistryShape DEF Indexed
<1>5. QED
  BY <1>3, <1>4, RegistryShape, TerminalAssumption DEF Target

LEMMA OnlyTheTarget ==
  ASSUME TermTypeOK, NEW line, Set(line), NEW p \in Periph, values'[p] # values[p]
  PROVE  Reads(Index(line)) /\ Indexed(Index(line).n) /\ p = Target(line)
<1>1. ~SetUnreadIndex(line) /\ ~SetNoSuchIndex(line)
  BY DEF SetUnreadIndex, SetNoSuchIndex
<1>2. Reads(Index(line)) /\ Indexed(Index(line).n)
  BY <1>1 DEF Set, SetBool, SetNumber
<1>3. \A v : Assign(Target(line), v) => p = Target(line)
  BY DEF Assign, TermTypeOK
<1>4. SetBool(line) \/ (SetNumber(line) /\ Reads(Value(line)))
  BY <1>1 DEF Set, SetNumber
<1>5. QED
  BY <1>2, <1>3, <1>4 DEF SetBool, SetNumber

-----------------------------------------------------------------------------
LEMMA ArgNumber == \A arg \in Arg : arg.n \in Int
<1>1. Numbers \subseteq Int
  BY TerminalAssumption
<1>2. \A arg \in [text : {"number"}, n : Numbers] : arg.n \in Numbers
  OBVIOUS
<1>3. \A arg \in [text : {"huge", "other", "false"}, n : {0}] : arg.n = 0
  OBVIOUS
<1>4. \A arg \in Arg : \/ arg \in [text : {"number"}, n : Numbers]
                      \/ arg \in [text : {"huge", "other", "false"}, n : {0}]
  BY DEF Arg
<1>5. \A arg \in Arg : arg.n \in Numbers \/ arg.n = 0
  BY <1>2, <1>3, <1>4, Zenon
<1>6. 0 \in Int
  OBVIOUS
<1>7. QED
  BY <1>1, <1>5, <1>6, Zenon

LEMMA ValueIsArg == \A line : Value(line) \in Arg
<1>1. NoArg \in Arg
  BY DEF NoArg, Arg
<1>2. \A w \in ValueWord : w.value \in Arg
  BY DEF ValueWord
<1>3. QED
  BY <1>1, <1>2 DEF Value

(* Every command keeps the types of the values and of errno.               *)
LEMMA SetTypes ==
  ASSUME TermTypeOK, NEW line, Set(line)
  PROVE  /\ DOMAIN values' = Periph
         /\ \A p \in Periph : values'[p] \in IF Kind[p] = "bool" THEN BOOLEAN ELSE Int
         /\ errno' \in {"ERANGE", "other"}
<1>1. IsSet(line)
  BY DEF Set
<1>2. \A arg : ErrnoAfter(arg) \in {"ERANGE", "other"}
  BY DEF ErrnoAfter, TermTypeOK
<1>3. CASE SetUnreadIndex(line)
  BY <1>2, <1>3 DEF SetUnreadIndex, TermTypeOK
<1>4. CASE SetNoSuchIndex(line)
  BY <1>4 DEF SetNoSuchIndex, TermTypeOK
<1>5. CASE SetBool(line)
  <2>1. Target(line) \in Periph /\ Kind[Target(line)] = "bool"
    BY <1>1, <1>5, Found DEF SetBool, Periph
  <2>2. BoolRead(line) \in BOOLEAN
    BY DEF BoolRead
  <2>3. Assign(Target(line), BoolRead(line)) /\ UNCHANGED errno
    BY <1>5 DEF SetBool
  <2>4. QED
    BY <2>1, <2>2, <2>3 DEF Assign, TermTypeOK
<1>6. CASE SetNumber(line)
  <2>1. Target(line) \in Periph /\ Kind[Target(line)] # "bool"
    BY <1>1, <1>6, Found DEF SetNumber, Periph
  <2>2. Value(line).n \in Int
    BY ArgNumber, ValueIsArg
  <2>3. UNCHANGED values \/ Assign(Target(line), Value(line).n)
    BY <1>6 DEF SetNumber
  <2>4. errno' \in {"ERANGE", "other"}
    BY <1>2, <1>6 DEF SetNumber
  <2>5. QED
    BY <2>1, <2>2, <2>3, <2>4 DEF Assign, TermTypeOK
<1>7. QED
  BY <1>3, <1>4, <1>5, <1>6 DEF Set

LEMMA RegisterTypes ==
  ASSUME TermTypeOK, Register
  PROVE  TermTypeOK'
<1> DEFINE n == IF built < Cap THEN built ELSE Cap
           m == IF built + 1 < Cap THEN built + 1 ELSE Cap
<1>1. Order \in Seq(Periph) /\ Cap \in Nat /\ built \in Nat /\ built + 1 \in 1 .. Len(Order)
  BY TerminalAssumption DEF TermTypeOK, Register
<1>2. registry = SubSeq(Order, 1, n) /\ Len(registry) = n
  BY <1>1 DEF TermTypeOK
<1>3. registry' = SubSeq(Order, 1, m)
  <2>1. CASE built < Cap
    <3>1. n = built /\ m = built + 1 /\ registry' = Append(registry, Order[built + 1])
      BY <1>1, <1>2, <2>1 DEF Register
    <3>2. Append(SubSeq(Order, 1, built), Order[built + 1]) = SubSeq(Order, 1, built + 1)
      BY <1>1
    <3>3. QED
      BY <1>2, <3>1, <3>2
  <2>2. CASE ~(built < Cap)
    BY <1>1, <1>2, <2>2 DEF Register
  <2>3. QED
    BY <2>1, <2>2
<1>4. QED
  BY <1>1, <1>3 DEF TermTypeOK, Register

LEMMA TypeStep == TermTypeOK /\ [TermNext]_termvars => TermTypeOK'
<1> SUFFICES ASSUME TermTypeOK, [TermNext]_termvars PROVE TermTypeOK'
  OBVIOUS
<1>1. CASE Register
  BY <1>1, RegisterTypes
<1>2. CASE TryCommand
  <2>1. UNCHANGED <<registry, built>>
    BY <1>2 DEF TryCommand
  <2>2. CASE Set(view')
    BY <2>1, <2>2, SetTypes DEF TermTypeOK
  <2>3. CASE Cal(view')
    BY <2>1, <2>3 DEF TermTypeOK, Cal, ErrnoAfter
  <2>4. CASE UNCHANGED <<values, errno>>
    BY <2>1, <2>4 DEF TermTypeOK
  <2>5. QED
    BY <1>2, <2>2, <2>3, <2>4 DEF TryCommand, Command, Type, OtherCommand
<1>3. CASE UNCHANGED termvars
  BY <1>3 DEF TermTypeOK, termvars
<1>4. QED
  BY <1>1, <1>2, <1>3 DEF TermNext

LEMMA TypeInit == TermInit => TermTypeOK
<1> SUFFICES ASSUME TermInit PROVE TermTypeOK
  OBVIOUS
<1>1. Order \in Seq(Periph) /\ Cap \in Nat
  BY TerminalAssumption
<1>2. (IF 0 < Cap THEN 0 ELSE Cap) = 0 /\ SubSeq(Order, 1, 0) = <<>> /\ 0 \in 0 .. Len(Order)
  BY <1>1
<1>3. QED
  BY <1>2, TerminalAssumption DEF TermInit, TermTypeOK

-----------------------------------------------------------------------------
(* The registry holds the first peripherals it has room for, and a bool    *)
(* never gets a number, whatever the operator types.                       *)
THEOREM TermTypeCorrect == TermSpec => []TermTypeOK
  BY TypeInit, TypeStep, PTL DEF TermSpec

(* Whatever is typed, parse_cmd() sees what the wrapped buffer kept of it. *)
THEOREM TermRemainder == TermSpec => []ParsesTheRemainder
<1>1. IInv => ParsesTheRemainder
  BY DEF IInv
<1>2. QED
  BY <1>1, BufferInvariance, PTL

(* A line that changes a value is a set the buffer kept.                   *)
LEMMA ChangedBySet ==
  ASSUME TermTypeOK, IInv, TermNext, NEW p \in Periph, values'[p] # values[p]
  PROVE  Set(view') /\ view'[1] = FirstSeen(typed)
<1>1. Command
  BY DEF TermNext, Register, TryCommand, Type
<1>2. Set(view')
  BY <1>1 DEF Command, Cal, OtherCommand
<1>3. Enter /\ 1 \in DOMAIN view'
  BY <1>1, <1>2 DEF Command, Receive, Set, IsSet
<1>4. QED
  BY <1>2, <1>3, SeesFirst

(* After one number out of range no set has an effect.                     *)
THEOREM RangeErrorBlocks == TermSpec => RangeErrorIsFinal
<1>1. ASSUME [TermNext]_termvars, errno = "ERANGE"
      PROVE  UNCHANGED <<values, errno>>
  <2>1. \A arg : ~Reads(arg) /\ ErrnoAfter(arg) = "ERANGE"
    BY <1>1 DEF Reads, ErrnoAfter
  <2>2. \A line : Set(line) => UNCHANGED <<values, errno>>
    BY <1>1, <2>1 DEF Set, SetUnreadIndex, SetNoSuchIndex, SetBool, SetNumber
  <2>3. \A line : Cal(line) => UNCHANGED <<values, errno>>
    BY <1>1, <2>1 DEF Cal
  <2>4. Command => UNCHANGED <<values, errno>>
    BY <2>2, <2>3 DEF Command, OtherCommand
  <2>5. QED
    BY <1>1, <2>4 DEF TermNext, Register, TryCommand, Type, termvars
<1>2. [TermNext]_termvars => [errno = "ERANGE" => UNCHANGED <<values, errno>>]_termvars
  BY <1>1
<1>3. QED
  BY <1>2, PTL DEF TermSpec, RangeErrorIsFinal

(* Only "false" glued to the index clears a boolean.                       *)
THEOREM GluedClears == TermSpec => OnlyGluedClears
<1> DEFINE Clears == \A p \in Periph :
                       Kind[p] = "bool" /\ values[p] = TRUE /\ values'[p] = FALSE =>
                         FirstSeen(typed).glued
<1>1. ASSUME TermTypeOK, IInv, TermNext PROVE Clears
  <2> SUFFICES ASSUME NEW p \in Periph,
                      Kind[p] = "bool", values[p] = TRUE, values'[p] = FALSE
               PROVE  FirstSeen(typed).glued
    OBVIOUS
  <2>1. Set(view') /\ view'[1] = FirstSeen(typed)
    BY <1>1, ChangedBySet
  <2>2. /\ Reads(Index(view')) /\ Indexed(Index(view').n)
        /\ p = Target(view')
    BY <1>1, <2>1, OnlyTheTarget
  <2>3. SetBool(view')
    BY <2>1, <2>2 DEF Set, SetUnreadIndex, SetNoSuchIndex, SetNumber
  <2>4. BoolRead(view') = FALSE
    BY <1>1, <2>2, <2>3 DEF SetBool, Assign, TermTypeOK
  <2>5. QED
    BY <2>1, <2>4 DEF BoolRead
<1>2. TermTypeOK /\ IInv /\ [TermNext]_termvars => [Clears]_termvars
  BY <1>1
<1>3. QED
  BY <1>2, TermTypeCorrect, BufferInvariance, PTL DEF TermSpec, OnlyGluedClears

(* A value changes only at the peripheral that the seen part of the line   *)
(* names, and never at one the registry had no room for.                   *)
THEOREM NamedOnly == TermSpec => ReachesTheNamed
<1> DEFINE Named == \A k \in DOMAIN Order :
                      values'[Order[k]] # values[Order[k]] =>
                        k <= Cap /\ FirstSeen(typed).index = [text |-> "number", n |-> k - 1]
<1>1. ASSUME TermTypeOK, IInv, TermNext PROVE Named
  <2> SUFFICES ASSUME NEW k \in DOMAIN Order, values'[Order[k]] # values[Order[k]]
               PROVE  k <= Cap /\ FirstSeen(typed).index = [text |-> "number", n |-> k - 1]
    OBVIOUS
  <2>1. Order[k] \in Periph /\ k \in Int
    BY TerminalAssumption DEF Periph
  <2>2. Set(view') /\ view'[1] = FirstSeen(typed)
    BY <1>1, <2>1, ChangedBySet
  <2> DEFINE i == Index(view')
  <2>3. Reads(i) /\ Indexed(i.n) /\ Order[k] = Target(view')
    BY <1>1, <2>1, <2>2, OnlyTheTarget
  <2>4. /\ i.n + 1 \in DOMAIN Order /\ i.n + 1 <= Cap
        /\ Target(view') = Order[i.n + 1]
        /\ i = [text |-> "number", n |-> i.n]
    BY <1>1, <2>2, <2>3, Found DEF Set
  <2>5. k = i.n + 1
    BY <2>3, <2>4, TerminalAssumption
  <2>6. i.n = k - 1
    BY <2>3, <2>5 DEF Indexed
  <2>7. QED
    BY <2>2, <2>4, <2>5, <2>6 DEF Index
<1>2. TermTypeOK /\ IInv /\ [TermNext]_termvars => [Named]_termvars
  BY <1>1
<1>3. QED
  BY <1>2, TermTypeCorrect, BufferInvariance, PTL DEF TermSpec, ReachesTheNamed

=============================================================================
