-------------------------- MODULE LineBuffer_proofs --------------------------
(***************************************************************************)
(* Proofs about LineBuffer for every size of the buffer.                   *)
(***************************************************************************)
EXTENDS LineBuffer, SequenceTheorems, TLAPS

(* The buffer holds the end of the line, after as many full laps as fit.   *)
HoldsTheEnd ==
  \E laps \in Nat :
    /\ Len(typed) = laps * BufSize + idx
    /\ \A k \in 1 .. idx : buf[k] = typed[laps * BufSize + k]

IInv == TypeOK /\ HoldsTheEnd /\ ParsesTheRemainder

-----------------------------------------------------------------------------
(* Of an empty line nothing is seen.                                       *)
LEMMA EmptyLine ==
  ASSUME NEW line, line = <<>>
  PROVE  \E laps \in 0 .. Len(line) :
           LET lost == laps * BufSize
           IN  /\ Len(line) - lost \in 0 .. BufSize - 1
               /\ <<>> = CString(SubSeq(line, lost + 1, Len(line)))
<1>1. BufSize \in Nat \ {0} /\ Len(line) = 0
  BY LineAssumption
<1>2. 0 \in 0 .. Len(line) /\ 0 * BufSize = 0 /\ Len(line) - 0 \in 0 .. BufSize - 1
  BY <1>1
<1>3. SubSeq(line, 0 + 1, Len(line)) = <<>>
  BY <1>1
<1>4. CString(<<>>) = <<>>
  BY DEF CString
<1>5. <<>> = CString(SubSeq(line, 0 * BufSize + 1, Len(line)))
  BY <1>2, <1>3, <1>4, Zenon
<1>6. QED
  BY <1>2, <1>5

LEMMA InitInv == Init => IInv
<1> SUFFICES ASSUME Init PROVE IInv
  OBVIOUS
<1>1. BufSize \in Nat \ {0} /\ NUL \in Char
  BY LineAssumption
<1>2. TypeOK
  BY <1>1 DEF Init, TypeOK
<1>3. HoldsTheEnd
  <2>1. Len(typed) = 0 * BufSize + idx
    BY <1>1 DEF Init
  <2>2. \A k \in 1 .. idx : buf[k] = typed[0 * BufSize + k]
    BY DEF Init
  <2>3. QED
    BY <2>1, <2>2 DEF HoldsTheEnd
<1>4. ParsesTheRemainder
  BY EmptyLine DEF Init, ParsesTheRemainder
<1>5. QED
  BY <1>2, <1>3, <1>4 DEF IInv

LEMMA StoreInv ==
  ASSUME IInv, NEW ch \in Char, Store(ch)
  PROVE  IInv'
<1>1. BufSize \in Nat \ {0}
  BY LineAssumption
<1>2. TypeOK /\ Len(typed) \in Nat /\ idx \in Nat /\ idx + 1 <= BufSize
  BY <1>1 DEF IInv, TypeOK
<1>3. /\ idx + 1 < BufSize => idx' = idx + 1
      /\ idx + 1 = BufSize => idx' = 0
  <2>1. (idx + 1 < BufSize => (idx + 1) % BufSize = idx + 1)
    BY <1>1, <1>2
  <2>2. BufSize % BufSize = 0
    BY <1>1
  <2>3. QED
    BY <2>1, <2>2 DEF Store
<1>4. TypeOK'
  <2>1. idx' \in 0 .. BufSize - 1
    BY <1>1, <1>2, <1>3
  <2>2. QED
    BY <1>2, <2>1 DEF Store, TypeOK
<1>5. HoldsTheEnd'
  <2>1. PICK laps \in Nat : /\ Len(typed) = laps * BufSize + idx
                            /\ \A k \in 1 .. idx : buf[k] = typed[laps * BufSize + k]
    BY DEF IInv, HoldsTheEnd
  <2>2. laps * BufSize \in Nat
    BY <1>1
  <2>3. Len(typed') = Len(typed) + 1
    BY <1>2 DEF Store, TypeOK
  <2>4. CASE idx + 1 = BufSize
    <3>1. (laps + 1) * BufSize = laps * BufSize + BufSize
      BY <1>1
    <3>2. Len(typed') = (laps + 1) * BufSize + idx'
      BY <1>1, <1>2, <1>3, <2>1, <2>2, <2>3, <2>4, <3>1
    <3>3. \A k \in 1 .. idx' : buf'[k] = typed'[(laps + 1) * BufSize + k]
      BY <1>3, <2>4
    <3>4. laps + 1 \in Nat
      OBVIOUS
    <3>5. QED
      BY <3>2, <3>3, <3>4 DEF HoldsTheEnd
  <2>5. CASE idx + 1 < BufSize
    <3>1. Len(typed') = laps * BufSize + idx'
      BY <1>2, <1>3, <2>1, <2>2, <2>3, <2>5
    <3>2. \A k \in 1 .. idx' : buf'[k] = typed'[laps * BufSize + k]
      <4>1. ASSUME NEW k \in 1 .. idx PROVE buf'[k] = typed'[laps * BufSize + k]
        <5>1. buf'[k] = buf[k]
          BY <1>2 DEF Store, TypeOK
        <5>2. laps * BufSize + k \in 1 .. Len(typed)
          BY <1>2, <2>1, <2>2
        <5>3. typed'[laps * BufSize + k] = typed[laps * BufSize + k]
          BY <1>2, <5>2 DEF Store, TypeOK
        <5>4. QED
          BY <2>1, <5>1, <5>3
      <4>2. buf'[idx + 1] = ch
        BY <1>2 DEF Store, TypeOK
      <4>3. typed'[Len(typed) + 1] = ch
        BY <1>2 DEF Store, TypeOK
      <4>4. laps * BufSize + (idx + 1) = Len(typed) + 1
        BY <1>2, <2>1, <2>2
      <4>5. \A k \in 1 .. idx' : k \in 1 .. idx \/ k = idx + 1
        BY <1>2, <1>3, <2>5
      <4>6. QED
        BY <4>1, <4>2, <4>3, <4>4, <4>5
    <3>3. QED
      BY <3>1, <3>2 DEF HoldsTheEnd
  <2>6. QED
    BY <1>1, <1>2, <2>4, <2>5
<1>6. ParsesTheRemainder'
  <2>1. view' = <<>> /\ entered' = <<>>
    BY DEF Store
  <2>2. QED
    BY <2>1, EmptyLine DEF ParsesTheRemainder
<1>7. QED
  BY <1>4, <1>5, <1>6 DEF IInv

(* The end of the line, as the sequence that is left over. *)
LEMMA TheEnd ==
  ASSUME NEW s \in Seq(Char), NEW lost \in Nat, NEW n \in Nat, Len(s) = lost + n
  PROVE  /\ Len(SubSeq(s, lost + 1, Len(s))) = n
         /\ \A k \in 1 .. n : SubSeq(s, lost + 1, Len(s))[k] = s[lost + k]
<1>1. lost + 1 \in Int /\ Len(s) \in Int
  OBVIOUS
<1>2. \A k \in lost + 1 .. Len(s) : s[k] \in Char
  OBVIOUS
<1>3. /\ Len(SubSeq(s, lost + 1, Len(s))) =
           IF lost + 1 <= Len(s) THEN Len(s) - (lost + 1) + 1 ELSE 0
      /\ \A k \in 1 .. Len(s) - (lost + 1) + 1 :
           SubSeq(s, lost + 1, Len(s))[k] = s[lost + 1 + k - 1]
  BY <1>1, <1>2, SubSeqProperties
<1>4. (IF lost + 1 <= Len(s) THEN Len(s) - (lost + 1) + 1 ELSE 0) = n
  OBVIOUS
<1>5. Len(SubSeq(s, lost + 1, Len(s))) = n
  BY <1>3, <1>4, Zenon
<1>6. \A k \in 1 .. n : SubSeq(s, lost + 1, Len(s))[k] = s[lost + k]
  BY <1>3
<1>7. QED
  BY <1>5, <1>6

LEMMA EnterInv ==
  ASSUME IInv, Enter
  PROVE  IInv'
<1>1. BufSize \in Nat \ {0} /\ NUL \in Char
  BY LineAssumption
<1>2. TypeOK /\ Len(typed) \in Nat /\ idx \in Nat /\ idx + 1 \in 1 .. BufSize
  BY <1>1 DEF IInv, TypeOK
<1>3. /\ buf' \in [1 .. BufSize -> Char]
      /\ buf'[idx + 1] = NUL
      /\ \A k \in 1 .. idx : buf'[k] = buf[k]
      /\ Len(buf') = BufSize
  BY <1>1, <1>2 DEF Enter, TypeOK
<1>4. /\ DOMAIN view' = {j \in 1 .. BufSize : \A i \in 1 .. j : buf'[i] # NUL}
      /\ \A k \in DOMAIN view' : view'[k] = buf'[k]
  BY <1>3 DEF Enter, CString
<1>5. \A k \in DOMAIN view' : k \in 1 .. idx /\ k \in 1 .. BufSize - 1 /\ buf'[k] # NUL
  BY <1>2, <1>3, <1>4
<1>6. TypeOK'
  <2>1. DOMAIN view' \subseteq 1 .. BufSize - 1
    BY <1>5
  <2>2. \A k \in DOMAIN view' : view'[k] \in Char \ {NUL}
    BY <1>2, <1>3, <1>4, <1>5
  <2>3. idx' \in 0 .. BufSize - 1 /\ typed' \in Seq(Char) /\ entered' \in Seq(Char)
    BY <1>1, <1>2 DEF Enter, TypeOK
  <2>4. QED
    BY <1>3, <2>1, <2>2, <2>3 DEF TypeOK
<1>7. HoldsTheEnd'
  <2>1. Len(typed') = 0 * BufSize + idx' /\ \A k \in 1 .. idx' : buf'[k] = typed'[0 * BufSize + k]
    BY <1>1 DEF Enter
  <2>2. QED
    BY <2>1 DEF HoldsTheEnd
<1>8. ParsesTheRemainder'
  <2>1. PICK laps \in Nat : /\ Len(typed) = laps * BufSize + idx
                            /\ \A k \in 1 .. idx : buf[k] = typed[laps * BufSize + k]
    BY DEF IInv, HoldsTheEnd
  <2> DEFINE lost == laps * BufSize
             s    == SubSeq(typed, lost + 1, Len(typed))
  <2>2. lost \in Nat /\ laps <= lost
    BY <1>1
  <2>3. Len(s) = idx /\ \A k \in 1 .. idx : s[k] = typed[lost + k]
    BY <1>2, <2>1, <2>2, TheEnd DEF TypeOK
  <2>4. \A k \in 1 .. idx : s[k] = buf'[k]
    BY <1>3, <2>1, <2>3
  <2> HIDE DEF s, lost
  <2>5. {j \in 1 .. Len(s) : \A i \in 1 .. j : s[i] # NUL} = DOMAIN view'
    <3>1. ASSUME NEW j \in 1 .. idx
          PROVE  (\A i \in 1 .. j : s[i] # NUL) <=> (\A i \in 1 .. j : buf'[i] # NUL)
      BY <1>2, <2>4
    <3>2. 1 .. idx \subseteq 1 .. BufSize
      BY <1>1, <1>2
    <3>3. QED
      BY <1>4, <1>5, <2>3, <3>1, <3>2
  <2>6. view' = CString(s)
    <3>1. view' = [k \in DOMAIN view' |-> view'[k]]
      BY <1>3 DEF Enter, CString
    <3>2. \A k \in DOMAIN view' : view'[k] = s[k]
      BY <1>4, <1>5, <2>4
    <3>3. QED
      BY <2>5, <3>1, <3>2 DEF CString
  <2>7. entered' = typed /\ Len(typed) - lost = idx /\ laps \in 0 .. Len(typed)
    BY <1>2, <2>1, <2>2 DEF Enter, lost
  <2>8. QED
    <3>1. Len(entered') - laps * BufSize \in 0 .. BufSize - 1 /\ laps \in 0 .. Len(entered')
      <4>1. idx \in 0 .. BufSize - 1
        BY <1>2 DEF TypeOK
      <4>2. QED
        BY <2>7, <4>1 DEF lost
    <3>2. view' = CString(SubSeq(entered', laps * BufSize + 1, Len(entered')))
      BY <2>6, <2>7 DEF s, lost
    <3>3. QED
      BY <3>1, <3>2 DEF ParsesTheRemainder
<1>9. QED
  BY <1>6, <1>7, <1>8 DEF IInv

LEMMA Invariance == Spec => []IInv
<1>1. ASSUME IInv, [Next]_vars
      PROVE  IInv'
  <2>1. ASSUME NEW ch \in Char, Receive(ch)
        PROVE  IInv'
    BY <1>1, <2>1, EnterInv, StoreInv DEF Receive
  <2>2. CASE UNCHANGED vars
    BY <1>1, <2>2 DEF vars, IInv, TypeOK, HoldsTheEnd, ParsesTheRemainder
  <2>3. QED
    BY <1>1, <2>1, <2>2 DEF Next
<1>2. QED
  BY <1>1, InitInv, PTL DEF Spec

-----------------------------------------------------------------------------
(* The index never leaves the buffer and a command ends inside it.          *)
THEOREM TypeCorrect == Spec => []TypeOK
<1>1. IInv => TypeOK
  BY DEF IInv
<1>2. QED
  BY <1>1, Invariance, PTL

(* Whatever bytes arrive, parse_cmd() sees the line that was typed if it    *)
(* fits, and otherwise what is left over after the last full buffer.       *)
THEOREM Remainder == Spec => []ParsesTheRemainder
<1>1. IInv => ParsesTheRemainder
  BY DEF IInv
<1>2. QED
  BY <1>1, Invariance, PTL

=============================================================================
