------------------------ MODULE SettingsFlash_proofs ------------------------
(***************************************************************************)
(* Proofs about SettingsFlash for every size of byte, record and sector,   *)
(* every initial content of the sector and every way an erase can stop.    *)
(***************************************************************************)
EXTENDS SettingsFlash, TLAPS

(* The strengthening: while the record is being programmed it starts at    *)
(* SETTINGS_START, its first n bytes stand and everything else is erased;  *)
(* a load meets the committed record at once.                              *)
Progress ==
  pc = "program" =>
    /\ addr = 0
    /\ committed = NONE
    /\ flash = [c \in Cells |-> IF c < n THEN RecordByte(body, c) ELSE Erased]

LoadAtStart == pc = "load" /\ committed # NONE => addr = 0

IInv == TypeOK /\ CommittedIntact /\ Progress /\ LoadAtStart

-----------------------------------------------------------------------------
(* Facts about the constants. *)

LEMMA SizeBytes ==
  /\ SizeLow \in Byte
  /\ SizeHigh \in Byte
  /\ SizeLow + Base * SizeHigh = RecSize
<1>1. Base \in Nat /\ Base > 2 /\ RecSize \in Nat /\ RecSize < Base * Base
  BY SettingsAssumption
<1>2. SizeLow \in Byte
  BY <1>1 DEF SizeLow, Byte
<1>3. SizeLow + Base * SizeHigh = RecSize
  BY <1>1 DEF SizeLow, SizeHigh
<1>4. SizeHigh \in Byte
  <2>1. SizeHigh \in Int /\ SizeLow >= 0
    BY <1>1, <1>2 DEF SizeHigh, Byte
  <2>2. SizeHigh >= 0
    BY <1>1 DEF SizeHigh
  <2>3. ~(SizeHigh >= Base)
    <3>1. SUFFICES ASSUME SizeHigh >= Base PROVE FALSE
      OBVIOUS
    <3>2. Base * SizeHigh >= Base * Base
      BY <1>1, <2>1, <3>1
    <3>3. QED
      BY <1>1, <1>2, <1>3, <2>1, <3>2 DEF Byte
  <2>4. QED
    BY <1>1, <2>1, <2>2, <2>3 DEF Byte
<1>5. QED
  BY <1>2, <1>3, <1>4

LEMMA ErasedIsByte == Erased \in Byte /\ Erased # 0 /\ 0 \in Byte
  BY SettingsAssumption DEF Erased, Byte

LEMMA RecordByteType ==
  ASSUME NEW b \in Bodies, NEW c \in 0 .. RecSize - 1
  PROVE  RecordByte(b, c) \in Byte
<1>1. c \in Body \/ c \in 0 .. 3
  BY SettingsAssumption DEF Body
<1>2. CASE c \in 0 .. 3
  BY <1>2, SizeBytes, ErasedIsByte, SettingsAssumption DEF RecordByte
<1>3. CASE c \in Body
  <2>1. b[c] \in Byte
    BY <1>3 DEF Bodies
  <2>2. c # 0 /\ c # 1 /\ c # 2 /\ c # 3
    BY <1>3, SettingsAssumption DEF Body
  <2>3. QED
    BY <2>1, <2>2 DEF RecordByte
<1>4. QED
  BY <1>1, <1>2, <1>3

LEMMA ProgrammedType ==
  ASSUME NEW old \in Byte, NEW new \in Byte
  PROVE  Programmed(old, new) \in Byte
  BY ErasedIsByte DEF Programmed

(* Programming a mark of zero over a valid header changes nothing. *)
LEMMA MarkChangesNothing == TypeOK /\ SaveMarks => flash' = flash /\ addr \in Cells
<1>1. SUFFICES ASSUME TypeOK, SaveMarks PROVE flash' = flash /\ addr \in Cells
  OBVIOUS
<1>2. addr \in Cells
  BY <1>1, SettingsAssumption DEF TypeOK, SaveMarks, Room, Cells
<1>3. flash[addr] = 0
  BY <1>1, <1>2 DEF SaveMarks, IsValid, At
<1>4. Programmed(flash[addr], 0) = flash[addr]
  BY <1>3, ErasedIsByte DEF Programmed
<1>5. QED
  BY <1>1, <1>2, <1>4 DEF SaveMarks, TypeOK

LEMMA SizeAtType ==
  ASSUME TypeOK, NEW a \in Nat
  PROVE  SizeAt(a) \in Nat /\ At(a) \in Byte
<1>1. \A x \in Nat : At(x) \in Byte
  BY ErasedIsByte DEF TypeOK, At
<1>2. At(a + 2) \in Nat /\ At(a + 3) \in Nat
  BY <1>1, SettingsAssumption DEF Byte
<1>3. QED
  BY <1>1, <1>2, SettingsAssumption DEF SizeAt

(* What the header of a committed record decodes to. *)
LEMMA CommittedHeader ==
  ASSUME TypeOK, CommittedIntact, committed # NONE
  PROVE  /\ IsValid(0) /\ ~IsOverwritten(0)
         /\ SizeAt(0) = RecSize
         /\ \A i \in Body : At(i) = committed[i]
<1>1. flash = RecordImage(committed)
  BY DEF CommittedIntact
<1>2. \A i \in 0 .. RecSize - 1 : i \in Cells /\ flash[i] = RecordByte(committed, i)
  BY <1>1, SettingsAssumption DEF RecordImage, Cells
<1>3. At(0) = 0 /\ At(1) = Live /\ At(2) = SizeLow /\ At(3) = SizeHigh
  BY <1>2, SettingsAssumption DEF At, RecordByte
<1>4. IsValid(0) /\ ~IsOverwritten(0)
  BY <1>3 DEF IsValid, IsOverwritten
<1>5. SizeAt(0) = RecSize
  BY <1>3, SizeBytes DEF SizeAt
<1>6. ASSUME NEW i \in Body PROVE At(i) = committed[i]
  <2>1. i \in 0 .. RecSize - 1 /\ i # 0 /\ i # 1 /\ i # 2 /\ i # 3
    BY <1>6, SettingsAssumption DEF Body
  <2>2. QED
    BY <1>2, <2>1 DEF At, RecordByte
<1>7. QED
  BY <1>4, <1>5, <1>6

-----------------------------------------------------------------------------
(* The steps that touch neither the sector nor the progress of a save. *)

LEMMA BlankImage == Blank \in [Cells -> Byte]
  BY ErasedIsByte DEF Blank

LEMMA DefaultBody == Default \in Bodies
  BY SettingsAssumption DEF Default, Bodies

LEMMA LoadStep ==
  ASSUME IInv, Load \/ PowerOn
  PROVE  IInv'
<1>1. UNCHANGED <<flash, n, committed>>
  BY DEF Load, PowerOn, LoadGivesUp, LoadSkips, LoadReads, LoadFails
<1>2. TypeOK'
  <2>1. CASE PowerOn
    BY <2>1 DEF IInv, TypeOK, PowerOn
  <2>2. CASE LoadGivesUp
    BY <2>2 DEF IInv, TypeOK, LoadGivesUp, Return
  <2>3. CASE LoadFails
    BY <2>3 DEF IInv, TypeOK, LoadFails, Return
  <2>4. CASE LoadSkips
    <3>1. addr' \in Nat
      BY <2>4, SizeAtType DEF IInv, TypeOK, LoadSkips
    <3>2. QED
      BY <2>4, <3>1 DEF IInv, TypeOK, LoadSkips
  <2>5. CASE LoadReads
    <3>1. body' \in Bodies
      <4>1. \A i \in Body : addr + i \in Nat
        BY SettingsAssumption DEF IInv, TypeOK, Body
      <4>2. \A i \in Body : At(addr + i) \in Byte /\ body[i] \in Byte
        BY <4>1, SizeAtType DEF IInv, TypeOK, Bodies
      <4>3. QED
        BY <2>5, <4>2 DEF LoadReads, Bodies
    <3>2. QED
      BY <2>5, <3>1 DEF IInv, TypeOK, LoadReads, Return
  <2>6. QED
    BY <2>1, <2>2, <2>3, <2>4, <2>5 DEF Load
<1>3. CommittedIntact'
  BY <1>1 DEF IInv, CommittedIntact, RecordImage, RecordByte
<1>4. Progress'
  BY DEF Progress, Load, PowerOn, LoadGivesUp, LoadSkips, LoadReads, LoadFails, Return
<1>5. LoadAtStart'
  <2>1. CASE PowerOn \/ LoadGivesUp \/ LoadReads \/ LoadFails
    BY <2>1 DEF LoadAtStart, PowerOn, LoadGivesUp, LoadReads, LoadFails, Return
  <2>2. CASE LoadSkips
    <3>1. committed = NONE
      <4>1. SUFFICES ASSUME committed # NONE PROVE FALSE
        OBVIOUS
      <4>2. addr = 0
        BY <2>2, <4>1 DEF IInv, LoadAtStart, LoadSkips
      <4>3. ~IsOverwritten(0)
        BY <4>1, CommittedHeader DEF IInv
      <4>4. QED
        BY <2>2, <4>2, <4>3 DEF LoadSkips
    <3>2. QED
      BY <1>1, <3>1 DEF LoadAtStart
  <2>3. QED
    BY <2>1, <2>2 DEF Load
<1>6. QED
  BY <1>2, <1>3, <1>4, <1>5 DEF IInv

LEMMA SaveStep ==
  ASSUME IInv, Save \/ SaveCall \/ EraseCall
  PROVE  IInv'
<1>1. UNCHANGED <<flash, body, loaded, n, overrun, committed>>
  BY MarkChangesNothing
  DEF IInv, Save, SaveCall, EraseCall, SaveMarks, SaveSkips, SaveDecidesErase, SaveFails
<1>2. pc' \in {"idle", "save", "erase_save", "erase_cmd"}
  BY DEF IInv, TypeOK, Save, SaveCall, EraseCall, SaveMarks, SaveSkips, SaveDecidesErase,
         SaveFails, Return
<1>3. ret' \in {"none", "io_error", "true", "false"}
  BY DEF IInv, TypeOK, Save, SaveCall, EraseCall, SaveMarks, SaveSkips, SaveDecidesErase,
         SaveFails, Return
<1>4. addr' \in Nat
  <2>1. addr + SizeAt(addr) \in Nat
    BY SizeAtType DEF IInv, TypeOK
  <2>2. QED
    BY <2>1 DEF IInv, TypeOK, Save, SaveCall, EraseCall, SaveMarks, SaveSkips,
                SaveDecidesErase, SaveFails
<1>5. TypeOK'
  BY <1>1, <1>2, <1>3, <1>4 DEF IInv, TypeOK
<1>6. CommittedIntact'
  BY <1>1 DEF IInv, CommittedIntact, RecordImage, RecordByte
<1>7. Progress' /\ LoadAtStart'
  BY <1>2 DEF Progress, LoadAtStart
<1>8. QED
  BY <1>5, <1>6, <1>7 DEF IInv

LEMMA EditStep ==
  ASSUME IInv, Edit
  PROVE  IInv'
<1>1. body' \in Bodies
  BY SettingsAssumption DEF Edit, Edits, Bodies
<1>2. QED
  BY <1>1 DEF IInv, TypeOK, CommittedIntact, RecordImage, RecordByte, Progress, LoadAtStart,
              Edit

LEMMA ProgramByteStep ==
  ASSUME IInv, ProgramByte
  PROVE  IInv'
<1>1. pc = "program" /\ addr = 0 /\ committed = NONE
  BY DEF IInv, Progress, ProgramByte
<1>2. n \in 0 .. RecSize - 1 /\ n \in Cells /\ addr + n = n
  BY <1>1, SettingsAssumption DEF IInv, TypeOK, ProgramByte, Cells
<1>3. flash = [c \in Cells |-> IF c < n THEN RecordByte(body, c) ELSE Erased]
  BY <1>1 DEF IInv, Progress
<1>4. flash[n] = Erased
  BY <1>2, <1>3
<1>5. flash' = [flash EXCEPT ![n] = RecordByte(body, n)]
  <2>1. Programmed(flash[n], RecordByte(body, n)) = RecordByte(body, n)
    BY <1>4 DEF Programmed
  <2>2. QED
    BY <1>2, <2>1 DEF ProgramByte
<1>6. body' = body /\ n' = n + 1 /\ addr' = 0 /\ pc' = "program" /\ committed' = NONE
  BY <1>1 DEF ProgramByte
<1>7. flash' = [c \in Cells |-> IF c < n + 1 THEN RecordByte(body, c) ELSE Erased]
  <2>1. ASSUME NEW c \in Cells
        PROVE  flash'[c] = IF c < n + 1 THEN RecordByte(body, c) ELSE Erased
    <3>1. CASE c = n
      BY <1>2, <1>3, <1>5, <3>1
    <3>2. CASE c # n
      <4>1. c < n + 1 <=> c < n
        BY <1>2, <3>2 DEF Cells
      <4>2. QED
        BY <1>3, <1>5, <3>2, <4>1
    <3>3. QED
      BY <3>1, <3>2
  <2>2. flash' = [c \in Cells |-> flash'[c]]
    BY <1>5 DEF IInv, TypeOK
  <2>3. QED
    BY <2>1, <2>2
<1>8. RecordByte(body, n) \in Byte
  BY <1>2, RecordByteType DEF IInv, TypeOK
<1>9. TypeOK'
  <2>1. flash' \in [Cells -> Byte]
    BY <1>2, <1>5, <1>8 DEF IInv, TypeOK
  <2>2. n' \in 0 .. RecSize
    BY <1>2, <1>6, SettingsAssumption
  <2>3. UNCHANGED <<body, loaded, pc, addr, ret, overrun, committed>>
    BY DEF ProgramByte
  <2>4. QED
    BY <2>1, <2>2, <2>3 DEF IInv, TypeOK
<1>10. Progress'
  BY <1>6, <1>7 DEF Progress, RecordByte
<1>11. QED
  BY <1>6, <1>9, <1>10 DEF IInv, CommittedIntact, LoadAtStart

LEMMA ProgramEndsStep ==
  ASSUME IInv, ProgramEnds
  PROVE  IInv'
<1>1. flash = RecordImage(body)
  BY DEF IInv, Progress, ProgramEnds, RecordImage
<1>2. committed' = body /\ UNCHANGED <<flash, body>> /\ pc' = "idle"
  BY DEF ProgramEnds, Return
<1>3. TypeOK'
  BY <1>2 DEF IInv, TypeOK, ProgramEnds, Return
<1>4. CommittedIntact'
  BY <1>1, <1>2 DEF CommittedIntact, RecordImage, RecordByte
<1>5. QED
  BY <1>2, <1>3, <1>4 DEF IInv, Progress, LoadAtStart

LEMMA ProgramFailsStep ==
  ASSUME IInv, ProgramFails
  PROVE  IInv'
  BY DEF IInv, TypeOK, CommittedIntact, RecordImage, RecordByte, Progress, LoadAtStart,
         ProgramFails, Return

LEMMA PartialErase ==
  ASSUME TypeOK, NEW keep \in Remains, EraseStopsAt(keep)
  PROVE  flash' \in [Cells -> Byte]
  BY ErasedIsByte DEF TypeOK, EraseStopsAt

LEMMA EraseStep ==
  ASSUME IInv, Erase
  PROVE  IInv'
<1>1. CASE EraseFails
  <2>1. flash' \in [Cells -> Byte]
    BY <1>1, PartialErase DEF IInv, EraseFails
  <2>2. QED
    BY <1>1, <2>1 DEF IInv, TypeOK, CommittedIntact, Progress, LoadAtStart, EraseFails, Return
<1>2. CASE EraseEnds
  <2>1. flash' = Blank /\ committed' = NONE /\ body' = body
    BY <1>2 DEF EraseEnds
  <2>2. pc' = "program" => n' = 0 /\ addr' = 0
    BY <1>2 DEF EraseEnds, Return
  <2>3. pc' \in {"program", "idle"} /\ n' \in 0 .. RecSize /\ addr' \in Nat
    BY <1>2, SettingsAssumption DEF IInv, TypeOK, EraseEnds, Return
  <2>4. TypeOK'
    BY <1>2, <2>1, <2>3, BlankImage DEF IInv, TypeOK, EraseEnds, Return
  <2>5. Progress'
    <3>1. \A c \in Cells : ~(c < 0)
      BY DEF Cells
    <3>2. QED
      BY <2>1, <2>2, <3>1 DEF Progress, Blank
  <2>6. QED
    BY <2>1, <2>3, <2>4, <2>5 DEF IInv, CommittedIntact, LoadAtStart
<1>3. QED
  BY <1>1, <1>2 DEF Erase

LEMMA PowerCutStep ==
  ASSUME IInv, PowerCut
  PROVE  IInv'
<1>1. flash' \in [Cells -> Byte]
  BY PartialErase DEF IInv, TypeOK, PowerCut
<1>2. TypeOK'
  <2>1. committed' \in Bodies \cup {NONE}
    BY DEF IInv, TypeOK, PowerCut
  <2>2. n' \in 0 .. RecSize /\ addr' \in Nat
    BY SettingsAssumption DEF PowerCut
  <2>3. QED
    BY <1>1, <2>1, <2>2, DefaultBody DEF TypeOK, PowerCut
<1>3. committed' # NONE => UNCHANGED <<flash, committed>>
  BY DEF PowerCut
<1>4. CommittedIntact'
  BY <1>3 DEF IInv, CommittedIntact, RecordImage, RecordByte
<1>5. QED
  BY <1>2, <1>4 DEF IInv, Progress, LoadAtStart, PowerCut

-----------------------------------------------------------------------------
LEMMA Initially == Init => IInv
<1>1. SUFFICES ASSUME Init PROVE IInv
  OBVIOUS
<1>2. flash \in [Cells -> Byte] /\ n \in 0 .. RecSize
  BY <1>1, SettingsAssumption DEF Init
<1>3. QED
  BY <1>1, <1>2, DefaultBody DEF Init, IInv, TypeOK, CommittedIntact, Progress, LoadAtStart

LEMMA Inductive == IInv /\ [Next]_vars => IInv'
<1>1. SUFFICES ASSUME IInv, [Next]_vars PROVE IInv'
  OBVIOUS
<1>2. CASE UNCHANGED vars
  BY <1>1, <1>2 DEF IInv, TypeOK, CommittedIntact, RecordImage, RecordByte, Progress,
                    LoadAtStart, vars
<1>3. CASE Next
  BY <1>1, <1>3, LoadStep, SaveStep, EditStep, ProgramByteStep, ProgramEndsStep,
     ProgramFailsStep, EraseStep, PowerCutStep DEF Next, Running, Program
<1>4. QED
  BY <1>1, <1>2, <1>3

LEMMA Invariance == Spec => []IInv
  BY Initially, Inductive, PTL DEF Spec

(* The variables keep their types. *)
THEOREM TypeCorrect == Spec => []TypeOK
<1>1. IInv => TypeOK
  BY DEF IInv
<1>2. QED
  BY <1>1, Invariance, PTL

(* For every size of record and sector, every initial content of the sector *)
(* and every failure or power cut: after a save that returned true and     *)
(* until the next erase begins the sector holds exactly its record.        *)
THEOREM CommittedSurvives == Spec => []CommittedIntact
<1>1. IInv => CommittedIntact
  BY DEF IInv
<1>2. QED
  BY <1>1, Invariance, PTL

(* A save programs only erased cells. *)
THEOREM ProgramsErased == Spec => []ProgramsErasedCells
<1>1. IInv => ProgramsErasedCells
  <2>1. SUFFICES ASSUME IInv, pc = "program", NEW c \in Cells, c >= addr + n
                 PROVE  flash[c] = Erased
    BY DEF ProgramsErasedCells
  <2>2. addr = 0 /\ flash = [x \in Cells |-> IF x < n THEN RecordByte(body, x) ELSE Erased]
    BY <2>1 DEF IInv, Progress
  <2>3. ~(c < n)
    BY <2>1, <2>2 DEF IInv, TypeOK, Cells
  <2>4. QED
    BY <2>2, <2>3
<1>2. QED
  BY <1>1, Invariance, PTL

-----------------------------------------------------------------------------
(* Reading the sector while it holds a committed record. *)

LEMMA ReadsCommitted ==
  ASSUME IInv, LoadReads, committed # NONE
  PROVE  body' = committed /\ ~overrun'
<1>1. addr = 0
  BY DEF IInv, LoadAtStart, LoadReads
<1>2. SizeAt(addr) = RecSize /\ \A i \in Body : At(addr + i) = committed[i]
  <2>1. \A i \in Body : addr + i = i
    BY <1>1, SettingsAssumption DEF Body
  <2>2. QED
    BY <1>1, <2>1, CommittedHeader DEF IInv
<1>3. \A i \in Body : i < SizeAt(addr)
  BY <1>2, SettingsAssumption DEF Body
<1>4. body' = [i \in Body |-> committed[i]]
  BY <1>2, <1>3 DEF LoadReads
<1>5. committed \in [Body -> Byte]
  BY DEF IInv, TypeOK, Bodies
<1>6. body' = committed
  BY <1>4, <1>5
<1>7. ~overrun'
  <2>1. ~(SizeAt(addr) > RecSize)
    BY <1>2, SettingsAssumption
  <2>2. overrun' = (SizeAt(addr) > RecSize)
    BY DEF LoadReads
  <2>3. QED
    BY <2>1, <2>2, Zenon
<1>8. QED
  BY <1>6, <1>7

LEMMA NeverGivesUpOnCommitted ==
  ASSUME IInv, committed # NONE
  PROVE  ~LoadGivesUp
<1>1. SUFFICES ASSUME LoadGivesUp PROVE FALSE
  OBVIOUS
<1>2. addr = 0
  BY <1>1 DEF IInv, LoadAtStart, LoadGivesUp
<1>3. IsValid(0) /\ ~IsOverwritten(0)
  BY CommittedHeader DEF IInv
<1>4. ~(addr >= SectorSize)
  BY <1>2, SettingsAssumption
<1>5. QED
  BY <1>1, <1>2, <1>3, <1>4 DEF LoadGivesUp

(* The action of LoadFindsCommitted. *)
LoadAnswer ==
  pc = "load" /\ pc' = "idle" /\ committed # NONE =>
    \/ ret' = "io_error"
    \/ /\ ret' = "true" /\ loaded'
       /\ body' = committed
       /\ ~overrun'

LEMMA LoadAnswerStep == IInv /\ [Next]_vars => LoadAnswer
<1>1. SUFFICES ASSUME IInv, [Next]_vars, pc = "load", pc' = "idle", committed # NONE
               PROVE  \/ ret' = "io_error"
                      \/ ret' = "true" /\ loaded' /\ body' = committed /\ ~overrun'
  BY DEF LoadAnswer
<1>2. LoadReads \/ LoadGivesUp \/ LoadFails
  BY <1>1 DEF Next, vars, Running, Load, Save, Program, Erase, PowerOn, SaveCall, EraseCall,
     Edit, PowerCut, SaveMarks, SaveSkips, SaveDecidesErase, SaveFails, ProgramByte,
     ProgramEnds, ProgramFails, EraseEnds, EraseFails, Erasing, LoadSkips
<1>3. CASE LoadReads
  BY <1>1, <1>3, ReadsCommitted DEF LoadReads, Return
<1>4. CASE LoadGivesUp
  BY <1>1, <1>4, NeverGivesUpOnCommitted
<1>5. CASE LoadFails
  BY <1>5 DEF LoadFails, Return
<1>6. QED
  BY <1>2, <1>3, <1>4, <1>5

(* While a committed record exists every load that ends finds it, sets     *)
(* loaded, and does not write past application_settings.                   *)
THEOREM LoadsCommitted == Spec => LoadFindsCommitted
<1>1. IInv /\ [Next]_vars => [LoadAnswer]_vars
  BY LoadAnswerStep
<1>2. Spec => [][LoadAnswer]_vars
  BY <1>1, Invariance, PTL DEF Spec
<1>3. QED
  BY <1>2 DEF LoadFindsCommitted, LoadAnswer

-----------------------------------------------------------------------------
(* Refinement of SettingsStore. *)

LEMMA StoreInit == Init => Store!Init
  BY DEF Init, Store!Init

LEMMA StoreStep == IInv /\ IInv' /\ [Next]_vars => [Store!Next]_(Store!svars)
<1>1. SUFFICES ASSUME IInv, IInv', [Next]_vars, ~UNCHANGED <<committed, body>>
               PROVE  Store!Next
  BY DEF Store!svars
<1>2. CASE LoadReads
  <2>1. body' \in Bodies /\ committed' = committed
    BY <1>1, <1>2 DEF IInv, TypeOK, LoadReads
  <2>2. Store!Recall
    BY <1>1, <1>2, <2>1, ReadsCommitted DEF Store!Recall
  <2>3. QED
    BY <2>2 DEF Store!Next
<1>3. CASE ProgramEnds
  <2>1. committed = NONE
    BY <1>1, <1>3 DEF IInv, Progress, ProgramEnds
  <2>2. Store!Store
    BY <1>3, <2>1 DEF ProgramEnds, Store!Store
  <2>3. QED
    BY <2>2 DEF Store!Next
<1>4. CASE EraseEnds \/ EraseFails
  BY <1>4 DEF EraseEnds, EraseFails, Store!Next, Store!Lose
<1>5. CASE Edit
  BY <1>5 DEF Edit, Store!Next, Store!Edit
<1>6. CASE PowerCut
  BY <1>6 DEF PowerCut, Store!Next, Store!Reset
<1>7. QED
  BY <1>1, <1>2, <1>3, <1>4, <1>5, <1>6
  DEF Next, vars, Running, Load, Save, Program, Erase, PowerOn, SaveCall, EraseCall,
      LoadGivesUp, LoadSkips, LoadFails, SaveMarks, SaveSkips, SaveDecidesErase, SaveFails,
      ProgramByte, ProgramFails

(* The sector, its walks and its failures implement the one-copy store.    *)
THEOREM Refinement == Spec => ImplementsStore
<1>1. IInv /\ IInv' /\ [Next]_vars => [Store!Next]_(Store!svars)
  BY StoreStep
<1>2. Spec => Store!Init /\ [][Store!Next]_(Store!svars)
  BY <1>1, StoreInit, Invariance, PTL DEF Spec
<1>3. QED
  BY <1>2 DEF ImplementsStore, Store!Spec

-----------------------------------------------------------------------------
(* A sector that was blank when the board was first run.                   *)

OneValue(f) == \E v \in Byte : \A i \in Body : f[i] \in {v, Erased}

(* A record at SETTINGS_START of which any bytes may be missing.           *)
Torn(f) ==
  /\ \A c \in 0 .. 3 : f[c] \in {RecordByte(Default, c), Erased}
  /\ \A c \in Cells : c >= RecSize => f[c] = Erased
  /\ OneValue(f)

FreshInv == Torn(flash) /\ OneValue(body) /\ (pc = "load" => addr = 0)

(* A torn header is invalid, or its size is at least that of the record:   *)
(* what is missing reads as the largest byte.                              *)
LEMMA TornHeader ==
  ASSUME Torn(flash), IsValid(0)
  PROVE  ~IsOverwritten(0) /\ SizeAt(0) >= RecSize
<1>1. Erased \notin {0, Live} /\ Live # 0 /\ {0, 1, 2, 3} \subseteq Cells
  BY SettingsAssumption, ErasedIsByte DEF Cells
<1>2. At(1) = Live
  <2>1. At(1) \in {Live, Erased}
    BY <1>1 DEF Torn, At, RecordByte
  <2>2. QED
    BY <1>1, <2>1 DEF IsValid
<1>3. At(2) \in {SizeLow, Erased} /\ At(3) \in {SizeHigh, Erased}
  BY <1>1 DEF Torn, At, RecordByte
<1>4. /\ At(2) \in Nat /\ At(3) \in Nat /\ SizeLow \in Nat /\ SizeHigh \in Nat
      /\ At(2) >= SizeLow /\ At(3) >= SizeHigh
  BY <1>3, SizeBytes, ErasedIsByte, SettingsAssumption DEF Byte, Erased
<1>5. Base * At(3) >= Base * SizeHigh
  BY <1>4, SettingsAssumption
<1>6. SizeAt(0) >= RecSize
  <2>1. SizeAt(0) = At(2) + Base * At(3)
    BY DEF SizeAt
  <2>2. Base * At(3) \in Nat /\ Base * SizeHigh \in Nat
    BY <1>4, SettingsAssumption
  <2>3. QED
    BY <1>4, <1>5, <2>1, <2>2, SizeBytes
<1>7. QED
  BY <1>2, <1>6 DEF IsOverwritten

(* Erasing cells leaves a torn record. *)
LEMMA ErasingTears ==
  ASSUME Torn(flash), \A c \in Cells : flash'[c] \in {flash[c], Erased}
  PROVE  Torn(flash)'
<1>1. 0 .. 3 \subseteq Cells /\ Body \subseteq Cells
  BY SettingsAssumption DEF Cells, Body
<1>2. \A c \in 0 .. 3 : flash'[c] \in {RecordByte(Default, c), Erased}
  BY <1>1 DEF Torn
<1>3. \A c \in Cells : c >= RecSize => flash'[c] = Erased
  BY DEF Torn
<1>4. OneValue(flash)'
  BY <1>1 DEF Torn, OneValue
<1>5. QED
  BY <1>2, <1>3, <1>4 DEF Torn, RecordByte

(* A record under way is a torn one. *)
LEMMA ProgramTears ==
  ASSUME OneValue(body)', NEW k \in 0 .. RecSize,
         flash' = [c \in Cells |-> IF c < k THEN RecordByte(body', c) ELSE Erased]
  PROVE  Torn(flash)'
<1>1. 0 .. 3 \subseteq Cells /\ Body \subseteq Cells
  BY SettingsAssumption DEF Cells, Body
<1>2. \A c \in 0 .. 3 : flash'[c] \in {RecordByte(Default, c), Erased}
  BY <1>1, SettingsAssumption DEF RecordByte
<1>3. \A c \in Cells : c >= RecSize => flash'[c] = Erased
  BY SettingsAssumption DEF Cells
<1>4. OneValue(flash)'
  <2>1. \A i \in Body : RecordByte(body', i) = body'[i]
    BY SettingsAssumption DEF RecordByte, Body
  <2>2. \A i \in Body : flash'[i] \in {body'[i], Erased}
    BY <1>1, <2>1
  <2>3. QED
    BY <2>2 DEF OneValue
<1>5. QED
  BY <1>2, <1>3, <1>4 DEF Torn, RecordByte

LEMMA FreshLoad ==
  ASSUME IInv, FreshInv, Load \/ PowerOn
  PROVE  FreshInv'
<1>1. flash' = flash
  BY DEF Load, PowerOn, LoadGivesUp, LoadSkips, LoadReads, LoadFails
<1>2. Torn(flash)'
  BY <1>1, ErasingTears DEF FreshInv
<1>3. ~LoadSkips
  BY TornHeader DEF FreshInv, LoadSkips
<1>4. OneValue(body)'
  <2>1. CASE LoadReads
    <3>1. addr = 0 /\ SizeAt(0) >= RecSize /\ SizeAt(0) \in Nat
      BY <2>1, TornHeader, SizeAtType DEF IInv, FreshInv, LoadReads
    <3>2. \A i \in Body : i < SizeAt(addr) /\ addr + i = i /\ i \in Cells
      BY <3>1, SettingsAssumption DEF Body, Cells
    <3>3. \A i \in Body : body'[i] = flash[i]
      BY <2>1, <3>2 DEF LoadReads, At
    <3>4. QED
      BY <3>3 DEF FreshInv, Torn, OneValue
  <2>2. CASE ~LoadReads
    <3>1. body' = body
      BY <2>2, <1>3 DEF Load, PowerOn, LoadGivesUp, LoadFails
    <3>2. QED
      BY <3>1 DEF FreshInv, OneValue
  <2>3. QED
    BY <2>1, <2>2
<1>5. pc' = "load" => addr' = 0
  BY <1>3 DEF Load, PowerOn, LoadGivesUp, LoadReads, LoadFails, Return
<1>6. QED
  BY <1>2, <1>4, <1>5 DEF FreshInv

(* The steps of a save and of an edit, which write nothing. *)
LEMMA FreshIdle ==
  ASSUME IInv, FreshInv,
         Save \/ SaveCall \/ EraseCall \/ ProgramEnds \/ ProgramFails \/ Edit
  PROVE  FreshInv'
<1>1. flash' = flash
  BY MarkChangesNothing
  DEF IInv, Save, SaveCall, EraseCall, SaveMarks, SaveSkips, SaveDecidesErase, SaveFails,
      ProgramEnds, ProgramFails, Edit
<1>2. Torn(flash)'
  BY <1>1, ErasingTears DEF FreshInv
<1>3. pc' # "load"
  BY DEF Save, SaveCall, EraseCall, SaveMarks, SaveSkips, SaveDecidesErase, SaveFails,
         ProgramEnds, ProgramFails, Edit, Return
<1>4. OneValue(body)'
  <2>1. CASE Edit
    BY <2>1, SettingsAssumption DEF Edit, Edits, OneValue
  <2>2. CASE ~Edit
    <3>1. body' = body
      BY <2>2 DEF Save, SaveCall, EraseCall, SaveMarks, SaveSkips, SaveDecidesErase,
                  SaveFails, ProgramEnds, ProgramFails
    <3>2. QED
      BY <3>1 DEF FreshInv, OneValue
  <2>3. QED
    BY <2>1, <2>2
<1>5. QED
  BY <1>2, <1>3, <1>4 DEF FreshInv

LEMMA FreshProgramByte ==
  ASSUME IInv, FreshInv, ProgramByte
  PROVE  FreshInv'
<1>1. IInv' /\ pc' = "program" /\ body' = body
  BY ProgramByteStep DEF ProgramByte
<1>2. OneValue(body)'
  BY <1>1 DEF FreshInv, OneValue
<1>3. /\ n' \in 0 .. RecSize
      /\ flash' = [c \in Cells |-> IF c < n' THEN RecordByte(body', c) ELSE Erased]
  BY <1>1 DEF IInv, TypeOK, Progress, RecordByte
<1>4. QED
  BY <1>1, <1>2, <1>3, ProgramTears DEF FreshInv

LEMMA FreshErase ==
  ASSUME IInv, FreshInv, Erase \/ PowerCut
  PROVE  FreshInv'
<1>1. \A c \in Cells : flash'[c] \in {flash[c], Erased}
  BY DEF Erase, EraseEnds, EraseFails, PowerCut, EraseStopsAt, Blank
<1>2. Torn(flash)'
  BY <1>1, ErasingTears DEF FreshInv
<1>3. pc' # "load"
  BY DEF Erase, EraseEnds, EraseFails, PowerCut, Return
<1>4. body' \in {body, Default}
  BY DEF Erase, EraseEnds, EraseFails, PowerCut
<1>5. OneValue(body)'
  BY <1>4, SettingsAssumption DEF FreshInv, OneValue, Default
<1>6. QED
  BY <1>2, <1>3, <1>5 DEF FreshInv

LEMMA FreshStep == IInv /\ FreshInv /\ [Next]_vars => FreshInv'
<1>1. SUFFICES ASSUME IInv, FreshInv, [Next]_vars PROVE FreshInv'
  OBVIOUS
<1>2. CASE UNCHANGED vars
  BY <1>1, <1>2, ErasingTears DEF FreshInv, OneValue, vars
<1>3. CASE Next
  BY <1>1, <1>3, FreshLoad, FreshIdle, FreshProgramByte, FreshErase
  DEF Next, Running, Program
<1>4. QED
  BY <1>2, <1>3, <1>1

(* On a board whose sector was blank at first the sector never holds bytes *)
(* of two saves, whatever fails and wherever power is cut: a header that is *)
(* torn has a size that covers the record, so a load fills the whole body  *)
(* from one record.                                                        *)
THEOREM NeverBlended == Spec => NoBlend
<1>1. Init /\ flash = Blank => FreshInv
  <2>1. SUFFICES ASSUME Init, flash = Blank PROVE FreshInv
    OBVIOUS
  <2>2. flash = Blank /\ 0 .. 3 \subseteq Cells /\ Body \subseteq Cells
    BY <2>1, SettingsAssumption DEF Init, Cells, Body
  <2>3. Torn(flash)
    BY <2>2, ErasedIsByte DEF Torn, OneValue, Blank
  <2>4. OneValue(body)
    BY <2>1, SettingsAssumption DEF Init, OneValue, Default
  <2>5. QED
    BY <2>1, <2>3, <2>4 DEF FreshInv, Init
<1>2. FreshInv => OfOneSave
  BY DEF FreshInv, Torn, OneValue, OfOneSave
<1>3. QED
  BY <1>1, <1>2, FreshStep, Invariance, PTL DEF Spec, NoBlend

=============================================================================
