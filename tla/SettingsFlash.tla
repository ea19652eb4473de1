--------------------------- MODULE SettingsFlash ---------------------------
(***************************************************************************)
(* The settings sector of the internal flash: load_settings() at boot,     *)
(* save_settings() and the terminal commands "save", "erase" and "s api",  *)
(* one action per flash call, with failing calls and power cuts between    *)
(* any two of them (and inside an erase).                                  *)
(*                                                                         *)
(* A record is flags (2 bytes), size (2 bytes) and the body, little endian.*)
(* Offsets count from SETTINGS_START.                                      *)
(***************************************************************************)
EXTENDS Integers

CONSTANTS
  Base,          \* number of values of a byte (256 on the target)
  Live,          \* high byte of SETTINGS_OVERWRITTEN_MASK (0x40)
  RecSize,       \* sizeof(settings)
  SectorSize,    \* SETTINGS_SIZE
  Payloads,      \* byte values the operator fills the body with
  DefaultByte,   \* the body byte of the compile-time initialiser
  Images,        \* contents the sector may have when the board is first run
  Remains,       \* sets of offsets an interrupted erase may leave as they were
  NONE           \* no committed record

Byte     == 0 .. Base - 1
Erased   == Base - 1
Cells    == 0 .. SectorSize - 1
Body     == 4 .. RecSize - 1
Bodies   == [Body -> Byte]
Edits    == {[i \in Body |-> v] : v \in Payloads}
Default  == [i \in Body |-> DefaultByte]
SizeLow  == RecSize % Base
SizeHigh == RecSize \div Base

ASSUME SettingsAssumption ==
  /\ Base \in Nat /\ Base > 2
  /\ Live \in Byte /\ Live # 0 /\ Live # Erased
  /\ RecSize \in Nat /\ RecSize > 4 /\ RecSize < Base * Base
  /\ SectorSize \in Nat /\ RecSize < SectorSize
  /\ Payloads \subseteq Byte
  /\ DefaultByte \in Byte
  /\ Images \subseteq [Cells -> Byte]
  /\ Remains \subseteq SUBSET Cells
  /\ NONE \notin Bodies

VARIABLES
  flash,      \* the bytes of the sector
  body,       \* application_settings without its header
  loaded,     \* the static flag of settings.cpp
  pc,         \* the flash call about to be made
  addr,       \* the local variable of the walks
  n,          \* bytes of the record programmed so far
  ret,        \* how the last call ended
  overrun,    \* the last load read more than sizeof(settings) into the RAM copy
  committed   \* history: body of the last save that returned true, until an erase

vars == <<flash, body, loaded, pc, addr, n, ret, overrun, committed>>

Blank == [c \in Cells |-> Erased]

Init ==
  /\ flash \in Images
  /\ body = Default
  /\ loaded = FALSE
  /\ pc = "off"
  /\ addr = 0
  /\ n = 0
  /\ ret = "none"
  /\ overrun = FALSE
  /\ committed = NONE

-----------------------------------------------------------------------------
(* What the code reads out of the sector. *)

At(a) == IF a \in Cells THEN flash[a] ELSE Erased

(* is_valid_settings and is_overwritten on the flags read at offset a. *)
IsValid(a)       == At(a) = 0 /\ At(a + 1) \in {0, Live}
IsOverwritten(a) == At(a + 1) # Live
(* Mutant: the size is read from its low byte alone. *)
SizeAtLowByte(a) == At(a + 2)

SizeAt(a)        == At(a + 2) + Base * At(a + 3)

(* Mutant: the size is not cut to its low byte. *)
RecordByteUncut(b, c) ==
  CASE c = 0 -> 0
    [] c = 1 -> Live
    [] c = 2 -> RecSize
    [] c = 3 -> SizeHigh
    [] OTHER -> b[c]

(* Byte c of application_settings as save_settings() hands it to program. *)
RecordByte(b, c) ==
  CASE c = 0 -> 0
    [] c = 1 -> Live
    [] c = 2 -> SizeLow
    [] c = 3 -> SizeHigh
    [] OTHER -> b[c]

RecordImage(b) ==
  [c \in Cells |-> IF c < RecSize THEN RecordByte(b, c) ELSE Erased]

(* Programming can only clear bits of a flash cell. *)
Programmed(old, new) ==
  IF old = Erased THEN new ELSE IF new \in {old, Erased} THEN old ELSE 0

-----------------------------------------------------------------------------
(* Every call ends by going back to main(). *)
Return(how) ==
  /\ pc' = "idle"
  /\ ret' = how

(* load_settings(), called once by main(). *)
PowerOn ==
  /\ pc = "off"
  /\ pc' = "load"
  /\ addr' = 0
  /\ ret' = "none"
  /\ UNCHANGED <<flash, body, loaded, n, overrun, committed>>

(* Mutant: a size of zero is not refused. *)
LoadGivesUpLate ==
  /\ pc = "load"
  /\ addr >= SectorSize \/ ~IsValid(addr)
  /\ Return("false")
  /\ UNCHANGED <<flash, body, loaded, addr, n, overrun, committed>>

LoadGivesUp ==
  /\ pc = "load"
  /\ \/ addr >= SectorSize
     \/ ~IsValid(addr)
     \/ IsOverwritten(addr) /\ SizeAt(addr) = 0
  /\ Return("false")
  /\ UNCHANGED <<flash, body, loaded, addr, n, overrun, committed>>

LoadSkips ==
  /\ pc = "load"
  /\ addr < SectorSize
  /\ IsValid(addr) /\ IsOverwritten(addr) /\ SizeAt(addr) # 0
  /\ addr' = addr + SizeAt(addr)
  /\ UNCHANGED <<flash, body, loaded, pc, n, ret, overrun, committed>>

(* Mutant: the read starts one byte late. *)
LoadReadsShifted ==
  /\ pc = "load"
  /\ addr < SectorSize
  /\ IsValid(addr) /\ ~IsOverwritten(addr)
  /\ body' = [i \in Body |-> IF i < SizeAt(addr) THEN At(addr + i + 1) ELSE body[i]]
  /\ overrun' = (SizeAt(addr) > RecSize)
  /\ loaded' = TRUE
  /\ Return("true")
  /\ UNCHANGED <<flash, addr, n, committed>>

LoadReads ==
  /\ pc = "load"
  /\ addr < SectorSize
  /\ IsValid(addr) /\ ~IsOverwritten(addr)
  /\ body' = [i \in Body |-> IF i < SizeAt(addr) THEN At(addr + i) ELSE body[i]]
  /\ overrun' = (SizeAt(addr) > RecSize)
  /\ loaded' = TRUE
  /\ Return("true")
  /\ UNCHANGED <<flash, addr, n, committed>>

(* flash.read fails, on a header or on the record (loaded was FALSE anyway). *)
LoadFails ==
  /\ pc = "load"
  /\ addr < SectorSize
  /\ loaded' = FALSE
  /\ Return("io_error")
  /\ UNCHANGED <<flash, body, addr, n, overrun, committed>>

-----------------------------------------------------------------------------
(* save_settings() *)
SaveCall ==
  /\ pc = "idle"
  /\ pc' = "save"
  /\ addr' = 0
  /\ ret' = "none"
  /\ UNCHANGED <<flash, body, loaded, n, overrun, committed>>

Room == addr + RecSize < SectorSize

SaveMarks ==
  /\ pc = "save"
  /\ Room /\ IsValid(addr) /\ ~IsOverwritten(addr) /\ SizeAt(addr) # 0
  /\ flash' = [flash EXCEPT ![addr] = Programmed(@, 0)]
  /\ addr' = addr + SizeAt(addr)
  /\ UNCHANGED <<body, loaded, pc, n, ret, overrun, committed>>

SaveSkips ==
  /\ pc = "save"
  /\ Room /\ IsValid(addr) /\ IsOverwritten(addr) /\ SizeAt(addr) # 0
  /\ addr' = addr + SizeAt(addr)
  /\ UNCHANGED <<flash, body, loaded, pc, n, ret, overrun, committed>>

(* Mutant: an invalid header is taken for free space, without an erase. *)
SaveDecidesNoErase ==
  /\ pc = "save"
  /\ \/ ~Room
     \/ ~IsValid(addr)
     \/ SizeAt(addr) = 0
  /\ pc' = "program"
  /\ addr' = 0
  /\ n' = 0
  /\ UNCHANGED <<flash, body, loaded, ret, overrun, committed>>

(* Header invalid (an erased cell is), size zero, or no room left. *)
SaveDecidesErase ==
  /\ pc = "save"
  /\ \/ ~Room
     \/ ~IsValid(addr)
     \/ SizeAt(addr) = 0
  /\ pc' = "erase_save"
  /\ UNCHANGED <<flash, body, loaded, addr, n, ret, overrun, committed>>

(* flash.read or the program call of the mark fails. *)
SaveFails ==
  /\ pc = "save"
  /\ Room
  /\ Return("io_error")
  /\ UNCHANGED <<flash, body, loaded, addr, n, overrun, committed>>

ProgramByte ==
  /\ pc = "program"
  /\ n < RecSize
  /\ flash' = [flash EXCEPT ![addr + n] = Programmed(@, RecordByte(body, n))]
  /\ n' = n + 1
  /\ UNCHANGED <<body, loaded, pc, addr, ret, overrun, committed>>

ProgramEnds ==
  /\ pc = "program"
  /\ n = RecSize
  /\ committed' = body
  /\ Return("true")
  /\ UNCHANGED <<flash, body, loaded, addr, n, overrun>>

(* Mutant: the result of the program call is not looked at. *)
ProgramFailsUnnoticed ==
  /\ pc = "program"
  /\ n < RecSize
  /\ committed' = body
  /\ Return("true")
  /\ UNCHANGED <<flash, body, loaded, addr, n, overrun>>

ProgramFails ==
  /\ pc = "program"
  /\ n < RecSize
  /\ Return("io_error")
  /\ UNCHANGED <<flash, body, loaded, addr, n, overrun, committed>>

-----------------------------------------------------------------------------
(* The sector erase, of a save or of the terminal command "erase". *)
EraseCall ==
  /\ pc = "idle"
  /\ pc' = "erase_cmd"
  /\ ret' = "none"
  /\ UNCHANGED <<flash, body, loaded, addr, n, overrun, committed>>

Erasing == pc \in {"erase_save", "erase_cmd"}

EraseEnds ==
  /\ Erasing
  /\ flash' = Blank
  /\ committed' = NONE
  /\ IF pc = "erase_save"
       THEN /\ pc' = "program"
            /\ addr' = 0
            /\ n' = 0
            /\ UNCHANGED ret
       ELSE /\ Return("true")
            /\ UNCHANGED <<addr, n>>
  /\ UNCHANGED <<body, loaded, overrun>>

(* The bytes outside keep are erased already. *)
EraseStopsAt(keep) == flash' = [c \in Cells |-> IF c \in keep THEN flash[c] ELSE Erased]

EraseFails ==
  /\ Erasing
  /\ \E keep \in Remains : EraseStopsAt(keep)
  /\ committed' = NONE
  /\ Return("io_error")
  /\ UNCHANGED <<body, loaded, addr, n, overrun>>

(* Terminal command "s api": every byte of the body stands for the field. *)
Edit ==
  /\ pc = "idle"
  /\ body' \in Edits
  /\ UNCHANGED <<flash, loaded, pc, addr, n, ret, overrun, committed>>

(* Power is cut: the RAM starts again from its initialisers. *)
PowerCut ==
  /\ pc # "off"
  /\ IF Erasing
       THEN /\ \E keep \in Remains : EraseStopsAt(keep)
            /\ committed' = NONE
       ELSE UNCHANGED <<flash, committed>>
  /\ pc' = "off"
  /\ body' = Default
  /\ loaded' = FALSE
  /\ addr' = 0
  /\ n' = 0
  /\ ret' = "none"
  /\ overrun' = FALSE

-----------------------------------------------------------------------------
Load    == LoadGivesUp \/ LoadSkips \/ LoadReads \/ LoadFails
Save    == SaveMarks \/ SaveSkips \/ SaveDecidesErase \/ SaveFails
Program == ProgramByte \/ ProgramEnds \/ ProgramFails
Erase   == EraseEnds \/ EraseFails

Running == Load \/ Save \/ Program \/ Erase

(* The steps of a call under way whose flash operation succeeds. *)
Working ==
  \/ LoadGivesUp \/ LoadSkips \/ LoadReads
  \/ SaveMarks \/ SaveSkips \/ SaveDecidesErase
  \/ EraseEnds \/ ProgramByte \/ ProgramEnds

Next == PowerOn \/ Running \/ SaveCall \/ EraseCall \/ Edit \/ PowerCut

Spec     == Init /\ [][Next]_vars
FairSpec == Spec /\ WF_vars(Working)

(***************************************************************************)
(* Properties.                                                             *)
(***************************************************************************)

(* Types of the variables. *)
TypeOK ==
  /\ flash \in [Cells -> Byte]
  /\ body \in Bodies
  /\ loaded \in BOOLEAN
  /\ pc \in {"off", "idle", "load", "save", "program", "erase_save", "erase_cmd"}
  /\ addr \in Nat
  /\ n \in 0 .. RecSize
  /\ ret \in {"none", "true", "false", "io_error"}
  /\ overrun \in BOOLEAN
  /\ committed \in Bodies \cup {NONE}

(* A save that returned true lasts: until the sector next starts to be     *)
(* erased, whatever saves are begun, fail or lose power before that, the   *)
(* sector holds exactly the record it wrote, at SETTINGS_START, and        *)
(* nothing else (settings.cpp:76-124).                                     *)
CommittedIntact == committed # NONE => flash = RecordImage(committed)

(* save_settings() never programs a cell twice: when it starts on the      *)
(* record everything from the next byte on is erased, although the walk    *)
(* may have met records, torn records or rubbish (settings.cpp:106-123).   *)
ProgramsErasedCells ==
  pc = "program" => \A c \in Cells : c >= addr + n => flash[c] = Erased

(* The operator's edits fill the body with one value, so two programmed    *)
(* bytes of a body that come from one save are equal.                      *)
OfOneSave ==
  \A i, j \in Body : flash[i] # Erased /\ flash[j] # Erased => flash[i] = flash[j]

(* A sector that was blank at first never holds bytes of two saves,        *)
(* whatever it goes through (settings.cpp:76-124).  One that another       *)
(* firmware has left may: a shorter record fills only a part of the body.  *)
NoBlend == flash = Blank => []OfOneSave

(* While a committed record exists, a load answers with that record, sets  *)
(* loaded and stays inside application_settings, unless flash.read itself  *)
(* fails (settings.cpp:40-74).                                             *)
LoadFindsCommitted ==
  [][ pc = "load" /\ pc' = "idle" /\ committed # NONE =>
        \/ ret' = "io_error"
        \/ /\ ret' = "true" /\ loaded'
           /\ body' = committed
           /\ ~overrun' ]_vars

(* The walks of load_settings() and save_settings() end for every image of *)
(* the sector, so that each call returns (or loses power).                 *)
CallsReturn == pc \notin {"off", "idle"} ~> pc \in {"off", "idle"}

(* settings.cpp:99 says of the byte programmed over a live record that it  *)
(* makes the record "valid & overwritten".                                 *)
MarkOverwrites ==
  [][ SaveMarks /\ committed # NONE =>
        \A a \in Cells : a = addr => (IsValid(a) /\ IsOverwritten(a))' ]_vars

(* The sector with its walks implements the one-copy store.                *)
Store == INSTANCE SettingsStore WITH stored <- committed, ram <- body
ImplementsStore == Store!Spec

=============================================================================
