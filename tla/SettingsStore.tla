--------------------------- MODULE SettingsStore ---------------------------
(***************************************************************************)
(* What load_settings() and save_settings() promise their callers, without *)
(* the flash sector: one stored copy of the settings and the copy in RAM.  *)
(* The stored copy is lost as soon as the sector starts to be erased and   *)
(* exists again only when a whole copy of the RAM has been written back.   *)
(***************************************************************************)

CONSTANTS
  Bodies,   \* the contents application_settings can have
  Edits,    \* the contents an edit at the terminal can give it
  Default,  \* the contents it is initialised with at compile time
  NONE      \* there is no stored copy

VARIABLES
  stored,   \* the settings a load is bound to return, or NONE
  ram       \* application_settings

svars == <<stored, ram>>

Init ==
  /\ stored = NONE
  /\ ram = Default

(* The operator changes a field from the terminal. *)
Edit ==
  /\ ram' \in Edits
  /\ UNCHANGED stored

(* The sector holding the stored copy starts to be erased. *)
Lose ==
  /\ stored' = NONE
  /\ UNCHANGED ram

(* A save that returned true: the stored copy is what the RAM holds. *)
Store ==
  /\ stored = NONE
  /\ stored' = ram
  /\ UNCHANGED ram

(* A load that returned true.  With a stored copy, that copy and no other; *)
(* without one, whatever the remains of the sector decode to.              *)
Recall ==
  /\ IF stored # NONE THEN ram' = stored ELSE ram' \in Bodies
  /\ UNCHANGED stored

(* Power is cut: the RAM copy restarts from its initialiser, and the stored *)
(* copy survives unless an erase was under way.                            *)
Reset ==
  /\ ram' = Default
  /\ stored' \in {stored, NONE}

Next == Edit \/ Lose \/ Store \/ Recall \/ Reset

Spec == Init /\ [][Next]_svars

=============================================================================
