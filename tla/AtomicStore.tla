----------------------------- MODULE AtomicStore -----------------------------
(***************************************************************************)
(* What a caller of writeJsonFile() is promised: the named document is     *)
(* always one complete version or absent, a save replaces it in one step,  *)
(* and a crash or an I/O error leaves either the version before the save   *)
(* or the version after it.  JsonStore implements it as long as at most    *)
(* one save of the file is in flight.                                      *)
(***************************************************************************)
CONSTANTS
    Versions,   \* the document's versions, positive numbers in saving order
    Absent      \* what a reader finds before the first save

NoSave == 0

VARIABLES
    stored,     \* what a reader would find now
    pending     \* the version being saved, or NoSave

vars == <<stored, pending>>

TypeOK ==
    /\ stored \in Versions \union {Absent}
    /\ pending \in Versions \union {NoSave}

Init == stored = Absent /\ pending = NoSave

\* A save is asked for.
Begin(v) == pending = NoSave /\ pending' = v /\ UNCHANGED stored

\* A save waiting to be written may still pick up a newer version of the
\* same object (the text is produced late).
Refresh(v) == pending # NoSave /\ stored # pending /\ pending' = v /\ UNCHANGED stored

\* The new version replaces the old one, in one step.
Commit == pending # NoSave /\ stored' = pending /\ UNCHANGED pending

\* The save ends: acknowledged, failed, or cut short by a crash.
End == pending # NoSave /\ pending' = NoSave /\ UNCHANGED stored

Next == Commit \/ End \/ \E v \in Versions : Begin(v) \/ Refresh(v)

Spec == Init /\ [][Next]_vars
=============================================================================
