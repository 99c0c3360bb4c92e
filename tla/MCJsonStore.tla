----------------------------- MODULE MCJsonStore -----------------------------
(***************************************************************************)
(* A small instance of JsonStore: a growing, a shrinking and an equal-     *)
(* sized text follow each other.                                           *)
(***************************************************************************)
EXTENDS JsonStore

CONSTANTS w1, w2
MCWriters == {w1, w2}
MCSize == [v \in 1..MaxSaves |-> <<2, 3, 1, 1, 3>>[v]]

\* Two saves at a time from the start.
CrashSpec == Init /\ concurrent = TRUE /\ [][Next]_vars
=============================================================================
