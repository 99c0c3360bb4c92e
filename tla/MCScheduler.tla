----------------------------- MODULE MCScheduler -----------------------------
(***************************************************************************)
(* A small instance of Scheduler.                                          *)
(***************************************************************************)
EXTENDS Scheduler, TLC

CONSTANTS t1, t2, o1, o2, nightly, hourly
MCIds == {t1, t2}
MCOps == {o1, o2}
MCSchedules == {nightly, hourly}

\* No id, operation or expression is special.
Alike == Permutations(MCIds) \union Permutations(MCOps) \union Permutations(MCSchedules)
=============================================================================
