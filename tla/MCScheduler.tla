----------------------------- MODULE MCScheduler ------------------------------
(***************************************************************************)
(* Small instances of Scheduler for TLC.                                   *)
(***************************************************************************)
EXTENDS Scheduler

CONSTANTS a, b, c

\* a is due in minutes 0 and 1, b in minute 1; c never.
InTurn == {<<a, 0>>, <<a, 1>>, <<b, 1>>}
=============================================================================
