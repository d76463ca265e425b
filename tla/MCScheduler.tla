---------------------------- MODULE MCScheduler ----------------------------
(***************************************************************************)
(* Scheduler for TLC.  The sizes are those of the code, except that the    *)
(* tick counters wrap at 24 (two slices) instead of 2^32.                  *)
(***************************************************************************)
EXTENDS Scheduler

MCMaxProcesses == 8
MCQuantum      == 12
MCTickModulus  == 24
=============================================================================
