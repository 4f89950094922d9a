---------------------------- MODULE MCScheduler -----------------------------
(* The scheduler with a few tasks, with and without the timer interrupt.   *)
EXTENDS Scheduler, TLC

MCSymmetry == Permutations(Tasks)
=============================================================================
