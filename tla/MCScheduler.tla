----------------------------- MODULE MCScheduler -----------------------------
(* Instances of Scheduler for TLC.  Processes are interchangeable: no       *)
(* action or safety property tells them apart.  The runs that check         *)
(* liveness make no use of it.                                              *)
EXTENDS Scheduler, TLC

ProcSymmetry == Permutations(Procs)
=============================================================================
