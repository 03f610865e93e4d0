------------------------------ MODULE MCScheduler ------------------------------
(***************************************************************************)
(* The scheduler for TLC.  The sagas are alike, so the runs of safety      *)
(* properties take them as symmetric; the run of a liveness property does  *)
(* not.                                                                    *)
(***************************************************************************)
EXTENDS SchedulerInvariant, TLC

Symmetry == Permutations(Saga)
=============================================================================
