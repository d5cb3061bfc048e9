----------------------------- MODULE MCTrainingRun -----------------------------
(***************************************************************************)
(* TrainingRun with sources TLC can name.                                  *)
(***************************************************************************)
EXTENDS TrainingRun

CONSTANTS s1, s2
=============================================================================
