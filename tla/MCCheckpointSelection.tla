------------------------- MODULE MCCheckpointSelection -------------------------
(***************************************************************************)
(* CheckpointSelection over every series of scores with two values of each *)
(* metric.                                                                 *)
(***************************************************************************)
EXTENDS CheckpointSelection

Two == {0, 1}
=============================================================================
