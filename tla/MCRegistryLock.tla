---------------------------- MODULE MCRegistryLock ----------------------------
(***************************************************************************)
(* Instances of RegistryLock for TLC: which processes share a host.        *)
(***************************************************************************)
EXTENDS RegistryLock, TLC

CONSTANTS p1, p2, p3

OneHost == [p \in Proc |-> "host"]
TwoHosts == [p \in Proc |-> IF p = p3 THEN "elsewhere" ELSE "host"]

Symmetry == Permutations(Proc)
=============================================================================
