-------------------------- MODULE MCArtifactRegistry --------------------------
(***************************************************************************)
(* Instances of ArtifactRegistry: a root artifact, its child, which shares *)
(* the payload of the root, and a third that differs from run to run.      *)
(***************************************************************************)
EXTENDS ArtifactRegistry, TLC

CONSTANTS p1, p2, root, child, third, blob, other, nothing

\* The third names a parent that is no manifest: the payload of the other two.
Payloads == root :> blob @@ child :> blob @@ third :> other
ParentsDangling == root :> {} @@ child :> {root} @@ third :> {blob}

\* The third is a child of the child: a chain of three.
ParentsChain == root :> {} @@ child :> {root} @@ third :> {child, root}

Symmetry == Permutations(Proc)
=============================================================================
