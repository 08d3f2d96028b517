----------------------------- MODULE MCPipeline -----------------------------
(* Instances of Pipeline: a few rules of one kind.                         *)
EXTENDS Pipeline, TLC

CONSTANTS r1, r2, r3

OneKind == [r \in Rules |-> "analytic"]

Interchangeable == Permutations(Rules)
=============================================================================
