--------------------------- MODULE MCReplication ---------------------------
(* Bounds for model checking Replication. *)
EXTENDS Replication, TLC

\* A transfer writes its block and the project row, an issuance a block, the
\* project and the company row, a request only its block.
Operations ==
    {("project" :> "P1") @@ ("block" :> "B1"),
     ("project" :> "P1") @@ ("company" :> "C1") @@ ("block" :> "B2"),
     ("block" :> "B1")}

Symmetry == Permutations(Writers)

=============================================================================
