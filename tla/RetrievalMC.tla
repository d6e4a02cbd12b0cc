----------------------------- MODULE RetrievalMC -----------------------------
(***************************************************************************)
(* Instances of Retrieval: a document of a workspace and one that a direct *)
(* ingest has left without, older chunks closer to the query than newer.   *)
(***************************************************************************)
EXTENDS Retrieval

CONSTANTS d1, d2, w1

MCHome == [d \in Docs |-> IF d = d1 THEN w1 ELSE NoWorkspace]

\* An admin, a member of w1, and a token without the claims.
MCTokens == {[is_admin |-> TRUE, workspace_ids |-> None],
             [is_admin |-> FALSE, workspace_ids |-> {w1}],
             [is_admin |-> None, workspace_ids |-> None]}

MCSimilarity ==
    [d \in Docs, b \in 1..MaxBatches |->
       2 * (MaxBatches - b) + IF d = d1 THEN 1 ELSE 0]

MCBoost == [d \in Docs |-> IF d = d1 THEN 0 ELSE 3]
=============================================================================
