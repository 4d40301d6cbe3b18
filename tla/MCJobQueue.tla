----------------------------- MODULE MCJobQueue -----------------------------
(* Small instances of JobQueue. *)
EXTENDS JobQueue, TLC

CONSTANTS j1, j2, w1, w2

\* one job of the highest and one of the lowest priority: every list between
\* them is polled and found empty
MCPriority == (j1 :> "critical") @@ (j2 :> "low")
MCMaxRetries == (j1 :> 2) @@ (j2 :> 1)
MCMaxRetries0 == (j1 :> 2) @@ (j2 :> 0)
MCSamePriority == (j1 :> "normal") @@ (j2 :> "normal")

Symmetry == Permutations({w1, w2})
=============================================================================
