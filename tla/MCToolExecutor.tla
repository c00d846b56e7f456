--------------------------- MODULE MCToolExecutor ---------------------------
(* Instances of ToolExecutor for TLC: the plans and the annotations.       *)
EXTENDS ToolExecutor

CONSTANTS r1, r2, c1, c2, c3, c4, c5, c6, d1, net, local, missing, ext, default

\* r1 first emits two calls of the external tool, one of them over the quota,
\* with a local call; then an unknown tool, a malformed call and one over the
\* cap.  r2 competes with it for the class, the server and the breaker.
MCPlan == (r1 :> << <<c1, c2, c3>>, <<c4, c5, c6>> >>) @@ (r2 :> << <<d1>> >>)
MCToolOf == (c1 :> net) @@ (c2 :> net) @@ (c3 :> local) @@ (c4 :> missing) @@ (c5 :> local)
               @@ (c6 :> local) @@ (d1 :> net)

MCClassOf == (net :> ext) @@ (local :> default) @@ (missing :> default)
MCClassLimit == (net :> 1) @@ (local :> 2) @@ (missing :> 1)
MCAttempts == (net :> 2) @@ (local :> 1) @@ (missing :> 1)
MCQuota == (net :> 1) @@ (local :> 2) @@ (missing :> 1)
MCOutputBudget == (net :> 8) @@ (local :> 6) @@ (missing :> 6)
=============================================================================
