--------------------------- MODULE MCArtifactCache ---------------------------
(* Two processes: one runs an import job and an interactive pull of the    *)
(* identity, the other, which evicts and may die, a job.                   *)
EXTENDS ArtifactCache, TLC

CONSTANTS p1, p2, j1, w1, j2

MCHome == (j1 :> p1) @@ (w1 :> p1) @@ (j2 :> p2)
MCMaxQueries == (p1 :> 1) @@ (p2 :> 0)
MCScenarios == {{j1, w1}, {j1, j2}, {w1, j2}}
MCKnown == {2}
=============================================================================
