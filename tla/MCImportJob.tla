----------------------------- MODULE MCImportJob -----------------------------
(* Two jobs, or a job and an interactive pull of the same session, which   *)
(* an earlier pull has stored.                                             *)
EXTENDS ImportJob, TLC

CONSTANTS j1, j2, w, old, k1, k2

MCKey == (j1 :> k1) @@ (j2 :> k2) @@ (w :> k1)
         @@ (old :> k1)
MCScenarios == {{j1, w}, {j1, j2}}
=============================================================================
