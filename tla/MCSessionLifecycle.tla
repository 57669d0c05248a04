-------------------------- MODULE MCSessionLifecycle --------------------------
(* TLC instance of SessionLifecycle: two connections racing for sessions.  *)
EXTENDS SessionLifecycle, TLC

(* What may happen from outside, besides requests and dropped connections. *)
MCScenarios == {{"cancel"}, {"streamFatal", "corrupt"}, {"writeFailure"},
                {"panic"}, {"shutdown"}}

ConnSymmetry == Permutations(Conns)
=============================================================================
