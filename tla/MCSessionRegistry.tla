-------------------------- MODULE MCSessionRegistry --------------------------
(* TLC instance of SessionRegistry with an unconstrained environment.      *)
EXTENDS SessionRegistry
=============================================================================
