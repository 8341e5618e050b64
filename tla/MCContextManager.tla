-------------------------- MODULE MCContextManager --------------------------
(* Model-checking instance of ContextManager, with two names and functions   *)
(* named in the configuration.                                               *)
EXTENDS ContextManager
=============================================================================
