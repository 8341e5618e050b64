------------------------------- MODULE MCParser -------------------------------
(* Model-checking instance of Parser.                                        *)
EXTENDS Parser
=============================================================================
