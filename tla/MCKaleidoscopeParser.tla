------------------------- MODULE MCKaleidoscopeParser -------------------------
(* Model-checking instance of KaleidoscopeParser: every kind of token, "+"   *)
(* standing for "-" too, "?" for any character the grammar does not know.    *)
EXTENDS KaleidoscopeParser

Tokens == {"number", "id", "(", ")", ",", "=", "if", "then", "else", "for", "in",
           "while", "def", "extern", ";", "<", "+", "*", "?"}
=============================================================================
