-------------------------------- MODULE MCLexer --------------------------------
(* Model-checking instance of Lexer: a character of each class that can      *)
(* begin, continue or end a lexeme in a way of its own.                      *)
EXTENDS Lexer

Chars == {" ", "nl", "x", "0", "/", "*", "|"}
=============================================================================
