----------------------------- MODULE MCExpressions -----------------------------
(* Model-checking instance of SentenceTrees.  No input has "odd": the lexer  *)
(* never returns it.                                                         *)
EXTENDS SentenceTrees

Of(tokens, most) == [tokens |-> tokens, most |-> most]

(* Expressions with operators of both levels and everything that has an      *)
(* expression inside; conditions with brackets, which may be an expression's;*)
(* conditions of up to three comparisons with "and" or with "or", never      *)
(* both; lists; arrays with initial values.                                  *)
SomeInputs ==
  { Of({"return", "NUMBER", "ID", "(", ")", "[", "]", ",", "-", "*"}, 6),
    Of({"if", "NUMBER", "(", ")", "+", "<", "and"}, 8),
    Of({"if", "NUMBER", "<", "!", "and"}, 12),
    Of({"if", "NUMBER", "<", "!", "or"}, 12),
    Of({"if", "NUMBER", "(", ")", "<", "!", "or"}, 9),
    Of({"header", "int", "const", "ID", "NUMBER", "[", "]", "=", ",", "(", ")"}, 7),
    Of({"int", "const", "ID", "NUMBER", "[", "]", "=", "{", "}"}, 9) }

(* An operand, a comparison, or what closes the brackets that are open.      *)
ShortCompletions ==
  {<<>>, <<"NUMBER">>, <<")">>, <<"]">>, <<"}">>, <<"NUMBER", ")">>, <<"NUMBER", "]">>,
   <<"<", "NUMBER">>, <<"NUMBER", "<", "NUMBER">>, <<"=", "NUMBER">>,
   <<"]", "=", "{", "NUMBER", "}">>}
=============================================================================
