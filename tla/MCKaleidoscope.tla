---------------------------- MODULE MCKaleidoscope ----------------------------
(* Model-checking instance of Kaleidoscope.                                  *)
EXTENDS Kaleidoscope, TLC

(* No argument, or each variable alone.                                      *)
UpToOne == {<<>>} \cup {<<x>> : x \in Var}
Interchangeable == Permutations(Var)
=============================================================================
