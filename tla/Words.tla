-------------------------------- MODULE Words --------------------------------
(* The arithmetic of a two's complement machine word, as C's int and LLVM's  *)
(* i32 have it: results wrap, division goes towards zero, and two divisions  *)
(* have no result.                                                           *)
EXTENDS Integers

CONSTANT Width
ASSUME WidthAssumption == Width \in Nat \ {0}

Least == -(2 ^ (Width - 1))
Word  == Least .. -Least - 1
Wrap(n) == ((n - Least) % 2 ^ Width) + Least

Abs(n) == IF n < 0 THEN -n ELSE n
Quotient(a, b) == (Abs(a) \div Abs(b)) * (IF a * b < 0 THEN -1 ELSE 1)

Traps(op, a, b) == op \in {"/", "%"} /\ (b = 0 \/ (a = Least /\ b = -1))
Arithmetic(op, a, b) == CASE op = "+" -> Wrap(a + b)
                          [] op = "-" -> Wrap(a - b)
                          [] op = "*" -> Wrap(a * b)
                          [] op = "/" -> Quotient(a, b)
                          [] op = "%" -> a - b * Quotient(a, b)

Compare(op, a, b) == CASE op = "==" -> a = b
                       [] op = "!=" -> a # b
                       [] op = "<"  -> a < b
                       [] op = "<=" -> a <= b
                       [] op = ">"  -> a > b
                       [] op = ">=" -> a >= b
=============================================================================
