----------------------------- MODULE MCTranslation -----------------------------
(* Model-checking instances of Translation: the programs.                    *)
EXTENDS Translation

CONSTANTS x, y

Num(n) == [is |-> "number", value |-> n]
Var(v) == [is |-> "name", name |-> v]
Call(e) == [is |-> "call", arg |-> e]
Minus(e) == [is |-> "minus", arg |-> e]
Op(op, l, r) == [is |-> op, left |-> l, right |-> r]
Not(c)  == [is |-> "!", arg |-> c]
Let(v, e) == [is |-> "assign", name |-> v, exp |-> e]
Plain(v) == [is |-> "declare", name |-> v]
IntIs(v, e) == [is |-> "initialise", name |-> v, exp |-> e]
Const(v, e) == [is |-> "const", name |-> v, exp |-> e]
Braces(s) == [is |-> "block", stmts |-> s]
If(c, s, t) == [is |-> "if", cond |-> c, then |-> s, else |-> t]
While(c, s) == [is |-> "while", cond |-> c, body |-> Braces(s)]
Returning(s, e) == Braces(Append(s, [is |-> "return", exp |-> e]))
Main(s) == Returning(s, Num(0))

Operators == {"+", "-", "*", "/", "%"}
Comparisons == {"==", "!=", "<", "<=", ">", ">="}
Increased(v) == Op("+", Var(v), Num(1))
Increment(v) == Let(v, Increased(v))
Show(n) == Call(Num(n))
-----------------------------------------------------------------------------
(* Expressions: both ways of nesting two operators, with calls and negation. *)
Leaves == {Num(3), Var(x), Call(Num(2))}
Pairs(leaves) == {Op(o, a, b) : o \in Operators, a \in leaves, b \in leaves}
Nested == {Op(o, a, b) : o \in Operators, a \in {Var(x), Minus(Call(Num(2)))}, b \in Pairs(Leaves)}
          \cup {Op(o, a, b) : o \in Operators, a \in Pairs(Leaves), b \in {Var(x), Num(-2)}}
Expressions == {Main(<<IntIs(x, Num(v)), Call(e)>>) : v \in {0, -1, 5}, e \in Nested}

(* Folding: the same constant expression folded and computed.                *)
Constants == {Op(o, a, b) : o \in Operators, a \in {Num(Least), Num(-5), Minus(Increased(x))},
                            b \in Pairs({Num(0), Num(2), Var(x)}) \cup {Num(-1), Num(0)}}
Folding == {Main(<<Const(x, Num(v)), IntIs(y, e), Call(Var(y)), Call(e)>>) :
              v \in {-1, 3}, e \in Constants}

(* Conditions: comparisons with a call, and connectives of pure ones.        *)
Compared == {Op(o, a, b) : o \in Comparisons, a \in {Var(x), Call(Var(x))}, b \in {Num(1), Var(y)}}
Pure == {Op(o, Var(x), b) : o \in {"<", "=="}, b \in {Num(1), Var(y)}}
Connected(op) == {Op(op, a, b) : a \in Pure \cup {Not(c) : c \in Pure}, b \in Pure}
Conditions == Compared \cup Connected("and")
              \cup {Not(c) : c \in Connected("and")}
Decisions == {Main(<<IntIs(x, Num(v)), IntIs(y, Num(1)), If(c, <<Show(1)>>, <<Show(2)>>)>>) :
                v \in 0 .. 2, c \in Conditions}

(* Control: what a loop or branch holds another one of, and goes on after.   *)
Simple == {<<>>, <<Show(1)>>, <<Let(y, Num(0)), Call(Var(y))>>}
Guards == {Op("<", Var(x), Num(2)), Op("==", Call(Var(x)), Var(y))}
Inner == {<<If(c, s, t)>> : c \in Guards, s \in Simple, t \in Simple}
         \cup {<<While(Op("<", Var(y), Num(2)), s \o <<Increment(y)>>)>> :
                 s \in Simple \ {<<Let(y, Num(0)), Call(Var(y))>>}}
Control == {Main(<<IntIs(x, Num(v)), IntIs(y, Num(1))>> \o s) : v \in {0, 1, 2}, s \in
              {<<While(c, s \o <<Increment(x)>>), Show(3)>> : c \in Guards, s \in Inner}
              \cup {<<If(c, s, t), Show(3)>> : c \in Guards, s \in Inner, t \in Inner}}

(* Declarations: in the body of a loop or a branch, a name that the          *)
(* condition does not read, with a value that the body does not change or    *)
(* without one; one of the same name behind it; and values returned.         *)
Declared(v) == {<<Plain(v), Let(v, Op("+", Var(x), Num(2)))>>, <<IntIs(v, Num(2))>>,
                <<Const(v, Num(2))>>, <<Const(v, Num(-3)), Call(Var(x)), Let(x, Increased(x))>>}
Holding == {<<While(c, d \o <<Call(Var(y)), Increment(x)>>)>> : c \in {Op("<", Var(x), Num(2)),
                                                                     Op("<", Call(Var(x)), Num(1))},
                                                             d \in Declared(y)}
           \cup {<<If(Op("<", Var(x), Num(1)), <<Braces(d \o <<Call(Var(y))>>)>>,
                      <<Braces(e \o <<Let(x, Var(y))>>)>>)>> : d \in Declared(y), e \in Declared(y)}
Declarations ==
  {Returning(<<IntIs(x, Num(v))>> \o s, e) : v \in 0 .. 2, s \in Holding,
     e \in {Var(x), Call(Increased(x))}}
  \cup {Returning(<<IntIs(x, Num(v))>> \o s \o d, e) : v \in 0 .. 2, s \in Holding,
          d \in Declared(y), e \in {Op("-", Var(x), Var(y)), Var(y)}}

CheckedPrograms == Expressions \cup Folding \cup Decisions \cup Control \cup Declarations
-----------------------------------------------------------------------------
(* Programs the generated code does something else for.                      *)

(* C1 is a subset of C (README.md): || holds if either side does.            *)
DisjunctionPrograms ==
  {Main(<<IntIs(x, Num(v)), If(c, <<Show(1)>>, <<Show(2)>>)>>) :
     v \in 0 .. 3, c \in {Op("or", Op(o, Var(x), Num(1)), Op(p, Var(x), Num(2))) :
                            o \in Comparisons, p \in Comparisons}}
=============================================================================
