----------------------------- MODULE C1Semantics -----------------------------
(* What a C1 program means.  C1 is a subset of C (README.md), so Meaning is  *)
(* C's: a block is a scope, a declaration gives its variable its value each  *)
(* time it is reached, && and || decide from the left.  Nothing here is      *)
(* taken from the compiler: the generated code is judged by this module.     *)
(*                                                                           *)
(* A program is the body of one function, a block.  The functions it calls   *)
(* are external; a call shows its argument and returns it.                   *)
EXTENDS Words, Sequences

CONSTANTS Name,      \* identifiers
          MaxTurns,  \* bound on the turns of loops Meaning follows
          Unknown    \* the value of a variable not initialised
-----------------------------------------------------------------------------
(* A state of the evaluation: scopes, innermost last; the memory; the calls  *)
(* made; turns left; whether C still defines what happens; whether the       *)
(* function has returned; the value of what was evaluated last.              *)
Start == [scopes |-> <<>>, memory |-> <<>>, out |-> <<>>, turns |-> MaxTurns,
          defined |-> TRUE, returned |-> FALSE, value |-> 0]
Stuck(s) == [s EXCEPT !.defined = FALSE, !.value = 0]
Gives(s, v) == [s EXCEPT !.value = v]

Place(s, x) ==
  LET holding == {i \in DOMAIN s.scopes : s.scopes[i][x] # 0}
  IN  s.scopes[CHOOSE i \in holding : \A j \in holding : j <= i][x]
Declare(s, x, v) ==
  [s EXCEPT !.memory = Append(@, v),
            !.scopes = [@ EXCEPT ![Len(@)] = [@ EXCEPT ![x] = Len(s.memory) + 1]]]
Open(s)  == [s EXCEPT !.scopes = Append(@, [x \in Name |-> 0])]
Close(s) == [s EXCEPT !.scopes = SubSeq(@, 1, Len(@) - 1)]

(* F of the state v, which is evaluated once.                                *)
Then(v, F(_)) == CHOOSE r \in {F(w) : w \in {v}} : TRUE

RECURSIVE Evaluate(_, _)
Evaluate(e, s) ==
  CASE e.is = "number" -> Gives(s, e.value)
    [] e.is = "name" -> LET v == s.memory[Place(s, e.name)]
                        IN  IF v = Unknown THEN Stuck(s) ELSE Gives(s, v)
    [] e.is = "call" -> Then(Evaluate(e.arg, s), LAMBDA a : [a EXCEPT !.out = Append(@, a.value)])
    [] e.is = "minus" -> Then(Evaluate(e.arg, s), LAMBDA a : Gives(a, Wrap(-a.value)))
    [] OTHER -> Then(Evaluate(e.left, s), LAMBDA l : Then(Evaluate(e.right, l), LAMBDA r :
                  IF ~r.defined \/ Traps(e.is, l.value, r.value) THEN Stuck(r)
                  ELSE Gives(r, Arithmetic(e.is, l.value, r.value))))

RECURSIVE Decide(_, _)
Decide(c, s) ==
  CASE c.is = "!" -> Then(Decide(c.arg, s), LAMBDA a : Gives(a, ~a.value))
    [] c.is = "and" -> Then(Decide(c.left, s), LAMBDA l : IF l.value THEN Decide(c.right, l) ELSE l)
    [] c.is = "or" -> Then(Decide(c.left, s), LAMBDA l : IF l.value THEN l ELSE Decide(c.right, l))
    [] OTHER -> Then(Evaluate(c.left, s), LAMBDA l : Then(Evaluate(c.right, l), LAMBDA r :
                  Gives(r, r.defined /\ Compare(c.is, l.value, r.value))))

RECURSIVE Perform(_, _), PerformAll(_, _)
PerformAll(stmts, s) ==
  IF stmts = <<>> THEN s
  ELSE Then(Perform(Head(stmts), s), LAMBDA t : PerformAll(Tail(stmts), t))
Perform(stmt, s) ==
  IF ~s.defined \/ s.returned THEN s ELSE
  CASE stmt.is = "declare" -> Declare(s, stmt.name, Unknown)
    [] stmt.is \in {"const", "initialise"} ->
         Then(Evaluate(stmt.exp, s), LAMBDA a : Declare(a, stmt.name, a.value))
    [] stmt.is = "assign" ->
         Then(Evaluate(stmt.exp, s), LAMBDA a : [a EXCEPT !.memory[Place(a, stmt.name)] = a.value])
    [] stmt.is = "call" -> Evaluate(stmt, s)
    [] stmt.is = "return" -> [Evaluate(stmt.exp, s) EXCEPT !.returned = TRUE]
    [] stmt.is = "block" -> Close(PerformAll(stmt.stmts, Open(s)))
    [] stmt.is = "if" -> Then(Decide(stmt.cond, s), LAMBDA c :
                           PerformAll(IF c.value THEN stmt.then ELSE stmt.else, c))
    [] OTHER -> Then(Decide(stmt.cond, s), LAMBDA c :
                  IF ~c.value THEN c
                  ELSE IF c.turns = 0 THEN Stuck(c)
                  ELSE Then(Perform(stmt.body, [c EXCEPT !.turns = @ - 1]),
                            LAMBDA b : Perform(stmt, b)))

Meaning(p) ==
  Then(Perform(p, Start), LAMBDA end :
    [defined |-> end.defined /\ end.returned, out |-> end.out, value |-> end.value])
=============================================================================
