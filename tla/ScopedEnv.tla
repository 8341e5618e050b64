------------------------------ MODULE ScopedEnv ------------------------------
(* What a symbol table promises its client, in the terms of the language: a  *)
(* stack of environments, one per open scope.  A new scope starts as a copy  *)
(* of the enclosing one, a declaration changes the innermost environment     *)
(* only, and closing a scope brings the enclosing environment back as it     *)
(* was.  ContextManager implements it with one map per scope and a search    *)
(* from the innermost map outwards.                                          *)
EXTENDS Naturals, Sequences

CONSTANTS Name,     \* the identifiers of the program
          Entry,    \* what an identifier may stand for
          Absent    \* "not declared"

VARIABLE env        \* env[i][n]: what n means in the i-th open scope

Init == env = <<[n \in Name |-> Absent]>>

Enter == env' = Append(env, env[Len(env)])

Exit == /\ Len(env) > 1
        /\ env' = SubSeq(env, 1, Len(env) - 1)

Bind(n, e) == env' = [env EXCEPT ![Len(env)] = [@ EXCEPT ![n] = e]]

Next == \/ Enter
        \/ Exit
        \/ \E n \in Name, e \in Entry : Bind(n, e)

Spec == Init /\ [][Next]_env
=============================================================================
