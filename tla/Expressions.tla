------------------------------ MODULE Expressions ------------------------------
(* Expressions, conditions and lists in the C1 parser: the rules of Parser.y *)
(* that module Parser takes for one token, as data, and the table that bison *)
(* (external) makes of them.  A sentence is what Parser calls an item or the *)
(* condition of an if or while:                                              *)
(*   "return" exp   "int" vars   "const" constdefs   "if" cond               *)
(*   "header" params     an assignment or a call                             *)
(* and END is the ";" or ")" behind it; "header" is ID ( or extern int ID (.  *)
(* "if" is also the while.  Names and numbers are one token each.            *)
EXTENDS Integers, Sequences, FiniteSetsExt

CONSTANT Inputs     \* what inputs are made of: [tokens, most], the second a
                    \* bound on how many of them stand before END

VARIABLES input,        \* one of these
          stack,        \* the parser stack, bottom first: [items, value]
          la,           \* the lookahead, "none" if it is to be read
          read,         \* the tokens read, without END
          result        \* "running", "error" or "accepted"

vars == <<input, stack, la, read, result>>
-----------------------------------------------------------------------------
(* The rules.  of tells what a rule does with the values $1, $2, ...: "pass" *)
(* hands the only one on, "list" starts a list, "append" adds to it, any     *)
(* other makes a node of that name.                                          *)
Rule(lhs, rhs, of) == [lhs |-> lhs, rhs |-> rhs, of |-> of]
(* Mutant: the last operator is forgotten.                                   *)
BinaryButOne(lhs, arg, ops) ==
  [k \in 1 .. Len(ops) - 1 |-> Rule(lhs, <<arg, ops[k], arg>>, ops[k])]
Binary(lhs, arg, ops) == [k \in 1 .. Len(ops) |-> Rule(lhs, <<arg, ops[k], arg>>, ops[k])]
ListOf(list, one) == <<Rule(list, <<one>>, "list"), Rule(list, <<list, ",", one>>, "append")>>

Array == <<"ID", "[", "exp", "]">>
Initial == <<"=", "{", "exps", "}">>

Items == <<
  Rule("item", <<"return", "exp">>, "return"),    Rule("item", <<"if", "cond">>, "if"),
  Rule("item", <<"int", "vars">>, "int"),         Rule("item", <<"const", "constdefs">>, "const"),
  Rule("item", <<"lval", "=", "exp">>, "="),      Rule("item", <<"header", "params">>, "header"),
  Rule("item", <<"ID", "(", "exps", ")">>, "call"), Rule("item", <<"ID", "(", ")">>, "call") >>
Params == ListOf("params", "param") \o <<
  Rule("param", <<"int", "ID">>, "param"),        Rule("param", <<"int", "ID", "[", "]">>, "arrayparam") >>
ConstDefs == ListOf("constdefs", "constdef") \o <<
  Rule("constdef", <<"ID", "=", "exp">>, "constdef"),
  Rule("constdef", Array \o Initial, "constarray") >>
Vars == ListOf("vars", "var") \o <<
  Rule("var", <<"ID">>, "var"),                   Rule("var", Array, "array"),
  Rule("var", <<"ID", "=", "exp">>, "varinit"),   Rule("var", Array \o Initial, "arrayinit") >>
Exps == ListOf("exps", "exp") \o <<
  Rule("exp", <<"NUMBER">>, "NUMBER"),            Rule("exp", <<"lval">>, "pass"),
  Rule("exp", <<"ID", "(", "exps", ")">>, "call"), Rule("exp", <<"ID", "(", ")">>, "call"),
  Rule("exp", <<"-", "exp">>, "N"),               Rule("exp", <<"(", "exp", ")">>, "pass") >>
  \o Binary("exp", "exp", <<"+", "-", "*", "/", "%">>)
LVal == << Rule("lval", <<"ID">>, "ID"),          Rule("lval", Array, "element") >>
Conds == <<
  Rule("cond", <<"odd", "exp">>, "odd"),          Rule("cond", <<"!", "cond">>, "!"),
  Rule("cond", <<"(", "cond", ")">>, "pass") >>
  \o Binary("cond", "cond", <<"and", "or">>)
  \o Binary("cond", "exp", <<"==", "!=", "<", "<=", ">", ">=">>)

Grammar == Items \o Params \o ConstDefs \o Vars \o Exps \o LVal \o Conds
Rules == 1 .. Len(Grammar)
Rhs(r) == Grammar[r].rhs

Nonterminal == {Grammar[r].lhs : r \in Rules}
Symbol == UNION {{Rhs(r)[k] : k \in 1 .. Len(Rhs(r))} : r \in Rules}
Terminal == Symbol \ Nonterminal

Levels == << {"if", "(", ")", "else"}, {"and"}, {"or"}, {"+", "-"}, {"*", "/", "%"}, {"UNARY"} >>
(* Mutant: the last operator of a level is forgotten.                        *)
LevelForgotten(t) == IF t \in {"or", "%"} THEN 0
                     ELSE LET ls == {l \in 1 .. Len(Levels) : t \in Levels[l]}
                          IN IF ls = {} THEN 0 ELSE CHOOSE l \in ls : TRUE
Level(t) == LET ls == {l \in 1 .. Len(Levels) : t \in Levels[l]}
            IN IF ls = {} THEN 0 ELSE CHOOSE l \in ls : TRUE
RightAssociative(t) == Level(t) = 1

(* A rule has the precedence of its last token, or what %prec says.          *)
RuleLevel(r) ==
  LET ts == {k \in 1 .. Len(Rhs(r)) : Rhs(r)[k] \in Terminal}
  IN IF Grammar[r].of \in {"N", "!"} THEN Level("UNARY")
     ELSE IF ts = {} THEN 0 ELSE Level(Rhs(r)[Max(ts)])
-----------------------------------------------------------------------------
(* The states (bison) are sets of items <<rule, dot>>, kept as their kernels; *)
(* a rule may be reduced on the tokens that follow its left side somewhere.  *)
RECURSIVE Reach(_, _)
Reach(Edges, S) == LET T == S \cup {e[2] : e \in {e \in Edges : e[1] \in S}}
                   IN IF T = S THEN S ELSE Reach(Edges, T)

Begins == {<<Grammar[r].lhs, Rhs(r)[1]>> : r \in Rules}
Ends == {<<Rhs(r)[Len(Rhs(r))], Grammar[r].lhs>> : r \in Rules}
Neighbours == UNION {{<<Rhs(r)[k], Rhs(r)[k + 1]>> : k \in 1 .. Len(Rhs(r)) - 1} : r \in Rules}

First == [X \in Symbol \cup Nonterminal |-> Reach(Begins, {X})]
Follow == [X \in Nonterminal |->
  LET last == Reach(Ends, {X})
      next == {e[2] : e \in {e \in Neighbours : e[1] \in last}}
  IN (UNION {First[Y] : Y \in next} \cap Terminal) \cup (IF "item" \in last THEN {"END"} ELSE {})]

Start == {<<r, 0>> : r \in {r \in Rules : Grammar[r].lhs = "item"}}
Awaits(i, X) == i[2] < Len(Rhs(i[1])) /\ Rhs(i[1])[i[2] + 1] = X

StartingWith == [X \in Symbol |-> {r \in Rules : Rhs(r)[1] = X}]

(* The kernel of the state that X leads to from kernel I, empty if to none.  *)
Goto(I, X) ==
  LET awaited == {Rhs(i[1])[i[2] + 1] : i \in {i \in I : i[2] < Len(Rhs(i[1]))}}
  IN {<<i[1], i[2] + 1>> : i \in {i \in I : Awaits(i, X)}} \cup
     {<<r, 1>> : r \in {r \in StartingWith[X] : \E Y \in awaited : Grammar[r].lhs \in First[Y]}}
-----------------------------------------------------------------------------
Top == stack[Len(stack)]
Complete == {i[1] : i \in {i \in Top.items : i[2] = Len(Rhs(i[1]))}}
Reducible(t) == {r \in Complete : t \in Follow[Grammar[r].lhs]}
Shiftable(t) == t \in Terminal /\ Goto(Top.items, t) # {}

(* What precedence makes of a rule that could be reduced and a token that    *)
(* could be shifted; without precedence the token is shifted.                *)
ReducesFirst(r, t) == /\ Level(t) # 0 /\ RuleLevel(r) # 0
                      /\ \/ RuleLevel(r) > Level(t)
                         \/ RuleLevel(r) = Level(t) /\ ~RightAssociative(t)

(* The rule to reduce, 0 if none.                                            *)
Chosen(t) == LET rs == {r \in Reducible(t) : Shiftable(t) => ReducesFirst(r, t)}
             IN IF rs = {} THEN 0 ELSE Min(rs)

(* The value of a rule; vals are those of its names, numbers and nonterminals.*)
Node(of, kids) == [of |-> of, kids |-> kids]
Value(r, vals) ==
  CASE Grammar[r].of = "pass" -> vals[1]
    [] Grammar[r].of = "list" -> Node("list", vals)
    [] Grammar[r].of = "append" -> Node("list", Append(vals[1].kids, vals[2]))
    [] OTHER -> Node(Grammar[r].of, vals)

NoValue == Node("token", <<>>)
Init == /\ input \in Inputs
        /\ stack = <<[items |-> Start, value |-> NoValue]>>
        /\ la = "none" /\ read = <<>> /\ result = "running"

ReadToken ==
  /\ result = "running" /\ la = "none"
  /\ la' \in (IF Len(read) < input.most THEN input.tokens ELSE {}) \cup {"END"}
  /\ read' = IF la' = "END" THEN read ELSE Append(read, la')
  /\ UNCHANGED <<input, stack, result>>

Shift ==
  /\ result = "running" /\ la # "none" /\ Shiftable(la) /\ Chosen(la) = 0
  /\ stack' = Append(stack, [items |-> Goto(Top.items, la), value |-> NoValue])
  /\ la' = "none" /\ UNCHANGED <<input, read, result>>

(* The values of a rule's nonterminals, which stand on top of the stack.     *)
Reduce ==
  /\ result = "running" /\ la # "none" /\ Chosen(la) # 0
  /\ LET r == Chosen(la)
         n == Len(Rhs(r))
         rest == SubSeq(stack, 1, Len(stack) - n)
         popped == SubSeq(stack, Len(stack) - n + 1, Len(stack))
         kids == SelectSeq(popped, LAMBDA e : e.value # NoValue)
         value == Value(r, [k \in 1 .. Len(kids) |-> kids[k].value])
     IN IF Grammar[r].lhs = "item"
        THEN /\ stack' = <<[items |-> Start, value |-> value]>> /\ result' = "accepted"
        ELSE /\ stack' = Append(rest, [items |-> Goto(rest[Len(rest)].items, Grammar[r].lhs),
                                       value |-> value])
             /\ UNCHANGED result
  /\ UNCHANGED <<input, la, read>>

SyntaxError ==
  /\ result = "running" /\ la # "none" /\ ~Shiftable(la) /\ Chosen(la) = 0
  /\ result' = "error" /\ UNCHANGED <<input, stack, la, read>>

Returned == result # "running" /\ UNCHANGED vars

Next == ReadToken \/ Shift \/ Reduce \/ SyntaxError \/ Returned
Spec == Init /\ [][Next]_vars
=============================================================================
