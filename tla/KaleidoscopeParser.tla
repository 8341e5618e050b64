-------------------------- MODULE KaleidoscopeParser --------------------------
(* The Kaleidoscope parser (kaleidoscope.cpp): recursive descent with one    *)
(* token of lookahead, operator precedence parsing for binary expressions,   *)
(* and MainLoop's recovery by skipping a token.  `work` holds the Parse*     *)
(* calls under way, innermost last, and `ret` what the innermost has just    *)
(* returned.  A tree is known by the tokens it spans; the binary nodes, the  *)
(* ones whose shape is in question, are kept in `nodes`.                     *)
EXTENDS Integers, Sequences

CONSTANTS Token,      \* the tokens the input is made of
          MaxTokens,  \* bound on their number
          Null,       \* the null pointer
          Pending     \* no call has just returned
ASSUME ParserAssumption ==
  /\ MaxTokens \in Nat /\ "EOF" \notin Token
  /\ {Null, Pending} \cap [node : Nat, from : Nat, to : Nat] = {} /\ Null # Pending

VARIABLES tok,        \* CurTok
          pos,        \* its place in the input
          work, ret,  \* see above
          nodes,      \* the BinaryExprASTs of the expression being parsed
          start,      \* where that expression begins
          top         \* the handler MainLoop is in, "loop" between two

vars == <<tok, pos, work, ret, nodes, start, top>>

BinopPrecedence == [o \in {"<", "+", "-", "*"} |->
                      IF o = "<" THEN 10 ELSE IF o = "*" THEN 40 ELSE 20]
GetTokPrecedence(t) == IF t \in DOMAIN BinopPrecedence THEN BinopPrecedence[t] ELSE -1

(* The lexer goes on giving the end of the file once it is there.           *)
getNextToken ==
  IF tok = "EOF" THEN UNCHANGED <<tok, pos>>
  ELSE /\ pos' = pos + 1
       /\ tok' \in {"EOF"} \cup IF pos < MaxTokens THEN Token ELSE {}

Tree(node, from, to) == [node |-> node, from |-> from, to |-> to]
Expr(min, lhs) == [kind |-> "expr", min |-> min, lhs |-> lhs, op |-> "none",
                   at |-> 0, nested |-> FALSE]
Part(phase, from) == [kind |-> "part", phase |-> phase, from |-> from]

Top == work[Len(work)]
Pop == SubSeq(work, 1, Len(work) - 1)
Become(frame) == Append(Pop, frame)
Call(frame, expr) == Append(Become(frame), expr)

Init == /\ pos = 1 /\ tok \in Token \cup {"EOF"}
        /\ work = <<>> /\ ret = Pending /\ nodes = <<>> /\ start = 1 /\ top = "loop"

Return(v) == work' = Pop /\ ret' = v
Inside == UNCHANGED <<nodes, start, top>>
-----------------------------------------------------------------------------
(* Primary expressions                                                       *)
Wanted == /\ work # <<>> /\ ret = Pending /\ Top.kind = "expr"
          /\ Top.lhs = Null \/ Top.op # "none"

ParseNumberExpr == /\ Wanted /\ tok = "number" /\ Inside
                   /\ ret' = Tree(0, pos, pos) /\ getNextToken
                   /\ UNCHANGED work

ParsePrimaryFails ==
  /\ Wanted /\ tok \notin {"number", "id", "(", "if", "for", "while"} /\ Inside
  /\ ret' = Null
  /\ UNCHANGED <<tok, pos, work>>

(* What each of the others begins with is eaten; an expression follows at    *)
(* once or not.                                                              *)
OpensExpression == [t \in {"(", "if", "while"} |->
                      IF t = "(" THEN "paren" ELSE IF t = "if" THEN "cond" ELSE "test"]
ParseOpening ==
  /\ Wanted /\ Inside
  /\ getNextToken
  /\ UNCHANGED ret
  /\ \/ /\ tok \in DOMAIN OpensExpression
        /\ work' = work \o <<Part(OpensExpression[tok], pos), Expr(0, Null)>>
     \/ tok = "id" /\ work' = Append(work, Part("callee", pos))
     \/ tok = "for" /\ work' = Append(work, Part("variable", pos))

InPart(phase) == work # <<>> /\ ret = Pending /\ Top.kind = "part" /\ Top.phase = phase

(* identifierexpr behind the identifier                                      *)
ParseIdentifierExpr ==
  /\ Inside
  /\ \/ /\ InPart("callee") /\ tok # "("
        /\ Return(Tree(0, Top.from, pos - 1)) /\ UNCHANGED <<tok, pos>>
     \/ /\ InPart("callee") /\ tok = "(" /\ getNextToken
        /\ work' = Become(Part("args", Top.from)) /\ UNCHANGED ret
     \/ /\ InPart("args") /\ tok = ")"
        /\ Return(Tree(0, Top.from, pos)) /\ getNextToken
     \/ /\ InPart("args") /\ tok # ")"
        /\ work' = Call(Part("arg", Top.from), Expr(0, Null)) /\ UNCHANGED <<tok, pos, ret>>

(* What must stand between for and the start value, and in a prototype.      *)
Header == [phase \in {"variable", "is", "name", "open", "params"} |->
             CASE phase = "variable" -> {<<"id", "is">>}
               [] phase = "is"       -> {<<"=", "from">>}
               [] phase = "name"     -> {<<"id", "open">>}
               [] phase = "open"     -> {<<"(", "params">>}
               [] phase = "params"   -> {<<"id", "params">>, <<")", "done">>}]
ParseHeader ==
  /\ Inside
  /\ \E phase \in DOMAIN Header :
       /\ InPart(phase)
       /\ \/ \E rule \in Header[phase] :
               /\ tok = rule[1] /\ getNextToken
               /\ IF rule[2] = "done" THEN Return(Tree(0, Top.from, pos))
                  ELSE /\ work' = IF rule[2] = "from"
                                  THEN Call(Part("from", Top.from), Expr(0, Null))
                                  ELSE Become(Part(rule[2], Top.from))
                       /\ UNCHANGED ret
          \/ /\ \A rule \in Header[phase] : tok # rule[1]
             /\ Return(Null) /\ UNCHANGED <<tok, pos>>

(* What must stand behind an expression that is part of another, and what    *)
(* follows it; "" if nothing is looked for.                                  *)
Behind == [phase \in {"paren", "arg", "cond", "then", "else", "from", "end",
                      "step", "body", "test", "loop"} |->
             CASE phase = "paren" -> {<<")", "done">>}
               [] phase = "arg"   -> {<<",", "arg">>, <<")", "done">>}
               [] phase = "cond"  -> {<<"then", "then">>}
               [] phase = "then"  -> {<<"else", "else">>}
               [] phase = "from"  -> {<<",", "end">>}
               [] phase = "end"   -> {<<",", "step">>, <<"in", "body">>}
               [] phase = "step"  -> {<<"in", "body">>}
               [] phase = "test"  -> {<<"", "loop">>}
               [] OTHER           -> {<<"", "done">>}]
(* Mutant: the token behind the expression is looked at but not eaten.       *)
ParseBehindKeepsToken ==
  /\ work # <<>> /\ ret \notin {Pending, Null} /\ Top.kind = "part" /\ Inside
  /\ UNCHANGED <<tok, pos>>
  /\ \/ \E rule \in Behind[Top.phase] :
          /\ rule[1] \in {tok, ""}
          /\ IF rule[2] = "done"
             THEN Return(Tree(IF Top.phase = "paren" THEN ret.node ELSE 0, Top.from,
                              IF rule[1] = "" THEN pos - 1 ELSE pos))
             ELSE work' = Call(Part(rule[2], Top.from), Expr(0, Null)) /\ ret' = Pending
     \/ (\A rule \in Behind[Top.phase] : rule[1] \notin {tok, ""}) /\ Return(Null)
ParseBehind ==
  /\ work # <<>> /\ ret \notin {Pending, Null} /\ Top.kind = "part" /\ Inside
  /\ \/ \E rule \in Behind[Top.phase] :
          /\ rule[1] \in {tok, ""}
          /\ IF rule[1] = "" THEN UNCHANGED <<tok, pos>> ELSE getNextToken
          /\ IF rule[2] = "done"
             THEN Return(Tree(IF Top.phase = "paren" THEN ret.node ELSE 0, Top.from,
                              IF rule[1] = "" THEN pos - 1 ELSE pos))
             ELSE work' = Call(Part(rule[2], Top.from), Expr(0, Null)) /\ ret' = Pending
     \/ /\ \A rule \in Behind[Top.phase] : rule[1] \notin {tok, ""}
        /\ Return(Null) /\ UNCHANGED <<tok, pos>>

(* Every level hands a null on.                                              *)
GiveUp == /\ work # <<>> /\ ret = Null /\ Inside
          /\ work' = Pop /\ UNCHANGED <<tok, pos, ret>>
-----------------------------------------------------------------------------
(* Binary expressions                                                        *)
InExpr == work # <<>> /\ Top.kind = "expr" /\ UNCHANGED <<start, top>>
HasTree == InExpr /\ ret \notin {Pending, Null}

ParseExpression == /\ HasTree /\ Top.lhs = Null
                   /\ work' = Become([Top EXCEPT !.lhs = ret])
                   /\ ret' = Pending
                   /\ UNCHANGED <<tok, pos, nodes>>

(* An operator that binds at least as tightly as is asked for is eaten.      *)
ParseOperator == /\ InExpr /\ ret = Pending /\ Top.lhs # Null /\ Top.op = "none"
                 /\ UNCHANGED nodes
                 /\ IF GetTokPrecedence(tok) < Top.min
                    THEN Return(Top.lhs) /\ UNCHANGED <<tok, pos>>
                    ELSE /\ work' = Become([Top EXCEPT !.op = tok, !.at = pos])
                         /\ getNextToken
                         /\ UNCHANGED ret

Merge(rhs) ==
  /\ nodes' = Append(nodes, [op |-> Top.op, at |-> Top.at, left |-> Top.lhs, right |-> rhs])
  /\ work' = Become(Expr(Top.min, Tree(Len(nodes) + 1, Top.lhs.from, rhs.to)))

(* Mutant: an operator of the same precedence takes the right operand too.   *)
ParseBinOpRHSFromRight ==
  /\ HasTree /\ Top.op # "none"
  /\ ret' = Pending
  /\ UNCHANGED <<tok, pos>>
  /\ IF ~Top.nested /\ GetTokPrecedence(Top.op) <= GetTokPrecedence(tok)
     THEN /\ work' = Call([Top EXCEPT !.nested = TRUE],
                          Expr(GetTokPrecedence(Top.op), ret))
          /\ UNCHANGED nodes
     ELSE Merge(ret)

(* The operator behind the right operand takes it if it binds more tightly.  *)
ParseBinOpRHS ==
  /\ HasTree /\ Top.op # "none"
  /\ ret' = Pending
  /\ UNCHANGED <<tok, pos>>
  /\ IF ~Top.nested /\ GetTokPrecedence(Top.op) < GetTokPrecedence(tok)
     THEN /\ work' = Call([Top EXCEPT !.nested = TRUE],
                          Expr(GetTokPrecedence(Top.op) + 1, ret))
          /\ UNCHANGED nodes
     ELSE Merge(ret)
-----------------------------------------------------------------------------
(* MainLoop and its handlers.  What is handed to Codegen is the module       *)
(* Kaleidoscope.                                                             *)
MainLoop ==
  /\ top = "loop" /\ tok # "EOF"
  /\ UNCHANGED ret
  /\ \/ tok = ";" /\ getNextToken /\ UNCHANGED <<work, nodes, start, top>>
     \/ /\ tok \in {"def", "extern"} /\ top' = tok
        /\ work' = <<Part("name", pos + 1)>> /\ getNextToken /\ UNCHANGED <<nodes, start>>
     \/ /\ tok \notin {";", "def", "extern"} /\ top' = "expr"
        /\ work' = <<Expr(0, Null)>> /\ nodes' = <<>> /\ start' = pos
        /\ UNCHANGED <<tok, pos>>

ParseDefinition ==
  /\ top = "def" /\ work = <<>> /\ ret \notin {Pending, Null}
  /\ top' = "body"
  /\ work' = <<Expr(0, Null)>> /\ nodes' = <<>> /\ start' = pos
  /\ ret' = Pending
  /\ UNCHANGED <<tok, pos>>

Handed == top \in {"expr", "body", "extern"} /\ work = <<>> /\ ret \notin {Pending, Null}
HandToCodegen == /\ Handed
                 /\ top' = "loop" /\ ret' = Pending
                 /\ UNCHANGED <<tok, pos, work, nodes, start>>

(* Mutant: a handler that fails leaves the token where it is.                *)
SkipTokenNot == /\ top # "loop" /\ work = <<>> /\ ret = Null
                /\ top' = "loop" /\ ret' = Pending
                /\ UNCHANGED <<tok, pos, work, nodes, start>>

SkipToken == /\ top # "loop" /\ work = <<>> /\ ret = Null
             /\ top' = "loop" /\ ret' = Pending
             /\ getNextToken
             /\ UNCHANGED <<work, nodes, start>>

AtEOF == top = "loop" /\ tok = "EOF"
Stopped == AtEOF /\ UNCHANGED vars

Step == \/ ParseNumberExpr \/ ParsePrimaryFails \/ ParseOpening \/ ParseIdentifierExpr
        \/ ParseHeader \/ ParseBehind \/ GiveUp
        \/ ParseExpression \/ ParseOperator \/ ParseBinOpRHS
        \/ MainLoop \/ ParseDefinition \/ HandToCodegen \/ SkipToken

Next == Step \/ Stopped

Spec == Init /\ [][Next]_vars /\ WF_vars(Step)
-----------------------------------------------------------------------------
(* Properties                                                                *)

(* An operand without parentheses around it binds more tightly than its      *)
(* operator, on the left at least as tightly: operators of one precedence    *)
(* are left-associative (P3.md, 4).                                          *)
Bare(t) == t.node # 0 /\ nodes[t.node].left.from = t.from
Binds(t) == IF Bare(t) THEN BinopPrecedence[nodes[t.node].op] ELSE 100
PrecedenceRespected ==
  \A i \in DOMAIN nodes :
    LET prec == BinopPrecedence[nodes[i].op] IN
    Binds(nodes[i].left) >= prec /\ Binds(nodes[i].right) > prec

(* No token is lost or used twice: operands lie against their operator, and  *)
(* what is handed to Codegen spans all that was read, up to a token that     *)
(* cannot go on with it.                                                     *)
NothingLost ==
  /\ \A i \in DOMAIN nodes : /\ nodes[i].left.to + 1 = nodes[i].at
                             /\ nodes[i].right.from = nodes[i].at + 1
  /\ Handed /\ top # "extern" =>
       ret.from = start /\ ret.to = pos - 1 /\ GetTokPrecedence(tok) = -1

(* Whatever the input, MainLoop gets to its end.                             *)
Terminates == <>AtEOF
=============================================================================
