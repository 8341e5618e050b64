----------------------------- MODULE Translation -----------------------------
(* What the generated code computes: the visitors of LLVMCodeGen.cpp with    *)
(* their values, the folding of AST.cpp and the storage of                   *)
(* ContextManager.cpp, for one function with scalar variables, followed by   *)
(* the execution of the result an instruction at a time.  LLVMCodeGen has    *)
(* the same visitors with their failures and without values.  LLVM's         *)
(* instructions are external, modelled as its reference manual has them.     *)
EXTENDS C1Semantics

CONSTANTS Programs, \* the programs considered
          Orders    \* in which order the compiler that built ycc1 evaluates
                    \* the arguments of a call: "left" or "right" one first

VARIABLES program, meaning, out, result,  \* as in C1Program
          order,    \* that order, the same for the whole build
          phase,    \* "runs", "returned", or how it ended otherwise
          code,     \* the basic blocks of the function
          at,       \* the block and instruction to be executed
          regs,     \* the values computed
          memory    \* the variables

vars == <<program, meaning, out, result, order, phase, code, at, regs, memory>>

C1 == INSTANCE C1Program
-----------------------------------------------------------------------------
(* What the visitors share: the blocks built, the insertion point, the       *)
(* variables and the stores in front of the entry block (ContextManager),    *)
(* _constants, whether folding has died, and the value of the last visit.    *)
Fresh == [blocks |-> <<<<>>>>, insert |-> 1, regs |-> 0,
          names |-> [x \in Name |-> 0], variables |-> 0, entry |-> <<>>,
          constants |-> [x \in Name |-> Unknown], died |-> FALSE, value |-> 0]

Immediate(n) == [is |-> "immediate", n |-> n]
Register(n) == [is |-> "register", n |-> n]
Result(g, v) == [g EXCEPT !.value = v]

Create(g, op, args, to) ==
  [g EXCEPT !.blocks[g.insert] =
              Append(@, [op |-> op, args |-> args, to |-> to, reg |-> g.regs + 1]),
            !.regs = @ + 1,
            !.value = Register(g.regs + 1)]

(* Exp::calc.  calc dies where idiv does, the same that traps at run time.   *)
RECURSIVE calc(_, _)
calc(e, m) ==
  LET died == [died |-> TRUE, value |-> 0] IN
  CASE e.is = "number" -> [died |-> FALSE, value |-> e.value]
    [] e.is = "name" -> [died |-> m[e.name] = Unknown, value |-> m[e.name]]
    [] e.is = "minus" -> Then(calc(e.arg, m), LAMBDA a :
                           IF a.died THEN died ELSE [a EXCEPT !.value = Wrap(-@)])
    [] OTHER -> Then(calc(e.left, m), LAMBDA l : Then(calc(e.right, m), LAMBDA r :
                  IF l.died \/ r.died THEN died
                  ELSE IF Traps(e.is, l.value, r.value) THEN died
                  ELSE [l EXCEPT !.value = Arithmetic(e.is, @, r.value)]))

(* Mutant: the divisor is folded first.                                      *)
calcSwapped(e, m) ==
  IF e.is \notin {"/", "%"} THEN calc(e, m)
  ELSE LET l == calc(e.right, m)
           r == calc(e.left, m)
       IN  IF l.died \/ r.died THEN [died |-> TRUE, value |-> 0]
           ELSE IF Traps(e.is, l.value, r.value) THEN [died |-> TRUE, value |-> 0]
           ELSE [l EXCEPT !.value = Arithmetic(e.is, @, r.value)]
Fold(e, m) == calc(e, m)

(* visitExp, visitLVal, visitNumber, visitCallExp.                           *)
RECURSIVE visitExp(_, _)
visitExp(e, g) ==
  CASE e.is = "number" -> Result(g, Immediate(e.value))
    [] e.is = "name" -> Create(g, "load", <<>>, <<g.names[e.name]>>)
    [] e.is = "call" -> Then(visitExp(e.arg, g), LAMBDA a : Create(a, "call", <<a.value>>, <<>>))
    [] e.is = "minus" -> Then(visitExp(e.arg, g), LAMBDA a :
                           Create(a, "-", <<Immediate(0), a.value>>, <<>>))
    [] OTHER -> Then(visitExp(e.left, g), LAMBDA l : Then(visitExp(e.right, l), LAMBDA r :
                  Create(r, e.is, <<l.value, r.value>>, <<>>)))

(* Two visits as arguments of one call are made in either order; the value   *)
(* is the instruction on both results.  || is translated like &&.            *)
RECURSIVE visitCond(_, _)
visitOperand(c, g) ==
  IF c.is \in {"!", "and", "or", "==", "!=", "<", "<=", ">", ">="}
  THEN visitCond(c, g) ELSE visitExp(c, g)
visitCond(c, g) ==
  IF c.is = "!"
  THEN Then(visitCond(c.arg, g), LAMBDA a : Create(a, "not", <<a.value>>, <<>>))
  ELSE LET first  == IF order = "left" THEN c.left ELSE c.right
           second == IF order = "left" THEN c.right ELSE c.left
       IN  Then(visitOperand(first, g), LAMBDA f : Then(visitOperand(second, f), LAMBDA s :
             Create(s, IF c.is = "or" THEN "and" ELSE c.is,
                    IF order = "left" THEN <<f.value, s.value>> ELSE <<s.value, f.value>>,
                    <<>>)))
-----------------------------------------------------------------------------
(* Definitions: a variable of the function, whatever block is open; a folded *)
(* value is stored at the front of the entry block.                          *)
Define(g, x, init) ==
  LET v == g.variables + 1
      store == [op |-> "store", args |-> <<Immediate(init)>>, to |-> <<v>>, reg |-> 0]
  IN  [g EXCEPT !.variables = v, !.names[x] = v,
                !.entry = IF init = Unknown THEN @ ELSE <<store>> \o @]

visitVar(s, g) ==
  IF s.is = "declare" THEN Define(g, s.name, Unknown)
  ELSE LET a == Fold(s.exp, g.constants)
       IN  IF a.died THEN [g EXCEPT !.died = TRUE] ELSE Define(g, s.name, a.value)

visitConstDef(s, g) ==
  LET a == Fold(s.exp, g.constants)
  IN  IF a.died THEN [g EXCEPT !.died = TRUE]
      ELSE Define([g EXCEPT !.constants[s.name] = a.value], s.name, a.value)

visitAsgnStmt(s, g) == Then(visitExp(s.exp, g), LAMBDA e :
                         Create(e, "store", <<e.value>>, <<g.names[s.name]>>))
visitRetStmt(s, g) == Then(visitExp(s.exp, g), LAMBDA e :
                        Create(e, "ret", <<e.value>>, <<>>))

Blocks(g, n) == [g EXCEPT !.blocks = @ \o [i \in 1 .. n |-> <<>>]]
SetInsertPoint(g, b) == [g EXCEPT !.insert = b]
BranchOn(c, then, else) == Create(c, "condbr", <<c.value>>, <<then, else>>)

RECURSIVE visit(_, _), visitAll(_, _)
visitAll(stmts, g) ==
  IF stmts = <<>> THEN g
  ELSE Then(visit(Head(stmts), g), LAMBDA h : visitAll(Tail(stmts), h))

(* Mutant: the condition behind the body is the one computed in front of it. *)
visitWhileOnce(s, g) ==
  LET loop  == Len(g.blocks) + 1
      after == Len(g.blocks) + 2
  IN  Then(visitCond(s.cond, Blocks(g, 2)), LAMBDA c :
      Then(visit(s.body, SetInsertPoint(BranchOn(c, loop, after), loop)), LAMBDA b :
        SetInsertPoint(Create(b, "condbr", <<c.value>>, <<loop, after>>), after)))

visitWhileStmt(s, g) ==
  LET loop  == Len(g.blocks) + 1
      after == Len(g.blocks) + 2
  IN  Then(visitCond(s.cond, Blocks(g, 2)), LAMBDA c :
      Then(visit(s.body, SetInsertPoint(BranchOn(c, loop, after), loop)), LAMBDA b :
      Then(visitCond(s.cond, b), LAMBDA d :
        SetInsertPoint(BranchOn(d, loop, after), after))))

visitIfStmt(s, g) ==
  LET then  == Len(g.blocks) + 1
      else  == Len(g.blocks) + 2
      merge == Len(g.blocks) + 3
  IN  Then(visitCond(s.cond, Blocks(g, 3)), LAMBDA c :
      Then(visitAll(s.then, SetInsertPoint(BranchOn(c, then, else), then)), LAMBDA t :
      Then(visitAll(s.else, SetInsertPoint(Create(t, "br", <<>>, <<merge>>), else)), LAMBDA e :
        SetInsertPoint(Create(e, "br", <<>>, <<merge>>), merge))))

visit(s, g) ==
  IF g.died THEN g ELSE
  CASE s.is \in {"declare", "initialise"} -> visitVar(s, g)
    [] s.is = "const" -> visitConstDef(s, g)
    [] s.is = "assign" -> visitAsgnStmt(s, g)
    [] s.is = "call" -> visitExp(s, g)
    [] s.is = "return" -> visitRetStmt(s, g)
    [] s.is = "block" -> visitAll(s.stmts, g)
    [] s.is = "if" -> visitIfStmt(s, g)
    [] s.is = "while" -> visitWhileStmt(s, g)
-----------------------------------------------------------------------------
(* codegen: the compiled program, ready to be run, if folding got through.   *)
codegen ==
  \E g \in {visit(program, Fresh)} :
  /\ phase = IF g.died THEN "died" ELSE "runs"
  /\ code = [g.blocks EXCEPT ![1] = g.entry \o @]
  /\ regs = [r \in 1 .. g.regs |-> Unknown]
  /\ memory = [v \in 1 .. g.variables |-> Unknown]

Init == /\ program \in Programs
        /\ meaning = Meaning(program)
        /\ out = <<>> /\ result = Unknown
        /\ order \in Orders
        /\ codegen
        /\ at = <<1, 1>>

(* The instruction the machine is at, and the values of its operands.        *)
Instruction == code[at[1]][at[2]]
Value(v) == IF v.is = "immediate" THEN v.n ELSE regs[v.n]
Operand(i) == Value(Instruction.args[i])
Running(ops) == /\ phase = "runs" /\ at[2] <= Len(code[at[1]])
                /\ Instruction.op \in ops
                /\ UNCHANGED <<program, meaning, order, code>>
Continue == at' = <<at[1], at[2] + 1>>
Set(v) == regs' = [regs EXCEPT ![Instruction.reg] = v] /\ Continue

(* Nothing sensible comes of an undefined value.                             *)
Defined == \A i \in DOMAIN Instruction.args : Operand(i) # Unknown

Load == /\ Running({"load"})
        /\ Set(memory[Instruction.to[1]])
        /\ UNCHANGED <<out, result, phase, memory>>
Store == /\ Running({"store"})
         /\ memory' = [memory EXCEPT ![Instruction.to[1]] = Operand(1)]
         /\ Continue
         /\ UNCHANGED <<out, result, phase, regs>>

Compute == /\ Running({"+", "-", "*", "/", "%"}) /\ Defined
           /\ ~Traps(Instruction.op, Operand(1), Operand(2))
           /\ Set(Arithmetic(Instruction.op, Operand(1), Operand(2)))
           /\ UNCHANGED <<out, result, phase, memory>>
ICmp == /\ Running({"==", "!=", "<", "<=", ">", ">="}) /\ Defined
        /\ Set(Compare(Instruction.op, Operand(1), Operand(2)))
        /\ UNCHANGED <<out, result, phase, memory>>
Logic == /\ Running({"and", "not"}) /\ Defined
         /\ Set(IF Instruction.op = "and" THEN Operand(1) /\ Operand(2) ELSE ~Operand(1))
         /\ UNCHANGED <<out, result, phase, memory>>

CallOut == /\ Running({"call"}) /\ Defined
           /\ out' = Append(out, Operand(1))
           /\ Set(Operand(1))
           /\ UNCHANGED <<result, phase, memory>>
Branch == /\ Running({"br", "condbr"}) /\ Defined
          /\ at' = <<Instruction.to[IF Instruction.op = "br" \/ Operand(1) THEN 1 ELSE 2], 1>>
          /\ UNCHANGED <<out, result, phase, regs, memory>>
Ret == /\ Running({"ret"}) /\ Defined
       /\ result' = Operand(1) /\ phase' = "returned"
       /\ UNCHANGED <<out, at, regs, memory>>

(* Division without a result, an undefined value, or no terminator.          *)
Undefined == /\ phase = "runs"
             /\ at[2] <= Len(code[at[1]]) =>
                  /\ Instruction.op \notin {"load", "store"}
                  /\ Defined => /\ Instruction.op \in {"+", "-", "*", "/", "%"}
                                /\ Traps(Instruction.op, Operand(1), Operand(2))
             /\ phase' = "undefined"
             /\ UNCHANGED <<program, meaning, out, result, order, code, at, regs, memory>>

Step == \/ Load \/ Store \/ Compute \/ ICmp \/ Logic
        \/ CallOut \/ Branch \/ Ret \/ Undefined
Ended == phase \in {"returned", "died", "undefined"} /\ UNCHANGED vars

Next == Step \/ Ended

Spec == Init /\ [][Next]_vars /\ WF_vars(Step)
-----------------------------------------------------------------------------
(* Properties                                                                *)

(* The generated code does what the program means: the same calls in the     *)
(* same order, the same value returned, and it does return (LLVMCodeGen).    *)
ImplementsC1 == C1!Spec

(* The compiler is ended by its own constant folding only where C gives the  *)
(* program no meaning either (Exp::calc divides unchecked, AST.cpp:239): in  *)
(* programs whose declarations are reached, since calc knows no control.     *)
FoldsWhatHasAMeaning == phase = "died" => ~meaning.defined

(* What the program has shown so far is what it should have, and it returns  *)
(* what it should (visitCond, visitWhileStmt, defVariable, visitBlock).      *)
DoesWhatItSays ==
  meaning.defined =>
    /\ Len(out) <= Len(meaning.out) /\ out = SubSeq(meaning.out, 1, Len(out))
    /\ phase = "returned" => out = meaning.out /\ result = meaning.value
    /\ phase # "undefined"
=============================================================================
