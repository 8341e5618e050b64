---------------------------- MODULE Kaleidoscope ----------------------------
(* The code generator of the Kaleidoscope compiler (kaleidoscope.cpp): the   *)
(* handlers of MainLoop, the prototypes and functions they add to the        *)
(* module, and the Codegen of every expression with the blocks, jumps and    *)
(* PHI nodes it leaves behind.  The syntax tree is revealed while it is      *)
(* visited: `work` holds the Codegen calls under way, innermost last, and    *)
(* `ret` what the innermost has just returned to its caller.  A value is the *)
(* place it was computed at (function, block); instructions of one block are *)
(* told apart by nothing else, and arithmetic is left out.                   *)
EXTENDS Naturals, Sequences, FiniteSetsExt

CONSTANTS FnName,        \* names of functions
          Anonymous,     \* the empty name of a top-level expression
          Var,           \* names of arguments and loop variables
          ArgLists,      \* the argument lists a prototype may have
          Null,          \* the null pointer
          Pending,       \* no call has just returned
          MaxFunctions,  \* bound on the functions created
          MaxNodes       \* bound on the expression nodes of a function

ASSUME KaleidoscopeAssumption ==
  /\ \A args \in ArgLists : args \in Seq(Var)
  /\ Anonymous \notin FnName
  /\ {Null, Pending} \cap [of : Nat, at : Nat] = {} /\ Null # Pending
  /\ MaxFunctions \in Nat /\ MaxNodes \in Nat

VARIABLES functions,  \* every llvm::Function created, in creation order
          owner,      \* TheModule's names: the function that has each
          calls,      \* <<caller, callee>> for each call emitted
          named,      \* NamedValues
          current,    \* the function generated last
          blocks,     \* its basic blocks
          insert,     \* the block Builder appends to
          work, ret,  \* see above
          failed,     \* whether a Codegen in this function returned null
          nodes,      \* expression nodes visited in this function
          atEOF       \* whether MainLoop has returned

vars == <<functions, owner, calls, named, current, blocks, insert, work, ret,
          failed, nodes, atEOF>>
session == <<functions, owner, calls, current, atEOF>>

FunctionId == 1 .. MaxFunctions
MaxBlocks == 1 + 3 * MaxNodes       \* no expression adds more than three
Value == [of : 0 .. MaxFunctions, at : 0 .. MaxBlocks]
Const == [of |-> 0, at |-> 0]
Argument(f) == [of |-> f, at |-> 0]
Computed(b) == [of |-> current, at |-> b]

NoNames == [x \in Var |-> Null]
Ids(args) == {args[i] : i \in DOMAIN args}
WithArguments(names, f, args) ==
  [x \in Var |-> IF x \in Ids(args) THEN Argument(f) ELSE names[x]]

NewBlock(attached) == [attached |-> attached, phi |-> {}, uses |-> {}, ends |-> <<>>]
Use(bs, vals) == [bs EXCEPT ![insert].uses = @ \cup vals]
Jump(bs, targets) == [bs EXCEPT ![insert].ends = Append(@, targets)]

Top == work[Len(work)]
Pop == SubSeq(work, 1, Len(work) - 1)
Become(frame) == Append(Pop, frame)

Init == /\ functions = <<>> /\ owner = [n \in FnName |-> 0] /\ calls = {}
        /\ named = NoNames /\ current = 0 /\ blocks = <<>> /\ insert = 0
        /\ work = <<>> /\ ret = Pending /\ failed = FALSE /\ nodes = 0
        /\ atEOF = FALSE
-----------------------------------------------------------------------------
(* Prototypes                                                                *)
AtTop == work = <<>> /\ ~atEOF

IsFree(n) == n \in FnName => owner[n] = 0

(* Mutant: a function with a body is taken over too.                         *)
ReusableWithBody(n, args) == /\ ~IsFree(n)
                             /\ Len(functions[owner[n]].args) = Len(args)

(* A declaration of the same arity is taken over; a function with a body is  *)
(* not, nor one with another number of arguments.                            *)
Reusable(n, args) == /\ ~IsFree(n)
                     /\ functions[owner[n]].state = "declared"
                     /\ Len(functions[owner[n]].args) = Len(args)
Refused(n, args) == ~IsFree(n) /\ ~Reusable(n, args)

Prototype(n, args, state) ==
  LET f == [name |-> n, args |-> args, state |-> state] IN
  \/ /\ IsFree(n) /\ Len(functions) < MaxFunctions
     /\ functions' = Append(functions, f)
     /\ owner' = IF n = Anonymous THEN owner
                 ELSE [owner EXCEPT ![n] = Len(functions) + 1]
  \/ /\ Reusable(n, args)
     /\ functions' = [functions EXCEPT ![owner[n]] = f]
     /\ UNCHANGED owner

TheFunction(n) == IF IsFree(n) THEN Len(functions) + 1 ELSE owner[n]

HandleExtern(n, args) ==
  /\ AtTop
  /\ \/ /\ Prototype(n, args, "declared")
        /\ named' = WithArguments(named, TheFunction(n), args)
     \/ Refused(n, args) /\ UNCHANGED <<functions, owner, named>>
  /\ UNCHANGED <<calls, current, blocks, insert, work, ret, failed, nodes, atEOF>>

(* FunctionAST::Codegen up to the call of the body's.                        *)
BeginFunction(n, args) ==
  /\ AtTop
  /\ \/ /\ Prototype(n, args, "open")
        /\ named' = WithArguments(NoNames, TheFunction(n), args)
        /\ current' = TheFunction(n)
        /\ blocks' = <<NewBlock(TRUE)>> /\ insert' = 1
        /\ work' = <<[kind |-> "body"]>>
        /\ failed' = FALSE /\ nodes' = 0
     \/ /\ Refused(n, args)
        /\ named' = NoNames
        /\ UNCHANGED <<functions, owner, current, blocks, insert, work, failed, nodes>>
  /\ UNCHANGED <<calls, ret, atEOF>>

HandleDefinition(n, args) == BeginFunction(n, args)
HandleTopLevelExpression == BeginFunction(Anonymous, <<>>)

MainLoopReturns == AtTop /\ atEOF' = TRUE
                   /\ UNCHANGED <<functions, owner, calls, named, current, blocks,
                                  insert, work, ret, failed, nodes>>
-----------------------------------------------------------------------------
(* Codegen of an expression node: what it does before it calls the Codegen   *)
(* of an operand.                                                            *)
Evaluating == work # <<>> /\ ret = Pending
             /\ (Top.kind = "call" => Len(Top.vals) < Top.arity)
Node == Evaluating /\ nodes < MaxNodes /\ nodes' = nodes + 1
        /\ UNCHANGED <<session, named, blocks, insert>>

Number == /\ Evaluating
          /\ ret' = Const
          /\ UNCHANGED <<session, named, blocks, insert, work, failed, nodes>>

Variable(x) == /\ Node
               /\ ret' = named[x]
               /\ failed' = (failed \/ named[x] = Null)
               /\ UNCHANGED work

(* Neither the condition nor the body of a while is visited.                 *)
While == Node /\ ret' = Const /\ UNCHANGED <<work, failed>>

Begin(frame) == Node /\ work' = Append(work, frame) /\ UNCHANGED <<ret, failed>>

BeginBinary == Begin([kind |-> "binary", vals |-> <<>>])

(* The callee and the number of arguments are checked first.                 *)
BeginCall(n, arity) ==
  IF owner[n] # 0 /\ Len(functions[owner[n]].args) = arity
  THEN Begin([kind |-> "call", callee |-> owner[n], arity |-> arity, vals |-> <<>>])
  ELSE Node /\ ret' = Null /\ failed' = TRUE /\ UNCHANGED work

BeginIf == Begin([kind |-> "if", phase |-> "cond"])

BeginFor(x, step) == Begin([kind |-> "for", phase |-> "start", var |-> x, step |-> step])
-----------------------------------------------------------------------------
(* Codegen of an expression node: what it does when an operand's has         *)
(* returned.                                                                 *)
Returned(kind) == work # <<>> /\ ret # Pending /\ Top.kind = kind
                  /\ UNCHANGED <<session, nodes>>
Phase(kind, phase) == Returned(kind) /\ Top.phase = phase /\ ret # Null
                      /\ UNCHANGED failed

(* Most give up at the first null, without undoing what they have done.      *)
GiveUp == /\ \E kind \in {"call", "if", "for"} : Returned(kind)
          /\ ret = Null
          /\ work' = Pop
          /\ UNCHANGED <<named, blocks, insert, ret, failed>>

(* A binary operator visits its right operand whatever the left one gave.    *)
BinaryLeft == /\ Returned("binary") /\ Top.vals = <<>>
              /\ work' = Become([Top EXCEPT !.vals = <<ret>>])
              /\ ret' = Pending
              /\ UNCHANGED <<named, blocks, insert, failed>>

BinaryRight ==
  /\ Returned("binary") /\ Top.vals # <<>>
  /\ work' = Pop
  /\ IF Null \in {ret, Top.vals[1]}
     THEN ret' = Null /\ UNCHANGED blocks
     ELSE ret' = Computed(insert) /\ blocks' = Use(blocks, {ret, Top.vals[1]})
  /\ UNCHANGED <<named, insert, failed>>

CallArgument == /\ Returned("call") /\ ret # Null
                /\ work' = Become([Top EXCEPT !.vals = Append(@, ret)])
                /\ ret' = Pending
                /\ UNCHANGED <<named, blocks, insert, failed>>

EndCall == /\ work # <<>> /\ ret = Pending
           /\ Top.kind = "call" /\ Len(Top.vals) = Top.arity
           /\ blocks' = Use(blocks, Ids(Top.vals))
           /\ calls' = calls \cup {<<current, Top.callee>>}
           /\ ret' = Computed(insert)
           /\ work' = Pop
           /\ UNCHANGED <<functions, owner, named, current, insert, failed, nodes, atEOF>>

IfCondition ==
  LET then == Len(blocks) + 1
      else == Len(blocks) + 2
      merge == Len(blocks) + 3
  IN /\ Phase("if", "cond")
     /\ blocks' = Jump(Use(blocks, {ret}), {then, else})
                    \o <<NewBlock(TRUE), NewBlock(FALSE), NewBlock(FALSE)>>
     /\ insert' = then
     /\ work' = Become([kind |-> "if", phase |-> "then", else |-> else, merge |-> merge])
     /\ ret' = Pending
     /\ UNCHANGED named

(* Mutant: the block the operand began in is remembered.                     *)
IfThenStale ==
  /\ Phase("if", "then")
  /\ blocks' = [Jump(blocks, {Top.merge}) EXCEPT ![Top.else].attached = TRUE]
  /\ insert' = Top.else
  /\ work' = Become([kind |-> "if", phase |-> "else", merge |-> Top.merge,
                     incoming |-> [val |-> ret, from |-> Top.else - 1]])
  /\ ret' = Pending
  /\ UNCHANGED named

(* The block the operand ends in, not the one it began in, is remembered for *)
(* the PHI node.                                                             *)
IfThen == /\ Phase("if", "then")
          /\ blocks' = [Jump(blocks, {Top.merge}) EXCEPT ![Top.else].attached = TRUE]
          /\ insert' = Top.else
          /\ work' = Become([kind |-> "if", phase |-> "else", merge |-> Top.merge,
                             incoming |-> [val |-> ret, from |-> insert]])
          /\ ret' = Pending
          /\ UNCHANGED named

(* Mutant: the value of the first branch stands for that of both.            *)
IfElseReturnsThen ==
  /\ Phase("if", "else")
  /\ blocks' = [Jump(blocks, {Top.merge}) EXCEPT ![Top.merge].attached = TRUE]
  /\ insert' = Top.merge
  /\ work' = Pop
  /\ ret' = Top.incoming.val
  /\ UNCHANGED named

IfElse ==
  /\ Phase("if", "else")
  /\ blocks' = [Jump(blocks, {Top.merge}) EXCEPT
                  ![Top.merge].attached = TRUE,
                  ![Top.merge].phi = {Top.incoming, [val |-> ret, from |-> insert]}]
  /\ insert' = Top.merge
  /\ work' = Pop
  /\ ret' = Computed(Top.merge)
  /\ UNCHANGED named

(* The loop variable is a PHI node that hides a variable of its name.        *)
ForStart ==
  LET loop == Len(blocks) + 1 IN
  /\ Phase("for", "start")
  /\ blocks' = Append(Jump(blocks, {loop}),
                      [NewBlock(TRUE) EXCEPT !.phi = {[val |-> ret, from |-> insert]}])
  /\ insert' = loop
  /\ named' = [named EXCEPT ![Top.var] = Computed(loop)]
  /\ work' = Become([kind |-> "for", phase |-> "body", var |-> Top.var,
                     step |-> Top.step, loop |-> loop, old |-> named[Top.var]])
  /\ ret' = Pending

NextVar(step) == Use(blocks, {step, Computed(Top.loop)})
ToEnd == Become([Top EXCEPT !.phase = "end", !.step = Computed(insert)])

(* The body's value is not used; without a step expression the step is 1.    *)
ForBody == /\ Phase("for", "body")
           /\ IF Top.step
              THEN work' = Become([Top EXCEPT !.phase = "step"]) /\ UNCHANGED blocks
              ELSE work' = ToEnd /\ blocks' = NextVar(Const)
           /\ ret' = Pending
           /\ UNCHANGED <<named, insert>>

ForStep == /\ Phase("for", "step")
           /\ work' = ToEnd /\ blocks' = NextVar(ret)
           /\ ret' = Pending
           /\ UNCHANGED <<named, insert>>

(* Mutant: the hidden variable is not given back.                            *)
ForEndKeepsVariable ==
  /\ Phase("for", "end")
  /\ blocks' = Append([Jump(Use(blocks, {ret}), {Top.loop, Len(blocks) + 1}) EXCEPT
                         ![Top.loop].phi = @ \cup {[val |-> Top.step, from |-> insert]}],
                      NewBlock(TRUE))
  /\ insert' = Len(blocks) + 1
  /\ work' = Pop
  /\ ret' = Const
  /\ UNCHANGED named

ForEnd ==
  LET after == Len(blocks) + 1 IN
  /\ Phase("for", "end")
  /\ blocks' = Append([Jump(Use(blocks, {ret}), {Top.loop, after}) EXCEPT
                         ![Top.loop].phi = @ \cup {[val |-> Top.step, from |-> insert]}],
                      NewBlock(TRUE))
  /\ insert' = after
  /\ named' = [named EXCEPT ![Top.var] = Top.old]
  /\ work' = Pop
  /\ ret' = Const

(* FunctionAST::Codegen behind the call of the body's: return and keep the   *)
(* function (the verifier's answer is not looked at), or erase it.           *)
EndFunction ==
  LET name == functions[current].name IN
  /\ work # <<>> /\ ret # Pending /\ Top.kind = "body"
  /\ work' = <<>> /\ ret' = Pending
  /\ IF ret # Null
     THEN /\ functions' = [functions EXCEPT ![current].state = "defined"]
          /\ blocks' = Jump(Use(blocks, {ret}), {})
          /\ UNCHANGED <<owner, insert>>
     ELSE /\ functions' = [functions EXCEPT ![current].state = "erased"]
          /\ owner' = [n \in FnName |-> IF n = name THEN 0 ELSE owner[n]]
          /\ blocks' = <<>> /\ insert' = 0
  /\ UNCHANGED <<calls, named, current, failed, nodes, atEOF>>
-----------------------------------------------------------------------------
Handler == \/ \E n \in FnName, args \in ArgLists :
                HandleExtern(n, args) \/ HandleDefinition(n, args)
           \/ HandleTopLevelExpression \/ MainLoopReturns

Visit == \/ Number \/ While \/ BeginBinary \/ BeginIf
         \/ \E x \in Var : Variable(x)
         \/ \E n \in FnName, args \in ArgLists : BeginCall(n, Len(args))
         \/ \E x \in Var, step \in BOOLEAN : BeginFor(x, step)

Resume == \/ GiveUp \/ BinaryLeft \/ BinaryRight \/ CallArgument \/ EndCall
          \/ IfCondition \/ IfThen \/ IfElse
          \/ ForStart \/ ForBody \/ ForStep \/ ForEnd \/ EndFunction

(* Nothing follows the end of the input.                                     *)
Stopped == atEOF /\ UNCHANGED vars

Next == Handler \/ Visit \/ Resume \/ Stopped

Spec == Init /\ [][Next]_vars
-----------------------------------------------------------------------------
(* Properties                                                                *)

(* The answer of verifyFunction is not looked at, so a function that was     *)
(* generated must be well formed by construction.                            *)
Finished == work = <<>> /\ blocks # <<>>
Block == DOMAIN blocks
Targets(b) == UNION {blocks[b].ends[i] : i \in DOMAIN blocks[b].ends}
Preds(b) == {a \in Block : b \in Targets(a)}

(* Every block is in the function and ends in its only terminator; a PHI     *)
(* node has one value for each predecessor of its block.                     *)
BlocksWellFormed ==
  Finished => \A b \in Block :
    /\ blocks[b].attached /\ Len(blocks[b].ends) = 1
    /\ blocks[b].phi # {} =>
         /\ {p.from : p \in blocks[b].phi} = Preds(b)
         /\ Cardinality(blocks[b].phi) = Cardinality(Preds(b))

(* A value is used only where its block has surely run before, and no value  *)
(* of another function is used at all, whatever NamedValues has kept.        *)
ReachableWithout(d) ==
  LET within[n \in Nat] ==
        IF n = 0 THEN {1} \ {d}
        ELSE within[n - 1] \cup ((UNION {Targets(b) : b \in within[n - 1]}) \ {d})
  IN within[Len(blocks)]
Dominates(d, b) == d = b \/ b \notin ReachableWithout(d)
UsableAt(v, b) == /\ v.of \in {0, current}
                  /\ v.at # 0 => Dominates(v.at, b)
UsesDominated ==
  Finished => \A b \in Block :
    /\ \A v \in blocks[b].uses : v # Null /\ UsableAt(v, b)
    /\ \A p \in blocks[b].phi : UsableAt(p.val, p.from)

(* While nothing has failed, a name means the variable of the innermost loop *)
(* open around it, the function's argument otherwise: every loop gives back  *)
(* what it hid (P7.md, on the symbol table).                                 *)
LexicalNames ==
  work # <<>> /\ ~failed =>
    \A x \in Var :
      LET loops == {k \in DOMAIN work : /\ work[k].kind = "for" /\ work[k].var = x
                                        /\ work[k].phase # "start"}
      IN named[x] = IF loops # {} THEN Computed(work[Max(loops)].loop)
                    ELSE WithArguments(NoNames, current, functions[current].args)[x]

(* A function that has a body keeps it and its name, and what it calls, for  *)
(* the rest of the session, whatever is read later.                          *)
BodiesKept ==
  [][\A f \in DOMAIN functions : functions[f].state = "defined" =>
       /\ functions'[f] = functions[f]
       /\ functions[f].name # Anonymous => owner'[functions[f].name] = f
       /\ \A g \in FunctionId : <<f, g>> \in calls' => <<f, g>> \in calls]_vars
=============================================================================
