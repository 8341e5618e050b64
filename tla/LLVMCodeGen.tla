----------------------------- MODULE LLVMCodeGen -----------------------------
(* The visitor that turns the syntax tree into LLVM IR (LLVMCodeGen.cpp, .h) *)
(* over the symbol table of ContextManager.  The tree is revealed while it   *)
(* is visited: each action is the visit of one node, or what a visit does    *)
(* before, between and after the visits of its children, and `stack` holds   *)
(* the visits that are under way.  An expression is the sequence of its      *)
(* leaves in the order visit reaches them (numbers leave nothing behind, a   *)
(* call stands with its arguments); the loads and arithmetic of an           *)
(* expression are the `uses` of the instruction that consumes its value.     *)
(* A function's entry block is entry[f] (ContextManager) followed by the     *)
(* code of its first block.                                                  *)
EXTENDS ContextManager, FiniteSets

CONSTANTS Exprs,       \* the expressions a program may contain
          Suffixed,    \* the names that are n with a number behind it
          MaxBlocks,   \* bound on the number of basic blocks
          MaxNesting,  \* bound on the visits under way
          MaxCode      \* bound on the statements a block receives

VARIABLES constants,   \* _constants: which definition's value is kept for n
          symbols,     \* the module's names: who has n
          fnName,      \* the name the program gives to each created function
          blocks,      \* every BasicBlock created, in creation order
          insert,      \* the block _builder appends to, 0 before the first
          stack,       \* the visits under way, innermost last
          status       \* "running", "done" or how the compiler died

cgVars == <<constants, symbols, fnName, blocks, insert, stack, status>>
vars == <<cmVars, cgVars>>

Leaf  == [kind : {"name", "elem", "call"}, name : Name]
ASSUME CodeGenAssumption ==
  /\ \A e \in Exprs : e \in Seq(Leaf)
  /\ Suffixed \in [Name -> SUBSET Name]
  /\ {"free", "variable"} \cap Function = {}
  /\ Unbound \notin StorageId /\ Unbound \notin Name
  /\ {MaxBlocks, MaxNesting, MaxCode} \subseteq Nat

Label == {"entry", "loop", "afterloop", "then", "else", "merge"}
NewBlock(fn, label, attached) ==
  [fn |-> fn, label |-> label, attached |-> attached, code |-> <<>>]
Ins(op, uses, to, targets) ==
  [op |-> op, uses |-> uses, to |-> to, targets |-> targets]
Frame(kind, todo, first, next, cond) ==
  [kind |-> kind, todo |-> todo, first |-> first, next |-> next, cond |-> cond]

Top == stack[Len(stack)]
Scopes == {"func", "block"}         \* nodes with a list of children
Pop == SubSeq(stack, 1, Len(stack) - 1)
(* A loop or branch visits one statement, a list of them any number.         *)
Consumed == [stack EXCEPT ![Len(stack)].todo = @ /\ Top.kind \in Scopes]
(* A declaration is visited in the unit and in a block, a statement anywhere *)
(* below a function.                                                         *)
AtDeclaration == status = "running" /\ Top.kind \in {"unit"} \cup Scopes
AtStatement   == status = "running" /\ Top.kind # "unit" /\ Top.todo
AtUnit        == status = "running" /\ Top.kind = "unit"

CGInit ==
  /\ CMInit
  /\ constants = [n \in Name |-> Unbound]
  /\ symbols = [n \in Name |-> "free"]
  /\ fnName = [f \in Function |-> Unbound]
  /\ blocks = <<>>
  /\ insert = 0
  /\ stack = <<Frame("unit", TRUE, 0, 0, <<>>)>>
  /\ status = "running"

(* A null operand is dereferenced, an instruction LLVM asserts against is    *)
(* built, or an exception nobody catches is thrown.                          *)
Die(how) == status' = how /\ UNCHANGED <<cmVars, constants, symbols, fnName,
                                         blocks, insert, stack>>
-----------------------------------------------------------------------------
(* Constant evaluation (Exp::calc, LVal::calc): a name or an element is      *)
(* looked up in the map by its name alone, and the lookup throws if the name *)
(* is not there.  A call's operator is never initialised, so it evaluates to *)
(* 0 or to a bad_cast.                                                       *)
Throws(e, map) == \E i \in DOMAIN e : /\ e[i].kind # "call"
                                      /\ map[e[i].name] = Unbound
MayThrow(e, map) == Throws(e, map) \/ \E i \in DOMAIN e : e[i].kind = "call"
NoConstants == [n \in Name |-> Unbound]

(* The module's symbol table renames who comes second: a number is put       *)
(* behind the name, which may give it a name the program uses or may not.    *)
Claim(n, who) ==
  \/ symbols[n] = "free" /\ symbols' = [symbols EXCEPT ![n] = who]
  \/ /\ symbols[n] # "free"
     /\ \/ UNCHANGED symbols
        \/ \E m \in Suffixed[n] : /\ symbols[m] = "free"
                                  /\ symbols' = [symbols EXCEPT ![m] = who]
ClaimIfGlobal(n) == IF AtModuleLevel THEN Claim(n, "variable")
                    ELSE UNCHANGED symbols

Declared(n) == /\ ClaimIfGlobal(n)
               /\ UNCHANGED <<constants, fnName, blocks, insert, stack, status>>

(* Mutant: the value is inserted, which keeps an older one.                  *)
visitConstDefInserts(n, e) ==
  /\ AtDeclaration
  /\ ~Throws(e, constants)
  /\ defConstant(n)
  /\ constants' = [constants EXCEPT ![n] = IF @ = Unbound THEN NewStorage ELSE @]
  /\ ClaimIfGlobal(n)
  /\ UNCHANGED <<fnName, blocks, insert, stack, status>>

visitConstDef(n, e) ==
  /\ AtDeclaration
  /\ \/ /\ ~Throws(e, constants)
        /\ defConstant(n)
        /\ constants' = [constants EXCEPT ![n] = NewStorage]
        /\ ClaimIfGlobal(n)
        /\ UNCHANGED <<fnName, blocks, insert, stack, status>>
     \/ MayThrow(e, constants) /\ Die("uncaught")

visitScalar(n) == AtDeclaration /\ defVariable(n) /\ Declared(n)

visitScalarInit(n, e) ==
  /\ AtDeclaration
  /\ \/ ~Throws(e, constants) /\ defVariableInit(n) /\ Declared(n)
     \/ MayThrow(e, constants) /\ Die("uncaught")

(* The size is evaluated without the constants; the number of values must be *)
(* the size for a module variable.                                           *)
visitArray(n, size) ==
  /\ AtDeclaration
  /\ \/ ~Throws(size, NoConstants) /\ defArray(n) /\ Declared(n)
     \/ MayThrow(size, NoConstants) /\ Die("uncaught")

visitArrayInit(n, size, e, fits) ==
  /\ AtDeclaration
  /\ \/ /\ ~Throws(size, NoConstants) /\ ~Throws(e, constants)
        /\ fits \/ ~AtModuleLevel
        /\ defArrayInit(n) /\ Declared(n)
     \/ /\ ~Throws(size, NoConstants) /\ ~Throws(e, constants)
        /\ AtModuleLevel /\ ~fits /\ Die("rejected")
     \/ (MayThrow(size, NoConstants) \/ MayThrow(e, constants)) /\ Die("uncaught")
-----------------------------------------------------------------------------
(* Functions                                                                 *)
Create(f, n) == /\ AtUnit
                /\ fnName[f] = Unbound
                /\ fnName' = [fnName EXCEPT ![f] = n]
                /\ Claim(n, f)

visitExtFunc(f, n) ==
  /\ Create(f, n)
  /\ UNCHANGED <<cmVars, constants, blocks, insert, stack, status>>

beginFuncDef(f, n) ==
  /\ Create(f, n)
  /\ Len(blocks) < MaxBlocks /\ Len(stack) < MaxNesting
  /\ blocks' = Append(blocks, NewBlock(f, "entry", TRUE))
  /\ insert' = Len(blocks) + 1
  /\ enterBlock(f)
  /\ stack' = Append(stack, Frame("params", FALSE, 0, 0, <<>>))
  /\ UNCHANGED <<constants, status>>

(* Mutant: instructions are put in front of the block.                       *)
PrependCode(bs, ins) == [bs EXCEPT ![insert].code = <<ins>> \o @]
AppendCode(bs, ins) == [bs EXCEPT ![insert].code = Append(@, ins)]

(* Each parameter gets a variable and the argument is stored to it.          *)
visitParam(n, isArray) ==
  /\ status = "running" /\ Top.kind = "params"
  /\ IF isArray THEN defPointer(n) ELSE defVariable(n)
  /\ blocks' = AppendCode(blocks, Ins("store", <<>>, NewStorage, {}))
  /\ UNCHANGED <<constants, symbols, fnName, insert, stack, status>>

beginBody ==
  /\ status = "running" /\ Top.kind = "params"
  /\ stack' = Append(Pop, Frame("func", TRUE, 0, 0, <<>>))
  /\ UNCHANGED <<cmVars, constants, symbols, fnName, blocks, insert, status>>

(* The verifier's answer is not looked at, and the optimiser (external) runs *)
(* on the function whatever it is.                                           *)
endFuncDef ==
  /\ status = "running" /\ Top.kind = "func"
  /\ exitBlock
  /\ stack' = Pop
  /\ UNCHANGED <<constants, symbols, fnName, blocks, insert, status>>

(* visitCompUnit returns.                                                    *)
finish ==
  /\ AtUnit
  /\ status' = "done"
  /\ UNCHANGED <<cmVars, constants, symbols, fnName, blocks, insert, stack>>
-----------------------------------------------------------------------------
(* Expressions (visitLVal, visitCallExp, and the operators above them): what *)
(* a leaf becomes under the names as they stand, or Bad if the builder is    *)
(* handed a null pointer or an address it cannot compute with.               *)
Bad == [op |-> "bad", of |-> 0]
Use(l) ==
  IF l.kind = "call"
  THEN IF symbols[l.name] \in Function
       THEN [op |-> "call", of |-> symbols[l.name], name |-> l.name] ELSE Bad
  ELSE IF lookup(l.name) = Unbound THEN Bad
  ELSE IF l.kind = "name"
  THEN [op |-> IF getType(l.name) = "Array" THEN "address" ELSE "load",
        of |-> get(l.name)]
  ELSE IF getType(l.name) \in {"Array", "Pointer"}
       THEN [op |-> "element", of |-> get(l.name)] ELSE Bad
Uses(e) == [i \in DOMAIN e |-> Use(e[i])]
(* Mutant: a null operand is taken for a value.                              *)
SoundAnyway(e) == e \in Exprs \/ Len(e) > 0
Sound(e) == \A i \in DOMAIN e : Use(e[i]) # Bad

(* One instruction at the insertion point; the statement is done with.       *)
Statement(ins) ==
  /\ Len(blocks[insert].code) < MaxCode
  /\ blocks' = AppendCode(blocks, ins)
  /\ stack' = Consumed
  /\ UNCHANGED <<cmVars, constants, symbols, fnName, insert, status>>

(* The right-hand side is visited before the target is looked up, the index  *)
(* after.  Whether the target is a constant is not asked.                    *)
visitAsgnStmt(target, e, index) ==
  /\ AtStatement
  /\ LET leaves == e \o IF target.kind = "elem" THEN index ELSE <<>>
         assignable == /\ Use(target) # Bad
                       /\ target.kind = "name" => Use(target).op = "load"
     IN \/ /\ Sound(leaves) /\ assignable
           /\ Statement(Ins("store", Uses(leaves), get(target.name), {}))
        \/ ~(Sound(leaves) /\ assignable) /\ Die("rejected")

visitFuncCall(n, e) ==
  /\ AtStatement
  /\ LET call == Append(e, [kind |-> "call", name |-> n]) IN
     \/ Sound(call) /\ Statement(Ins("call", Uses(call), 0, {}))
     \/ ~Sound(call) /\ Die("rejected")

visitRetStmt(e) ==
  /\ AtStatement
  /\ \/ Sound(e) /\ Statement(Ins("ret", Uses(e), 0, {}))
     \/ ~Sound(e) /\ Die("rejected")

(* visit knows no code for an empty statement and says so.                   *)
visitEmpty ==
  /\ AtStatement
  /\ stack' = Consumed
  /\ UNCHANGED <<cmVars, constants, symbols, fnName, blocks, insert, status>>

(* No scope is opened for a nested block.                                    *)
beginBlock ==
  /\ AtStatement
  /\ Len(stack) < MaxNesting
  /\ stack' = Append(Consumed, Frame("block", TRUE, 0, 0, <<>>))
  /\ UNCHANGED <<cmVars, constants, symbols, fnName, blocks, insert, status>>

endBlock ==
  /\ status = "running" /\ Top.kind = "block"
  /\ stack' = Pop
  /\ UNCHANGED <<cmVars, constants, symbols, fnName, blocks, insert, status>>
-----------------------------------------------------------------------------
(* Control flow                                                              *)
Room(n) == Len(blocks) + n <= MaxBlocks /\ Len(stack) < MaxNesting
Here == blocks[insert].fn

beginWhile(cond) ==
  /\ AtStatement
  /\ LET loop  == Len(blocks) + 1
         after == Len(blocks) + 2
     IN \/ /\ Sound(cond) /\ Room(2)
           /\ blocks' = AppendCode(blocks, Ins("condbr", Uses(cond), 0, {loop, after}))
                        \o <<NewBlock(Here, "loop", TRUE),
                             NewBlock(Here, "afterloop", TRUE)>>
           /\ insert' = loop
           /\ stack' = Append(Consumed, Frame("while", TRUE, loop, after, cond))
           /\ UNCHANGED <<cmVars, constants, symbols, fnName, status>>
        \/ ~Sound(cond) /\ Die("rejected")

(* Mutant: the builder stays in the loop's last block.                       *)
endWhileStays ==
  /\ status = "running" /\ Top.kind = "while" /\ ~Top.todo
  /\ blocks' = AppendCode(blocks, Ins("condbr", Uses(Top.cond), 0,
                                      {Top.first, Top.next}))
  /\ stack' = Pop
  /\ UNCHANGED <<cmVars, constants, symbols, fnName, insert, status>>

(* The condition is visited a second time, behind the body.                  *)
endWhile ==
  /\ status = "running" /\ Top.kind = "while" /\ ~Top.todo
  /\ \/ /\ Sound(Top.cond)
        /\ blocks' = AppendCode(blocks, Ins("condbr", Uses(Top.cond), 0,
                                            {Top.first, Top.next}))
        /\ insert' = Top.next
        /\ stack' = Pop
        /\ UNCHANGED <<cmVars, constants, symbols, fnName, status>>
     \/ ~Sound(Top.cond) /\ Die("rejected")

(* The blocks for else and merge belong to no function yet.                  *)
beginIf(cond) ==
  /\ AtStatement
  /\ LET then  == Len(blocks) + 1
         else  == Len(blocks) + 2
         merge == Len(blocks) + 3
     IN \/ /\ Sound(cond) /\ Room(3)
           /\ blocks' = AppendCode(blocks, Ins("condbr", Uses(cond), 0, {then, else}))
                        \o <<NewBlock(Here, "then", TRUE),
                             NewBlock(Here, "else", FALSE),
                             NewBlock(Here, "merge", FALSE)>>
           /\ insert' = then
           /\ stack' = Append(Consumed, Frame("then", TRUE, else, merge, <<>>))
           /\ UNCHANGED <<cmVars, constants, symbols, fnName, status>>
        \/ ~Sound(cond) /\ Die("rejected")

(* Mutants: no jump to the join; the next block is not attached.             *)
ContinueFallsThrough(block) ==
  /\ blocks' = [blocks EXCEPT ![block].attached = TRUE]
  /\ insert' = block
  /\ UNCHANGED <<cmVars, constants, symbols, fnName, status>>
ContinueDetached(block) ==
  /\ blocks' = AppendCode(blocks, Ins("br", <<>>, 0, {Top.next}))
  /\ insert' = block
  /\ UNCHANGED <<cmVars, constants, symbols, fnName, status>>

(* Leave the block for the join and go on in the next one, now attached.     *)
Continue(block) ==
  /\ blocks' = [AppendCode(blocks, Ins("br", <<>>, 0, {Top.next}))
                  EXCEPT ![block].attached = TRUE]
  /\ insert' = block
  /\ UNCHANGED <<cmVars, constants, symbols, fnName, status>>

endThen(hasElse) ==
  /\ status = "running" /\ Top.kind = "then" /\ ~Top.todo
  /\ Continue(Top.first)
  /\ stack' = Append(Pop, Frame("else", hasElse, 0, Top.next, <<>>))

endIf ==
  /\ status = "running" /\ Top.kind = "else" /\ ~Top.todo
  /\ Continue(Top.next)
  /\ stack' = Pop
-----------------------------------------------------------------------------
Declaration ==
  \E n \in Name :
    \/ visitScalar(n)
    \/ \E e \in Exprs :
         \/ visitConstDef(n, e) \/ visitScalarInit(n, e) \/ visitArray(n, e)
         \/ \E size \in Exprs, fits \in BOOLEAN : visitArrayInit(n, size, e, fits)

FunctionNode ==
  \/ \E f \in Function, n \in Name : visitExtFunc(f, n) \/ beginFuncDef(f, n)
  \/ \E n \in Name, isArray \in BOOLEAN : visitParam(n, isArray)
  \/ beginBody \/ endFuncDef

SimpleStatement ==
  \/ visitEmpty
  \/ \E e \in Exprs :
       \/ visitRetStmt(e)
       \/ \E n \in Name : visitFuncCall(n, e)
       \/ \E n \in Name :
            \/ visitAsgnStmt([kind |-> "name", name |-> n], e, <<>>)
            \/ \E index \in Exprs :
                 visitAsgnStmt([kind |-> "elem", name |-> n], e, index)

Structure ==
  \/ beginBlock \/ endBlock \/ endWhile \/ endIf
  \/ \E hasElse \in BOOLEAN : endThen(hasElse)
  \/ \E e \in Exprs : beginWhile(e) \/ beginIf(e)

(* Nothing follows the end of the compilation.                               *)
Terminated == status # "running" /\ UNCHANGED vars

CGNext == \/ Declaration \/ FunctionNode \/ SimpleStatement \/ Structure
          \/ finish \/ Terminated

CGSpec == CGInit /\ [][CGNext]_vars
-----------------------------------------------------------------------------
(* Properties                                                                *)
BlockId == 1 .. Len(blocks)
InFunction == Len(stack) > 1
Terminators == {"br", "condbr", "ret"}
Operand == [op : {"call"}, of : Function, name : Name]
           \cup [op : {"load", "address", "element"}, of : StorageId]
Instr == [op : {"store", "call"} \cup Terminators, uses : Seq(Operand),
          to : Nat, targets : SUBSET (1 .. MaxBlocks)]

(* The shape of the generator's own variables.                               *)
CGTypeOK ==
  /\ constants \in [Name -> StorageId \cup {Unbound}]
  /\ symbols \in [Name -> {"free", "variable"} \cup Function]
  /\ fnName \in [Function -> Name \cup {Unbound}]
  /\ blocks \in Seq([fn : Function, label : Label, attached : BOOLEAN,
                     code : Seq(Instr)])
  /\ insert \in 0 .. Len(blocks)
  /\ stack \in Seq([kind : {"unit", "params", "func", "block", "while",
                            "then", "else"},
                    todo : BOOLEAN, first : 0 .. MaxBlocks,
                    next : 0 .. MaxBlocks, cond : Seq(Leaf)])
  /\ status \in {"running", "done", "uncaught", "rejected"}

(* While a function is visited the builder appends to an attached block of   *)
(* that function, the one whose scope is innermost: the insertion point,     *)
(* left behind by one visit and used by the next, is never a block of the    *)
(* previous function or one the join code has not attached.                  *)
InsertionPoint ==
  /\ InFunction <=> Len(symTable) > 1
  /\ InFunction => /\ insert # 0
                   /\ blocks[insert].attached
                   /\ blocks[insert].fn = CurrentFunction

(* No instruction names a local of another function, and what a call calls   *)
(* is for good the owner of the name it was written with, whatever is        *)
(* declared later: the function declared so, or one LLVM has renamed to it.  *)
OperandsInReach ==
  \A b \in BlockId : \A j \in DOMAIN blocks[b].code :
    LET ins == blocks[b].code[j]
        Reachable(s) == storage[s].owner \in {NullFunction, blocks[b].fn}
    IN /\ ins.to # 0 => Reachable(ins.to)
       /\ \A k \in DOMAIN ins.uses :
            LET use == ins.uses[k] IN
            IF use.op = "call"
            THEN /\ symbols[use.name] = use.of
                 /\ use.name \in {fnName[use.of]} \cup Suffixed[fnName[use.of]]
            ELSE Reachable(use.of)

(* The blocks an open if has created without attaching them, and no others,  *)
(* are in no function: none is forgotten when visits end.                    *)
DetachedOnlyWhileOpen ==
  \A b \in BlockId :
    ~blocks[b].attached <=>
      \E k \in DOMAIN stack :
        \/ stack[k].kind = "then" /\ b \in {stack[k].first, stack[k].next}
        \/ stack[k].kind = "else" /\ b = stack[k].next

(* Every block has the jumps into it that its role asks for: an entry none,  *)
(* a branch of an if one, a loop, its exit and a merge two; those still      *)
(* missing are exactly the ones the open visits owe, and none comes from     *)
(* another function.                                                         *)
JumpsTo(b) == UNION {{i} \X {j \in DOMAIN blocks[i].code : b \in blocks[i].code[j].targets} :
                       i \in BlockId}
Owed(b) ==
  LET frames == {k \in DOMAIN stack :
                   \/ stack[k].kind = "while" /\ b \in {stack[k].first, stack[k].next}
                   \/ stack[k].kind \in {"then", "else"} /\ b = stack[k].next}
  IN Cardinality(frames)
     + Cardinality({k \in frames : stack[k].kind = "then"})
InDegree(label) == IF label = "entry" THEN 0
                   ELSE IF label \in {"then", "else"} THEN 1 ELSE 2
JumpsComplete ==
  \A b \in BlockId :
    /\ Cardinality(JumpsTo(b)) + Owed(b) = InDegree(blocks[b].label)
    /\ \A jump \in JumpsTo(b) : blocks[jump[1]].fn = blocks[b].fn

(* A jump is the last instruction of its block, and one attached block of    *)
(* each function, its exit, has none: while the function is visited, the     *)
(* insertion point.  (The block behind an open loop is not yet in use.)      *)
Jumps == {"br", "condbr"}
JumpsAway(b) == blocks[b].code # <<>> /\ blocks[b].code[Len(blocks[b].code)].op \in Jumps
SingleExit ==
  /\ \A b \in BlockId : \A j \in 1 .. Len(blocks[b].code) - 1 :
       blocks[b].code[j].op \notin Jumps
  /\ \A f \in Function :
       LET exits == {b \in BlockId : /\ blocks[b].fn = f /\ blocks[b].attached
                                     /\ ~JumpsAway(b)
                                     /\ \A k \in DOMAIN stack :
                                          stack[k].kind = "while" => b # stack[k].next}
       IN IF \E b \in BlockId : blocks[b].fn = f
          THEN \E b \in exits : exits = {b} /\ (f = CurrentFunction => b = insert)
          ELSE exits = {}

(* Where the generator folds with _constants, a visible constant folds to    *)
(* the value of the definition in force.  The one exception: a module        *)
(* constant whose name a function, since left, defined again; the value is   *)
(* then that function's.  (The size of an array is evaluated without         *)
(* _constants, and throws at any name.)                                      *)
FoldedAsDeclared ==
  \A n \in Name : getType(n) = "Constant" =>
    \/ constants[n] = get(n)
    \/ /\ storage[get(n)].owner = NullFunction
       /\ constants[n] \in 1 .. Len(storage)
       /\ \A i \in DOMAIN func : storage[constants[n]].owner # func[i]

(* Instructions are only appended, to one block of the function being        *)
(* visited; a function that has been handed to the optimiser is never        *)
(* written to again, and a block once attached stays.                        *)
OnlyAppend ==
  [][\A b \in BlockId :
       /\ blocks'[b] # blocks[b] => blocks[b].fn = CurrentFunction /\ InFunction
       /\ blocks[b].attached => blocks'[b].attached
       /\ SubSeq(blocks'[b].code, 1, Len(blocks[b].code)) = blocks[b].code
       /\ blocks'[b].code # blocks[b].code => b = insert]_vars
=============================================================================
