-------------------------------- MODULE Parser --------------------------------
(* Syntax errors and recovery in the C1 parser (Parser.y): the shifts and    *)
(* reductions of compunit, funcdef, extfunc, decl, stmt, otherstmt, block    *)
(* and blockitem, with the error productions of the grammar and the          *)
(* recovery loop of bison's LALR skeleton (external).  A run of tokens that  *)
(* holds no ";", "{" or "}" and that the grammar takes as a whole is one     *)
(* token here:                                                               *)
(*   "item"    what stands before ";": vars, constdefs, an assignment or a   *)
(*             call, return with its expression                              *)
(*   "header"  ID ( params ) behind "int"                                    *)
(*   "extern"  extern int ID ( params )                                      *)
(*   "if", "while"          with a condition in parentheses                  *)
(*   "ifOpen", "whileOpen"  the same with the ")" missing                    *)
(*   "const"   const, with or without int                                    *)
(*   "bad"     any token that cannot stand where it stands                   *)
(* The syntax tree is abstracted to whether a link of it is null.            *)
EXTENDS Integers, Sequences, FiniteSetsExt

CONSTANT MaxTokens      \* bound on the tokens before the end of the input
ASSUME ParserAssumption == MaxTokens \in Nat

VARIABLES stack,        \* the parser stack, bottom first
          la,           \* the lookahead, "none" if it is to be read
          count,        \* tokens read so far
          errstatus,    \* yyerrstatus_: shifts until errors are told again
          goto,         \* "stmt" when a stmt is to be reduced further
          root,         \* whether driver._ast_root is set
          nullLink,     \* whether a null child was put into the tree
          reports,      \* calls of Parser::error so far
          depth,        \* "{" minus "}" among the tokens used or discarded
          result        \* "running", or how Parser::parse ended

vars == <<stack, la, count, errstatus, goto, root, nullLink, reports, depth, result>>

Token == {"item", "header", "extern", "if", "ifOpen", "while", "whileOpen",
          "else", "int", "const", ";", "{", "}", "bad"}

Top == stack[Len(stack)]
Below == stack[Len(stack) - 1]
Drop(n) == SubSeq(stack, 1, Len(stack) - n)
Push(s) == Append(stack, s)

(* What stands on the stack where a stmt may begin; "block" is { blockitem,  *)
(* "elseOpen" the else of an if without ")".                                 *)
BeforeStmt == {"block", "if", "ifOpen", "while", "whileOpen", "else", "elseOpen"}
Symbol == {"unit", "int", "const", "extern", "header", "item", "then",
           "thenOpen", "error"} \cup BeforeStmt
StmtStart  == {"item", ";", "{", "if", "ifOpen", "while", "whileOpen"}

Init == /\ stack = <<"unit">> /\ la = "none" /\ count = 0 /\ errstatus = 0
        /\ goto = "none" /\ root = TRUE     \* the empty compunit sets it
        /\ nullLink = FALSE /\ reports = 0 /\ depth = 0 /\ result = "running"

(* Mutant: the tree is kept.                                                 *)
errorKeepsTree == UNCHANGED root /\ reports' = reports + 1

(* Parser::error: the tree is given up and the message passed on.            *)
error == root' = FALSE /\ reports' = reports + 1

Brace == IF la = "{" THEN 1 ELSE IF la = "}" THEN -1 ELSE 0
Consume == la' = "none" /\ depth' = depth + Brace
Shift == /\ result = "running" /\ goto = "none"
         /\ Consume
         /\ errstatus' = IF errstatus = 0 THEN 0 ELSE errstatus - 1
         /\ UNCHANGED <<count, root, nullLink, reports, result>>

(* yylex (external); the input ends at the bound at the latest.              *)
ReadToken ==
  /\ result = "running" /\ la = "none" /\ goto = "none"
  /\ \/ count < MaxTokens /\ la' \in Token \cup {"END"}
     \/ count = MaxTokens /\ la' = "END"
  /\ count' = IF la' = "END" THEN count ELSE count + 1
  /\ UNCHANGED <<stack, errstatus, goto, root, nullLink, reports, depth, result>>
-----------------------------------------------------------------------------
(* Declarations and definitions                                              *)
ShiftUnit == /\ Top = "unit" /\ la \in {"int", "const", "extern"}
             /\ Shift /\ stack' = Push(la) /\ UNCHANGED goto

ShiftLocalDecl == /\ Top = "block" /\ la \in {"int", "const"}
                  /\ Shift /\ stack' = Push(la) /\ UNCHANGED goto

ShiftDeclItem == /\ Top \in {"int", "const"} /\ la = "item"
                 /\ Shift /\ stack' = Push("item") /\ UNCHANGED goto

(* A function is defined in the unit only.                                   *)
ShiftHeader == /\ Top = "int" /\ Below = "unit" /\ la = "header"
               /\ Shift /\ stack' = Push("header") /\ UNCHANGED goto

ReduceExtFunc == /\ Top = "extern" /\ la = ";"
                 /\ Shift /\ stack' = Drop(1) /\ UNCHANGED goto

OpenBody == /\ Top = "header" /\ la = "{"
            /\ Shift /\ stack' = Push("block") /\ UNCHANGED goto

(* A decl, or an otherstmt or return.                                        *)
ReduceItem == /\ Top = "item" /\ la = ";"
              /\ Shift
              /\ IF Below \in {"int", "const"}
                 THEN stack' = Drop(2) /\ UNCHANGED goto
                 ELSE stack' = Drop(1) /\ goto' = "stmt"
-----------------------------------------------------------------------------
(* Statements                                                                *)
(* Mutant: a nested { opens no block.                                        *)
ShiftStmtFlat == /\ Top \in BeforeStmt /\ la \in StmtStart
                 /\ Shift
                 /\ IF la = ";" THEN goto' = "stmt" /\ UNCHANGED stack
                    ELSE /\ stack' = IF la = "{" THEN stack ELSE Push(la)
                         /\ UNCHANGED goto

ShiftStmt == /\ Top \in BeforeStmt /\ la \in StmtStart
             /\ Shift
             /\ IF la = ";" THEN goto' = "stmt" /\ UNCHANGED stack
                ELSE /\ stack' = Push(IF la = "{" THEN "block" ELSE la)
                     /\ UNCHANGED goto

ReduceBlock == /\ Top = "block" /\ la = "}"
               /\ Shift
               /\ IF Below = "header"
                  THEN stack' = Drop(3) /\ UNCHANGED goto       \* funcdef
                  ELSE stack' = Drop(1) /\ goto' = "stmt"

Reduced == UNCHANGED <<la, count, errstatus, depth, result>>
Unreported == UNCHANGED <<root, reports, nullLink>>
(* The rules for a missing ")" leave $$ null.                                *)
Unmatched == error /\ nullLink' = TRUE

(* After a stmt: append it to the block, close the loop or branch it is the  *)
(* body of, or wait to see whether an else follows.                          *)
ReduceStmt ==
  /\ result = "running" /\ goto = "stmt" /\ Reduced
  /\ \/ Top = "block" /\ goto' = "none" /\ Unreported /\ UNCHANGED stack
     \/ Top \in {"while", "else"} /\ stack' = Drop(1) /\ Unreported /\ UNCHANGED goto
     \/ Top \in {"whileOpen", "elseOpen"} /\ stack' = Drop(1) /\ Unmatched /\ UNCHANGED goto
     \/ /\ Top \in {"if", "ifOpen"} /\ goto' = "none" /\ Unreported
        /\ stack' = Append(Drop(1), IF Top = "if" THEN "then" ELSE "thenOpen")

(* An else belongs to the last if.                                           *)
ShiftElse == /\ Top \in {"then", "thenOpen"} /\ la = "else"
             /\ Shift /\ UNCHANGED goto
             /\ stack' = Append(Drop(1), IF Top = "then" THEN "else" ELSE "elseOpen")

ReduceIf == /\ result = "running" /\ goto = "none" /\ la \notin {"none", "else"}
            /\ Top \in {"then", "thenOpen"}
            /\ Reduced
            /\ goto' = "stmt" /\ stack' = Drop(1)
            /\ IF Top = "then" THEN Unreported ELSE Unmatched

Accept == /\ stack = <<"unit">> /\ la = "END" /\ result = "running"
          /\ result' = "accepted"
          /\ UNCHANGED <<stack, la, count, errstatus, goto, root, nullLink, reports, depth>>
-----------------------------------------------------------------------------
(* Errors                                                                    *)
(* What ends the error of each production that has one: otherstmt and block  *)
(* begin with error where a stmt may begin, block where a body may, and decl *)
(* has it behind int and const.                                              *)
RecoversAt(base) == IF base \in {"int", "const"} THEN {";"}
                    ELSE IF base = "header" THEN {"}"} ELSE {";", "}"}
(* Mutant: a block's statements take no error, only what encloses it does.   *)
TakesErrorOutside == {"int", "const", "header"} \cup (BeforeStmt \ {"block"})
TakesError == {"int", "const", "header"} \cup BeforeStmt

Expected ==
  IF Top = "unit" THEN {"int", "const", "extern", "END"}
  ELSE IF Top = "int" /\ Below = "unit" THEN {"item", "header"}
  ELSE IF Top \in {"int", "const"} THEN {"item"}
  ELSE IF Top \in {"item", "extern"} THEN {";"}
  ELSE IF Top = "header" THEN {"{"}
  ELSE IF Top = "block" THEN StmtStart \cup {"int", "const", "}"}
  ELSE IF Top \in BeforeStmt THEN StmtStart
  ELSE IF Top = "error" THEN RecoversAt(Below)
  ELSE Token \cup {"END"}

(* Mutant: the lookahead is never discarded.                                 *)
SyntaxErrorKeepsToken ==
  LET takers == {i \in DOMAIN stack : stack[i] \in TakesError} IN
  /\ result = "running" /\ goto = "none" /\ la # "none" /\ la \notin Expected
  /\ IF errstatus = 0 THEN error ELSE UNCHANGED <<root, reports>>
  /\ UNCHANGED <<count, goto, nullLink, la, depth>>
  /\ IF (errstatus = 3 /\ la = "END") \/ takers = {}
     THEN result' = "aborted" /\ UNCHANGED <<stack, errstatus>>
     ELSE /\ stack' = Append(SubSeq(stack, 1, Max(takers)), "error")
          /\ errstatus' = 3
          /\ UNCHANGED result

(* yyparse's error handling: tell it unless recovering, discard the          *)
(* lookahead if nothing was shifted since the last error, and unwind to      *)
(* where error can be shifted, if anywhere.                                  *)
SyntaxError ==
  LET takers == {i \in DOMAIN stack : stack[i] \in TakesError} IN
  /\ result = "running" /\ goto = "none" /\ la # "none" /\ la \notin Expected
  /\ IF errstatus = 0 THEN error ELSE UNCHANGED <<root, reports>>
  /\ UNCHANGED <<count, goto, nullLink>>
  /\ IF (errstatus = 3 /\ la = "END") \/ takers = {}
     THEN result' = "aborted" /\ UNCHANGED <<stack, la, depth, errstatus>>
     ELSE /\ stack' = Append(SubSeq(stack, 1, Max(takers)), "error")
          /\ IF errstatus = 3 THEN Consume ELSE UNCHANGED <<la, depth>>
          /\ errstatus' = 3
          /\ UNCHANGED result

(* The error productions shift their closing token, leave $$ null and call   *)
(* yyerrok.  blockitem calls setLocal on the null decl.                      *)
RecoverWith(status) ==
  /\ result = "running" /\ goto = "none"
  /\ Top = "error" /\ la \in RecoversAt(Below)
  /\ Consume /\ errstatus' = status
  /\ UNCHANGED <<count, root, reports>>
  /\ \/ /\ Below \in {"int", "const"} /\ stack' = Drop(2) /\ UNCHANGED goto
        /\ IF stack[Len(stack) - 2] = "block"
           THEN result' = "crashed" /\ UNCHANGED nullLink
           ELSE nullLink' = TRUE /\ UNCHANGED result
     \/ /\ Below = "header" /\ stack' = Drop(3)
        /\ nullLink' = TRUE /\ UNCHANGED <<goto, result>>
     \/ /\ Below \in BeforeStmt /\ stack' = Drop(1) /\ goto' = "stmt"
        /\ nullLink' = TRUE /\ UNCHANGED result

(* Mutant: yyerrok is missing.                                               *)
RecoverSilently == RecoverWith(errstatus - 1)
Recover == RecoverWith(0)
-----------------------------------------------------------------------------
(* parse has returned, or died.                                              *)
Returned == result # "running" /\ UNCHANGED vars

Step == \/ ReadToken \/ ShiftUnit \/ ShiftLocalDecl \/ ShiftDeclItem \/ ShiftHeader
        \/ ReduceExtFunc \/ OpenBody \/ ReduceItem \/ ShiftStmt \/ ReduceBlock
        \/ ReduceStmt \/ ShiftElse \/ ReduceIf \/ Accept \/ SyntaxError \/ Recover

Next == Step \/ Returned

Spec == Init /\ [][Next]_vars /\ WF_vars(Step)
-----------------------------------------------------------------------------
(* Properties                                                                *)

(* The code generator gets a tree (codegen tests _ast_root only) exactly     *)
(* when no error was reported, and then every link of it is there: the       *)
(* null values of the error productions never reach LLVMCodeGen::visit,      *)
(* which asserts that it is not handed one.                                  *)
RootSound ==
  /\ root <=> reports = 0
  /\ root => ~nullLink /\ result \in {"running", "accepted"}

(* While no error was reported, the open braces of the input are the open    *)
(* blocks of the parser, and a tree is handed on only with all of them       *)
(* closed.                                                                   *)
OpenBlocks == Cardinality({i \in DOMAIN stack : stack[i] = "block"})
BlocksMatchBraces ==
  root => /\ depth = OpenBlocks
          /\ result = "accepted" => depth = 0 /\ errstatus = 0 /\ goto = "none"

(* Errors are silent exactly while a recovery is under way: yyerrok closes   *)
(* every one, so that the next error is reported again.                      *)
SilentOnlyInRecovery ==
  result = "running" => (errstatus > 0 <=> Top = "error")

(* Recovery stays where the error is.  Outside a recovery every brace read   *)
(* opens or closes a block, and reporting an error closes none, whatever     *)
(* was recovered from before; within one no block is opened or closed, so    *)
(* that blocks and braces drift apart only by the braces a recovery          *)
(* discards or ends with.  The parse is given up only at the end of the      *)
(* input or outside every definition, where no production takes an error.    *)
RecoversInPlace ==
  [][/\ OpenBlocks' - OpenBlocks = IF Top = "error" THEN 0 ELSE depth' - depth
     /\ result' = "aborted" => la = "END" \/ stack \in {<<"unit">>, <<"unit", "extern">>}]_vars

(* Every parse of a finite input ends, whatever it recovers from.            *)
Terminates == <>(result # "running")
=============================================================================
