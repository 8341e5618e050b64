----------------------------- MODULE ParserProofs -----------------------------
(* Theorems about Parser for inputs of any length.                           *)
EXTENDS Parser, IntervalProofs, SequenceTheorems, FiniteSetTheorems, TLAPS

(* The unit is at the bottom and a header stands on an int: no reduction     *)
(* takes more than the stack holds.                                          *)
Grounded(s) == /\ Len(s) >= 1 /\ s[1] = "unit"
               /\ \A i \in 1 .. Len(s) : s[i] = "header" => i >= 3
NoError(s) == \A i \in 1 .. Len(s) : s[i] # "error"

StackOK == stack \in Seq(Symbol) /\ Grounded(stack)

(* Why RootSound holds: as long as there is a tree, no recovery is under     *)
(* way, no null link was made and the parse has not failed.                  *)
TreeOK == root => /\ errstatus = 0 /\ NoError(stack) /\ ~nullLink
                  /\ result \in {"running", "accepted"}

Inv == /\ StackOK
       /\ root \in BOOLEAN /\ nullLink \in BOOLEAN /\ reports \in Nat
       /\ root <=> reports = 0
       /\ TreeOK
-----------------------------------------------------------------------------
LEMMA DropKeeps ==
  ASSUME NEW s \in Seq(Symbol), Grounded(s), NEW n \in 1 .. 3, n < Len(s)
  PROVE  LET t == SubSeq(s, 1, Len(s) - n) IN
         t \in Seq(Symbol) /\ Grounded(t) /\ (NoError(s) => NoError(t))
BY DEF Grounded, NoError

LEMMA PushKeeps ==
  ASSUME NEW s \in Seq(Symbol), Grounded(s), NEW x \in Symbol,
         x = "header" => Len(s) >= 2
  PROVE  /\ Append(s, x) \in Seq(Symbol) /\ Grounded(Append(s, x))
         /\ NoError(s) /\ x # "error" => NoError(Append(s, x))
BY DEF Grounded, NoError

(* A shift or reduction that only moves the stack between sound states.      *)
LEMMA MoveKeeps ==
  ASSUME Inv, stack' \in Seq(Symbol), Grounded(stack'),
         NoError(stack) => NoError(stack'),
         errstatus = 0 => errstatus' = 0,
         UNCHANGED <<root, nullLink, reports, result>>
  PROVE  Inv'
BY DEF Inv, StackOK, TreeOK

(* An error reported, whatever becomes of the stack.                         *)
LEMMA ReportKeeps ==
  ASSUME Inv, stack' \in Seq(Symbol), Grounded(stack'), error,
         nullLink' \in BOOLEAN
  PROVE  Inv'
<1>1. root' \in BOOLEAN /\ ~root'
  BY DEF error
<1>2. reports' \in Nat /\ reports' # 0
  BY DEF error, Inv
<1> QED
  BY <1>1, <1>2 DEF Inv, StackOK, TreeOK

(* After the first report there is nothing left to protect but the stack.    *)
LEMMA NoTreeKeeps ==
  ASSUME Inv, ~root, stack' \in Seq(Symbol), Grounded(stack'),
         UNCHANGED <<root, reports>>, nullLink' \in BOOLEAN
  PROVE  Inv'
BY DEF Inv, StackOK, TreeOK

LEMMA InvInit == Init => Inv
<1> SUFFICES ASSUME Init PROVE Inv
  OBVIOUS
<1>1. StackOK /\ NoError(stack)
  BY DEF Init, StackOK, Grounded, NoError, Symbol
<1>2. root = TRUE /\ nullLink = FALSE /\ reports = 0 /\ errstatus = 0 /\ result = "running"
  BY DEF Init
<1> QED
  BY <1>1, <1>2 DEF Inv, TreeOK

(* The steps that shift a token.                                             *)
LEMMA ShiftsKeep ==
  ASSUME Inv,
         \/ ShiftUnit \/ ShiftLocalDecl \/ ShiftDeclItem \/ ShiftHeader
         \/ ReduceExtFunc \/ OpenBody \/ ReduceItem \/ ShiftStmt \/ ReduceBlock
         \/ ShiftElse
  PROVE  Inv'
<1>1. /\ stack \in Seq(Symbol) /\ Grounded(stack)
      /\ Len(stack) \in Nat /\ Len(stack) >= 1 /\ stack[1] = "unit"
      /\ \A i \in 1 .. Len(stack) : stack[i] = "header" => i >= 3
  BY DEF Inv, StackOK, Grounded
<1>2. ASSUME Shift
      PROVE  /\ errstatus = 0 => errstatus' = 0
             /\ UNCHANGED <<root, nullLink, reports, result>>
  BY <1>2 DEF Shift
<1>3. ASSUME Shift, NEW x \in Symbol, stack' = Append(stack, x), x # "error",
             x = "header" => Len(stack) >= 2
      PROVE  Inv'
  BY <1>1, <1>2, <1>3, PushKeeps, MoveKeeps
<1>4. ASSUME Shift, \/ 1 < Len(stack) /\ stack' = Drop(1)
                    \/ 2 < Len(stack) /\ stack' = Drop(2)
                    \/ 3 < Len(stack) /\ stack' = Drop(3)
      PROVE  Inv'
  <2>1. PICK n \in 1 .. 3 : n < Len(stack) /\ stack' = Drop(n)
    <3>1. 1 \in 1 .. 3 /\ 2 \in 1 .. 3 /\ 3 \in 1 .. 3
      OBVIOUS
    <3> QED
      BY <1>4, <3>1
  <2> QED
    BY <1>1, <1>2, <1>4, <2>1, DropKeeps, MoveKeeps DEF Drop
<1>5. ASSUME Top # "unit" PROVE 1 < Len(stack)
  BY <1>1, <1>5 DEF Top
<1>6. CASE ShiftUnit
  BY <1>3, <1>6 DEF ShiftUnit, Push, Symbol
<1>7. CASE ShiftLocalDecl
  BY <1>3, <1>7 DEF ShiftLocalDecl, Push, Symbol
<1>8. CASE ShiftDeclItem
  BY <1>3, <1>8 DEF ShiftDeclItem, Push, Symbol
<1>9. CASE ShiftHeader
  BY <1>1, <1>3, <1>5, <1>9 DEF ShiftHeader, Push, Symbol
<1>10. CASE ReduceExtFunc
  BY <1>4, <1>5, <1>10 DEF ReduceExtFunc
<1>11. CASE OpenBody
  BY <1>3, <1>11 DEF OpenBody, Push, Symbol, BeforeStmt
<1>12. CASE ReduceItem
  <2>1. CASE Below \in {"int", "const"}
    <3>1. 2 < Len(stack)
      <4>1. 1 < Len(stack) /\ Len(stack) - 1 \in 1 .. Len(stack)
        <5>1. Top # "unit"
          BY <1>12 DEF ReduceItem
        <5> QED
          BY <1>1, <1>5, <5>1
      <4>2. stack[Len(stack) - 1] # "unit"
        BY <2>1 DEF Below
      <4> QED
        BY <1>1, <4>1, <4>2
    <3> QED
      BY <1>4, <1>12, <2>1, <3>1 DEF ReduceItem
  <2>2. CASE Below \notin {"int", "const"}
    BY <1>4, <1>5, <1>12, <2>2 DEF ReduceItem
  <2> QED
    BY <2>1, <2>2
<1>13. CASE ShiftStmt
  <2>1. CASE la = ";"
    BY <1>1, <1>2, <1>13, <2>1, MoveKeeps DEF ShiftStmt
  <2>2. CASE la # ";"
    BY <1>3, <1>13, <2>2 DEF ShiftStmt, StmtStart, Push, Symbol, BeforeStmt
  <2> QED
    BY <2>1, <2>2
<1>14. CASE ReduceBlock
  <2>1. CASE Below = "header"
    <3>1. 3 < Len(stack)
      <4>1. 1 < Len(stack) /\ Len(stack) - 1 \in 1 .. Len(stack)
        <5>1. Top # "unit"
          BY <1>14 DEF ReduceBlock
        <5> QED
          BY <1>1, <1>5, <5>1
      <4>2. stack[Len(stack) - 1] = "header"
        BY <2>1 DEF Below
      <4> QED
        BY <1>1, <4>1, <4>2
    <3> QED
      BY <1>4, <1>14, <2>1, <3>1 DEF ReduceBlock
  <2>2. CASE Below # "header"
    BY <1>4, <1>5, <1>14, <2>2 DEF ReduceBlock
  <2> QED
    BY <2>1, <2>2
<1>15. CASE ShiftElse
  <2>1. PICK x \in {"else", "elseOpen"} : stack' = Append(Drop(1), x)
    BY <1>15 DEF ShiftElse
  <2>2. /\ Drop(1) \in Seq(Symbol) /\ Grounded(Drop(1))
        /\ NoError(stack) => NoError(Drop(1))
    BY <1>1, <1>5, <1>15, DropKeeps DEF ShiftElse, Drop
  <2>3. /\ stack' \in Seq(Symbol) /\ Grounded(stack')
        /\ NoError(stack) => NoError(stack')
    <3>1. x \in Symbol /\ x # "error" /\ x # "header"
      BY DEF Symbol, BeforeStmt
    <3> QED
      BY <2>1, <2>2, <3>1, PushKeeps
  <2> QED
    BY <1>2, <1>15, <2>3, MoveKeeps DEF ShiftElse
<1> QED
  BY <1>6, <1>7, <1>8, <1>9, <1>10, <1>11, <1>12, <1>13, <1>14, <1>15

(* The steps that reduce without a shift.                                    *)
LEMMA ReductionsKeep ==
  ASSUME Inv, ReduceStmt \/ ReduceIf
  PROVE  Inv'
<1>1. /\ stack \in Seq(Symbol) /\ Grounded(stack)
      /\ Len(stack) \in Nat /\ Len(stack) >= 1 /\ stack[1] = "unit"
  BY DEF Inv, StackOK, Grounded
<1>2. ASSUME Top # "unit"
      PROVE  /\ Drop(1) \in Seq(Symbol) /\ Grounded(Drop(1))
             /\ NoError(stack) => NoError(Drop(1))
  <2>1. 1 < Len(stack) /\ 1 \in 1 .. 3
    BY <1>1, <1>2 DEF Top
  <2> QED
    BY <1>1, <2>1, DropKeeps DEF Drop
<1>3. UNCHANGED <<errstatus, result>>
  BY DEF ReduceStmt, ReduceIf, Reduced
<1>4. ASSUME Unreported, \/ stack' = stack
                         \/ Top # "unit" /\ stack' = Drop(1)
      PROVE  Inv'
  BY <1>1, <1>2, <1>3, <1>4, MoveKeeps DEF Unreported
<1>5. ASSUME Unmatched, Top # "unit", stack' = Drop(1)
      PROVE  Inv'
  BY <1>2, <1>5, ReportKeeps DEF Unmatched
<1>6. ASSUME Unreported, Top # "unit", NEW x \in {"then", "thenOpen"},
             stack' = Append(Drop(1), x)
      PROVE  Inv'
  <2>1. x \in Symbol /\ x # "error" /\ x # "header"
    BY DEF Symbol
  <2>2. /\ stack' \in Seq(Symbol) /\ Grounded(stack')
        /\ NoError(stack) => NoError(stack')
    BY <1>2, <1>6, <2>1, PushKeeps
  <2> QED
    BY <1>3, <1>6, <2>2, MoveKeeps DEF Unreported
<1>7. CASE ReduceStmt
  <2>1. CASE Top = "block"
    BY <1>4, <1>7, <2>1 DEF ReduceStmt
  <2>2. CASE Top \in {"while", "else"}
    BY <1>4, <1>7, <2>2 DEF ReduceStmt
  <2>3. CASE Top \in {"whileOpen", "elseOpen"}
    BY <1>5, <1>7, <2>3 DEF ReduceStmt
  <2>4. CASE Top \in {"if", "ifOpen"}
    BY <1>6, <1>7, <2>4 DEF ReduceStmt
  <2> QED
    BY <1>7, <2>1, <2>2, <2>3, <2>4 DEF ReduceStmt
<1>8. CASE ReduceIf
  BY <1>4, <1>5, <1>8 DEF ReduceIf
<1> QED
  BY <1>7, <1>8

(* A syntax error is reported or the tree was given up before; unwinding     *)
(* leaves a grounded stack.                                                  *)
LEMMA ErrorsKeep ==
  ASSUME Inv, SyntaxError
  PROVE  Inv'
<1> DEFINE takers == {i \in DOMAIN stack : stack[i] \in TakesError}
<1>1. /\ stack \in Seq(Symbol) /\ Grounded(stack)
      /\ Len(stack) \in Nat /\ Len(stack) >= 1 /\ stack[1] = "unit"
  BY DEF Inv, StackOK, Grounded
<1>2. stack' \in Seq(Symbol) /\ Grounded(stack')
  <2>1. CASE stack' = stack
    BY <1>1, <2>1
  <2>2. CASE takers # {} /\ stack' = Append(SubSeq(stack, 1, Max(takers)), "error")
    <3>1. takers \in SUBSET (1 .. Len(stack))
      BY <1>1
    <3>2. PICK i \in takers : \A j \in takers : j <= i
      <4> HIDE DEF takers
      <4> QED
        BY <1>1, <2>2, <3>1, LargestExists
    <3>3. Max(takers) \in takers
      <4>1. \A j \in takers : i >= j
        BY <3>1, <3>2
      <4> HIDE DEF takers
      <4> QED
        BY <4>1 DEF Max
    <3> DEFINE m == Max(takers)
    <3>4. m \in 1 .. Len(stack)
      BY <3>1, <3>3
    <3> HIDE DEF m
    <3>5. SubSeq(stack, 1, m) \in Seq(Symbol) /\ Grounded(SubSeq(stack, 1, m))
      BY <1>1, <3>4 DEF Grounded
    <3>6. "error" \in Symbol
      BY DEF Symbol
    <3> QED
      BY <2>2, <3>5, <3>6, PushKeeps DEF m
  <2> QED
    BY <2>1, <2>2 DEF SyntaxError
<1>3. nullLink' \in BOOLEAN
  BY DEF SyntaxError, Inv
<1>4. CASE errstatus = 0
  BY <1>2, <1>3, <1>4, ReportKeeps DEF SyntaxError
<1>5. CASE errstatus # 0
  <2>1. ~root
    BY <1>5 DEF Inv, TreeOK
  <2> QED
    BY <1>2, <1>3, <1>5, <2>1, NoTreeKeeps DEF SyntaxError
<1> QED
  BY <1>4, <1>5

(* Recovering makes a null link, or kills the parser, but only after an      *)
(* error was reported.                                                       *)
LEMMA RecoveryKeeps ==
  ASSUME Inv, Recover
  PROVE  Inv'
<1>1. /\ stack \in Seq(Symbol) /\ Grounded(stack)
      /\ Len(stack) \in Nat /\ Len(stack) >= 1 /\ stack[1] = "unit"
      /\ \A i \in 1 .. Len(stack) : stack[i] = "header" => i >= 3
  BY DEF Inv, StackOK, Grounded
<1>2. ~root
  <2>1. stack[Len(stack)] = "error"
    BY DEF Recover, RecoverWith, Top
  <2> QED
    BY <1>1, <2>1 DEF Inv, TreeOK, NoError
<1>3. 1 < Len(stack) /\ Len(stack) - 1 \in 1 .. Len(stack)
  BY <1>1 DEF Recover, RecoverWith, Top
<1>4. nullLink' \in BOOLEAN
  BY DEF Recover, RecoverWith, Inv
<1>5. \E n \in 1 .. 3 : n < Len(stack) /\ stack' = Drop(n)
  <2>1. CASE Below \in {"int", "const"} /\ stack' = Drop(2)
    <3>1. stack[Len(stack) - 1] # "unit"
      BY <2>1 DEF Below
    <3>2. 2 < Len(stack) /\ 2 \in 1 .. 3
      BY <1>1, <1>3, <3>1
    <3> QED
      BY <2>1, <3>2
  <2>2. CASE Below = "header" /\ stack' = Drop(3)
    <3>1. stack[Len(stack) - 1] = "header"
      BY <2>2 DEF Below
    <3>2. 3 < Len(stack) /\ 3 \in 1 .. 3
      BY <1>1, <1>3, <3>1
    <3> QED
      BY <2>2, <3>2
  <2>3. CASE stack' = Drop(1)
    <3>1. 1 \in 1 .. 3
      OBVIOUS
    <3> QED
      BY <1>3, <2>3, <3>1
  <2> QED
    BY <2>1, <2>2, <2>3 DEF Recover, RecoverWith
<1>6. stack' \in Seq(Symbol) /\ Grounded(stack')
  BY <1>1, <1>5, DropKeeps DEF Drop
<1> QED
  BY <1>2, <1>4, <1>6, NoTreeKeeps DEF Recover, RecoverWith

LEMMA InvNext == Inv /\ [Next]_vars => Inv'
<1> SUFFICES ASSUME Inv, [Next]_vars PROVE Inv'
  OBVIOUS
<1>1. CASE ReadToken
  BY <1>1 DEF ReadToken, Inv, StackOK, TreeOK
<1>2. CASE Accept
  BY <1>2 DEF Accept, Inv, StackOK, TreeOK
<1>3. CASE UNCHANGED vars
  BY <1>3 DEF vars, Inv, StackOK, TreeOK
<1> QED
  BY <1>1, <1>2, <1>3, ShiftsKeep, ReductionsKeep, ErrorsKeep, RecoveryKeeps
     DEF Next, Step, Returned

(* For every input, of any length: a syntax tree is left for the code        *)
(* generator if and only if no error was reported, and it has no null link.  *)
THEOREM TreeIsSound == Spec => []RootSound
<1>1. Init => Inv
  BY InvInit
<1>2. Inv /\ [Next]_vars => Inv'
  BY InvNext
<1>3. Inv => RootSound
  BY DEF Inv, TreeOK, RootSound
<1> QED
  BY <1>1, <1>2, <1>3, PTL DEF Spec
-----------------------------------------------------------------------------
(* What may stand below a symbol.                                            *)
Under(x) ==
  CASE x = "unit" -> {}
    [] x \in {"int", "const"} -> {"unit", "block"}
    [] x = "extern" -> {"unit"}
    [] x = "header" -> {"int"}
    [] x = "block" -> {"header"} \cup BeforeStmt
    [] x = "item" -> {"int", "const"} \cup BeforeStmt
    [] x = "error" -> TakesError
    [] OTHER -> BeforeStmt
Linked(s) == \A i \in 2 .. Len(s) : s[i - 1] \in Under(s[i])

(* A statement is reduced further only where one may stand, and error is on  *)
(* the stack, at its top, only while shifts are counted.                     *)
ShapeInv == /\ Linked(stack)
            /\ goto \in {"none", "stmt"}
            /\ goto = "stmt" => Top \in BeforeStmt
            /\ errstatus \in 0 .. 3
            /\ errstatus > 0 <=> Top = "error"

LEMMA PushLinks ==
  ASSUME NEW s \in Seq(Symbol), Len(s) >= 1, Linked(s), NEW x \in Symbol,
         s[Len(s)] \in Under(x)
  PROVE  LET t == Append(s, x) IN
         t \in Seq(Symbol) /\ Linked(t) /\ Len(t) = Len(s) + 1 /\ t[Len(t)] = x
BY DEF Linked

LEMMA DropLinks ==
  ASSUME NEW s \in Seq(Symbol), Linked(s), NEW n \in 1 .. 3, n < Len(s)
  PROVE  LET t == SubSeq(s, 1, Len(s) - n) IN
         /\ t \in Seq(Symbol) /\ Linked(t) /\ Len(t) = Len(s) - n
         /\ t[Len(t)] = s[Len(s) - n]
<1> DEFINE t == SubSeq(s, 1, Len(s) - n)
<1>1. t \in Seq(Symbol) /\ Len(t) = Len(s) - n /\ \A i \in 1 .. Len(t) : t[i] = s[i]
  OBVIOUS
<1>2. Len(s) \in Nat
  OBVIOUS
<1> HIDE DEF t
<1>3. Linked(t)
  <2> SUFFICES ASSUME NEW i \in 2 .. Len(t) PROVE t[i - 1] \in Under(t[i])
    BY DEF Linked
  <2>1. i \in 1 .. Len(t) /\ i - 1 \in 1 .. Len(t) /\ i \in 2 .. Len(s)
    BY <1>1, <1>2
  <2>2. t[i] = s[i] /\ t[i - 1] = s[i - 1]
    BY <1>1, <2>1
  <2> QED
    BY <2>1, <2>2 DEF Linked
<1>4. t[Len(t)] = s[Len(s) - n]
  <2>1. Len(t) \in 1 .. Len(t)
    BY <1>1, <1>2
  <2> QED
    BY <1>1, <2>1
<1> QED
  BY <1>1, <1>3, <1>4 DEF t

LEMMA ShapeInit == Init => ShapeInv
BY DEF Init, ShapeInv, Linked, Top

(* A shift is made where no error stands, and pushes what may stand there.   *)
LEMMA ShiftsShape ==
  ASSUME Inv, ShapeInv,
         \/ ShiftUnit \/ ShiftLocalDecl \/ ShiftDeclItem \/ ShiftHeader
         \/ ReduceExtFunc \/ OpenBody \/ ReduceItem \/ ShiftStmt \/ ReduceBlock
         \/ ShiftElse
  PROVE  ShapeInv'
<1>1. /\ stack \in Seq(Symbol) /\ Len(stack) \in Nat /\ Len(stack) >= 1
      /\ Linked(stack) /\ stack[1] = "unit"
  BY DEF Inv, StackOK, Grounded, ShapeInv
<1>2. Shift /\ Top # "error"
  BY DEF ShiftUnit, ShiftLocalDecl, ShiftDeclItem, ShiftHeader, ReduceExtFunc,
         OpenBody, ReduceItem, ShiftStmt, ReduceBlock, ShiftElse, BeforeStmt
<1>3. errstatus = 0 /\ errstatus' = 0 /\ goto = "none"
  BY <1>2 DEF ShapeInv, Shift
<1>4. ASSUME NEW x \in Symbol, Top \in Under(x), x # "error", goto' = goto,
             stack' = Push(x)
      PROVE  ShapeInv'
  BY <1>1, <1>3, <1>4, PushLinks DEF ShapeInv, Top, Push
<1>5. ASSUME NEW n \in 1 .. 3, n < Len(stack), stack' = Drop(n),
             stack[Len(stack) - n] # "error",
             \/ goto' = "none"
             \/ goto' = "stmt" /\ stack[Len(stack) - n] \in BeforeStmt
      PROVE  ShapeInv'
  BY <1>1, <1>3, <1>5, DropLinks DEF ShapeInv, Top, Drop
<1>6. ASSUME Top # "unit"
      PROVE  1 < Len(stack) /\ 1 \in 1 .. 3 /\ Below \in Under(Top)
  <2>1. Len(stack) \in 2 .. Len(stack)
    BY <1>1, <1>6 DEF Top
  <2> QED
    BY <2>1, <1>1 DEF Linked, Top, Below
<1>7. CASE ShiftUnit
  BY <1>3, <1>4, <1>7 DEF ShiftUnit, Symbol, Under
<1>8. CASE ShiftLocalDecl
  BY <1>3, <1>4, <1>8 DEF ShiftLocalDecl, Symbol, Under
<1>9. CASE ShiftDeclItem
  BY <1>3, <1>4, <1>9 DEF ShiftDeclItem, Symbol, Under
<1>10. CASE ShiftHeader
  BY <1>3, <1>4, <1>10 DEF ShiftHeader, Symbol, Under
<1>11. CASE ReduceExtFunc
  <2>1. Below = "unit"
    BY <1>6, <1>11 DEF ReduceExtFunc, Under
  <2> QED
    BY <1>3, <1>5, <1>6, <1>11, <2>1 DEF ReduceExtFunc, Below
<1>12. CASE OpenBody
  BY <1>3, <1>4, <1>12 DEF OpenBody, Symbol, Under, BeforeStmt
<1>13. CASE ReduceItem
  <2>1. Below \in {"int", "const"} \cup BeforeStmt /\ 1 < Len(stack)
    BY <1>6, <1>13 DEF ReduceItem, Under
  <2>2. CASE Below \in {"int", "const"}
    <3>1. Len(stack) - 1 \in 2 .. Len(stack)
      BY <1>1, <2>1, <2>2 DEF Below
    <3>2. stack[Len(stack) - 2] \in {"unit", "block"}
      <4>1. stack[Len(stack) - 1 - 1] \in Under(Below)
        BY <1>1, <3>1 DEF Linked, Below
      <4> QED
        BY <1>1, <2>2, <4>1 DEF Under
    <3>3. 2 \in 1 .. 3 /\ 2 < Len(stack) /\ stack[Len(stack) - 2] # "error"
      BY <1>1, <3>1, <3>2
    <3>4. stack' = Drop(2) /\ goto' = "none"
      BY <1>3, <1>13, <2>2 DEF ReduceItem
    <3> QED
      BY <1>5, <3>3, <3>4
  <2>3. CASE Below \notin {"int", "const"}
    <3>1. stack' = Drop(1) /\ goto' = "stmt"
      BY <1>13, <2>3 DEF ReduceItem
    <3>2. stack[Len(stack) - 1] \in BeforeStmt
      BY <2>1, <2>3 DEF Below
    <3>3. 1 \in 1 .. 3 /\ stack[Len(stack) - 1] # "error"
      BY <3>2 DEF BeforeStmt
    <3> QED
      BY <1>5, <2>1, <3>1, <3>2, <3>3
  <2> QED
    BY <2>2, <2>3
<1>14. CASE ShiftStmt
  <2>1. CASE la = ";"
    BY <1>1, <1>2, <1>3, <1>14, <2>1 DEF ShiftStmt, ShapeInv, Top
  <2>2. CASE la # ";"
    BY <1>3, <1>4, <1>14, <2>2 DEF ShiftStmt, StmtStart, Symbol, Under, BeforeStmt
  <2> QED
    BY <2>1, <2>2
<1>15. CASE ReduceBlock
  <2>1. Below \in {"header"} \cup BeforeStmt /\ 1 < Len(stack)
    BY <1>6, <1>15 DEF ReduceBlock, Under
  <2>2. CASE Below = "header"
    <3>1. Len(stack) - 1 \in 2 .. Len(stack)
      BY <1>1, <2>1, <2>2 DEF Below
    <3>2. stack[Len(stack) - 2] = "int"
      <4>1. stack[Len(stack) - 1 - 1] \in Under(Below)
        BY <1>1, <3>1 DEF Linked, Below
      <4> QED
        BY <1>1, <2>2, <4>1 DEF Under
    <3>3. Len(stack) - 2 \in 2 .. Len(stack)
      BY <1>1, <3>1, <3>2
    <3>4. stack[Len(stack) - 3] \in {"unit", "block"}
      <4>1. stack[Len(stack) - 2 - 1] \in Under("int")
        BY <1>1, <3>2, <3>3 DEF Linked
      <4> QED
        BY <1>1, <4>1 DEF Under
    <3>5. 3 \in 1 .. 3 /\ 3 < Len(stack) /\ stack[Len(stack) - 3] # "error"
      BY <1>1, <3>3, <3>4
    <3>6. stack' = Drop(3) /\ goto' = "none"
      BY <1>3, <1>15, <2>2 DEF ReduceBlock
    <3> QED
      BY <1>5, <3>5, <3>6
  <2>3. CASE Below # "header"
    <3>1. stack' = Drop(1) /\ goto' = "stmt"
      BY <1>15, <2>3 DEF ReduceBlock
    <3>2. stack[Len(stack) - 1] \in BeforeStmt
      BY <2>1, <2>3 DEF Below
    <3>3. 1 \in 1 .. 3 /\ stack[Len(stack) - 1] # "error"
      BY <3>2 DEF BeforeStmt
    <3> QED
      BY <1>5, <2>1, <3>1, <3>2, <3>3
  <2> QED
    BY <2>2, <2>3
<1>16. CASE ShiftElse
  <2>1. PICK x \in {"else", "elseOpen"} : stack' = Append(Drop(1), x)
    BY <1>16 DEF ShiftElse
  <2>2. 1 < Len(stack) /\ Below \in BeforeStmt
    BY <1>6, <1>16 DEF ShiftElse, Under, BeforeStmt
  <2>3. /\ Drop(1) \in Seq(Symbol) /\ Linked(Drop(1)) /\ Len(Drop(1)) >= 1
        /\ Drop(1)[Len(Drop(1))] \in BeforeStmt
    BY <1>1, <2>2, DropLinks DEF Drop, Below
  <2>4. x \in Symbol /\ Under(x) = BeforeStmt
    BY DEF Symbol, Under, BeforeStmt
  <2> QED
    BY <1>3, <1>16, <2>1, <2>3, <2>4, PushLinks DEF ShiftElse, ShapeInv, Top
<1> QED
  BY <1>7, <1>8, <1>9, <1>10, <1>11, <1>12, <1>13, <1>14, <1>15, <1>16

(* A reduction that consumes nothing happens where no error stands either.   *)
LEMMA ReductionsShape ==
  ASSUME Inv, ShapeInv, ReduceStmt \/ ReduceIf
  PROVE  ShapeInv'
<1>1. /\ stack \in Seq(Symbol) /\ Len(stack) \in Nat /\ Len(stack) >= 1
      /\ Linked(stack) /\ stack[1] = "unit"
  BY DEF Inv, StackOK, Grounded, ShapeInv
<1>2. Top \notin {"error", "unit"} /\ Top \in Symbol /\ Under(Top) \in {BeforeStmt, {"header"} \cup BeforeStmt}
  BY DEF ReduceStmt, ReduceIf, BeforeStmt, Under, Symbol
<1>3. errstatus = 0 /\ errstatus' = 0
  BY <1>2 DEF ReduceStmt, ReduceIf, Reduced, ShapeInv
<1>4. 1 < Len(stack) /\ Below \in Under(Top)
  <2>1. Len(stack) \in 2 .. Len(stack)
    BY <1>1, <1>2 DEF Top
  <2> QED
    BY <2>1, <1>1 DEF Linked, Top, Below
<1>5. /\ Drop(1) \in Seq(Symbol) /\ Linked(Drop(1)) /\ Len(Drop(1)) >= 1
      /\ Drop(1)[Len(Drop(1))] = Below
  BY <1>1, <1>4, DropLinks DEF Drop, Below
<1>6. ASSUME stack' = stack, goto' = "none"
      PROVE  ShapeInv'
  BY <1>1, <1>2, <1>3, <1>6 DEF ShapeInv, Top
<1>7. ASSUME Top # "block", goto' = "stmt", stack' = Drop(1)
      PROVE  ShapeInv'
  <2>1. Below \in BeforeStmt
    BY <1>2, <1>4, <1>7 DEF ReduceStmt, ReduceIf, Under, BeforeStmt
  <2> QED
    BY <1>3, <1>5, <1>7, <2>1 DEF ShapeInv, Top, BeforeStmt
<1>8. ASSUME NEW x \in {"then", "thenOpen"}, Top # "block", goto' = "none",
             stack' = Append(Drop(1), x)
      PROVE  ShapeInv'
  <2>1. Below \in BeforeStmt
    BY <1>2, <1>4, <1>8 DEF ReduceStmt, ReduceIf, Under, BeforeStmt
  <2>2. x \in Symbol /\ Under(x) = BeforeStmt
    BY DEF Symbol, Under, BeforeStmt
  <2> QED
    BY <1>3, <1>5, <1>8, <2>1, <2>2, PushLinks DEF ShapeInv, Top
<1>9. CASE ReduceStmt
  BY <1>6, <1>7, <1>8, <1>9 DEF ReduceStmt
<1>10. CASE ReduceIf
  BY <1>7, <1>10 DEF ReduceIf
<1> QED
  BY <1>9, <1>10

(* Unwinding ends at a symbol behind which error can be shifted.             *)
LEMMA ErrorsShape ==
  ASSUME Inv, ShapeInv, SyntaxError
  PROVE  ShapeInv'
<1> DEFINE takers == {i \in DOMAIN stack : stack[i] \in TakesError}
<1>1. /\ stack \in Seq(Symbol) /\ Len(stack) \in Nat /\ Linked(stack)
  BY DEF Inv, StackOK, ShapeInv
<1>2. CASE UNCHANGED <<stack, errstatus>>
  BY <1>2 DEF SyntaxError, ShapeInv, Top
<1>3. CASE /\ takers # {} /\ stack' = Append(SubSeq(stack, 1, Max(takers)), "error")
           /\ errstatus' = 3
  <2>1. takers \in SUBSET (1 .. Len(stack))
    BY <1>1
  <2>2. PICK i \in takers : \A j \in takers : j <= i
    <3> HIDE DEF takers
    <3> QED
      BY <1>1, <1>3, <2>1, LargestExists
  <2>3. Max(takers) \in takers
    <3>1. \A j \in takers : i >= j
      BY <2>1, <2>2
    <3> HIDE DEF takers
    <3> QED
      BY <3>1 DEF Max
  <2> DEFINE m == Max(takers)
  <2>4. m \in 1 .. Len(stack) /\ stack[m] \in TakesError
    BY <2>1, <2>3
  <2> HIDE DEF m
  <2> DEFINE t == SubSeq(stack, 1, m)
  <2>5. /\ t \in Seq(Symbol) /\ Len(t) = m
        /\ \A k \in 1 .. m : t[k] = stack[k]
    BY <1>1, <2>4
  <2> HIDE DEF t
  <2>6. Linked(t)
    <3>1. ASSUME NEW k \in 2 .. m PROVE t[k - 1] \in Under(t[k])
      BY <1>1, <2>4, <2>5, <3>1 DEF Linked
    <3> QED
      BY <2>4, <2>5, <3>1 DEF Linked
  <2>7. "error" \in Symbol /\ Under("error") = TakesError /\ t[Len(t)] \in TakesError
    BY <2>4, <2>5 DEF Symbol, Under
  <2>8. Len(t) >= 1
    BY <2>4, <2>5
  <2>9. LET u == Append(t, "error") IN Linked(u) /\ u[Len(u)] = "error"
    BY <2>5, <2>6, <2>7, <2>8, PushLinks
  <2>10. stack' = Append(t, "error")
    BY <1>3 DEF m, t
  <2>11. Linked(stack') /\ Top' = "error"
    BY <2>9, <2>10 DEF Top
  <2> QED
    BY <1>3, <2>11 DEF SyntaxError, ShapeInv, BeforeStmt
<1> QED
  BY <1>2, <1>3 DEF SyntaxError

(* A recovery takes error off the stack and what may stand below is no error.*)
LEMMA RecoveryShape ==
  ASSUME Inv, ShapeInv, Recover
  PROVE  ShapeInv'
<1>1. /\ stack \in Seq(Symbol) /\ Len(stack) \in Nat /\ Len(stack) >= 1
      /\ Linked(stack) /\ stack[1] = "unit"
  BY DEF Inv, StackOK, Grounded, ShapeInv
<1>2. Top = "error" /\ errstatus' = 0 /\ goto = "none"
  BY DEF Recover, RecoverWith
<1>3. 1 < Len(stack) /\ Below \in TakesError
  <2>1. Len(stack) \in 2 .. Len(stack)
    BY <1>1, <1>2 DEF Top
  <2>2. Below \in Under(Top)
    BY <1>1, <2>1 DEF Linked, Top, Below
  <2> QED
    BY <1>2, <2>1, <2>2 DEF Under
<1>4. ASSUME NEW n \in 1 .. 3, n < Len(stack), stack' = Drop(n),
             stack[Len(stack) - n] # "error",
             \/ goto' = "none"
             \/ goto' = "stmt" /\ stack[Len(stack) - n] \in BeforeStmt
      PROVE  ShapeInv'
  BY <1>1, <1>2, <1>4, DropLinks DEF ShapeInv, Top, Drop
<1>5. CASE Below \in {"int", "const"} /\ stack' = Drop(2) /\ UNCHANGED goto
  <2>1. Len(stack) - 1 \in 2 .. Len(stack)
    BY <1>1, <1>3, <1>5 DEF Below
  <2>2. stack[Len(stack) - 2] \in {"unit", "block"}
    <3>1. stack[Len(stack) - 1 - 1] \in Under(Below)
      BY <1>1, <2>1 DEF Linked, Below
    <3> QED
      BY <1>1, <1>5, <3>1 DEF Under
  <2>3. 2 \in 1 .. 3 /\ 2 < Len(stack) /\ stack[Len(stack) - 2] # "error" /\ goto' = "none"
    BY <1>1, <1>2, <1>5, <2>1, <2>2
  <2> QED
    BY <1>4, <1>5, <2>3
<1>6. CASE Below = "header" /\ stack' = Drop(3) /\ UNCHANGED goto
  <2>1. Len(stack) - 1 \in 2 .. Len(stack)
    BY <1>1, <1>3, <1>6 DEF Below
  <2>2. stack[Len(stack) - 2] = "int"
    <3>1. stack[Len(stack) - 1 - 1] \in Under(Below)
      BY <1>1, <2>1 DEF Linked, Below
    <3> QED
      BY <1>1, <1>6, <3>1 DEF Under
  <2>3. Len(stack) - 2 \in 2 .. Len(stack)
    BY <1>1, <2>1, <2>2
  <2>4. stack[Len(stack) - 3] \in {"unit", "block"}
    <3>1. stack[Len(stack) - 2 - 1] \in Under("int")
      BY <1>1, <2>2, <2>3 DEF Linked
    <3> QED
      BY <1>1, <3>1 DEF Under
  <2>5. 3 \in 1 .. 3 /\ 3 < Len(stack) /\ stack[Len(stack) - 3] # "error" /\ goto' = "none"
    BY <1>1, <1>2, <1>6, <2>3, <2>4
  <2> QED
    BY <1>4, <1>6, <2>5
<1>7. CASE Below \in BeforeStmt /\ stack' = Drop(1) /\ goto' = "stmt"
  <2>1. 1 \in 1 .. 3 /\ stack[Len(stack) - 1] \in BeforeStmt /\ stack[Len(stack) - 1] # "error"
    BY <1>7 DEF Below, BeforeStmt
  <2> QED
    BY <1>3, <1>4, <1>7, <2>1
<1> QED
  BY <1>5, <1>6, <1>7 DEF Recover, RecoverWith

LEMMA ShapeNext == Inv /\ ShapeInv /\ [Next]_vars => ShapeInv'
<1> SUFFICES ASSUME Inv, ShapeInv, [Next]_vars PROVE ShapeInv'
  OBVIOUS
<1>1. CASE ReadToken
  BY <1>1 DEF ReadToken, ShapeInv, Top
<1>2. CASE Accept
  BY <1>2 DEF Accept, ShapeInv, Top
<1>3. CASE UNCHANGED vars
  BY <1>3 DEF vars, ShapeInv, Top
<1> QED
  BY <1>1, <1>2, <1>3, ShiftsShape, ReductionsShape, ErrorsShape, RecoveryShape
     DEF Next, Step, Returned

(* Errors are silent exactly while an error stands on the stack: each        *)
(* recovery ends with yyerrok, so the next error is reported again.          *)
THEOREM SilenceEnds == Spec => []SilentOnlyInRecovery
<1>1. Init => Inv /\ ShapeInv
  BY InvInit, ShapeInit
<1>2. Inv /\ ShapeInv /\ [Next]_vars => Inv' /\ ShapeInv'
  BY InvNext, ShapeNext
<1>3. ShapeInv => SilentOnlyInRecovery
  BY DEF ShapeInv, SilentOnlyInRecovery
<1> QED
  BY <1>1, <1>2, <1>3, PTL DEF Spec
-----------------------------------------------------------------------------
(* Counting the open blocks of a stack.                                      *)
Blocks(s) == {i \in DOMAIN s : s[i] = "block"}
IsBlock(x) == IF x = "block" THEN 1 ELSE 0

LEMMA BlocksCounted ==
  ASSUME NEW s \in Seq(Symbol)
  PROVE  IsFiniteSet(Blocks(s)) /\ Cardinality(Blocks(s)) \in Nat
<1>1. IsFiniteSet(1 .. Len(s))
  BY FS_Interval
<1>2. Blocks(s) \subseteq 1 .. Len(s)
  BY DEF Blocks
<1> QED
  BY <1>1, <1>2, FS_Subset, FS_CardinalityType

LEMMA PushCounts ==
  ASSUME NEW s \in Seq(Symbol), NEW x \in Symbol
  PROVE  Cardinality(Blocks(Append(s, x))) = Cardinality(Blocks(s)) + IsBlock(x)
<1> DEFINE k == Len(s) + 1
<1>1. k \notin Blocks(s)
  BY DEF Blocks
<1>2. Blocks(Append(s, x)) = IF x = "block" THEN Blocks(s) \cup {k} ELSE Blocks(s)
  BY DEF Blocks
<1> HIDE DEF k
<1>3. IsFiniteSet(Blocks(s)) /\ Cardinality(Blocks(s)) \in Nat
  BY BlocksCounted
<1>4. CASE x = "block"
  <2>1. Cardinality(Blocks(s) \cup {k}) = Cardinality(Blocks(s)) + 1
    BY <1>1, <1>3, FS_AddElement
  <2> QED
    BY <1>2, <1>4, <2>1 DEF IsBlock
<1>5. CASE x # "block"
  BY <1>2, <1>3, <1>5 DEF IsBlock
<1> QED
  BY <1>4, <1>5

LEMMA DropCounts ==
  ASSUME NEW s \in Seq(Symbol), NEW m \in 0 .. Len(s) - 1
  PROVE  /\ SubSeq(s, 1, m) \in Seq(Symbol)
         /\ Cardinality(Blocks(SubSeq(s, 1, m))) \in Nat
         /\ Cardinality(Blocks(SubSeq(s, 1, m + 1)))
              = Cardinality(Blocks(SubSeq(s, 1, m))) + IsBlock(s[m + 1])
<1>1. SubSeq(s, 1, m) \in Seq(Symbol) /\ s[m + 1] \in Symbol
  OBVIOUS
<1>2. SubSeq(s, 1, m + 1) = Append(SubSeq(s, 1, m), s[m + 1])
  OBVIOUS
<1> QED
  BY <1>1, <1>2, BlocksCounted, PushCounts
(* Each shift uses one token, which is a brace exactly when it opens or      *)
(* closes a block.                                                           *)
LEMMA ShiftsCount ==
  ASSUME Inv, ShapeInv,
         \/ ShiftUnit \/ ShiftLocalDecl \/ ShiftDeclItem \/ ShiftHeader
         \/ ReduceExtFunc \/ OpenBody \/ ReduceItem \/ ShiftStmt \/ ReduceBlock
         \/ ShiftElse
  PROVE  Cardinality(Blocks(stack')) = Cardinality(Blocks(stack)) + Brace
<1> DEFINE C(s) == Cardinality(Blocks(s))
           k == Len(stack)
<1>1. stack \in Seq(Symbol) /\ k \in Nat /\ k >= 1 /\ Linked(stack) /\ stack[1] = "unit"
  BY DEF Inv, StackOK, Grounded, ShapeInv
<1>2. C(stack) \in Nat /\ k - 1 \in 0 .. k - 1 /\ SubSeq(stack, 1, k) = stack
  BY <1>1, BlocksCounted
<1>3. /\ C(SubSeq(stack, 1, k - 1)) \in Nat
      /\ C(stack) = C(SubSeq(stack, 1, k - 1)) + IsBlock(Top)
  <2>1. k - 1 + 1 = k
    BY <1>1
  <2> QED
    BY <1>1, <1>2, <2>1, DropCounts DEF Top
<1>4. ASSUME NEW x \in Symbol, stack' = Push(x), Brace = IsBlock(x)
      PROVE  C(stack') = C(stack) + Brace
  BY <1>1, <1>4, PushCounts DEF Push
<1>5. ASSUME stack' = Drop(1), Brace + IsBlock(Top) = 0, Brace \in Int
      PROVE  C(stack') = C(stack) + Brace
  BY <1>3, <1>5 DEF Drop, IsBlock
<1>6. ASSUME k - 2 \in 0 .. k - 1
      PROVE  /\ C(SubSeq(stack, 1, k - 2)) \in Nat
             /\ C(SubSeq(stack, 1, k - 1)) = C(SubSeq(stack, 1, k - 2)) + IsBlock(Below)
  <2>1. k - 2 + 1 = k - 1
    BY <1>1
  <2> QED
    BY <1>1, <1>6, <2>1, DropCounts DEF Below
<1>7. ASSUME Top # "unit"
       PROVE  k - 2 \in 0 .. k - 1 /\ k \in 2 .. k /\ Below \in Under(Top)
  <2>1. k \in 2 .. k
    BY <1>1, <1>7 DEF Top
  <2> QED
    BY <2>1, <1>1 DEF Linked, Top, Below
<1>8. CASE ShiftUnit
  BY <1>4, <1>8 DEF ShiftUnit, Symbol, Brace, IsBlock
<1>9. CASE ShiftLocalDecl
  BY <1>4, <1>9 DEF ShiftLocalDecl, Symbol, Brace, IsBlock
<1>10. CASE ShiftDeclItem
  BY <1>4, <1>10 DEF ShiftDeclItem, Symbol, Brace, IsBlock
<1>11. CASE ShiftHeader
  BY <1>4, <1>11 DEF ShiftHeader, Symbol, Brace, IsBlock
<1>12. CASE ReduceExtFunc
  <2>1. Brace = 0 /\ IsBlock(Top) = 0
    BY <1>12 DEF ReduceExtFunc, Brace, IsBlock
  <2>2. stack' = Drop(1)
    BY <1>12 DEF ReduceExtFunc
  <2> QED
    BY <1>5, <2>1, <2>2
<1>13. CASE OpenBody
  BY <1>4, <1>13 DEF OpenBody, Symbol, BeforeStmt, Brace, IsBlock
<1>14. CASE ReduceItem
  <2>1. Top = "item" /\ Brace = 0 /\ IsBlock(Top) = 0
    BY <1>14 DEF ReduceItem, Brace, IsBlock
  <2>2. CASE Below \in {"int", "const"}
    <3>1. stack' = Drop(2) /\ IsBlock(Below) = 0
      BY <1>14, <2>2 DEF ReduceItem, IsBlock
    <3>2. C(Drop(2)) = C(stack)
      BY <1>3, <1>6, <1>7, <2>1, <3>1 DEF Drop
    <3> QED
      BY <1>2, <2>1, <3>1, <3>2
  <2>3. CASE Below \notin {"int", "const"}
    <3>1. stack' = Drop(1)
      BY <1>14, <2>3 DEF ReduceItem
    <3> QED
      BY <1>5, <2>1, <3>1
  <2> QED
    BY <2>2, <2>3
<1>15. CASE ShiftStmt
  <2>1. CASE la = ";"
    <3>1. stack' = stack /\ Brace = 0
      BY <1>15, <2>1 DEF ShiftStmt, Brace
    <3> QED
      BY <1>2, <3>1
  <2>2. CASE la = "{"
    BY <1>4, <1>15, <2>2 DEF ShiftStmt, Symbol, BeforeStmt, Brace, IsBlock
  <2>3. CASE la \notin {";", "{"}
    BY <1>4, <1>15, <2>3 DEF ShiftStmt, StmtStart, Symbol, BeforeStmt, Brace, IsBlock
  <2> QED
    BY <2>1, <2>2, <2>3
<1>16. CASE ReduceBlock
  <2>1. Top = "block" /\ Brace = -1 /\ IsBlock(Top) = 1
    BY <1>16 DEF ReduceBlock, Brace, IsBlock
  <2>2. CASE Below = "header"
    <3>1. stack' = Drop(3) /\ IsBlock(Below) = 0
      BY <1>16, <2>2 DEF ReduceBlock, IsBlock
    <3>2. k - 1 \in 2 .. k /\ stack[k - 2] = "int"
      <4>1. k - 1 \in 2 .. k
        BY <1>1, <1>7, <2>1, <2>2 DEF Below
      <4>2. stack[k - 1 - 1] \in Under(Below)
        BY <1>1, <4>1 DEF Linked, Below
      <4> QED
        BY <1>1, <2>2, <4>1, <4>2 DEF Under
    <3>3. k - 3 \in 0 .. k - 1 /\ k - 3 + 1 = k - 2
      BY <1>1, <3>2
    <3>4. /\ C(SubSeq(stack, 1, k - 3)) \in Nat
          /\ C(SubSeq(stack, 1, k - 2)) = C(SubSeq(stack, 1, k - 3)) + IsBlock("int")
      BY <1>1, <3>2, <3>3, DropCounts
    <3>5. C(stack) = C(Drop(3)) + 1
      BY <1>3, <1>6, <1>7, <2>1, <3>1, <3>4 DEF Drop, IsBlock
    <3>6. C(stack') = C(stack) + Brace
      BY <1>2, <2>1, <3>1, <3>4, <3>5 DEF Drop
    <3> QED
      BY <3>6
  <2>3. CASE Below # "header"
    <3>1. stack' = Drop(1)
      BY <1>16, <2>3 DEF ReduceBlock
    <3> QED
      BY <1>5, <2>1, <3>1
  <2> QED
    BY <2>2, <2>3
<1>17. CASE ShiftElse
  <2>1. PICK x \in {"else", "elseOpen"} : stack' = Append(Drop(1), x)
    BY <1>17 DEF ShiftElse
  <2>2. Brace = 0 /\ IsBlock(Top) = 0 /\ IsBlock(x) = 0 /\ x \in Symbol
    BY <1>17 DEF ShiftElse, Brace, IsBlock, Symbol, BeforeStmt
  <2>3. Drop(1) \in Seq(Symbol)
    BY <1>1, <1>2, DropCounts DEF Drop
  <2>4. C(stack') = C(Drop(1)) + 0
    BY <2>1, <2>2, <2>3, PushCounts
  <2> QED
    BY <1>2, <1>3, <2>2, <2>4 DEF Drop
<1> QED
  BY <1>8, <1>9, <1>10, <1>11, <1>12, <1>13, <1>14, <1>15, <1>16, <1>17

(* A statement is reduced behind something that is no block.                 *)
LEMMA ReductionsCount ==
  ASSUME Inv, ReduceStmt \/ ReduceIf
  PROVE  Cardinality(Blocks(stack')) = Cardinality(Blocks(stack))
<1> DEFINE C(s) == Cardinality(Blocks(s))
           k == Len(stack)
<1>1. stack \in Seq(Symbol) /\ k \in Nat /\ k >= 1
  BY DEF Inv, StackOK, Grounded
<1>2. ASSUME Top # "block"
      PROVE  Drop(1) \in Seq(Symbol) /\ C(Drop(1)) = C(stack)
  <2>1. k - 1 \in 0 .. k - 1 /\ k - 1 + 1 = k /\ SubSeq(stack, 1, k) = stack
    BY <1>1
  <2>2. IsBlock(stack[k]) = 0
    BY <1>2 DEF IsBlock, Top
  <2>3. /\ SubSeq(stack, 1, k - 1) \in Seq(Symbol)
        /\ C(SubSeq(stack, 1, k - 1)) \in Nat
        /\ C(stack) = C(SubSeq(stack, 1, k - 1)) + IsBlock(stack[k])
    BY <1>1, <2>1, DropCounts
  <2>4. C(stack) = C(SubSeq(stack, 1, k - 1))
    BY <2>2, <2>3
  <2> QED
    BY <2>3, <2>4 DEF Drop
<1>3. ASSUME NEW x \in {"then", "thenOpen"}, Top # "block", stack' = Append(Drop(1), x)
      PROVE  C(stack') = C(stack)
  <2>1. x \in Symbol /\ IsBlock(x) = 0
    BY DEF Symbol, IsBlock
  <2>2. C(stack') = C(Drop(1)) + 0 /\ C(stack) \in Nat
    BY <1>1, <1>2, <1>3, <2>1, PushCounts, BlocksCounted
  <2> QED
    BY <1>2, <1>3, <2>2
<1>4. CASE ReduceStmt
  BY <1>2, <1>3, <1>4 DEF ReduceStmt
<1>5. CASE ReduceIf
  BY <1>2, <1>5 DEF ReduceIf
<1> QED
  BY <1>4, <1>5

(* Above the last symbol that takes an error there is no block.              *)
LEMMA CutCounts ==
  ASSUME NEW s \in Seq(Symbol), NEW m \in 1 .. Len(s),
         \A i \in m + 1 .. Len(s) : s[i] # "block"
  PROVE  SubSeq(s, 1, m) \in Seq(Symbol) /\ Blocks(SubSeq(s, 1, m)) = Blocks(s)
BY DEF Blocks

LEMMA ErrorsCount ==
  ASSUME Inv, SyntaxError
  PROVE  Cardinality(Blocks(stack')) = Cardinality(Blocks(stack))
<1> DEFINE takers == {i \in DOMAIN stack : stack[i] \in TakesError}
<1>1. stack \in Seq(Symbol) /\ Len(stack) \in Nat
  BY DEF Inv, StackOK
<1>2. CASE stack' = stack
  BY <1>2
<1>3. CASE takers # {} /\ stack' = Append(SubSeq(stack, 1, Max(takers)), "error")
  <2>1. takers \in SUBSET (1 .. Len(stack))
    BY <1>1
  <2>2. PICK m \in takers : \A j \in takers : j <= m
    <3> HIDE DEF takers
    <3> QED
      BY <1>1, <1>3, <2>1, LargestExists
  <2>3. m = Max(takers) /\ m \in 1 .. Len(stack)
    <3>1. \A j \in takers : m >= j /\ j \in 1 .. Len(stack)
      BY <2>1, <2>2
    <3> HIDE DEF takers
    <3>2. Max(takers) \in takers /\ \A j \in takers : Max(takers) >= j
      BY <3>1 DEF Max
    <3> QED
      BY <3>1, <3>2
  <2>4. ASSUME NEW i \in m + 1 .. Len(stack) PROVE stack[i] # "block"
    <3>1. i \notin takers /\ i \in DOMAIN stack
      <4> HIDE DEF takers
      <4> QED
        BY <1>1, <2>2, <2>3
    <3> QED
      BY <3>1 DEF TakesError, BeforeStmt
  <2>5. SubSeq(stack, 1, m) \in Seq(Symbol) /\ Blocks(SubSeq(stack, 1, m)) = Blocks(stack)
    BY <1>1, <2>3, <2>4, CutCounts
  <2>6. Cardinality(Blocks(Append(SubSeq(stack, 1, m), "error"))) = Cardinality(Blocks(stack)) + 0
    <3>1. "error" \in Symbol /\ IsBlock("error") = 0
      BY DEF Symbol, IsBlock
    <3> QED
      BY <2>5, <3>1, PushCounts
  <2> QED
    BY <1>1, <1>3, <2>3, <2>6, BlocksCounted
<1> QED
  BY <1>2, <1>3 DEF SyntaxError

LEMMA RecoveryCounts ==
  ASSUME Inv, ShapeInv, Recover
  PROVE  Cardinality(Blocks(stack')) = Cardinality(Blocks(stack))
<1> DEFINE k == Len(stack)
<1>1. stack \in Seq(Symbol) /\ k \in Nat /\ k >= 1 /\ stack[1] = "unit" /\ Linked(stack)
  BY DEF Inv, StackOK, Grounded, ShapeInv
<1>2. stack[k] = "error" /\ k - 1 \in 1 .. k
  BY <1>1 DEF Recover, RecoverWith, Top
<1>3. ASSUME NEW m \in 1 .. k, stack' = SubSeq(stack, 1, m),
             \A i \in m + 1 .. k : stack[i] # "block"
      PROVE  Cardinality(Blocks(stack')) = Cardinality(Blocks(stack))
  BY <1>1, <1>3, CutCounts
<1>4. CASE Below \in {"int", "const"} /\ stack' = Drop(2)
  <2>1. k - 2 \in 1 .. k
    BY <1>1, <1>2, <1>4 DEF Below
  <2>2. \A i \in k - 1 .. k : stack[i] # "block"
    BY <1>1, <1>2, <1>4 DEF Below
  <2> QED
    BY <1>1, <1>3, <1>4, <2>1, <2>2 DEF Drop
<1>5. CASE Below = "header" /\ stack' = Drop(3)
  <2>1. k - 1 \in 2 .. k /\ stack[k - 1] = "header"
    BY <1>1, <1>2, <1>5 DEF Below
  <2>2. stack[k - 2] = "int"
    <3>1. stack[k - 1 - 1] \in Under(stack[k - 1])
      BY <2>1, <1>1 DEF Linked
    <3> QED
      BY <1>1, <2>1, <3>1 DEF Under
  <2>3. k - 3 \in 1 .. k
    BY <1>1, <2>1, <2>2
  <2>4. \A i \in k - 2 .. k : stack[i] # "block"
    BY <1>1, <1>2, <2>1, <2>2
  <2> QED
    BY <1>1, <1>3, <1>5, <2>3, <2>4 DEF Drop
<1>6. CASE stack' = Drop(1)
  <2>1. \A i \in k .. k : stack[i] # "block"
    BY <1>2
  <2> QED
    BY <1>1, <1>2, <1>3, <1>6, <2>1 DEF Drop
<1> QED
  BY <1>4, <1>5, <1>6 DEF Recover, RecoverWith
-----------------------------------------------------------------------------
(* While there is a tree, every brace used opened or closed a block; an      *)
(* input is accepted with nothing but the unit on the stack.                 *)
BraceInv == root => /\ depth = Cardinality(Blocks(stack))
                    /\ result = "accepted" => depth = 0 /\ errstatus = 0 /\ goto = "none"
DepthInv == depth \in Int

LEMMA BraceInit == Init => BraceInv
<1> SUFFICES ASSUME Init PROVE BraceInv
  OBVIOUS
<1>1. Blocks(stack) = {}
  BY DEF Init, Blocks
<1> QED
  BY <1>1, FS_EmptySet DEF Init, BraceInv

LEMMA ShiftsBrace ==
  ASSUME Inv, ShapeInv, BraceInv,
         \/ ShiftUnit \/ ShiftLocalDecl \/ ShiftDeclItem \/ ShiftHeader
         \/ ReduceExtFunc \/ OpenBody \/ ReduceItem \/ ShiftStmt \/ ReduceBlock
         \/ ShiftElse
  PROVE  BraceInv'
<1>1. Shift
  BY DEF ShiftUnit, ShiftLocalDecl, ShiftDeclItem, ShiftHeader, ReduceExtFunc,
         OpenBody, ReduceItem, ShiftStmt, ReduceBlock, ShiftElse
<1>2. Cardinality(Blocks(stack')) = Cardinality(Blocks(stack)) + Brace
  BY ShiftsCount
<1> QED
  BY <1>1, <1>2 DEF Shift, Consume, BraceInv

LEMMA ReductionsBrace ==
  ASSUME Inv, BraceInv, ReduceStmt \/ ReduceIf
  PROVE  BraceInv'
<1>1. result = "running" /\ UNCHANGED <<depth, result>>
  BY DEF ReduceStmt, ReduceIf, Reduced
<1>2. UNCHANGED root \/ ~root'
  BY DEF ReduceStmt, ReduceIf, Unreported, Unmatched, error
<1>3. Cardinality(Blocks(stack')) = Cardinality(Blocks(stack))
  BY ReductionsCount
<1> QED
  BY <1>1, <1>2, <1>3 DEF BraceInv

(* Behind an error there is no tree left to speak of.                        *)
LEMMA ErrorsBrace ==
  ASSUME Inv, SyntaxError \/ Recover
  PROVE  ~root'
<1>1. CASE SyntaxError
  BY <1>1 DEF SyntaxError, error, Inv, TreeOK
<1>2. CASE Recover
  <2>1. stack \in Seq(Symbol) /\ Len(stack) \in 1 .. Len(stack) /\ stack[Len(stack)] = "error"
    BY <1>2 DEF Recover, RecoverWith, Top, Inv, StackOK, Grounded
  <2> QED
    BY <1>2, <2>1 DEF Recover, RecoverWith, Inv, TreeOK, NoError
<1> QED
  BY <1>1, <1>2

LEMMA AcceptBrace ==
  ASSUME Inv, ShapeInv, BraceInv, Accept
  PROVE  BraceInv'
<1>1. Blocks(stack) = {} /\ Top = "unit"
  BY DEF Accept, Blocks, Top
<1>2. Cardinality(Blocks(stack)) = 0
  BY <1>1, FS_EmptySet
<1>3. goto = "none" /\ (root => errstatus = 0)
  BY <1>1 DEF ShapeInv, BeforeStmt, Inv, TreeOK
<1> QED
  BY <1>2, <1>3 DEF Accept, BraceInv

LEMMA BraceNext == Inv /\ ShapeInv /\ BraceInv /\ [Next]_vars => BraceInv'
<1> SUFFICES ASSUME Inv, ShapeInv, BraceInv, [Next]_vars PROVE BraceInv'
  OBVIOUS
<1>1. CASE ReadToken
  BY <1>1 DEF ReadToken, BraceInv
<1>2. CASE SyntaxError \/ Recover
  BY <1>2, ErrorsBrace DEF BraceInv
<1>3. CASE UNCHANGED vars
  BY <1>3 DEF vars, BraceInv
<1> QED
  BY <1>1, <1>2, <1>3, ShiftsBrace, ReductionsBrace, AcceptBrace
     DEF Next, Step, Returned

(* Together they are the inductive invariant of the parser.                  *)
ParserInv == Inv /\ ShapeInv /\ BraceInv /\ DepthInv

LEMMA DepthNext == DepthInv /\ [Next]_vars => DepthInv'
<1> SUFFICES ASSUME DepthInv, [Next]_vars PROVE DepthInv'
  OBVIOUS
<1>1. Brace \in Int
  BY DEF Brace
<1>2. ASSUME UNCHANGED depth \/ Consume PROVE DepthInv'
  <2>1. UNCHANGED depth \/ depth' = depth + Brace
    BY <1>2 DEF Consume
  <2> QED
    BY <1>1, <2>1 DEF DepthInv
<1>3. UNCHANGED depth \/ Consume
  <2>1. Next => UNCHANGED depth \/ Consume
    BY DEF Next, Step, Returned, vars, ReadToken, ShiftUnit, ShiftLocalDecl, ShiftDeclItem,
           ShiftHeader, ReduceExtFunc, OpenBody, ReduceItem, ShiftStmt, ReduceBlock,
           ReduceStmt, ReduceIf, Reduced, ShiftElse, Accept, SyntaxError, Recover,
           RecoverWith, Shift
  <2>2. UNCHANGED vars => UNCHANGED depth
    BY DEF vars
  <2> QED
    BY <2>1, <2>2
<1> QED
  BY <1>2, <1>3

LEMMA ParserInvInit == Init => ParserInv
BY InvInit, ShapeInit, BraceInit DEF ParserInv, DepthInv, Init

LEMMA ParserInvNext == ParserInv /\ [Next]_vars => ParserInv'
BY InvNext, ShapeNext, BraceNext, DepthNext DEF ParserInv

LEMMA ParserInvHolds == Spec => []ParserInv
BY ParserInvInit, ParserInvNext, PTL DEF Spec

(* For every input: a tree is only handed on when the braces of the input    *)
(* are balanced, and until then the blocks the parser has open are the       *)
(* braces the input has open.                                                *)
THEOREM BracesAreBlocks == Spec => []BlocksMatchBraces
<1>1. BraceInv => BlocksMatchBraces
  BY DEF BraceInv, BlocksMatchBraces, OpenBlocks, Blocks
<1>2. ParserInv => BlocksMatchBraces
  BY <1>1 DEF ParserInv
<1> QED
  BY <1>2, ParserInvHolds, PTL

(* A parse is given up only where the unit or an extern stands alone: every  *)
(* other symbol is one that takes an error or stands on one.                 *)
LEMMA GivenUpOutside ==
  ASSUME Inv, ShapeInv, {i \in DOMAIN stack : stack[i] \in TakesError} = {}
  PROVE  stack \in {<<"unit">>, <<"unit", "extern">>}
<1>1. /\ stack \in Seq(Symbol) /\ Len(stack) \in Nat /\ Len(stack) >= 1
      /\ stack[1] = "unit" /\ Linked(stack)
  BY DEF Inv, StackOK, Grounded, ShapeInv
<1>2. ASSUME NEW i \in 2 .. Len(stack)
      PROVE  stack[i] = "extern" /\ stack[i - 1] = "unit"
  <2>1. stack[i - 1] \in Under(stack[i])
    BY <1>1, <1>2 DEF Linked
  <2>2. i \in DOMAIN stack /\ i - 1 \in DOMAIN stack
    BY <1>1
  <2>3. stack[i] \notin TakesError /\ stack[i - 1] \notin TakesError /\ stack[i] \in Symbol
    BY <1>1, <2>2
  <2> QED
    BY <2>1, <2>3 DEF Under, TakesError, Symbol
<1>3. CASE Len(stack) = 1
  BY <1>1, <1>3
<1>4. CASE Len(stack) >= 2
  <2>1. stack[2] = "extern"
    BY <1>1, <1>2, <1>4
  <2>2. Len(stack) < 3
    <3> SUFFICES ASSUME ~(Len(stack) < 3) PROVE FALSE
      OBVIOUS
    <3>1. 3 \in 2 .. Len(stack)
      BY <1>1
    <3>2. stack[3 - 1] = "unit"
      BY <1>2, <3>1
    <3> QED
      BY <2>1, <3>2
  <2>3. stack = <<"unit", "extern">>
    <3>1. Len(stack) = 2
      <4>1. PICK n \in Nat : n = Len(stack)
        BY <1>1
      <4>2. n >= 2 /\ n < 3
        BY <1>4, <2>2, <4>1
      <4>3. n = 2
        BY <4>2
      <4> QED
        BY <4>1, <4>3
    <3>2. Len(<<"unit", "extern">>) = 2 /\ <<"unit", "extern">> \in Seq(Symbol)
      BY DEF Symbol
    <3>3. \A i \in 1 .. Len(stack) : stack[i] = <<"unit", "extern">>[i]
      BY <1>1, <2>1, <3>1
    <3> QED
      BY <1>1, <3>1, <3>2, <3>3, SeqEqual
  <2> QED
    BY <2>3
<1>5. Len(stack) = 1 \/ Len(stack) >= 2
  BY <1>1
<1> QED
  BY <1>3, <1>4, <1>5

(* For every input: outside a recovery each brace read opens or closes a     *)
(* block, also after errors; a recovery opens and closes none; and the parse *)
(* is only given up at the end or outside every definition.                  *)
THEOREM RecoveryIsInPlace == Spec => RecoversInPlace
<1> DEFINE C(s) == Cardinality(Blocks(s))
           InPlace == /\ C(stack') - C(stack) = IF Top = "error" THEN 0 ELSE depth' - depth
                      /\ result' = "aborted" => \/ la = "END"
                                                \/ stack \in {<<"unit">>, <<"unit", "extern">>}
<1>1. ASSUME ParserInv, Next PROVE InPlace \/ UNCHANGED vars
  <2>1. C(stack) \in Nat /\ depth \in Int
    BY <1>1, BlocksCounted DEF ParserInv, Inv, StackOK, DepthInv
  <2>2. CASE \/ ShiftUnit \/ ShiftLocalDecl \/ ShiftDeclItem \/ ShiftHeader
             \/ ReduceExtFunc \/ OpenBody \/ ReduceItem \/ ShiftStmt \/ ReduceBlock
             \/ ShiftElse
    <3>1. Shift /\ Top # "error"
      BY <2>2 DEF ShiftUnit, ShiftLocalDecl, ShiftDeclItem, ShiftHeader, ReduceExtFunc,
         OpenBody, ReduceItem, ShiftStmt, ReduceBlock, ShiftElse, BeforeStmt
    <3>2. depth' = depth + Brace /\ result' # "aborted" /\ Brace \in Int
      <4>1. depth' = depth + Brace
        BY <3>1 DEF Shift, Consume
      <4>2. result' = "running"
        BY <3>1 DEF Shift
      <4>3. Brace \in Int
        BY DEF Brace
      <4> QED
        BY <4>1, <4>2, <4>3
    <3>3. C(stack') = C(stack) + Brace
      BY <1>1, <2>2, ShiftsCount DEF ParserInv
    <3> QED
      BY <2>1, <3>1, <3>2, <3>3
  <2>3. CASE ReduceStmt \/ ReduceIf
    <3>1. C(stack') = C(stack)
      BY <1>1, <2>3, ReductionsCount DEF ParserInv
    <3>2. depth' = depth /\ result' # "aborted"
      BY <2>3 DEF ReduceStmt, ReduceIf, Reduced
    <3> QED
      BY <2>1, <3>1, <3>2
  <2>4. CASE ReadToken \/ Accept
    <3>1. UNCHANGED <<stack, depth>> /\ result' # "aborted"
      BY <2>4 DEF ReadToken, Accept
    <3> QED
      BY <2>1, <3>1
  <2>5. CASE SyntaxError
    <3>1. C(stack') = C(stack)
      BY <1>1, <2>5, ErrorsCount DEF ParserInv
    <3>2. Top # "error" => depth' = depth
      <4>1. Top # "error" => errstatus # 3
        BY <1>1 DEF ParserInv, ShapeInv
      <4> QED
        BY <2>5, <4>1 DEF SyntaxError
    <3>3. result' = "aborted" => \/ la = "END"
                                \/ {i \in DOMAIN stack : stack[i] \in TakesError} = {}
      BY <2>5 DEF SyntaxError
    <3>4. result' = "aborted" => \/ la = "END"
                                \/ stack \in {<<"unit">>, <<"unit", "extern">>}
      BY <1>1, <3>3, GivenUpOutside DEF ParserInv
    <3> QED
      BY <2>1, <3>1, <3>2, <3>4
  <2>6. CASE Recover
    <3>1. C(stack') = C(stack)
      BY <1>1, <2>6, RecoveryCounts DEF ParserInv
    <3>2. Top = "error" /\ result' # "aborted"
      BY <2>6 DEF Recover, RecoverWith
    <3> QED
      BY <2>1, <3>1, <3>2
  <2> QED
    BY <1>1, <2>2, <2>3, <2>4, <2>5, <2>6 DEF Next, Step, Returned
<1>2. C(stack) = OpenBlocks /\ C(stack') = OpenBlocks'
  BY DEF OpenBlocks, Blocks
<1>3. ParserInv /\ [Next]_vars =>
        [/\ OpenBlocks' - OpenBlocks = IF Top = "error" THEN 0 ELSE depth' - depth
         /\ result' = "aborted" => la = "END" \/ stack \in {<<"unit">>, <<"unit", "extern">>}]_vars
  <2> SUFFICES ASSUME ParserInv, Next, ~ UNCHANGED vars
               PROVE  /\ OpenBlocks' - OpenBlocks = IF Top = "error" THEN 0 ELSE depth' - depth
                      /\ result' = "aborted" => la = "END" \/ stack \in {<<"unit">>, <<"unit", "extern">>}
    OBVIOUS
  <2>1. InPlace
    BY <1>1
  <2> HIDE DEF C
  <2> QED
    BY <1>2, <2>1
<1> QED
  BY <1>3, ParserInvHolds, PTL DEF Spec, RecoversInPlace
=============================================================================
