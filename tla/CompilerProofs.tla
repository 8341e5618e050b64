---------------------------- MODULE CompilerProofs ----------------------------
(* Theorems about Compiler, for every list of arguments, size of the source  *)
(* and of the buffer.  What ParserProofs establishes of a parser holds of    *)
(* the one in the compiler, as each step of the compiler is a step of it or  *)
(* leaves it alone.                                                          *)
EXTENDS Compiler, IntervalProofs, TLAPS

PP == INSTANCE ParserProofs

LEMMA SameParser == (P!Step <=> PP!Step) /\ (P!Init <=> PP!Init)
<1>1. /\ P!Top = PP!Top /\ P!Below = PP!Below /\ P!BeforeStmt = PP!BeforeStmt
      /\ P!StmtStart = PP!StmtStart /\ P!Token = PP!Token
      /\ P!TakesError = PP!TakesError
      /\ \A n : P!Drop(n) = PP!Drop(n)
      /\ \A x : P!Push(x) = PP!Push(x)
      /\ \A b : P!RecoversAt(b) = PP!RecoversAt(b)
  BY DEF P!Top, PP!Top, P!Below, PP!Below, P!BeforeStmt, PP!BeforeStmt,
         P!StmtStart, PP!StmtStart, P!Token, PP!Token, P!TakesError, PP!TakesError,
         P!Drop, PP!Drop, P!Push, PP!Push, P!RecoversAt, PP!RecoversAt
<1>2. P!Expected = PP!Expected
  BY <1>1 DEF P!Expected, PP!Expected
<1>3. \A S : P!Max(S) = PP!Max(S)
  BY DEF P!Max, PP!Max
<1>4. /\ P!Consume <=> PP!Consume
      /\ P!Shift <=> PP!Shift
      /\ P!error <=> PP!error
      /\ P!Reduced <=> PP!Reduced
      /\ P!Unreported <=> PP!Unreported
      /\ P!Unmatched <=> PP!Unmatched
  BY DEF P!Consume, PP!Consume, P!Brace, PP!Brace, P!Shift, PP!Shift, P!error, PP!error,
         P!Reduced, PP!Reduced, P!Unreported, PP!Unreported, P!Unmatched, PP!Unmatched
<1>5. P!SyntaxError <=> PP!SyntaxError
  BY <1>1, <1>2, <1>3, <1>4 DEF P!SyntaxError, PP!SyntaxError
<1>6. P!Recover <=> PP!Recover
  BY <1>1, <1>4 DEF P!Recover, PP!Recover, P!RecoverWith, PP!RecoverWith
<1>7. /\ P!ReadToken <=> PP!ReadToken
      /\ P!ShiftUnit <=> PP!ShiftUnit
      /\ P!ShiftLocalDecl <=> PP!ShiftLocalDecl
      /\ P!ShiftDeclItem <=> PP!ShiftDeclItem
      /\ P!ShiftHeader <=> PP!ShiftHeader
      /\ P!ReduceExtFunc <=> PP!ReduceExtFunc
      /\ P!OpenBody <=> PP!OpenBody
      /\ P!ReduceItem <=> PP!ReduceItem
      /\ P!ShiftStmt <=> PP!ShiftStmt
      /\ P!ReduceBlock <=> PP!ReduceBlock
      /\ P!ReduceStmt <=> PP!ReduceStmt
      /\ P!ShiftElse <=> PP!ShiftElse
      /\ P!ReduceIf <=> PP!ReduceIf
      /\ P!Accept <=> PP!Accept
  BY <1>1, <1>4 DEF P!ReadToken, PP!ReadToken, P!ShiftUnit, PP!ShiftUnit,
         P!ShiftLocalDecl, PP!ShiftLocalDecl, P!ShiftDeclItem, PP!ShiftDeclItem,
         P!ShiftHeader, PP!ShiftHeader, P!ReduceExtFunc, PP!ReduceExtFunc,
         P!OpenBody, PP!OpenBody, P!ReduceItem, PP!ReduceItem,
         P!ShiftStmt, PP!ShiftStmt, P!ReduceBlock, PP!ReduceBlock,
         P!ReduceStmt, PP!ReduceStmt, P!ShiftElse, PP!ShiftElse,
         P!ReduceIf, PP!ReduceIf, P!Accept, PP!Accept
<1>8. P!Init <=> PP!Init
  BY DEF P!Init, PP!Init
<1> QED
  BY <1>5, <1>6, <1>7, <1>8 DEF P!Step, PP!Step

(* A step of the compiler is one of the parser or leaves it alone.           *)
LEMMA ParserSteps == Next => P!Step \/ UNCHANGED parsing
BY DEF Next, Step, Ended, vars, parse, Reading, Parsed, OutputOption, EmitOption,
       DebugOption, HelpOption, UnknownOption, SourceArgument, Begin, ReadSource,
       OnlyCheck, GiveUp, codegen

LEMMA ParserInvKept == PP!ParserInv /\ (P!Step \/ UNCHANGED parsing) => PP!ParserInv'
<1>1. PP!ParserAssumption
  BY CompilerAssumption DEF PP!ParserAssumption
<1>2. P!Step \/ UNCHANGED parsing => [PP!Next]_(PP!vars)
  BY SameParser DEF PP!Next, PP!vars, parsing
<1>3. PP!ParserInv /\ [PP!Next]_(PP!vars) => PP!ParserInv'
  BY <1>1, PP!ParserInvNext
<1> QED
  BY <1>2, <1>3

(* The parser in the compiler is the parser of Parser: no step of main, of   *)
(* the driver or of the code generator touches its state in another way.     *)
THEOREM CompilerRunsTheParser == Spec => PP!Init /\ [][PP!Next]_(PP!vars)
<1>1. Init => PP!Init
  BY SameParser DEF Init
<1>2. [Next]_vars => [PP!Next]_(PP!vars)
  BY ParserSteps, SameParser DEF PP!Next, PP!vars, parsing, vars
<1> QED
  BY <1>1, <1>2, PTL DEF Spec
-----------------------------------------------------------------------------
(* Why OutputIsWhole holds: the file is written from an accepted tree, a     *)
(* tree is accepted behind the end of the input, and the end is met where    *)
(* the text of the stream ends.                                              *)
FileInv == disk = "module" => /\ phase = "exited" /\ settings.emit
                              /\ root /\ result = "accepted"
TextInv == /\ phase \in {"arguments", "driver"} => la = "none" /\ result = "running"
           /\ phase = "codegen" => result # "running"
           /\ result = "accepted" => la = "END"
           /\ la = "END" => count = text
           /\ size < BUFSIZE /\ ~zero => text = size
CompilerInv == PP!ParserInv /\ TextInv /\ FileInv

(* The end of the input is read once and never given back.                   *)
LEMMA EndStays ==
  ASSUME P!Step
  PROVE  /\ result = "running"
         /\ la' = "END" /\ la # "none" => la = "END" /\ count' = count
         /\ result' = "accepted" => la' = "END"
<1>1. P!Shift => result = "running" /\ result' = "running" /\ la' = "none"
  BY DEF P!Shift, P!Consume
<1>2. P!ReadToken => result = "running" /\ result' = "running" /\ la = "none"
  BY DEF P!ReadToken
<1>3. P!ReduceStmt \/ P!ReduceIf => result = "running" /\ UNCHANGED <<la, count, result>>
  BY DEF P!ReduceStmt, P!ReduceIf, P!Reduced
<1>4. P!Accept => result = "running" /\ la = "END" /\ UNCHANGED <<la, count>>
  BY DEF P!Accept
<1>5. P!SyntaxError => /\ result = "running" /\ result' # "accepted"
                       /\ la' = "none" \/ UNCHANGED <<la, count>>
  BY DEF P!SyntaxError, P!Consume
<1>6. P!Recover => result = "running" /\ result' # "accepted" /\ la' = "none"
  BY DEF P!Recover, P!RecoverWith, P!Consume
<1> QED
  BY <1>1, <1>2, <1>3, <1>4, <1>5, <1>6
     DEF P!Step, P!ShiftUnit, P!ShiftLocalDecl, P!ShiftDeclItem, P!ShiftHeader,
         P!ReduceExtFunc, P!OpenBody, P!ReduceItem, P!ShiftStmt, P!ReduceBlock, P!ShiftElse

LEMMA CompilerInit == Init => CompilerInv
<1> SUFFICES ASSUME Init PROVE CompilerInv
  OBVIOUS
<1>1. PP!ParserAssumption
  BY CompilerAssumption DEF PP!ParserAssumption
<1>2. PP!ParserInv
  BY <1>1, SameParser, PP!ParserInvInit DEF Init
<1>3. la = "none" /\ result = "running"
  BY DEF Init, P!Init
<1> QED
  BY <1>2, <1>3 DEF Init, CompilerInv, TextInv, FileInv

LEMMA TextNext == TextInv /\ [Next]_vars => TextInv'
<1> SUFFICES ASSUME TextInv, [Next]_vars PROVE TextInv'
  OBVIOUS
<1>1. CASE ReadSource
  <2>1. la' = "none" /\ result' = "running" /\ phase' = "parse"
    BY <1>1 DEF ReadSource, parsing, TextInv
  <2>2. size' < BUFSIZE /\ ~zero' => text' = size'
    BY <1>1 DEF ReadSource, Held
  <2> QED
    BY <2>1, <2>2 DEF TextInv
<1>2. CASE parse
  <2>1. P!Step /\ UNCHANGED <<size, zero, text>>
    BY <1>2 DEF parse, source
  <2>2. phase' \in {"parse", "died", "codegen"} /\ (phase' = "codegen" => result' # "running")
    BY <1>2 DEF parse
  <2>3. la' = "END" => count' = text
    <3>1. CASE la = "none"
      BY <1>2, <3>1, <2>1 DEF parse, P!Step, P!ReadToken, P!ReduceStmt, P!ReduceIf,
            P!Reduced, P!Accept, P!SyntaxError, P!Recover, P!RecoverWith, P!Shift, P!Consume,
            P!ShiftUnit, P!ShiftLocalDecl, P!ShiftDeclItem, P!ShiftHeader,
            P!ReduceExtFunc, P!OpenBody, P!ReduceItem, P!ShiftStmt, P!ReduceBlock, P!ShiftElse
    <3>2. CASE la # "none"
      BY <2>1, <3>2, EndStays DEF TextInv
    <3> QED
      BY <3>1, <3>2
  <2> QED
    BY <2>1, <2>2, <2>3, EndStays DEF TextInv
<1>3. CASE Begin
  BY <1>3 DEF Begin, Exit, source, parsing, TextInv
<1>4. CASE OutputOption \/ EmitOption \/ DebugOption \/ HelpOption \/ UnknownOption
           \/ SourceArgument
  <2>1. phase' \in {phase, "exited"} /\ UNCHANGED <<source, parsing>>
    BY <1>4 DEF OutputOption, EmitOption, DebugOption, HelpOption, UnknownOption,
                SourceArgument, Reading, PrintUsage, Take, Exit
  <2> QED
    BY <2>1 DEF source, parsing, TextInv
<1>5. CASE OnlyCheck \/ GiveUp \/ codegen
  <2>1. phase' \in {"exited", "died"} /\ UNCHANGED <<source, parsing>>
    BY <1>5 DEF OnlyCheck, GiveUp, codegen, Parsed, Exit
  <2> QED
    BY <2>1 DEF source, parsing, TextInv
<1>6. CASE UNCHANGED vars
  BY <1>6 DEF vars, source, parsing, TextInv
<1> QED
  BY <1>1, <1>2, <1>3, <1>4, <1>5, <1>6 DEF Next, Step, Ended

(* Only codegen writes the file, and nothing happens behind it.              *)
LEMMA FileNext == PP!ParserInv /\ TextInv /\ FileInv /\ [Next]_vars => FileInv'
<1> SUFFICES ASSUME PP!ParserInv, TextInv, FileInv, [Next]_vars PROVE FileInv'
  OBVIOUS
<1>1. CASE codegen
  <2>1. result = "accepted"
    BY <1>1 DEF codegen, Parsed, TextInv, PP!ParserInv, PP!Inv, PP!TreeOK
  <2> QED
    BY <1>1, <2>1 DEF codegen, Parsed, Exit, parsing, FileInv
<1>2. CASE Step /\ ~codegen
  <2>1. UNCHANGED disk /\ phase # "exited"
    BY <1>2 DEF Step, OutputOption, EmitOption, DebugOption, HelpOption, UnknownOption,
                SourceArgument, Reading, Begin, ReadSource, parse, OnlyCheck, GiveUp, Parsed
  <2> QED
    BY <2>1 DEF FileInv
<1>3. CASE UNCHANGED vars
  BY <1>3 DEF vars, parsing, FileInv
<1> QED
  BY <1>1, <1>2, <1>3 DEF Next, Ended

(* For every list of arguments, buffer and source: what is in the output     *)
(* file is the code of a tree without errors, null links or open braces,     *)
(* and, when the source fits the buffer and no byte of it is 0, of all of    *)
(* the source.                                                               *)
THEOREM WholeProgramsOnly == Spec => []OutputIsWhole
<1>1. Init => CompilerInv
  BY CompilerInit
<1>2. CompilerInv /\ [Next]_vars => CompilerInv'
  <2> SUFFICES ASSUME CompilerInv, [Next]_vars PROVE CompilerInv'
    OBVIOUS
  <2>1. P!Step \/ UNCHANGED parsing
    BY ParserSteps DEF vars
  <2> QED
    BY <2>1, ParserInvKept, TextNext, FileNext DEF CompilerInv
<1>3. CompilerInv => OutputIsWhole
  <2> SUFFICES ASSUME CompilerInv, disk = "module" PROVE OutputIsWhole
    BY DEF OutputIsWhole
  <2>1. settings.emit /\ root /\ result = "accepted"
    BY DEF CompilerInv, FileInv
  <2>2. reports = 0 /\ ~nullLink
    BY <2>1 DEF CompilerInv, PP!ParserInv, PP!Inv, PP!TreeOK
  <2>3. depth = 0
    BY <2>1 DEF CompilerInv, PP!ParserInv, PP!BraceInv
  <2>4. size < BUFSIZE /\ ~zero => count = size
    BY <2>1 DEF CompilerInv, TextInv
  <2> QED
    BY <2>1, <2>2, <2>3, <2>4 DEF OutputIsWhole
<1> QED
  BY <1>1, <1>2, <1>3, PTL DEF Spec
-----------------------------------------------------------------------------
(* The arguments.  The recursive definition has a value: an argument is a    *)
(* value if the one before it is a -o that is none itself.                   *)
LEMMA ValueFollows ==
  \A i \in Nat : Value[i] <=> i > 1 /\ argv[i - 1] = "-o" /\ ~Value[i - 1]
<1> DEFINE Bit == {0, 1}
           T == [i \in Nat |-> [b \in Bit |-> IF i > 1 /\ argv[i - 1] = "-o" /\ b = 0 THEN 1 ELSE 0]]
           Body(f) == [i \in Nat |-> i > 1 /\ argv[i - 1] = "-o" /\ ~f[i - 1]]
<1>1. T \in [Nat -> [Bit -> Bit]] /\ 0 \in Bit
  OBVIOUS
<1>2. \A i \in Nat, b \in Bit :
        T[i][b] = IF i > 1 /\ argv[i - 1] = "-o" /\ b = 0 THEN 1 ELSE 0
  OBVIOUS
<1> HIDE DEF T, Bit
<1>3. PICK f \in [Nat -> Bit] : f[0] = 0 /\ \A i \in Nat \ {0} : f[i] = T[i][f[i - 1]]
  BY <1>1, RecursionExists
<1> DEFINE F == [i \in Nat |-> f[i] = 1]
<1>4. ASSUME NEW i \in Nat
      PROVE  F[i] <=> i > 1 /\ argv[i - 1] = "-o" /\ ~F[i - 1]
  <2>1. CASE i = 0
    <3>1. F[0] <=> f[0] = 1
      OBVIOUS
    <3>2. ~F[0] /\ ~(0 > 1)
      BY <1>3, <3>1
    <3> QED
      BY <2>1, <3>2
  <2>2. CASE i # 0
    <3>1. i \in Nat \ {0} /\ i - 1 \in Nat /\ f[i - 1] \in Bit
      BY <1>3, <2>2
    <3>2. f[i] = IF i > 1 /\ argv[i - 1] = "-o" /\ f[i - 1] = 0 THEN 1 ELSE 0
      BY <1>2, <1>3, <3>1
    <3>3. (F[i] <=> f[i] = 1) /\ (F[i - 1] <=> f[i - 1] = 1)
      BY <3>1
    <3> QED
      BY <3>1, <3>2, <3>3 DEF Bit
  <2> QED
    BY <2>1, <2>2
<1>5. F = Body(F)
  <2>1. \A i \in Nat : F[i] = (i > 1 /\ argv[i - 1] = "-o" /\ ~F[i - 1])
    BY <1>4
  <2>2. F = [i \in Nat |-> F[i]]
    OBVIOUS
  <2> HIDE DEF F
  <2> QED
    BY <2>1, <2>2, Zenon
<1>6. Value = CHOOSE g : g = Body(g)
  BY DEF Value
<1> HIDE DEF Body, F
<1>7. Value = Body(Value)
  BY <1>5, <1>6
<1> QED
  BY <1>7 DEF Body

(* What main has made of the arguments it has read.                          *)
Read(where) == {i \in where : i < next}
Values == {i \in DOMAIN argv : Value[i]}
NoName == ""
ArgvOK == /\ argv \in Seq(STRING) /\ next \in 1 .. Len(argv) + 1
          /\ settings = [input |-> settings.input, output |-> settings.output,
                         emit |-> settings.emit, level |-> settings.level]
          /\ settings.emit \in BOOLEAN
ReadSoFar == phase = "arguments" =>
               /\ ~Value[next]
               /\ \A i \in Mistakes \cup Helps : i >= next
               /\ settings.input = LastOf(Read(Sources))
               /\ settings.output = LastOf(Read(Values))
               /\ settings.emit <=> Read(At({"-S"})) # {}
               /\ settings.level = "Debug" <=> Read(At({"-d"})) # {}
ArgInv == ArgvOK /\ ReadSoFar /\ ArgumentsUnderstood

LEMMA Extremes ==
  ASSUME NEW S \in SUBSET Nat, NEW m \in S
  PROVE  /\ (\A i \in S : i <= m) => Max(S) = m
         /\ (\A i \in S : m <= i) => Min(S) = m
<1>1. ASSUME \A i \in S : i <= m PROVE Max(S) = m
  <2>1. \A y \in S : m >= y
    BY <1>1
  <2>2. Max(S) \in S /\ \A y \in S : Max(S) >= y
    BY <2>1 DEF Max
  <2>3. PICK x \in S : x = Max(S)
    BY <2>2
  <2>4. x <= m /\ x >= m /\ x \in Nat /\ m \in Nat
    BY <1>1, <2>2, <2>3
  <2> QED
    BY <2>3, <2>4
<1>2. ASSUME \A i \in S : m <= i PROVE Min(S) = m
  <2>1. Min(S) \in S /\ \A y \in S : Min(S) =< y
    BY <1>2 DEF Min
  <2>2. PICK x \in S : x = Min(S)
    BY <2>1
  <2>3. x <= m /\ x >= m /\ x \in Nat /\ m \in Nat
    BY <1>2, <2>1, <2>2
  <2> QED
    BY <2>2, <2>3
<1> QED
  BY <1>1, <1>2

LEMMA Last == \A S : LastOf(S) = IF S = {} THEN NoName ELSE argv[Max(S)]
BY Zenon DEF LastOf, NoName

(* What is read off the list is about positions of the list.                 *)
LEMMA Positions ==
  ASSUME ArgvOK
  PROVE  /\ Len(argv) \in Nat /\ DOMAIN argv = 1 .. Len(argv) /\ next \in Nat
         /\ \A W : At(W) \subseteq 1 .. Len(argv)
         /\ Sources \subseteq 1 .. Len(argv) /\ Values \subseteq 1 .. Len(argv)
         /\ Mistakes \subseteq 1 .. Len(argv) /\ Helps \subseteq 1 .. Len(argv)
BY DEF ArgvOK, At, Sources, Values, Mistakes, Helps

(* A step changes the reading of the list only by reading on.                *)
LEMMA SameList ==
  ASSUME UNCHANGED argv
  PROVE  /\ Value' = Value /\ Sources' = Sources /\ Values' = Values
         /\ Mistakes' = Mistakes /\ Helps' = Helps
         /\ \A W : At(W)' = At(W)
         /\ \A W : LastOf(W)' = LastOf(W)
<1>1. Value' = Value
  BY DEF Value
<1> QED
  BY <1>1 DEF Sources, Values, Mistakes, Helps, At, LastOf

(* An argument that is no value is read; what has been read grows by it.     *)
LEMMA ReadOne ==
  ASSUME ArgvOK, NEW S \in SUBSET (1 .. Len(argv)), next <= Len(argv),
         NEW n \in {1, 2}, next' = next + n, UNCHANGED argv,
         n = 2 => next \notin S
  PROVE  LET last == next + n - 1
         IN  /\ last \notin S => Read(S)' = Read(S)
             /\ last \in S => /\ Read(S)' # {}
                              /\ LastOf(Read(S))' = argv[last]
<1> DEFINE last == next + n - 1
<1>1. next \in Nat /\ Len(argv) \in Nat /\ last \in Nat
  BY Positions
<1>2. Read(S)' = {i \in S : i < next + n} /\ Read(S) = {i \in S : i < next}
  BY DEF Read
<1>3. \A i \in S : i \in Nat /\ (i < next + n <=> i < next \/ i = last)
  BY <1>1
<1>4. last \notin S => Read(S)' = Read(S)
  BY <1>2, <1>3
<1>5. ASSUME last \in S PROVE Read(S)' # {} /\ LastOf(Read(S))' = argv[last]
  <2>1. PICK R : R = Read(S)'
    OBVIOUS
  <2>2. R \in SUBSET Nat /\ last \in R /\ \A i \in R : i <= last
    <3>1. last < next + n /\ \A i \in Nat : i < next => i <= last
      BY <1>1
    <3>2. \A i \in R : i \in S /\ i <= last
      <4>1. R = {i \in S : i < next + n}
        BY <1>2, <2>1
      <4>2. last <= last
        BY <1>1
      <4> HIDE DEF last
      <4> QED
        BY <1>3, <3>1, <4>1, <4>2
    <3> QED
      BY <1>2, <1>3, <1>5, <2>1, <3>1, <3>2
  <2>3. Max(R) = last /\ R # {}
    <3> HIDE DEF last
    <3> QED
      BY <2>2, Extremes
  <2>4. LastOf(R) = argv[last]
    BY <2>3, Last
  <2> QED
    BY <2>1, <2>3, <2>4, SameList
<1> QED
  BY <1>4, <1>5
LEMMA Taken ==
  ASSUME ArgInv, Reading, NEW n \in {1, 2}, Take(n), next + n <= Len(argv) + 1,
         Argument \notin Misspelt \cup {"-h", "--help"}, n = 2 <=> Argument = "-o"
  PROVE  /\ phase = "arguments" /\ phase' = phase /\ UNCHANGED argv
         /\ next' \in 1 .. Len(argv) + 1 /\ ~Value'[next']
         /\ \A i \in Mistakes' \cup Helps' : i >= next'
         /\ n = 2 => /\ LastOf(Read(Values))' = argv[next + 1]
                     /\ Read(Sources)' = Read(Sources)
         /\ n = 1 => /\ Read(Values)' = Read(Values)
                     /\ IF Argument \in Option THEN Read(Sources)' = Read(Sources)
                        ELSE LastOf(Read(Sources))' = Argument
         /\ \A w \in {"-S", "-d"} : IF Argument = w THEN Read(At({w}))' # {}
                                    ELSE Read(At({w}))' = Read(At({w}))
<1>1. /\ phase = "arguments" /\ phase' = phase /\ UNCHANGED argv /\ next' = next + n
      /\ next \in 1 .. Len(argv) + 1 /\ next <= Len(argv) /\ Argument = argv[next]
      /\ ~Value[next] /\ ArgvOK /\ next \in Nat /\ Len(argv) \in Nat
  BY Positions DEF ArgInv, ReadSoFar, ArgvOK, Reading, Take, Argument
<1>2. /\ Value[next + 1] <=> Argument = "-o"
      /\ ~Value[next + n]
  <2>1. Value[next + 1] <=> next + 1 > 1 /\ argv[next + 1 - 1] = "-o" /\ ~Value[next + 1 - 1]
    BY <1>1, ValueFollows
  <2>2. next + 1 > 1 /\ next + 1 - 1 = next
    BY <1>1
  <2>3. Value[next + 1] <=> Argument = "-o"
    BY <1>1, <2>1, <2>2
  <2>4. CASE n = 1
    BY <2>3, <2>4
  <2>5. CASE n = 2
    <3>1. Value[next + 2] => ~Value[next + 2 - 1]
      BY <1>1, ValueFollows
    <3>2. next + 2 - 1 = next + 1
      BY <1>1
    <3> QED
      BY <2>3, <2>5, <3>1, <3>2
  <2> QED
    BY <2>3, <2>4, <2>5
<1>3. \A i \in Mistakes' \cup Helps' : i >= next'
  <2> SUFFICES ASSUME NEW i \in Mistakes \cup Helps PROVE i >= next + n
    BY <1>1, SameList
  <2>1. /\ i \in 1 .. Len(argv) /\ i >= next /\ ~Value[i]
        /\ argv[i] \in Misspelt \cup {"-h", "--help"} \/ (argv[i] = "-o" /\ i = Len(argv))
    <3>1. i >= next
      BY <1>1 DEF ArgInv, ReadSoFar
    <3> QED
      BY <1>1, <3>1, Positions DEF Mistakes, Helps, At
  <2>2. i # next
    BY <1>1, <2>1
  <2>3. n = 2 => i # next + 1
    BY <1>2, <2>1
  <2> QED
    BY <1>1, <2>1, <2>2, <2>3
<1>4. /\ n = 2 => LastOf(Read(Values))' = argv[next + 1]
      /\ n = 1 => Read(Values)' = Read(Values)
  <2>1. next \notin Values /\ (n = 2 => next + 1 \in Values)
    BY <1>1, <1>2, Positions DEF Values
  <2>2. PICK S : S = Values
    OBVIOUS
  <2>3. S \in SUBSET (1 .. Len(argv))
    BY <1>1, <2>2, Positions
  <2>4. /\ next + n - 1 \notin S => Read(S)' = Read(S)
        /\ next + n - 1 \in S => LastOf(Read(S))' = argv[next + n - 1]
    BY <1>1, <2>1, <2>2, <2>3, ReadOne
  <2>5. Read(Values)' = Read(S)' /\ Read(Values) = Read(S)
    BY <1>1, <2>2, SameList DEF Read
  <2>6. LastOf(Read(Values))' = LastOf(Read(S))'
    BY <2>5, Zenon DEF LastOf
  <2>7. CASE n = 2
    <3>1. next + n - 1 = next + 1
      BY <1>1, <2>7
    <3> QED
      BY <2>1, <2>2, <2>4, <2>6, <2>7, <3>1
  <2>8. CASE n = 1
    <3>1. next + n - 1 = next
      BY <1>1, <2>8
    <3> QED
      BY <2>1, <2>2, <2>4, <2>5, <2>8, <3>1
  <2> QED
    BY <2>7, <2>8
<1>5. IF Argument \in Option THEN Read(Sources)' = Read(Sources)
      ELSE LastOf(Read(Sources))' = Argument
  <2>1. /\ next \in Sources <=> Argument \notin Option
        /\ n = 2 => next + 1 \notin Sources
        /\ Argument = "-o" => Argument \in Option
    BY <1>1, <1>2, Positions DEF Sources, Option
  <2>2. PICK S : S = Sources
    OBVIOUS
  <2>3. S \in SUBSET (1 .. Len(argv)) /\ (n = 2 => next \notin S)
    BY <1>1, <2>1, <2>2, Positions
  <2>4. /\ next + n - 1 \notin S => Read(S)' = Read(S)
        /\ next + n - 1 \in S => LastOf(Read(S))' = argv[next + n - 1]
    BY <1>1, <2>3, ReadOne
  <2>5. Read(Sources)' = Read(S)' /\ Read(Sources) = Read(S)
    BY <1>1, <2>2, SameList DEF Read
  <2>6. LastOf(Read(Sources))' = LastOf(Read(S))'
    BY <2>5, Zenon DEF LastOf
  <2>7. CASE n = 2
    <3>1. next + n - 1 = next + 1
      BY <1>1, <2>7
    <3> QED
      BY <2>1, <2>2, <2>4, <2>5, <2>7, <3>1
  <2>8. CASE n = 1
    <3>1. next + n - 1 = next
      BY <1>1, <2>8
    <3> QED
      BY <1>1, <2>1, <2>2, <2>4, <2>5, <2>6, <2>8, <3>1
  <2> QED
    BY <2>7, <2>8
<1>6. ASSUME NEW w \in {"-S", "-d"}
      PROVE  IF Argument = w THEN Read(At({w}))' # {}
             ELSE Read(At({w}))' = Read(At({w}))
  <2>1. /\ next \in At({w}) <=> Argument = w
        /\ n = 2 => next + 1 \notin At({w})
        /\ Argument = "-o" => Argument # w
    BY <1>1, <1>2, Positions DEF At
  <2>2. PICK S : S = At({w})
    OBVIOUS
  <2>3. S \in SUBSET (1 .. Len(argv)) /\ (n = 2 => next \notin S)
    BY <1>1, <2>1, <2>2, Positions
  <2>4. /\ next + n - 1 \notin S => Read(S)' = Read(S)
        /\ next + n - 1 \in S => Read(S)' # {}
    BY <1>1, <2>3, ReadOne
  <2>5. Read(At({w}))' = Read(S)' /\ Read(At({w})) = Read(S)
    <3>1. At({w})' = At({w})
      BY <1>1, SameList
    <3> QED
      BY <2>2, <3>1 DEF Read
  <2>6. CASE n = 2
    <3>1. next + n - 1 = next + 1
      BY <1>1, <2>6
    <3> QED
      BY <2>1, <2>2, <2>4, <2>5, <2>6, <3>1
  <2>7. CASE n = 1
    <3>1. next + n - 1 = next
      BY <1>1, <2>7
    <3> QED
      BY <1>1, <2>1, <2>2, <2>4, <2>5, <2>7, <3>1
  <2> QED
    BY <2>6, <2>7
<1>7. ~Value'[next'] /\ next' \in 1 .. Len(argv) + 1
  BY <1>1, <1>2, SameList
<1>8. \A w \in {"-S", "-d"} : IF Argument = w THEN Read(At({w}))' # {}
                                 ELSE Read(At({w}))' = Read(At({w}))
  BY <1>6, Zenon
<1>9. /\ phase = "arguments" /\ phase' = phase /\ UNCHANGED argv
      /\ \A i \in Mistakes' \cup Helps' : i >= next'
  BY <1>1, <1>3
<1>10. n = 2 => Argument \in Option
  BY DEF Option
<1> QED
  BY <1>4, <1>5, <1>7, <1>8, <1>9, <1>10, Zenon
(* What ArgumentsUnderstood says, the empty name not written out.            *)
Decided == Helps \cup Mistakes
Verdict == IF Min(Decided) \in Helps THEN 0 ELSE 1
Granted == /\ settings.input = LastOf(Sources)
           /\ settings.output = IF LastOf(Values) = NoName THEN "a.out" ELSE LastOf(Values)
           /\ settings.emit <=> At({"-S"}) # {}
           /\ settings.level = "Debug" <=> At({"-d"}) # {}

LEMMA Understood ==
  /\ ArgumentsUnderstood <=>
       (phase # "arguments" =>
          IF Decided # {} THEN phase = "exited" /\ status = Verdict
          ELSE IF LastOf(Sources) = NoName THEN phase = "exited" /\ status = 1
          ELSE (phase = "exited" => status = 0) /\ Granted)
  /\ ArgumentsUnderstood' <=>
       (phase' # "arguments" =>
          IF Decided' # {} THEN phase' = "exited" /\ status' = Verdict'
          ELSE IF LastOf(Sources)' = NoName THEN phase' = "exited" /\ status' = 1
          ELSE (phase' = "exited" => status' = 0) /\ Granted')
BY Zenon DEF ArgumentsUnderstood, Decided, Verdict, Granted, Values, NoName

LEMMA ArgInvInit == Init => ArgInv
<1> SUFFICES ASSUME Init PROVE ArgInv
  OBVIOUS
<1>1. /\ argv \in Seq(STRING) /\ next = 1 /\ phase = "arguments"
  BY CompilerAssumption DEF Init
<1>2. settings = [input |-> NoName, output |-> NoName, emit |-> FALSE, level |-> "Error"]
  BY Zenon DEF Init, Start, NoName
<1>3. /\ settings.input = NoName /\ settings.output = NoName /\ settings.emit = FALSE
      /\ settings.level = "Error"
  BY <1>2
<1>4. ArgvOK
  BY <1>1, <1>2, <1>3 DEF ArgvOK
<1>5. ~Value[next]
  BY <1>1, ValueFollows
<1>6. ASSUME NEW S \in SUBSET (1 .. Len(argv)) PROVE Read(S) = {} /\ \A i \in S : i >= next
  <2>1. Len(argv) \in Nat
    BY <1>1
  <2>2. \A i \in S : i >= next /\ ~(i < next)
    BY <1>1, <2>1
  <2> QED
    BY <2>2 DEF Read
<1>7. ReadSoFar
  <2>1. LastOf({}) = NoName
    BY Last
  <2>2. /\ Read(Sources) = {} /\ Read(Values) = {} /\ \A W : Read(At(W)) = {}
        /\ \A i \in Mistakes \cup Helps : i >= next
    BY <1>4, <1>6, Positions
  <2> QED
    BY <1>3, <1>5, <2>1, <2>2 DEF ReadSoFar
<1> QED
  BY <1>1, <1>4, <1>7, Understood DEF ArgInv

(* Nothing but the reading and Begin has to do with the arguments.           *)
LEMMA ArgumentsStay ==
  ASSUME ArgInv, UNCHANGED <<argv, next, settings>>,
         \/ UNCHANGED <<phase, status>>
         \/ phase \notin {"arguments", "exited"} /\ phase' # "arguments"
            /\ (phase' = "exited" => status' = 0)
  PROVE  ArgInv'
<1>1. ArgvOK'
  BY DEF ArgInv, ArgvOK
<1>2. UNCHANGED <<Value, Sources, Values, Mistakes, Helps>> /\ \A W : At(W)' = At(W)
  BY SameList
<1>3. /\ Decided' = Decided /\ Verdict' = Verdict /\ Granted' = Granted
      /\ LastOf(Sources)' = LastOf(Sources)
  <2>1. LastOf(Sources)' = LastOf(Sources) /\ LastOf(Values)' = LastOf(Values)
    BY <1>2, Zenon DEF LastOf
  <2>2. At({"-S"})' = At({"-S"}) /\ At({"-d"})' = At({"-d"})
    BY <1>2
  <2> QED
    BY <1>2, <2>1, <2>2 DEF Decided, Verdict, Granted
<1>4. CASE UNCHANGED <<phase, status>>
  <2>1. ReadSoFar'
    <3>1. /\ LastOf(Read(Sources))' = LastOf(Read(Sources))
          /\ LastOf(Read(Values))' = LastOf(Read(Values))
          /\ Read(At({"-S"}))' = Read(At({"-S"})) /\ Read(At({"-d"}))' = Read(At({"-d"}))
      <4>1. /\ Read(Sources)' = Read(Sources) /\ Read(Values)' = Read(Values)
            /\ At({"-S"})' = At({"-S"}) /\ At({"-d"})' = At({"-d"})
        BY <1>2 DEF Read
      <4>2. Read(At({"-S"}))' = Read(At({"-S"})) /\ Read(At({"-d"}))' = Read(At({"-d"}))
        BY <4>1 DEF Read
      <4> QED
        BY <4>1, <4>2, Zenon DEF LastOf
    <3> QED
      BY <1>2, <1>4, <3>1 DEF ArgInv, ReadSoFar
  <2>2. ArgumentsUnderstood'
    BY <1>3, <1>4, Understood DEF ArgInv
  <2> QED
    BY <1>1, <2>1, <2>2 DEF ArgInv
<1>5. CASE /\ phase \notin {"arguments", "exited"} /\ phase' # "arguments"
           /\ phase' = "exited" => status' = 0
  <2>1. Decided = {} /\ LastOf(Sources) # NoName /\ Granted
    BY <1>5, Understood DEF ArgInv
  <2>2. ReadSoFar'
    BY <1>5 DEF ReadSoFar
  <2>3. ArgumentsUnderstood'
    BY <1>3, <1>5, <2>1, Understood
  <2> QED
    BY <1>1, <2>2, <2>3 DEF ArgInv
<1> QED
  BY <1>4, <1>5

(* An argument sets one of the settings.                                     *)
LEMMA Fields ==
  ASSUME ArgvOK, NEW v
  PROVE  /\ [settings EXCEPT !.input = v] =
              [input |-> v, output |-> settings.output,
               emit |-> settings.emit, level |-> settings.level]
         /\ [settings EXCEPT !.output = v] =
              [input |-> settings.input, output |-> v,
               emit |-> settings.emit, level |-> settings.level]
         /\ [settings EXCEPT !.emit = v] =
              [input |-> settings.input, output |-> settings.output,
               emit |-> v, level |-> settings.level]
         /\ [settings EXCEPT !.level = v] =
              [input |-> settings.input, output |-> settings.output,
               emit |-> settings.emit, level |-> v]
<1>1. PICK a, b, c, d : settings = [input |-> a, output |-> b, emit |-> c, level |-> d]
  BY DEF ArgvOK
<1> QED
  BY <1>1

LEMMA Recorded ==
  ASSUME ArgInv, Reading, NEW n \in {1, 2}, Take(n), next + n <= Len(argv) + 1,
         Argument \notin Misspelt \cup {"-h", "--help"}, n = 2 <=> Argument = "-o",
         settings' = [input  |-> IF Argument \in Option THEN settings.input ELSE Argument,
                      output |-> IF n = 2 THEN argv[next + 1] ELSE settings.output,
                      emit   |-> settings.emit \/ Argument = "-S",
                      level  |-> IF Argument = "-d" THEN "Debug" ELSE settings.level]
  PROVE  ArgInv'
<1>1. /\ phase = "arguments" /\ phase' = phase /\ UNCHANGED argv
      /\ next' \in 1 .. Len(argv) + 1 /\ ~Value'[next']
      /\ \A i \in Mistakes' \cup Helps' : i >= next'
  BY Taken
<1>2. /\ settings'.input = IF Argument \in Option THEN settings.input ELSE Argument
      /\ settings'.output = IF n = 2 THEN argv[next + 1] ELSE settings.output
      /\ settings'.emit <=> settings.emit \/ Argument = "-S"
      /\ settings'.level = IF Argument = "-d" THEN "Debug" ELSE settings.level
  OBVIOUS
<1>3. ArgvOK'
  <2>1. PICK a, b, c, d : settings' = [input |-> a, output |-> b, emit |-> c, level |-> d]
                          /\ c \in BOOLEAN
    OBVIOUS
  <2> QED
    BY <1>1, <2>1 DEF ArgInv, ArgvOK
<1>4. /\ settings.input = LastOf(Read(Sources)) /\ settings.output = LastOf(Read(Values))
      /\ settings.emit <=> Read(At({"-S"})) # {}
      /\ settings.level = "Debug" <=> Read(At({"-d"})) # {}
  BY <1>1 DEF ArgInv, ReadSoFar
<1>5. settings'.input = LastOf(Read(Sources))'
  <2>1. CASE Argument \in Option
    <3>1. Read(Sources)' = Read(Sources)
      BY <2>1, Taken
    <3>2. LastOf(Read(Sources))' = LastOf(Read(Sources))
      BY <1>1, <3>1, Zenon DEF LastOf
    <3> QED
      BY <1>2, <1>4, <2>1, <3>2
  <2>2. CASE Argument \notin Option
    <3>1. n = 1
      BY <2>2 DEF Option
    <3> QED
      BY <1>2, <2>2, <3>1, Taken
  <2> QED
    BY <2>1, <2>2
<1>6. settings'.output = LastOf(Read(Values))'
  <2>1. CASE n = 2
    BY <1>2, <2>1, Taken
  <2>2. CASE n = 1
    <3>1. Read(Values)' = Read(Values)
      BY <2>2, Taken
    <3>2. LastOf(Read(Values))' = LastOf(Read(Values))
      BY <1>1, <3>1, Zenon DEF LastOf
    <3> QED
      BY <1>2, <1>4, <2>2, <3>2
  <2> QED
    BY <2>1, <2>2
<1>7. settings'.emit <=> Read(At({"-S"}))' # {}
  <2>1. IF Argument = "-S" THEN Read(At({"-S"}))' # {}
        ELSE Read(At({"-S"}))' = Read(At({"-S"}))
    BY Taken
  <2> QED
    BY <1>2, <1>4, <2>1
<1>8. settings'.level = "Debug" <=> Read(At({"-d"}))' # {}
  <2>1. IF Argument = "-d" THEN Read(At({"-d"}))' # {}
        ELSE Read(At({"-d"}))' = Read(At({"-d"}))
    BY Taken
  <2> QED
    BY <1>2, <1>4, <2>1
<1>9. ReadSoFar'
  BY <1>1, <1>5, <1>6, <1>7, <1>8 DEF ReadSoFar
<1>10. ArgumentsUnderstood'
  BY <1>1, Understood
<1> QED
  BY <1>3, <1>9, <1>10 DEF ArgInv

(* The usage is printed: nothing before this argument has decided.           *)
LEMMA UsagePrinted ==
  ASSUME ArgInv, Reading, NEW n, PrintUsage(n),
         \/ n = 0 /\ next \in Helps
         \/ n = 1 /\ next \in Mistakes /\ next \notin Helps
  PROVE  ArgInv'
<1>1. /\ phase = "arguments" /\ phase' = "exited" /\ status' = n
      /\ UNCHANGED <<argv, next, settings>>
      /\ ArgvOK /\ \A i \in Mistakes \cup Helps : i >= next
  BY DEF Reading, PrintUsage, Exit, ArgInv, ReadSoFar
<1>2. Decided \subseteq Nat /\ next \in Decided /\ next \in Nat
  BY <1>1, Positions DEF Decided
<1>3. \A i \in Decided : next <= i
  BY <1>1, <1>2 DEF Decided
<1>4. Min(Decided) = next
  BY <1>2, <1>3, Extremes
<1>5. Verdict = n
  BY <1>4 DEF Verdict
<1>6. Decided' = Decided /\ Verdict' = Verdict
  BY <1>1, SameList DEF Decided, Verdict
<1>7. ArgumentsUnderstood'
  BY <1>1, <1>2, <1>5, <1>6, Understood
<1>8. ArgvOK' /\ ReadSoFar'
  BY <1>1 DEF ArgvOK, ReadSoFar
<1> QED
  BY <1>7, <1>8 DEF ArgInv

LEMMA OptionsDiffer ==
  /\ {"-o", "-S", "-d", "-h", "--help"} \cap Misspelt = {}
  /\ \A w \in {"-o", "-S", "-d", "-h", "--help"} : w \in Option
BY CompilerAssumption DEF Option

LEMMA ReadingNext ==
  ASSUME ArgInv, OutputOption \/ EmitOption \/ DebugOption \/ SourceArgument
  PROVE  ArgInv'
<1>1. /\ ArgvOK /\ next \in 1 .. Len(argv) + 1 /\ Len(argv) \in Nat /\ next \in Nat
      /\ Reading /\ next <= Len(argv) /\ phase = "arguments" /\ ~Value[next]
  BY Positions DEF ArgInv, ArgvOK, ReadSoFar, Reading, OutputOption, EmitOption, DebugOption,
                   SourceArgument
<1>2. /\ settings.emit \in BOOLEAN
      /\ settings = [input |-> settings.input, output |-> settings.output,
                     emit |-> settings.emit, level |-> settings.level]
  BY <1>1 DEF ArgvOK
<1>3. CASE OutputOption /\ next = Len(argv)
  <2>1. PrintUsage(1) /\ argv[next] = "-o"
    BY <1>3 DEF OutputOption, Argument
  <2>2. next \in Mistakes
    BY <1>1, <1>3, <2>1, Positions DEF Mistakes, At
  <2>3. next \notin Helps
    BY <2>1 DEF Helps, At
  <2> QED
    BY <1>1, <2>1, <2>2, <2>3, UsagePrinted
<1>4. CASE OutputOption /\ next # Len(argv)
  <2>1. /\ Argument = "-o" /\ Take(2)
        /\ settings' = [settings EXCEPT !.output = argv[next + 1]]
    BY <1>4 DEF OutputOption
  <2>2. settings' = [input |-> settings.input, output |-> argv[next + 1],
                     emit |-> settings.emit, level |-> settings.level]
    BY <1>1, <2>1, Fields
  <2>3. /\ next + 2 <= Len(argv) + 1 /\ Argument \in Option
        /\ Argument \notin Misspelt \cup {"-h", "--help"} /\ Argument \notin {"-S", "-d"}
    BY <1>1, <1>4, <2>1, OptionsDiffer
  <2> QED
    BY <1>1, <1>2, <2>1, <2>2, <2>3, Recorded
<1>5. CASE EmitOption
  <2>1. /\ Argument = "-S" /\ Take(1) /\ settings' = [settings EXCEPT !.emit = TRUE]
    BY <1>5 DEF EmitOption
  <2>2. PICK b : b = (settings.emit \/ Argument = "-S")
    OBVIOUS
  <2>3. b = TRUE
    BY <2>1, <2>2
  <2>4. settings' = [settings EXCEPT !.emit = b]
    BY <2>1, <2>3
  <2>5. settings' = [input |-> settings.input, output |-> settings.output,
                     emit |-> b, level |-> settings.level]
    BY <1>1, <2>4, Fields
  <2>6. /\ next + 1 <= Len(argv) + 1 /\ Argument \in Option
        /\ Argument \notin Misspelt \cup {"-h", "--help"} /\ Argument \notin {"-o", "-d"}
    BY <1>1, <2>1, OptionsDiffer
  <2>7. settings' = [input  |-> IF Argument \in Option THEN settings.input ELSE Argument,
                     output |-> IF 1 = 2 THEN argv[next + 1] ELSE settings.output,
                     emit   |-> b,
                     level  |-> IF Argument = "-d" THEN "Debug" ELSE settings.level]
    BY <2>5, <2>6
  <2>8. 1 = 2 <=> Argument = "-o"
    BY <2>6
  <2> QED
    BY <1>1, <2>1, <2>2, <2>6, <2>7, <2>8, Recorded
<1>6. CASE DebugOption
  <2>1. /\ Argument = "-d" /\ Take(1) /\ settings' = [settings EXCEPT !.level = "Debug"]
    BY <1>6 DEF DebugOption
  <2>2. settings' = [input |-> settings.input, output |-> settings.output,
                     emit |-> settings.emit, level |-> "Debug"]
    BY <1>1, <2>1, Fields
  <2>3. /\ next + 1 <= Len(argv) + 1 /\ Argument \in Option
        /\ Argument \notin Misspelt \cup {"-h", "--help"} /\ Argument \notin {"-o", "-S"}
    BY <1>1, <2>1, OptionsDiffer
  <2> QED
    BY <1>1, <1>2, <2>1, <2>2, <2>3, Recorded
<1>7. CASE SourceArgument
  <2>1. /\ Argument \notin Option /\ Take(1) /\ settings' = [settings EXCEPT !.input = Argument]
    BY <1>7 DEF SourceArgument
  <2>2. settings' = [input |-> Argument, output |-> settings.output,
                     emit |-> settings.emit, level |-> settings.level]
    BY <1>1, <2>1, Fields
  <2>3. /\ next + 1 <= Len(argv) + 1
        /\ Argument \notin Misspelt \cup {"-h", "--help"} /\ Argument \notin {"-o", "-S", "-d"}
    BY <1>1, <2>1 DEF Option
  <2>4. settings' = [input  |-> IF Argument \in Option THEN settings.input ELSE Argument,
                     output |-> IF 1 = 2 THEN argv[next + 1] ELSE settings.output,
                     emit   |-> settings.emit \/ Argument = "-S",
                     level  |-> IF Argument = "-d" THEN "Debug" ELSE settings.level]
    BY <1>2, <2>1, <2>2, <2>3
  <2>5. 1 = 2 <=> Argument = "-o"
    BY <2>3
  <2> QED
    BY <1>1, <2>1, <2>3, <2>4, <2>5, Recorded
<1> QED
  BY <1>3, <1>4, <1>5, <1>6, <1>7

LEMMA MistakeNext == ASSUME ArgInv, UnknownOption PROVE ArgInv'
<1>1. /\ Reading /\ PrintUsage(1) /\ argv[next] \in Misspelt /\ ArgvOK /\ ~Value[next]
      /\ next \in 1 .. Len(argv)
  BY Positions DEF UnknownOption, Argument, ArgInv, Reading, ReadSoFar, ArgvOK
<1>2. next \in Mistakes
  BY <1>1, Positions DEF Mistakes, At
<1>3. next \notin Helps
  BY <1>1, OptionsDiffer DEF Helps, At
<1> QED
  BY <1>1, <1>2, <1>3, UsagePrinted

LEMMA HelpNext == ASSUME ArgInv, HelpOption PROVE ArgInv'
<1>1. /\ Reading /\ PrintUsage(0) /\ argv[next] \in {"-h", "--help"} /\ ~Value[next]
      /\ next \in 1 .. Len(argv)
  BY Positions DEF HelpOption, Argument, ArgInv, Reading, ReadSoFar, ArgvOK
<1>2. next \in Helps
  BY <1>1, Positions DEF ArgInv, Helps, At
<1> QED
  BY <1>1, <1>2, UsagePrinted

(* All of the list has been read.                                            *)
LEMMA BeginNext == ASSUME ArgInv, Begin PROVE ArgInv'
<1>1. /\ phase = "arguments" /\ next > Len(argv) /\ UNCHANGED <<argv, next>> /\ ArgvOK
      /\ Len(argv) \in Nat /\ next \in Nat
  BY Positions DEF Begin, ArgInv
<1>2. /\ IF settings.input = NoName THEN phase' = "exited" /\ status' = 1 /\ UNCHANGED settings
         ELSE /\ phase' = "driver"
              /\ settings' = IF settings.output # NoName THEN settings
                             ELSE [settings EXCEPT !.output = "a.out"]
  BY Zenon DEF Begin, Exit, NoName
<1>3. \A S \in SUBSET (1 .. Len(argv)) : Read(S) = S
  <2> SUFFICES ASSUME NEW S \in SUBSET (1 .. Len(argv)) PROVE Read(S) = S
    OBVIOUS
  <2>1. \A i \in S : i < next
    BY <1>1
  <2> QED
    BY <2>1 DEF Read
<1>4. Mistakes = {} /\ Helps = {}
  <2>1. \A i \in Mistakes \cup Helps : i >= next /\ i \in 1 .. Len(argv)
    BY <1>1, Positions DEF ArgInv, ReadSoFar
  <2> QED
    BY <1>1, <2>1
<1>5. /\ Read(Sources) = Sources /\ Read(Values) = Values
      /\ Read(At({"-S"})) = At({"-S"}) /\ Read(At({"-d"})) = At({"-d"})
  BY <1>1, <1>3, Positions
<1>6. /\ settings.input = LastOf(Sources) /\ settings.output = LastOf(Values)
      /\ settings.emit <=> At({"-S"}) # {}
      /\ settings.level = "Debug" <=> At({"-d"}) # {}
  BY <1>1, <1>5 DEF ArgInv, ReadSoFar
<1>7. /\ UNCHANGED <<Mistakes, Helps>> /\ At({"-S"})' = At({"-S"}) /\ At({"-d"})' = At({"-d"})
      /\ LastOf(Sources)' = LastOf(Sources) /\ LastOf(Values)' = LastOf(Values)
  <2>1. UNCHANGED <<Mistakes, Helps, Sources, Values>> /\ \A W : At(W)' = At(W)
    BY <1>1, SameList
  <2>2. LastOf(Sources)' = LastOf(Sources) /\ LastOf(Values)' = LastOf(Values)
    BY <1>1, <2>1, Zenon DEF LastOf
  <2> QED
    BY <2>1, <2>2
<1>8. CASE settings.input = NoName
  <2>1. Decided' = {} /\ LastOf(Sources)' = NoName
    BY <1>4, <1>6, <1>7, <1>8 DEF Decided
  <2>2. ArgvOK' /\ ReadSoFar'
    BY <1>1, <1>2, <1>8 DEF ArgvOK, ReadSoFar
  <2> QED
    BY <1>2, <1>8, <2>1, <2>2, Understood DEF ArgInv
<1>9. CASE settings.input # NoName
  <2>1. phase' = "driver"
    BY <1>2, <1>9
  <2>2. settings' = [input |-> settings.input,
                     output |-> IF settings.output # NoName THEN settings.output ELSE "a.out",
                     emit |-> settings.emit, level |-> settings.level]
    <3>1. CASE settings.output # NoName
      BY <1>1, <1>2, <1>9, <3>1 DEF ArgvOK
    <3>2. CASE settings.output = NoName
      <4>1. settings' = [settings EXCEPT !.output = "a.out"]
        BY <1>2, <1>9, <3>2
      <4>2. settings' = [input |-> settings.input, output |-> "a.out",
                         emit |-> settings.emit, level |-> settings.level]
        BY <1>1, <4>1, Fields
      <4> QED
        BY <3>2, <4>2
    <3> QED
      BY <3>1, <3>2
  <2>3. ArgvOK'
    <3>1. settings.emit \in BOOLEAN
      BY <1>1 DEF ArgvOK
    <3>2. PICK a, b, c, d : settings' = [input |-> a, output |-> b, emit |-> c, level |-> d]
                            /\ c \in BOOLEAN
      BY <2>2, <3>1
    <3> QED
      BY <1>1, <3>2 DEF ArgvOK
  <2>4. /\ settings'.input = settings.input /\ settings'.emit = settings.emit
        /\ settings'.level = settings.level
        /\ settings'.output = IF settings.output # NoName THEN settings.output ELSE "a.out"
    BY <2>2
  <2>5. Granted'
    BY <1>6, <1>7, <2>4 DEF Granted, NoName
  <2>6. Decided' = {} /\ LastOf(Sources)' # NoName
    BY <1>4, <1>6, <1>7, <1>9 DEF Decided
  <2>7. ReadSoFar'
    BY <2>1 DEF ReadSoFar
  <2> QED
    BY <2>1, <2>3, <2>5, <2>6, <2>7, Understood DEF ArgInv
<1> QED
  BY <1>8, <1>9

LEMMA ArgInvNext == ArgInv /\ [Next]_vars => ArgInv'
<1> SUFFICES ASSUME ArgInv, [Next]_vars PROVE ArgInv'
  OBVIOUS
<1>1. CASE OutputOption \/ EmitOption \/ DebugOption \/ SourceArgument
  BY <1>1, ReadingNext
<1>2. CASE HelpOption \/ UnknownOption \/ Begin
  BY <1>2, HelpNext, MistakeNext, BeginNext
<1>3. CASE ReadSource \/ parse \/ OnlyCheck \/ GiveUp \/ codegen
  <2>1. /\ UNCHANGED <<argv, next, settings>> /\ phase \notin {"arguments", "exited"}
        /\ phase' # "arguments" /\ (phase' = "exited" => status' = 0)
    BY <1>3 DEF ReadSource, parse, OnlyCheck, GiveUp, codegen, Parsed, Exit
  <2> QED
    BY <2>1, ArgumentsStay
<1>4. CASE UNCHANGED vars
  BY <1>4, ArgumentsStay DEF vars
<1> QED
  BY <1>1, <1>2, <1>3, <1>4 DEF Next, Step, Ended

(* For every list of arguments: a value is never taken for an option or a    *)
(* source, the last of several counts, the first request for help or mistake *)
(* decides, and nothing that main does later changes what was asked for.     *)
THEOREM ArgumentsAreUnderstood == Spec => []ArgumentsUnderstood
<1>1. ArgInv => ArgumentsUnderstood
  BY DEF ArgInv
<1> QED
  BY <1>1, ArgInvInit, ArgInvNext, PTL DEF Spec
=============================================================================
