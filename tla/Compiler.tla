------------------------------ MODULE Compiler ------------------------------
(* The program ycc1 from its arguments to its exit: main (ycc1.cpp), the     *)
(* driver's reading of the source and its parse and codegen (Driver.cpp),    *)
(* and LLVMCodeGen::codegen, which decides whether there is anything to      *)
(* write.  Parsing is Parser's, step by step; the visit of the tree, which   *)
(* LLVMCodeGen and Translation model, is one step that may die.              *)
EXTENDS Integers, Sequences, FiniteSetsExt

CONSTANTS Argv,       \* the argument lists considered
          Misspelt,   \* arguments with a leading "-" that ycc1 does not know
          MaxTokens,  \* bound on the tokens the parser reads
          BUFSIZE,    \* of the driver's buffer, a token filling a unit of it
          MaxSize,    \* bound on the size of the source
          Empty       \* the sources that have no text
ASSUME CompilerAssumption == /\ BUFSIZE \in Nat \ {0} /\ MaxSize \in Nat
                             /\ MaxTokens \in Nat /\ Argv \subseteq Seq(STRING)
                             /\ {"-o", "-S", "-d", "-h", "--help"} \cap Misspelt = {}

VARIABLES argv, next,                  \* the arguments and the one to be read
          settings,                    \* input_file, output_file, emit_llvm, the level
          phase,                       \* where main is
          status,                      \* the exit status
          size, zero,                  \* the source: its size, whether a byte of it is 0
          text,                        \* how much of it the stream holds
          told,                        \* messages of main and codegen
          disk,                        \* what the output file holds
          stack, la, count, errstatus, goto, root, nullLink, reports, depth, result

parsing == <<stack, la, count, errstatus, goto, root, nullLink, reports, depth, result>>
source  == <<size, zero, text>>
vars    == <<argv, next, settings, phase, status, source, told, disk, parsing>>

P == INSTANCE Parser

Start == [input |-> "", output |-> "", emit |-> FALSE, level |-> "Error"]

Init == /\ argv \in Argv /\ next = 1 /\ settings = Start
        /\ phase = "arguments" /\ status = -1
        /\ size = 0 /\ zero = FALSE /\ text = 0
        /\ told = 0 /\ disk = "old"
        /\ P!Init

Exit(n) == phase' = "exited" /\ status' = n
-----------------------------------------------------------------------------
(* The loop over the arguments.                                              *)
Argument == argv[next]
Reading == /\ phase = "arguments" /\ next <= Len(argv)
           /\ UNCHANGED <<argv, source, disk, parsing>>
Take(n) == next' = next + n /\ UNCHANGED <<phase, status, told>>
PrintUsage(n) == Exit(n) /\ told' = told + 1 /\ UNCHANGED <<next, settings>>

Option == {"-o", "-S", "-d", "-h", "--help"} \cup Misspelt

(* Mutants: the value of -o is read again as an argument; the loop does not  *)
(* go on to the next argument.                                               *)
OutputOptionShort == /\ Reading /\ Argument = "-o"
                     /\ IF next = Len(argv) THEN PrintUsage(1)
                        ELSE settings' = [settings EXCEPT !.output = argv[next + 1]] /\ Take(1)
SourceArgumentStays == /\ Reading /\ Argument \notin Option
                       /\ settings' = [settings EXCEPT !.input = Argument] /\ Take(0)

OutputOption == /\ Reading /\ Argument = "-o"
                /\ IF next = Len(argv) THEN PrintUsage(1)
                   ELSE settings' = [settings EXCEPT !.output = argv[next + 1]] /\ Take(2)
EmitOption == /\ Reading /\ Argument = "-S"
              /\ settings' = [settings EXCEPT !.emit = TRUE] /\ Take(1)
DebugOption == /\ Reading /\ Argument = "-d"
               /\ settings' = [settings EXCEPT !.level = "Debug"] /\ Take(1)
HelpOption == Reading /\ Argument \in {"-h", "--help"} /\ PrintUsage(0)
UnknownOption == Reading /\ Argument \in Misspelt /\ PrintUsage(1)

(* Anything else, the empty argument too, is the source.                     *)
SourceArgument == /\ Reading /\ Argument \notin Option
                  /\ settings' = [settings EXCEPT !.input = Argument] /\ Take(1)

Begin == /\ phase = "arguments" /\ next > Len(argv)
         /\ IF settings.input = "" THEN Exit(1) /\ told' = told + 1 /\ UNCHANGED settings
            ELSE /\ phase' = "driver"
                 /\ settings' = IF settings.output # "" THEN settings
                                ELSE [settings EXCEPT !.output = "a.out"]
                 /\ UNCHANGED <<status, told>>
         /\ UNCHANGED <<argv, next, source, disk, parsing>>
-----------------------------------------------------------------------------
(* Driver::Driver fills the buffer from expand and feeds the stream up to    *)
(* the first zero byte: one of the file, the rest of the buffer, or, when    *)
(* that is full, whatever lies behind it.                                    *)
Held(n, z) == IF z THEN {k \in 0 .. n - 1 : k < BUFSIZE}
              ELSE IF n < BUFSIZE THEN {n}
              ELSE BUFSIZE .. Max({BUFSIZE, MaxTokens})
ReadSource == /\ phase = "driver" /\ phase' = "parse"
              /\ size' \in 0 .. (IF settings.input \in Empty THEN 0 ELSE MaxSize) /\ zero' \in BOOLEAN
              /\ text' \in Held(size', zero')
              /\ UNCHANGED <<argv, next, settings, status, told, disk, parsing>>

(* driver.parse(), to the end of the text.                                   *)
parse == /\ phase = "parse"
         /\ P!Step
         /\ la' = "END" /\ la = "none" => count = text
         /\ count' <= text
         /\ phase' = IF result' = "running" THEN "parse"
                     ELSE IF result' = "crashed" THEN "died" ELSE "codegen"
         /\ UNCHANGED <<argv, next, settings, status, source, told, disk>>
-----------------------------------------------------------------------------
Parsed == phase = "codegen" /\ UNCHANGED <<argv, next, settings, source, parsing>>

OnlyCheck == /\ Parsed /\ ~settings.emit
             /\ Exit(0) /\ UNCHANGED <<told, disk>>

(* LLVMCodeGen::codegen without a tree.                                      *)
GiveUp == /\ Parsed /\ settings.emit /\ ~root
          /\ told' = told + 2
          /\ Exit(0) /\ UNCHANGED disk

(* Mutant: the tree is not asked for.                                        *)
codegenUnchecked == /\ Parsed /\ settings.emit
                    /\ UNCHANGED told
                    /\ \/ phase' = "died" /\ UNCHANGED <<status, disk>>
                       \/ Exit(0) /\ disk' \in {"module", "old"}

(* And with one: the visit comes back or dies, and stderr is made the output *)
(* file for the module to be dumped to, if it can be opened.                 *)
codegen == /\ Parsed /\ settings.emit /\ root
           /\ UNCHANGED told
           /\ \/ phase' = "died" /\ UNCHANGED <<status, disk>>
              \/ Exit(0) /\ disk' \in {"module", "old"}

Ended == phase \in {"exited", "died"} /\ UNCHANGED vars

Step == \/ OutputOption \/ EmitOption \/ DebugOption \/ HelpOption \/ UnknownOption
        \/ SourceArgument \/ Begin \/ ReadSource \/ parse
        \/ OnlyCheck \/ GiveUp \/ codegen
Next == Step \/ Ended

Spec == Init /\ [][Next]_vars /\ WF_vars(Step)
-----------------------------------------------------------------------------
(* Properties                                                                *)

(* What the arguments mean, read off the whole list: an argument behind a -o *)
(* that is not itself a value is that option's value, whatever it looks      *)
(* like; the first request for help or mistake decides, the one with status  *)
(* 0 and the other with 1; without either a source is wanted; of several     *)
(* sources or outputs the last counts, and from there on ycc1 ends with 0    *)
(* unless it dies (the loop in main).  The long form --debug is outside      *)
(* this: the help documents it and main takes it for a mistake.              *)
Value[i \in Nat] == i > 1 /\ argv[i - 1] = "-o" /\ ~Value[i - 1]
At(words) == {i \in DOMAIN argv : ~Value[i] /\ argv[i] \in words}
Sources == {i \in DOMAIN argv : ~Value[i] /\ argv[i] \notin Option}
LastOf(where) == IF where = {} THEN "" ELSE argv[Max(where)]
Mistakes == At(Misspelt) \cup (At({"-o"}) \cap {Len(argv)})
Helps == At({"-h", "--help"})
ArgumentsUnderstood ==
  phase # "arguments" =>
    IF Helps \cup Mistakes # {}
    THEN phase = "exited" /\ status = (IF Min(Helps \cup Mistakes) \in Helps THEN 0 ELSE 1)
    ELSE IF LastOf(Sources) = "" THEN phase = "exited" /\ status = 1
    ELSE /\ phase = "exited" => status = 0
         /\ settings.input = LastOf(Sources)
         /\ LET named == LastOf({i \in DOMAIN argv : Value[i]})
            IN  settings.output = IF named = "" THEN "a.out" ELSE named
         /\ settings.emit <=> At({"-S"}) # {}
         /\ settings.level = "Debug" <=> At({"-d"}) # {}

(* The output file is touched only with the code of a whole program: no      *)
(* error was reported, nothing is missing from the tree, the braces match,   *)
(* and every token of the source was read, if its bytes fit the buffer and   *)
(* none is 0 (codegen, Parser::error, Driver::Driver).                       *)
OutputIsWhole ==
  disk = "module" =>
    /\ settings.emit /\ reports = 0 /\ ~nullLink /\ depth = 0
    /\ size < BUFSIZE /\ ~zero => count = size

(* ycc1 ends, whatever it is given: with a status or by a crash.             *)
Exits == <>(phase \in {"exited", "died"})
=============================================================================
