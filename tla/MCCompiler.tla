------------------------------ MODULE MCCompiler ------------------------------
(* Model-checking instance of Compiler.                                      *)
EXTENDS Compiler, SequencesExt

Unknowns == {"-x"}

(* Every list of up to four arguments, for the loop, the sources empty ...   *)
EmptySources == {"b.c1", "c.c1"}
AnyArgv == SeqOf({"-o", "-S", "-d", "-h", "-x", ""} \cup EmptySources, 4)

(* ... and lists that go on to compile something, or just not.               *)
Compiling == {<<"a.c1">>, <<"-S", "a.c1">>, <<"-o", "a.s", "-S", "a.c1">>,
              <<"a.c1", "-o", "a.s">>, <<"-d", "b.c1", "a.c1", "-S">>, <<"-S">>}

ArgumentLists == AnyArgv \cup Compiling
=============================================================================
