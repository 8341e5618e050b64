------------------------------ MODULE C1Program ------------------------------
(* What the generated code promises: seen from outside, a program makes the  *)
(* calls of its meaning, in order, and returns its value.                    *)
EXTENDS Naturals, Sequences

CONSTANT Unknown   \* nothing was returned yet

VARIABLES meaning,  \* of the program: whether C defines it, calls and value
          out,      \* the calls made so far
          result    \* the value returned

programVars == <<meaning, out, result>>

Init == out = <<>> /\ result = Unknown

Call == /\ meaning.defined /\ Len(out) < Len(meaning.out)
        /\ out' = SubSeq(meaning.out, 1, Len(out) + 1)
        /\ UNCHANGED <<meaning, result>>

Return == /\ meaning.defined /\ out = meaning.out
          /\ result' = meaning.value
          /\ UNCHANGED <<meaning, out>>

(* What C leaves undefined may do anything.                                  *)
Anything == ~meaning.defined /\ UNCHANGED meaning

Spec == /\ Init /\ [][Call \/ Return \/ Anything]_programVars
        /\ WF_programVars(Call \/ Return)
=============================================================================
