----------------------------- MODULE SentenceTrees -----------------------------
(* What module Expressions ought to make of a sentence, by splitting it      *)
(* instead of by shifts and reductions.                                      *)
EXTENDS Expressions

CONSTANT Completions    \* how a refused input might have gone on

(* A sentence's tree, from the order that C gives its operators, loosest     *)
(* first and the comparisons between "and" and "+": it is split at its       *)
(* loosest operator outside of brackets, the last one of a level.  Unlike    *)
(* C's, "!" takes a whole comparison, because only conditions can be negated.*)
Loosest == << {"or"}, {"and"} >>
Arithmetic == << {"+", "-"}, {"*", "/", "%"} >>
None == Node("none", <<>>)
Open == {"(", "[", "{"}
Close == {")", "]", "}"}
Depth(ts, i) == Cardinality({j \in 1 .. i : ts[j] \in Open}) - Cardinality({j \in 1 .. i : ts[j] \in Close})
Operand == {"NUMBER", "ID"} \cup Close
Splits(ts, ops) == {i \in 2 .. Len(ts) - 1 : /\ ts[i] \in ops /\ Depth(ts, i) = 0
                                             /\ ts[i - 1] \in Operand}
Encloses(ts, l, r) == /\ Len(ts) >= 2 /\ ts[1] = l /\ ts[Len(ts)] = r
                      /\ \A i \in 1 .. Len(ts) - 1 : Depth(ts, i) > 0
Inside(ts) == SubSeq(ts, 2, Len(ts) - 1)
Front(ts, i) == SubSeq(ts, 1, i - 1)
Back(ts, i) == SubSeq(ts, i + 1, Len(ts))
Make(of, kids) == IF \E k \in DOMAIN kids : kids[k] = None THEN None ELSE Node(of, kids)

RECURSIVE Parts(_)      \* what stands between the commas
Parts(ts) == LET cs == {i \in 1 .. Len(ts) : ts[i] = "," /\ Depth(ts, i) = 0}
             IN IF cs = {} THEN <<ts>>
                ELSE Append(Parts(Front(ts, Max(cs))), Back(ts, Max(cs)))
Each(ts, F(_)) == LET ps == Parts(ts) IN Make("list", [k \in 1 .. Len(ps) |-> F(ps[k])])

RECURSIVE ExpOf(_)
Call(ts) == IF ts = <<"ID", "(", ")">> THEN Node("call", <<>>)
            ELSE Make("call", <<Each(Inside(Tail(ts)), ExpOf)>>)
IsCall(ts) == Len(ts) > 2 /\ ts[1] = "ID" /\ Encloses(Tail(ts), "(", ")")
IsArray(ts) == Len(ts) > 2 /\ ts[1] = "ID" /\ Encloses(Tail(ts), "[", "]")
LValOf(ts) == IF ts = <<"ID">> THEN Node("ID", <<>>)
              ELSE IF IsArray(ts) THEN Make("element", <<ExpOf(Inside(Tail(ts)))>>) ELSE None
ExpOf(ts) ==
  LET lowest == {l \in 1 .. 2 : Splits(ts, Arithmetic[l]) # {}} IN
  IF lowest # {}
  THEN LET i == Max(Splits(ts, Arithmetic[Min(lowest)]))
       IN Make(ts[i], <<ExpOf(Front(ts, i)), ExpOf(Back(ts, i))>>)
  ELSE IF ts # <<>> /\ ts[1] = "-" THEN Make("N", <<ExpOf(Tail(ts))>>)
  ELSE IF Encloses(ts, "(", ")") THEN ExpOf(Inside(ts))
  ELSE IF ts = <<"NUMBER">> THEN Node("NUMBER", <<>>)
  ELSE IF IsCall(ts) THEN Call(ts) ELSE LValOf(ts)

Comparison == {"==", "!=", "<", "<=", ">", ">="}
RECURSIVE CondOf(_)
CondOf(ts) ==
  LET lowest == {l \in 1 .. 2 : Splits(ts, Loosest[l]) # {}}
      compared == Splits(ts, Comparison) IN
  IF lowest # {}
  THEN LET i == Max(Splits(ts, Loosest[Min(lowest)]))
       IN Make(ts[i], <<CondOf(Front(ts, i)), CondOf(Back(ts, i))>>)
  ELSE IF ts # <<>> /\ ts[1] = "!" THEN Make("!", <<CondOf(Tail(ts))>>)
  ELSE IF ts # <<>> /\ ts[1] = "odd" THEN Make("odd", <<ExpOf(Tail(ts))>>)
  ELSE IF compared # {}
  THEN LET i == Max(compared) IN Make(ts[i], <<ExpOf(Front(ts, i)), ExpOf(Back(ts, i))>>)
  ELSE IF Encloses(ts, "(", ")") THEN CondOf(Inside(ts)) ELSE None

(* A name with a size, an initial value, both or neither.                    *)
Named(ts, plain, value, array, values) ==
  LET is == {i \in 1 .. Len(ts) : ts[i] = "=" /\ Depth(ts, i) = 0}
      name == IF is = {} THEN ts ELSE Front(ts, Min(is))
      init == Back(ts, Min(is))
      size == ExpOf(Inside(Tail(name)))
  IN IF name = <<"ID">>
     THEN IF is = {} THEN Node(plain, <<>>) ELSE Make(value, <<ExpOf(init)>>)
     ELSE IF ~IsArray(name) THEN None
     ELSE IF is = {} THEN Make(array, <<size>>)
     ELSE IF Encloses(init, "{", "}") THEN Make(values, <<size, Each(Inside(init), ExpOf)>>)
     ELSE None
VarOf(ts) == Named(ts, "var", "varinit", "array", "arrayinit")
ConstDefOf(ts) == LET t == Named(ts, "none", "constdef", "none", "constarray")
                  IN IF t.of = "none" THEN None ELSE t

ParamOf(ts) == CASE ts = <<"int", "ID">> -> Node("param", <<>>)
                 [] ts = <<"int", "ID", "[", "]">> -> Node("arrayparam", <<>>)
                 [] OTHER -> None

ItemOf(ts) ==
  LET is == {i \in 1 .. Len(ts) : ts[i] = "=" /\ Depth(ts, i) = 0} IN
  IF ts = <<>> THEN None
  ELSE IF ts[1] = "return" THEN Make("return", <<ExpOf(Tail(ts))>>)
  ELSE IF ts[1] = "if" THEN Make("if", <<CondOf(Tail(ts))>>)
  ELSE IF ts[1] = "int" THEN Make("int", <<Each(Tail(ts), VarOf)>>)
  ELSE IF ts[1] = "const" THEN Make("const", <<Each(Tail(ts), ConstDefOf)>>)
  ELSE IF ts[1] = "header" THEN Make("header", <<Each(Tail(ts), ParamOf)>>)
  ELSE IF is # {} THEN Make("=", <<LValOf(Front(ts, Min(is))), ExpOf(Back(ts, Min(is)))>>)
  ELSE IF IsCall(ts) THEN Call(ts) ELSE None
-----------------------------------------------------------------------------

(* A syntax error is reported only where no sentence could have gone on; an  *)
(* error at END only if the input is none.                                   *)
NoSentenceRefused ==
  result = "error" =>
    \A c \in IF la = "END" THEN {<<>>} ELSE Completions : ItemOf(read \o c) = None

(* The declarations "help us get rid of all the shift/reduce conflicts"      *)
(* (c1-2-parser.md): nothing is decided by bison's defaults.                 *)
ConflictsResolved ==
  la # "none" =>
    /\ Cardinality(Reducible(la)) <= 1
    /\ Shiftable(la) => \A r \in Reducible(la) : Level(la) # 0 /\ RuleLevel(r) # 0
=============================================================================
