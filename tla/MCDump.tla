-------------------------------- MODULE MCDump --------------------------------
(* Model-checking instance of Dump: the trees.                               *)
EXTENDS Dump, SequencesExt

Of(kind, kids) == [kind |-> kind, kids |-> kids, args |-> 0]
Prototype(n) == [kind |-> "prototype", kids |-> <<>>, args |-> n]
Number == Of("number", <<>>)
Variable == Of("variable", <<>>)

(* Expressions over e whose wider nodes are over the fewer trees f.          *)
Over(e, f) == {Of("binary", <<a, b>>) : a \in e, b \in e}
              \cup {Of("call", s) : s \in SeqOf(e, 2)}
              \cup {Of("while", <<a, b>>) : a \in e, b \in e}
              \cup {Of("if", s) : s \in TupleOf(f, 3)}
              \cup {Of("for", s) : s \in TupleOf(f, 3) \cup TupleOf(f, 4)}
Flat == Over({Number}, {Variable})
Deep == Over(Flat \cup {Number}, {Number, Of("call", <<Number, Variable>>)})
Definition(b, n) == Of("function", <<Prototype(n), b>>)

RECURSIVE Plain(_)
Plain(t) == [kind |-> "ast", args |-> 0, kids |-> [i \in DOMAIN t.kids |-> Plain(t.kids[i])]]

AllSessions == {<<Definition(b, 2)>> : b \in Deep} \cup {<<Plain(b)>> : b \in Deep}
               \cup {<<Prototype(1), Definition(a, 0), Definition(b, 1)>> : a \in Flat, b \in Flat}

RECURSIVE Subtrees(_), Levels(_)
Subtrees(t) == {t} \cup UNION {Subtrees(t.kids[k]) : k \in DOMAIN t.kids}
Levels(t) == 1 + Max({0} \cup {Levels(t.kids[k]) : k \in DOMAIN t.kids})
AllTrees == UNION {UNION {Subtrees(s[i]) : i \in DOMAIN s} : s \in AllSessions}
Heights == [t \in AllTrees |-> Levels(t)]
=============================================================================
