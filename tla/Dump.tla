-------------------------------- MODULE Dump --------------------------------
(* Drawing trees for Graphviz: AST::dump with ASTDumpDot for C1, and the     *)
(* dumpdot functions with DumpDOT for Kaleidoscope.  Each node is declared,  *)
(* its children are dumped, and lines lead to the numbers they returned.     *)
(* The text of labels is abstracted to the number of their fields.           *)
EXTENDS Integers, Sequences

CONSTANTS Tree,     \* the trees considered, their subtrees among them
          Height,   \* how far each goes down at most
          Sessions  \* sequences of trees that are dumped one after another

(* A tree is [kind, kids], and args for a prototype.                         *)
Arities(kind) == CASE kind \in {"number", "variable", "prototype"} -> {0}
                [] kind \in {"binary", "while", "function"} -> {2}
                [] kind = "if" -> {3}
                [] kind = "for" -> {3, 4}
                [] kind \in {"call", "ast"} -> Nat
Kind == {"number", "variable", "prototype", "binary", "while", "function",
         "if", "for", "call", "ast"}

(* Trees are finite: the parsers build them from the leaves.                 *)
ASSUME DumpAssumption ==
  /\ \A t \in Tree : /\ t.kind \in Kind /\ t.args \in Nat
                     /\ t.kids \in Seq(Tree) /\ Len(t.kids) \in Arities(t.kind)
  /\ Height \in [Tree -> Nat]
  /\ \A t \in Tree : \A k \in DOMAIN t.kids : Height[t.kids[k]] < Height[t]
  /\ Sessions \subseteq Seq(Tree) \ {<<>>}

VARIABLES session,  \* what is left to be dumped
          frames,   \* the calls of dump under way, outermost first
          count,    \* the dumper's count
          out,      \* the nodes and lines written
          drawn,    \* the trees dumped
          ended     \* whether the graph was closed

vars == <<session, frames, count, out, drawn, ended>>

Fields(t) == CASE t.kind \in {"number", "variable", "ast"} -> 1
               [] t.kind = "prototype" -> 1 + t.args
               [] t.kind = "call" -> 1 + Len(t.kids)
               [] t.kind \in {"binary", "if"} -> 3
               [] t.kind = "for" -> 5
               [] t.kind \in {"while", "function"} -> 2

(* The field a line to the k-th child starts from, -1 if from the node.      *)
(* A for's children are visited start, end, body, and the step if any.       *)
Port(t, k) == CASE t.kind = "ast" -> -1
                [] t.kind = "binary" -> 2 * (k - 1)
                [] t.kind = "call" -> k
                [] t.kind = "for" -> <<1, 2, 4, 3>>[k]
                [] OTHER -> k - 1

(* What dump does behind declaring the node: a call draws each argument's    *)
(* line at once, a for those of its three parts before it visits the step,   *)
(* the others all lines at the end.                                          *)
Each(act, n) == [k \in 1 .. n |-> <<act, k>>]
(* Mutant: a for draws the step's line with the others.                      *)
ScriptStepEarly(t) ==
  LET n == Len(t.kids) IN
  CASE t.kind = "call" -> [i \in 1 .. 2 * n |-> <<IF i % 2 = 1 THEN "dump" ELSE "line", (i + 1) \div 2>>]
    [] t.kind = "for" /\ n = 4 -> Each("dump", 3) \o Each("line", 4) \o <<<<"dump", 4>>>>
    [] OTHER -> Each("dump", n) \o Each("line", n)
Script(t) ==
  LET n == Len(t.kids) IN
  CASE t.kind = "call" -> [i \in 1 .. 2 * n |-> <<IF i % 2 = 1 THEN "dump" ELSE "line", (i + 1) \div 2>>]
    [] t.kind = "for" /\ n = 4 -> Each("dump", 3) \o Each("line", 3) \o <<<<"dump", 4>>, <<"line", 4>>>>
    [] OTHER -> Each("dump", n) \o Each("line", n)

Init == /\ session \in Sessions /\ frames = <<>>
        /\ count = IF session[1].kind = "ast" THEN 1 ELSE 0
        /\ out = <<>> /\ drawn = <<>> /\ ended = FALSE
-----------------------------------------------------------------------------
Top == frames[Len(frames)]
Current == Script(Top.tree)[Top.done + 1]
Visiting(act) == /\ frames # <<>> /\ Top.done < Len(Script(Top.tree))
                 /\ Current[1] = act
                 /\ UNCHANGED <<session, drawn, ended>>

(* newNode, in the call of dump for t; calls is what is under way.           *)
newNode(calls, t) ==
  /\ out' = Append(out, [is |-> "node", number |-> count, fields |-> Fields(t)])
  /\ count' = count + 1
  /\ frames' = Append(calls, [tree |-> t, number |-> count, done |-> 0, kids |-> <<>>])

(* The dumper is called by HandleDefinition and the like, or by main.        *)
Begin == /\ frames = <<>> /\ session # <<>>
         /\ newNode(<<>>, Head(session))
         /\ session' = Tail(session)
         /\ UNCHANGED <<drawn, ended>>

DumpChild == Visiting("dump") /\ newNode(frames, Top.tree.kids[Current[2]])

drawLine == /\ Visiting("line")
            /\ out' = Append(out, [is |-> "line", from |-> Top.number,
                                   port |-> Port(Top.tree, Current[2]),
                                   to |-> (Top.kids \o <<0>>)[Current[2]]])
            /\ frames' = [frames EXCEPT ![Len(frames)].done = @ + 1]
            /\ UNCHANGED count

Return == /\ frames # <<>> /\ Top.done = Len(Script(Top.tree))
          /\ LET below == SubSeq(frames, 1, Len(frames) - 1) IN
             IF below = <<>>
             THEN frames' = <<>> /\ drawn' = Append(drawn, Top.tree)
             ELSE /\ frames' = [below EXCEPT ![Len(below)].done = @ + 1,
                                             ![Len(below)].kids = Append(@, Top.number)]
                  /\ UNCHANGED drawn
          /\ UNCHANGED <<session, count, out, ended>>

end == /\ frames = <<>> /\ session = <<>> /\ ~ended
       /\ ended' = TRUE
       /\ UNCHANGED <<session, frames, count, out, drawn>>
Closed == ended /\ UNCHANGED vars

Next == Begin \/ DumpChild \/ drawLine \/ Return \/ end \/ Closed

Spec == Init /\ [][Next]_vars
-----------------------------------------------------------------------------
(* Properties                                                                *)
Nodes == {i \in DOMAIN out : out[i].is = "node"}
Lines == {i \in DOMAIN out : out[i].is = "line"}

(* The graph of a tree, its nodes numbered from n in the order one meets     *)
(* them reading, each line starting at its child's place.                    *)
Total(sizes, trees, k) ==       \* of the first k
  LET total[j \in 0 .. Len(trees)] == IF j = 0 THEN 0 ELSE total[j - 1] + sizes[trees[j]]
  IN  total[k]
Size[t \in Tree] == 1 + Total(Size, t.kids, Len(t.kids))
Place(t, k) == CASE t.kind = "ast" -> -1
                 [] t.kind = "binary" -> IF k = 1 THEN 0 ELSE 2
                 [] t.kind = "call" -> k
                 [] t.kind = "for" -> IF k = 3 THEN 4 ELSE IF k = 4 THEN 3 ELSE k
                 [] OTHER -> k - 1
Offset(t, k) == 1 + Total(Size, t.kids, k - 1)
Graph[t \in Tree] ==
  [n \in Nat |->
    UNION {{<<n, Place(t, k), n + Offset(t, k)>>} \cup Graph[t.kids[k]][n + Offset(t, k)] :
             k \in DOMAIN t.kids}]

(* What was dumped is drawn as it is: every node once, numbered in order     *)
(* across trees, and one line from each child's place in its parent to the   *)
(* child, whichever order a dump visits and draws in.                        *)
DrawsTheTrees ==
  frames = <<>> /\ drawn # <<>> =>
    LET first == IF drawn[1].kind = "ast" THEN 1 ELSE 0
        Start(i) == first + Total(Size, drawn, i - 1)
    IN  /\ {out[i].number : i \in Nodes} = first .. Start(Len(drawn) + 1) - 1
        /\ \A i, j \in Nodes : out[i].number = out[j].number => i = j
        /\ {<<out[i].from, out[i].port, out[i].to>> : i \in Lines}
             = UNION {Graph[drawn[i]][Start(i)] : i \in DOMAIN drawn}
        /\ \A i, j \in Lines : out[i].to = out[j].to => i = j
        /\ \A i \in Nodes, j \in Lines :
             out[i].number = out[j].from => out[j].port \in -1 .. out[i].fields - 1
=============================================================================
