----------------------- MODULE KaleidoscopeParserProofs -----------------------
(* Theorems about KaleidoscopeParser, for inputs of any length and any       *)
(* nesting of expressions.                                                   *)
EXTENDS KaleidoscopeParser, TLAPS

Operator == {"<", "+", "-", "*"}
Span == [node : Nat, from : Nat, to : Nat]
Node == [op : Operator, at : Nat, left : Span, right : Span]
Waiting == {"paren", "arg", "cond", "then", "else", "from", "end", "step", "body",
            "test", "loop"}
Phase == Waiting \cup {"callee", "args", "variable", "is", "name", "open", "params"}
ExprFrame == [kind : {"expr"}, min : 0 .. 41, lhs : Span \cup {Null},
              op : Operator \cup {"none"}, at : Nat, nested : BOOLEAN]
PartFrame == [kind : {"part"}, phase : Phase, from : Nat]
Frame == ExprFrame \cup PartFrame

TypeInv == /\ pos \in Nat \ {0} /\ start \in Nat
           /\ work \in Seq(Frame) /\ ret \in Span \cup {Null, Pending}
           /\ nodes \in Seq(Node)
           /\ top = "loop" => work = <<>> /\ ret = Pending

(* What PrecedenceRespected says of a tree, with the nodes named.            *)
BareIn(t, ns) == t.node # 0 /\ ns[t.node].left.from = t.from
BindsIn(t, ns) == IF BareIn(t, ns) THEN BinopPrecedence[ns[t.node].op] ELSE 100
Known(t, ns) == t.node # 0 => /\ t.node <= Len(ns)
                              /\ t.from <= ns[t.node].left.from
NodesRight(ns) ==
  \A i \in 1 .. Len(ns) :
    LET n == ns[i]
        prec == BinopPrecedence[n.op]
    IN /\ Known(n.left, ns) /\ Known(n.right, ns)
       /\ n.left.to + 1 = n.at /\ n.right.from = n.at + 1
       /\ BindsIn(n.left, ns) >= prec /\ BindsIn(n.right, ns) > prec

(* A call by itself: its left operand binds as tightly as it was asked for   *)
(* and as the operator that has taken it.                                    *)
Own(fr, ns) ==
  fr.kind = "expr" =>
    /\ fr.lhs = Null => fr.op = "none"
    /\ fr.nested => fr.op # "none"
    /\ fr.lhs # Null => Known(fr.lhs, ns) /\ BindsIn(fr.lhs, ns) >= fr.min
    /\ fr.op # "none" => /\ fr.lhs.to + 1 = fr.at
                         /\ BinopPrecedence[fr.op] >= fr.min
                         /\ BindsIn(fr.lhs, ns) >= BinopPrecedence[fr.op]

(* A call and the one it has made.                                           *)
Calls(fr, ch) ==
  IF fr.kind = "part" THEN ch.kind = "expr" /\ fr.phase \in Waiting
  ELSE /\ fr.lhs = Null \/ fr.op # "none"
       /\ IF ch.kind = "part" THEN ~fr.nested
          ELSE fr.nested /\ ch.lhs # Null /\ ch.min = BinopPrecedence[fr.op] + 1

(* A call and where what it is about to take begins: a right operand behind  *)
(* the operator, what is in parentheses behind the first of them.            *)
Meets(fr, begin) == IF fr.kind = "expr" THEN fr.op # "none" => begin = fr.at + 1
                    ELSE fr.phase = "paren" => fr.from < begin

(* Where a call's text begins, `at` being where that of the next one does.   *)
First(fr, at) == IF fr.kind = "part" THEN fr.from
                 ELSE IF fr.lhs # Null THEN fr.lhs.from ELSE at
Inner(w, k, at) == IF k >= Len(w) THEN at
                   ELSE First(w[k + 1], IF k + 1 < Len(w) THEN w[k + 2].from ELSE at)
Newest == IF ret = Pending THEN pos ELSE ret.from
CallsRight(w, at, ns) ==
  \A k \in 1 .. Len(w) : /\ Own(w[k], ns) /\ Meets(w[k], Inner(w, k, at))
                         /\ k < Len(w) => Calls(w[k], w[k + 1])

(* The innermost call and what it has just been given, or is to do next.     *)
Fresh(fr) == /\ fr.op # "none" => ~fr.nested
             /\ fr.lhs # Null /\ fr.op = "none" =>
                  fr.lhs.to = pos - 1 /\ BindsIn(fr.lhs, nodes) >= GetTokPrecedence(tok)
Given(fr, t) ==
  IF fr.kind = "part" THEN fr.phase \in Waiting
  ELSE /\ fr.lhs = Null \/ fr.op # "none"
       /\ IF fr.nested THEN /\ BindsIn(t, nodes) > BinopPrecedence[fr.op]
                            /\ GetTokPrecedence(tok) <= BinopPrecedence[fr.op]
          ELSE ~BareIn(t, nodes)
TopRight == IF ret = Pending THEN work # <<>> /\ Top.kind = "expr" => Fresh(Top)
            ELSE /\ ret.to = pos - 1 /\ Known(ret, nodes)
                 /\ work # <<>> => Given(Top, ret)

(* What a handler waits for begins at start, and ends where nothing goes on. *)
Whole == top \in {"expr", "body"} =>
           /\ Inner(work, 0, Newest) = start
           /\ IF work = <<>> THEN ret # Pending /\ GetTokPrecedence(tok) = -1
              ELSE work[1].kind = "expr" /\ work[1].min = 0

SpanInv == ret # Null => CallsRight(work, Newest, nodes) /\ TopRight /\ Whole
ParserInv == TypeInv /\ NodesRight(nodes) /\ SpanInv
-----------------------------------------------------------------------------
(* The calls under way.                                                      *)

(* A call without a left operand begins where the one it has made does.      *)
LEMMA Through ==
  ASSUME NEW fr, NEW ch, NEW ns, NEW at, Own(fr, ns), Calls(fr, ch), fr.kind \in {"part", "expr"}
  PROVE  First(fr, ch.from) = First(fr, First(ch, at))
BY DEF Own, Calls, First

LEMMA Frames ==
  ASSUME NEW w \in Seq(Frame)
  PROVE  /\ Len(w) \in Nat
         /\ \A k \in 1 .. Len(w) : w[k] \in Frame /\ w[k].kind \in {"part", "expr"}
<1>1. \A fr \in Frame : fr.kind \in {"part", "expr"}
  BY DEF Frame, ExprFrame, PartFrame
<1> QED
  BY <1>1

(* The innermost call goes on, beginning where it began.                     *)
LEMMA CallGoesOn ==
  ASSUME NEW w \in Seq(Frame), NEW ns, NEW at, NEW at2, NEW fr \in Frame,
         w # <<>>, CallsRight(w, at, ns),
         Own(fr, ns), Meets(fr, at2), First(fr, at2) = First(w[Len(w)], at),
         Len(w) > 1 => Calls(w[Len(w) - 1], fr)
  PROVE  LET w2 == Append(SubSeq(w, 1, Len(w) - 1), fr)
         IN /\ w2 \in Seq(Frame) /\ CallsRight(w2, at2, ns)
            /\ Inner(w2, 0, at2) = Inner(w, 0, at)
            /\ Len(w2) = Len(w) /\ w2[Len(w)] = fr /\ w2 # <<>>
            /\ \A k \in 1 .. Len(w) - 1 : w2[k] = w[k]
<1> DEFINE w2 == Append(SubSeq(w, 1, Len(w) - 1), fr)
<1>1. PICK n \in Nat : n = Len(w) /\ n >= 1
  OBVIOUS
<1>2. /\ w2 \in Seq(Frame) /\ Len(w2) = n /\ w2[n] = fr /\ w2 # <<>>
      /\ \A k \in 1 .. n - 1 : w2[k] = w[k]
  BY <1>1
<1> HIDE DEF w2
<1>3. \A k \in 1 .. n : w[k].kind \in {"part", "expr"}
  BY <1>1, Frames
<1>4. \A k \in 1 .. n : /\ Own(w[k], ns) /\ Meets(w[k], Inner(w, k, at))
                        /\ k < n => Calls(w[k], w[k + 1])
  BY <1>1 DEF CallsRight
<1>5. ASSUME NEW k \in 0 .. n - 1
      PROVE  Inner(w2, k, at2) = Inner(w, k, at)
  <2>1. CASE k + 1 = n
    BY <1>1, <1>2, <2>1 DEF Inner
  <2>2. CASE k + 2 = n
    <3>1. First(w[k + 1], w[n].from) = First(w[k + 1], First(w[n], at))
      BY <1>3, <1>4, <2>2, Through
    <3>2. First(w[k + 1], fr.from) = First(w[k + 1], First(fr, at2))
      <4>1. Calls(w[k + 1], fr) /\ k + 1 \in 1 .. n
        BY <1>1, <2>2
      <4> QED
        BY <1>3, <1>4, <4>1, Through
    <3>3. Inner(w, k, at) = First(w[k + 1], w[n].from)
      BY <1>1, <2>2 DEF Inner
    <3>4. Inner(w2, k, at2) = First(w[k + 1], fr.from)
      BY <1>2, <2>2 DEF Inner
    <3> QED
      BY <1>1, <3>1, <3>2, <3>3, <3>4
  <2>3. CASE k + 2 < n
    BY <1>1, <1>2, <2>3 DEF Inner
  <2> QED
    BY <2>1, <2>2, <2>3
<1>6. Inner(w2, n, at2) = at2
  BY <1>2 DEF Inner
<1>7. \A k \in 1 .. n : /\ Own(w2[k], ns) /\ Meets(w2[k], Inner(w2, k, at2))
                        /\ k < n => Calls(w2[k], w2[k + 1])
  <2> SUFFICES ASSUME NEW k \in 1 .. n
               PROVE  /\ Own(w2[k], ns) /\ Meets(w2[k], Inner(w2, k, at2))
                      /\ k < n => Calls(w2[k], w2[k + 1])
    OBVIOUS
  <2>1. CASE k = n
    BY <1>2, <1>6, <2>1
  <2>2. CASE k = n - 1
    BY <1>1, <1>2, <1>4, <1>5, <2>2
  <2>3. CASE k < n - 1
    BY <1>2, <1>4, <1>5, <2>3
  <2> QED
    BY <2>1, <2>2, <2>3
<1>8. CallsRight(w2, at2, ns)
  BY <1>2, <1>7 DEF CallsRight
<1> QED
  BY <1>1, <1>2, <1>5, <1>8 DEF w2

(* The innermost call makes one, which begins where the former is.           *)
LEMMA CallIsMade ==
  ASSUME NEW w \in Seq(Frame), NEW ns, NEW at, NEW at2, NEW fr \in Frame,
         w # <<>>, CallsRight(w, at, ns),
         Own(fr, ns), Meets(fr, at2), First(fr, at2) = at, Calls(w[Len(w)], fr)
  PROVE  LET w2 == Append(w, fr)
         IN /\ w2 \in Seq(Frame) /\ CallsRight(w2, at2, ns)
            /\ Inner(w2, 0, at2) = Inner(w, 0, at)
            /\ Len(w2) = Len(w) + 1 /\ w2[Len(w) + 1] = fr /\ w2 # <<>>
            /\ \A k \in 1 .. Len(w) : w2[k] = w[k]
<1> DEFINE w2 == Append(w, fr)
<1>1. PICK n \in Nat : n = Len(w) /\ n >= 1
  OBVIOUS
<1>2. /\ w2 \in Seq(Frame) /\ Len(w2) = n + 1 /\ w2[n + 1] = fr /\ w2 # <<>>
      /\ \A k \in 1 .. n : w2[k] = w[k]
  BY <1>1
<1> HIDE DEF w2
<1>3. \A k \in 1 .. n : w[k].kind \in {"part", "expr"}
  BY <1>1, Frames
<1>4. \A k \in 1 .. n : /\ Own(w[k], ns) /\ Meets(w[k], Inner(w, k, at))
                        /\ k < n => Calls(w[k], w[k + 1])
  BY <1>1 DEF CallsRight
<1>5. ASSUME NEW k \in 0 .. n
      PROVE  Inner(w2, k, at2) = Inner(w, k, at)
  <2>1. CASE k = n
    BY <1>1, <1>2, <2>1 DEF Inner
  <2>2. CASE k + 1 = n
    <3>1. First(w[n], fr.from) = First(w[n], First(fr, at2))
      BY <1>1, <1>3, <1>4, Through
    <3>2. Inner(w, k, at) = First(w[n], at)
      BY <1>1, <2>2 DEF Inner
    <3>3. Inner(w2, k, at2) = First(w[n], fr.from)
      BY <1>1, <1>2, <2>2 DEF Inner
    <3> QED
      BY <3>1, <3>2, <3>3
  <2>3. CASE k + 1 < n
    BY <1>1, <1>2, <2>3 DEF Inner
  <2> QED
    BY <2>1, <2>2, <2>3
<1>6. Inner(w2, n + 1, at2) = at2
  BY <1>2 DEF Inner
<1>7. \A k \in 1 .. n + 1 : /\ Own(w2[k], ns) /\ Meets(w2[k], Inner(w2, k, at2))
                            /\ k < n + 1 => Calls(w2[k], w2[k + 1])
  <2> SUFFICES ASSUME NEW k \in 1 .. n + 1
               PROVE  /\ Own(w2[k], ns) /\ Meets(w2[k], Inner(w2, k, at2))
                      /\ k < n + 1 => Calls(w2[k], w2[k + 1])
    OBVIOUS
  <2>1. CASE k = n + 1
    BY <1>2, <1>6, <2>1
  <2>2. CASE k = n
    BY <1>1, <1>2, <1>4, <1>5, <2>2
  <2>3. CASE k < n
    BY <1>2, <1>4, <1>5, <2>3
  <2> QED
    BY <2>1, <2>2, <2>3
<1>8. CallsRight(w2, at2, ns)
  BY <1>2, <1>7 DEF CallsRight
<1> QED
  BY <1>1, <1>2, <1>5, <1>8 DEF w2

(* The innermost call returns what begins where it did.                      *)
LEMMA CallReturns ==
  ASSUME NEW w \in Seq(Frame), NEW ns, NEW at, NEW at2,
         w # <<>>, CallsRight(w, at, ns), at2 = First(w[Len(w)], at)
  PROVE  LET w2 == SubSeq(w, 1, Len(w) - 1)
         IN /\ w2 \in Seq(Frame) /\ CallsRight(w2, at2, ns)
            /\ Inner(w2, 0, at2) = Inner(w, 0, at)
            /\ Len(w2) = Len(w) - 1 /\ \A k \in 1 .. Len(w) - 1 : w2[k] = w[k]
<1> DEFINE w2 == SubSeq(w, 1, Len(w) - 1)
<1>1. PICK n \in Nat : n = Len(w) - 1
  OBVIOUS
<1>2. w2 \in Seq(Frame) /\ Len(w2) = n /\ \A k \in 1 .. n : w2[k] = w[k]
  BY <1>1
<1> HIDE DEF w2
<1>3. \A k \in 1 .. n + 1 : w[k].kind \in {"part", "expr"}
  BY <1>1, Frames
<1>4. \A k \in 1 .. n + 1 : /\ Own(w[k], ns) /\ Meets(w[k], Inner(w, k, at))
                            /\ k < n + 1 => Calls(w[k], w[k + 1])
  BY <1>1 DEF CallsRight
<1>5. ASSUME NEW k \in 0 .. n
      PROVE  Inner(w2, k, at2) = Inner(w, k, at)
  <2>1. CASE k = n
    BY <1>1, <1>2, <2>1 DEF Inner
  <2>2. CASE k + 1 = n
    <3>1. First(w[n], w[n + 1].from) = First(w[n], First(w[n + 1], at))
      BY <1>3, <1>4, <2>2, Through
    <3>2. Inner(w, k, at) = First(w[n], w[n + 1].from)
      BY <1>1, <2>2 DEF Inner
    <3>3. Inner(w2, k, at2) = First(w[n], at2)
      BY <1>2, <2>2 DEF Inner
    <3> QED
      BY <1>1, <3>1, <3>2, <3>3
  <2>3. CASE k + 1 < n
    BY <1>1, <1>2, <2>3 DEF Inner
  <2> QED
    BY <2>1, <2>2, <2>3
<1>6. \A k \in 1 .. n : /\ Own(w2[k], ns) /\ Meets(w2[k], Inner(w2, k, at2))
                        /\ k < n => Calls(w2[k], w2[k + 1])
  <2> SUFFICES ASSUME NEW k \in 1 .. n
               PROVE  /\ Own(w2[k], ns) /\ Meets(w2[k], Inner(w2, k, at2))
                      /\ k < n => Calls(w2[k], w2[k + 1])
    OBVIOUS
  <2>1. CASE k = n
    BY <1>2, <1>4, <1>5, <2>1
  <2>2. CASE k < n
    <3>1. k + 1 \in 1 .. n /\ k \in 0 .. n
      BY <2>2
    <3>2. w2[k] = w[k] /\ w2[k + 1] = w[k + 1] /\ Inner(w2, k, at2) = Inner(w, k, at)
      BY <1>2, <1>5, <3>1
    <3> QED
      BY <1>4, <2>2, <3>2
  <2> QED
    BY <2>1, <2>2
<1>7. CallsRight(w2, at2, ns)
  BY <1>2, <1>6 DEF CallsRight
<1> QED
  BY <1>1, <1>2, <1>5, <1>7 DEF w2
-----------------------------------------------------------------------------
(* The values the actions are made from.                                     *)
LEMMA Precedences ==
  /\ \A o \in Operator : BinopPrecedence[o] \in 10 .. 40
  /\ \A t : /\ GetTokPrecedence(t) \in -1 .. 40
            /\ t \in Operator => GetTokPrecedence(t) = BinopPrecedence[t]
            /\ t \notin Operator => GetTokPrecedence(t) = -1
<1>1. \A o \in Operator : BinopPrecedence[o] \in 10 .. 40
  BY DEF BinopPrecedence, Operator
<1>2. DOMAIN BinopPrecedence = Operator
  BY DEF BinopPrecedence, Operator
<1> QED
  BY <1>1, <1>2 DEF GetTokPrecedence

LEMMA Values ==
  /\ Null \notin Span /\ Pending \notin Span /\ Null # Pending
  /\ \A n, i, j \in Nat : Tree(n, i, j) \in Span
  /\ \A m \in 0 .. 41, t \in Span \cup {Null} : Expr(m, t) \in Frame
  /\ \A p \in Phase, i \in Nat : Part(p, i) \in Frame
BY ParserAssumption DEF Span, Tree, Expr, Part, Frame, ExprFrame, PartFrame

LEMMA Innermost ==
  ASSUME TypeInv, SpanInv, work # <<>>, ret # Null
  PROVE  /\ Len(work) \in Nat /\ Len(work) >= 1 /\ Top = work[Len(work)]
         /\ Top \in Frame /\ Own(Top, nodes) /\ Meets(Top, Newest)
         /\ Len(work) > 1 => Calls(work[Len(work) - 1], Top)
         /\ CallsRight(work, Newest, nodes) /\ top # "loop"
<1>1. PICK n \in Nat : n = Len(work) /\ n >= 1
  BY DEF TypeInv
<1>2. CallsRight(work, Newest, nodes)
  BY DEF SpanInv
<1>3. Top = work[n] /\ work[n] \in Frame
  BY <1>1 DEF Top, TypeInv
<1>4. Inner(work, n, Newest) = Newest
  BY <1>1 DEF Inner
<1>5. Own(work[n], nodes) /\ Meets(work[n], Newest)
  BY <1>1, <1>2, <1>4 DEF CallsRight
<1>6. n > 1 => Calls(work[n - 1], work[n])
  BY <1>1, <1>2 DEF CallsRight
<1> QED
  BY <1>1, <1>2, <1>3, <1>5, <1>6 DEF TypeInv

(* A step that leaves the handler alone.                                     *)
LEMMA Settled ==
  ASSUME ParserInv, work # <<>>, UNCHANGED <<start, top>>,
         pos' \in Nat \ {0}, work' \in Seq(Frame), ret' \in Span \cup {Pending},
         nodes' \in Seq(Node), NodesRight(nodes)',
         CallsRight(work, Newest, nodes)', TopRight',
         Inner(work, 0, Newest)' = Inner(work, 0, Newest), ret # Null,
         IF work' = <<>>
         THEN top \in {"expr", "body"} => ret' # Pending /\ GetTokPrecedence(tok)' = -1
         ELSE work'[1].kind = work[1].kind /\ (work[1].kind = "expr" => work'[1].min = work[1].min)
  PROVE  ParserInv'
<1>1. TypeInv'
  BY Innermost, Values DEF ParserInv, TypeInv
<1>2. Whole'
  BY DEF ParserInv, SpanInv, Whole
<1>3. SpanInv'
  BY <1>2 DEF SpanInv
<1> QED
  BY <1>1, <1>3 DEF ParserInv

LEMMA NothingReturned ==
  ASSUME ParserInv, ret' = Null, work' \in {work, Pop},
         work # <<>>, UNCHANGED <<pos, nodes, start, top>>
  PROVE  ParserInv'
<1>1. work' \in Seq(Frame)
  <2>1. CASE work' = Pop
    <3>1. work \in Seq(Frame) /\ Len(work) \in Nat /\ Len(work) >= 1
      BY DEF ParserInv, TypeInv
    <3> QED
      BY <2>1, <3>1 DEF Pop
  <2> QED
    BY <2>1 DEF ParserInv, TypeInv
<1>2. TypeInv'
  BY <1>1 DEF ParserInv, TypeInv
<1> QED
  BY <1>2 DEF ParserInv, SpanInv
(* What the actions on a call amount to.                                     *)
LEMMA GoesOn ==
  ASSUME ParserInv, work # <<>>, ret # Null, NEW fr \in Frame, work' = Become(fr),
         ret' \in Span \cup {Pending}, pos' \in Nat \ {0}, UNCHANGED <<nodes, start, top>>,
         Own(fr, nodes), Meets(fr, Newest'), First(fr, Newest') = First(Top, Newest),
         Len(work) > 1 => Calls(work[Len(work) - 1], fr),
         fr.kind = Top.kind, fr.kind = "expr" => fr.min = Top.min,
         ret' = Pending /\ (fr.kind = "expr" => Fresh(fr)')
  PROVE  ParserInv'
<1>1. PICK n \in Nat : n = Len(work) /\ n >= 1
  BY DEF ParserInv, TypeInv
<1>2. PICK w : w = work'
  OBVIOUS
<1>3. PICK at2 : at2 = Newest'
  OBVIOUS
<1>4. /\ work \in Seq(Frame) /\ Top = work[n] /\ CallsRight(work, Newest, nodes)
      /\ nodes \in Seq(Node) /\ NodesRight(nodes)
  BY <1>1, Innermost DEF ParserInv, TypeInv
<1>5. w = Append(SubSeq(work, 1, Len(work) - 1), fr)
  BY <1>2 DEF Become, Pop
<1>6. /\ w \in Seq(Frame) /\ CallsRight(w, at2, nodes)
      /\ Inner(w, 0, at2) = Inner(work, 0, Newest)
      /\ Len(w) = n /\ w[n] = fr /\ w # <<>> /\ \A k \in 1 .. n - 1 : w[k] = work[k]
  <2>1. Meets(fr, at2) /\ First(fr, at2) = First(work[Len(work)], Newest)
    BY <1>1, <1>3, <1>4
  <2>2. Len(work) > 1 => Calls(work[Len(work) - 1], fr)
    OBVIOUS
  <2>3. PICK at, ns : at = Newest /\ ns = nodes
    OBVIOUS
  <2>4. CallsRight(work, at, ns) /\ Own(fr, ns) /\ First(fr, at2) = First(work[Len(work)], at)
    BY <1>4, <2>1, <2>3
  <2>5. work # <<>>
    OBVIOUS
  <2>6. CallsRight(w, at2, ns) /\ Inner(w, 0, at2) = Inner(work, 0, at)
    BY <1>4, <1>5, <2>1, <2>2, <2>4, <2>5, CallGoesOn
  <2>7. /\ w \in Seq(Frame) /\ Len(w) = Len(work) /\ w[Len(work)] = fr /\ w # <<>>
        /\ \A k \in 1 .. Len(work) - 1 : w[k] = work[k]
    BY <1>4, <1>5, <2>1, <2>2, <2>4, <2>5, CallGoesOn
  <2> QED
    BY <1>1, <2>3, <2>6, <2>7
<1>7. CallsRight(work, Newest, nodes)' /\ Inner(work, 0, Newest)' = Inner(work, 0, Newest)
  BY <1>2, <1>3, <1>6
<1>8. Top' = fr
  BY <1>2, <1>6 DEF Top
<1>9. TopRight'
  BY <1>8 DEF TopRight
<1>10. work'[1].kind = work[1].kind /\ (work[1].kind = "expr" => work'[1].min = work[1].min)
  BY <1>1, <1>2, <1>4, <1>6
<1>11. NodesRight(nodes)' /\ nodes' \in Seq(Node)
  BY <1>4
<1> QED
  BY <1>2, <1>6, <1>7, <1>9, <1>10, <1>11, Settled

(* An expression is called for by a part that has gone on.                   *)
LEMMA CallsExpression ==
  ASSUME ParserInv, work # <<>>, ret # Null, Top.kind = "part",
         NEW phase \in Waiting \ {"paren"}, work' = Call(Part(phase, Top.from), Expr(0, Null)),
         ret' = Pending, pos' \in Nat \ {0}, UNCHANGED <<nodes, start, top>>
  PROVE  ParserInv'
<1> DEFINE fr == Part(phase, Top.from)
           ex == Expr(0, Null)
<1>1. PICK n \in Nat : n = Len(work) /\ n >= 1
  BY DEF ParserInv, TypeInv
<1>2. PICK w : w = Become(fr)
  OBVIOUS
<1>3. PICK at2 : at2 = Newest'
  OBVIOUS
<1>4. /\ work \in Seq(Frame) /\ Top = work[n] /\ CallsRight(work, Newest, nodes)
      /\ nodes \in Seq(Node) /\ NodesRight(nodes)
      /\ n > 1 => Calls(work[n - 1], Top)
      /\ Top \in Frame
  BY <1>1, Innermost DEF ParserInv, TypeInv
<1>5. fr \in Frame /\ ex \in Frame
  <2>1. Top.from \in Nat
    BY <1>4 DEF Frame, PartFrame, ExprFrame
  <2>2. fr \in Frame
    <3>1. phase \in Phase
      BY DEF Phase
    <3> QED
      BY <2>1, <3>1, Values
  <2>3. ex \in Frame
    <3>1. 0 \in 0 .. 41 /\ Null \in Span \cup {Null}
      OBVIOUS
    <3> QED
      BY <3>1, Values
  <2> QED
    BY <2>2, <2>3
<1>6. /\ Own(fr, nodes) /\ Meets(fr, at2) /\ First(fr, at2) = First(Top, Newest)
      /\ n > 1 => Calls(work[n - 1], fr)
  BY <1>4 DEF Own, Meets, First, Calls, Part
<1>7. /\ Own(ex, nodes) /\ Meets(ex, at2) /\ First(ex, at2) = at2 /\ Calls(fr, ex)
  BY DEF Own, Meets, First, Calls, Part, Expr
<1>8. ex.kind = "expr" /\ fr.kind = "part" /\ Fresh(ex)'
  BY DEF Fresh, Part, Expr
<1> HIDE DEF fr, ex
<1>9. w = Append(SubSeq(work, 1, Len(work) - 1), fr)
  BY <1>2 DEF Become, Pop
<1>10. /\ w \in Seq(Frame) /\ CallsRight(w, at2, nodes)
       /\ Inner(w, 0, at2) = Inner(work, 0, Newest)
       /\ Len(w) = n /\ w[n] = fr /\ w # <<>> /\ \A k \in 1 .. n - 1 : w[k] = work[k]
  BY <1>1, <1>4, <1>5, <1>6, <1>9, CallGoesOn
<1>11. PICK v : v = work'
  OBVIOUS
<1>12. v = Append(w, ex)
  BY <1>2, <1>11 DEF Call, fr, ex
<1>13. /\ v \in Seq(Frame) /\ CallsRight(v, at2, nodes)
       /\ Inner(v, 0, at2) = Inner(w, 0, at2)
       /\ Len(v) = n + 1 /\ v[n + 1] = ex /\ v # <<>> /\ \A k \in 1 .. n : v[k] = w[k]
  BY <1>5, <1>7, <1>10, <1>12, CallIsMade
<1>14. CallsRight(work, Newest, nodes)' /\ Inner(work, 0, Newest)' = Inner(work, 0, Newest)
  BY <1>3, <1>10, <1>11, <1>13
<1>15. Top' = ex
  BY <1>11, <1>13 DEF Top
<1>16. TopRight'
  BY <1>8, <1>15 DEF TopRight
<1>17. work'[1].kind = work[1].kind /\ (work[1].kind = "expr" => work'[1].min = work[1].min)
  <2>1. v[1] = w[1]
    BY <1>1, <1>13
  <2>2. n = 1 => work[1].kind = "part" /\ w[1].kind = "part"
    BY <1>4, <1>8, <1>10
  <2>3. n > 1 => w[1] = work[1]
    BY <1>1, <1>10
  <2> QED
    BY <1>1, <1>11, <2>1, <2>2, <2>3
<1>18. NodesRight(nodes)' /\ nodes' \in Seq(Node)
  BY <1>4
<1>19. v # <<>> /\ v \in Seq(Frame)
  BY <1>13
<1> QED
  BY <1>11, <1>14, <1>16, <1>17, <1>18, <1>19, Settled

(* What a part returns spans what the part has eaten, and is no binary       *)
(* expression without parentheses.                                           *)
LEMMA PartReturns ==
  ASSUME ParserInv, work # <<>>, ret # Null, Top.kind = "part", NEW t \in Span,
         work' = Pop, ret' = t, pos' \in Nat \ {0}, UNCHANGED <<nodes, start, top>>,
         t.from = Top.from, t.to = pos' - 1, Known(t, nodes), ~BareIn(t, nodes)
  PROVE  ParserInv'
<1>1. PICK n \in Nat : n = Len(work) /\ n >= 1
  BY DEF ParserInv, TypeInv
<1>2. PICK w : w = work'
  OBVIOUS
<1>3. /\ work \in Seq(Frame) /\ Top = work[n] /\ CallsRight(work, Newest, nodes)
      /\ nodes \in Seq(Node) /\ NodesRight(nodes)
      /\ n > 1 => Calls(work[n - 1], Top)
  BY <1>1, Innermost DEF ParserInv, TypeInv
<1>4. Newest' = First(Top, Newest) /\ ret' # Pending
  BY Values DEF Newest, First
<1>5. PICK at2 : at2 = Newest'
  OBVIOUS
<1>6. w = SubSeq(work, 1, Len(work) - 1) /\ at2 = First(work[Len(work)], Newest)
  BY <1>1, <1>2, <1>3, <1>4, <1>5 DEF Pop
<1>7. /\ w \in Seq(Frame) /\ CallsRight(w, at2, nodes)
      /\ Inner(w, 0, at2) = Inner(work, 0, Newest)
      /\ Len(w) = n - 1 /\ \A k \in 1 .. n - 1 : w[k] = work[k]
  BY <1>1, <1>3, <1>6, CallReturns
<1>8. CallsRight(work, Newest, nodes)' /\ Inner(work, 0, Newest)' = Inner(work, 0, Newest)
  BY <1>2, <1>5, <1>7
<1>9. TopRight'
  <2>1. ASSUME w # <<>> PROVE Given(Top, ret)'
    <3>1. n > 1 /\ Top' = work[n - 1] /\ work[n - 1] \in Frame
      BY <1>1, <1>2, <1>3, <1>7, <2>1 DEF Top
    <3> QED
      BY <1>3, <3>1 DEF Given, Calls
  <2> QED
    BY <1>2, <1>4, <2>1 DEF TopRight
<1>10. IF work' = <<>> THEN top \notin {"expr", "body"}
       ELSE work'[1].kind = work[1].kind /\ (work[1].kind = "expr" => work'[1].min = work[1].min)
  <2>1. CASE n = 1
    <3>1. work[1].kind # "expr"
      BY <1>3, <2>1
    <3> QED
      BY <1>1, <1>2, <1>7, <2>1, <3>1 DEF ParserInv, SpanInv, Whole
  <2>2. CASE n > 1
    BY <1>1, <1>2, <1>7, <2>2
  <2> QED
    BY <1>1, <2>1, <2>2
<1>11. NodesRight(nodes)' /\ nodes' \in Seq(Node)
  BY <1>3
<1> QED
  BY <1>2, <1>4, <1>7, <1>8, <1>9, <1>10, <1>11, Settled
-----------------------------------------------------------------------------
(* Primary expressions and prototypes                                        *)
LEMMA BehindRules ==
  \A p \in Waiting : \A rule \in Behind[p] :
    /\ rule[1] # "EOF"
    /\ rule[2] = "done" \/ rule[2] \in Waiting \ {"paren"}
    /\ p = "paren" => rule[1] # "" /\ rule[2] = "done"
<1> SUFFICES ASSUME NEW p \in Waiting, NEW rule \in Behind[p]
             PROVE  /\ rule[1] # "EOF"
                    /\ rule[2] = "done" \/ rule[2] \in Waiting \ {"paren"}
                    /\ p = "paren" => rule[1] # "" /\ rule[2] = "done"
  OBVIOUS
<1>1. CASE p = "paren"
  <2>1. rule = <<")", "done">>
    BY <1>1, Zenon DEF Behind
  <2> QED
    BY <1>1, <2>1, Zenon DEF Waiting
<1>2. CASE p = "arg"
  <2>1. CASE rule = <<",", "arg">>
    BY <1>2, <2>1, Zenon DEF Waiting
  <2>2. CASE rule = <<")", "done">>
    BY <1>2, <2>2, Zenon DEF Waiting
  <2> QED
    BY <1>2, <2>1, <2>2, Zenon DEF Behind
<1>3. CASE p = "cond"
  <2>1. rule = <<"then", "then">>
    BY <1>3, Zenon DEF Behind
  <2> QED
    BY <1>3, <2>1, Zenon DEF Waiting
<1>4. CASE p = "then"
  <2>1. rule = <<"else", "else">>
    BY <1>4, Zenon DEF Behind
  <2> QED
    BY <1>4, <2>1, Zenon DEF Waiting
<1>5. CASE p = "from"
  <2>1. rule = <<",", "end">>
    BY <1>5, Zenon DEF Behind
  <2> QED
    BY <1>5, <2>1, Zenon DEF Waiting
<1>6. CASE p = "end"
  <2>1. CASE rule = <<",", "step">>
    BY <1>6, <2>1, Zenon DEF Waiting
  <2>2. CASE rule = <<"in", "body">>
    BY <1>6, <2>2, Zenon DEF Waiting
  <2> QED
    BY <1>6, <2>1, <2>2, Zenon DEF Behind
<1>7. CASE p = "step"
  <2>1. rule = <<"in", "body">>
    BY <1>7, Zenon DEF Behind
  <2> QED
    BY <1>7, <2>1, Zenon DEF Waiting
<1>8. CASE p = "test"
  <2>1. rule = <<"", "loop">>
    BY <1>8, Zenon DEF Behind
  <2> QED
    BY <1>8, <2>1, Zenon DEF Waiting
<1>9. CASE p \in {"else", "body", "loop"}
  <2>1. rule = <<"", "done">>
    BY <1>9, Zenon DEF Behind
  <2> QED
    BY <1>9, <2>1, Zenon DEF Waiting
<1> QED
  BY <1>1, <1>2, <1>3, <1>4, <1>5, <1>6, <1>7, <1>8, <1>9 DEF Waiting

LEMMA HeaderRules ==
  \A p \in DOMAIN Header : \A rule \in Header[p] :
    /\ rule[1] # "EOF"
    /\ rule[2] \in {"done", "from"} \cup (Phase \ Waiting)
<1> SUFFICES ASSUME NEW p \in DOMAIN Header, NEW rule \in Header[p]
             PROVE  /\ rule[1] # "EOF"
                    /\ rule[2] \in {"done", "from"} \cup (Phase \ Waiting)
  OBVIOUS
<1>0. p \in {"variable", "is", "name", "open", "params"}
  BY DEF Header
<1>1. CASE p = "variable"
  BY <1>1 DEF Header, Waiting, Phase
<1>2. CASE p = "is"
  BY <1>2 DEF Header, Waiting, Phase
<1>3. CASE p = "name"
  BY <1>3 DEF Header, Waiting, Phase
<1>4. CASE p = "open"
  BY <1>4 DEF Header, Waiting, Phase
<1>5. CASE p = "params"
  BY <1>5 DEF Header, Waiting, Phase
<1> QED
  BY <1>0, <1>1, <1>2, <1>3, <1>4, <1>5

LEMMA Advances ==
  ASSUME TypeInv, getNextToken
  PROVE  pos' \in Nat \ {0} /\ (tok # "EOF" => pos' = pos + 1)
BY DEF TypeInv, getNextToken

(* A part that has eaten a token on the way to what it expects.              *)
LEMMA PartGoesOn ==
  ASSUME ParserInv, work # <<>>, ret = Pending, Top.kind = "part", Inside,
         NEW phase \in Phase \ {"paren"}, work' = Become(Part(phase, Top.from)),
         UNCHANGED ret, getNextToken, phase \notin Waiting
  PROVE  ParserInv'
<1>1. Top \in Frame /\ (Len(work) > 1 => Calls(work[Len(work) - 1], Top))
  BY Innermost, Values DEF ParserInv
<1>2. PICK fr : fr = Part(phase, Top.from)
  OBVIOUS
<1>3. fr \in Frame
  <2>1. Top.from \in Nat
    BY <1>1 DEF Frame, PartFrame, ExprFrame
  <2> QED
    BY <1>2, <2>1, Values
<1>4. /\ Own(fr, nodes) /\ Meets(fr, Newest') /\ First(fr, Newest') = First(Top, Newest)
      /\ fr.kind = "part" /\ (Len(work) > 1 => Calls(work[Len(work) - 1], fr))
  BY <1>1, <1>2 DEF Own, Meets, First, Calls, Part
<1>5. pos' \in Nat \ {0}
  BY Advances DEF ParserInv
<1> QED
  BY <1>2, <1>3, <1>4, <1>5, GoesOn, Values DEF Inside

LEMMA IdentifierNext == ParserInv /\ ParseIdentifierExpr => ParserInv'
<1> SUFFICES ASSUME ParserInv, ParseIdentifierExpr PROVE ParserInv'
  OBVIOUS
<1>1. /\ work # <<>> /\ ret = Pending /\ Top.kind = "part" /\ Inside /\ ret # Null
      /\ UNCHANGED <<nodes, start, top>>
  BY Values DEF ParseIdentifierExpr, InPart, Inside
<1>2. pos \in Nat \ {0} /\ Top.from \in Nat
  <2>1. Top \in Frame
    BY <1>1, Innermost DEF ParserInv
  <2> QED
    BY <1>1, <2>1 DEF ParserInv, TypeInv, Frame, PartFrame, ExprFrame
<1>3. CASE Return(Tree(0, Top.from, pos - 1)) /\ UNCHANGED <<tok, pos>>
  <2>1. PICK t : t = Tree(0, Top.from, pos - 1)
    OBVIOUS
  <2>2. t \in Span /\ t.from = Top.from /\ t.to = pos - 1 /\ Known(t, nodes) /\ ~BareIn(t, nodes)
    BY <1>2, <2>1, Values DEF Tree, Known, BareIn
  <2> QED
    BY <1>1, <1>2, <1>3, <2>1, <2>2, PartReturns DEF Return
<1>4. CASE tok = ")" /\ Return(Tree(0, Top.from, pos)) /\ getNextToken
  <2>1. PICK t : t = Tree(0, Top.from, pos)
    OBVIOUS
  <2>2. t \in Span /\ t.from = Top.from /\ t.to = pos /\ Known(t, nodes) /\ ~BareIn(t, nodes)
    BY <1>2, <2>1, Values DEF Tree, Known, BareIn
  <2>3. pos' = pos + 1
    BY <1>4, Advances DEF ParserInv
  <2>4. pos' \in Nat \ {0} /\ t.to = pos' - 1
    BY <1>2, <2>2, <2>3
  <2> QED
    BY <1>1, <1>4, <2>1, <2>2, <2>4, PartReturns DEF Return
<1>5. CASE getNextToken /\ work' = Become(Part("args", Top.from)) /\ UNCHANGED ret
  BY <1>1, <1>5, PartGoesOn DEF Phase, Waiting
<1>6. CASE work' = Call(Part("arg", Top.from), Expr(0, Null)) /\ UNCHANGED <<tok, pos, ret>>
  BY <1>1, <1>2, <1>6, CallsExpression DEF Waiting
<1> QED
  BY <1>3, <1>4, <1>5, <1>6 DEF ParseIdentifierExpr

LEMMA HeaderNext == ParserInv /\ ParseHeader => ParserInv'
<1> SUFFICES ASSUME ParserInv, ParseHeader PROVE ParserInv'
  OBVIOUS
<1>1. PICK phase \in DOMAIN Header :
        /\ InPart(phase)
        /\ \/ \E rule \in Header[phase] :
                /\ tok = rule[1] /\ getNextToken
                /\ IF rule[2] = "done" THEN Return(Tree(0, Top.from, pos))
                   ELSE /\ work' = IF rule[2] = "from"
                                   THEN Call(Part("from", Top.from), Expr(0, Null))
                                   ELSE Become(Part(rule[2], Top.from))
                        /\ UNCHANGED ret
           \/ Return(Null) /\ UNCHANGED <<tok, pos>>
  BY DEF ParseHeader
<1>2. /\ work # <<>> /\ ret = Pending /\ Top.kind = "part" /\ Inside /\ ret # Null
      /\ UNCHANGED <<nodes, start, top>>
  BY <1>1, Values DEF ParseHeader, InPart, Inside
<1>3. pos \in Nat \ {0} /\ Top.from \in Nat
  <2>1. Top \in Frame
    BY <1>2, Innermost DEF ParserInv
  <2> QED
    BY <1>2, <2>1 DEF ParserInv, TypeInv, Frame, PartFrame, ExprFrame
<1>4. CASE Return(Null) /\ UNCHANGED <<tok, pos>>
  BY <1>2, <1>4, NothingReturned DEF Return
<1>5. ASSUME NEW rule \in Header[phase], tok = rule[1], getNextToken,
             IF rule[2] = "done" THEN Return(Tree(0, Top.from, pos))
             ELSE /\ work' = IF rule[2] = "from"
                             THEN Call(Part("from", Top.from), Expr(0, Null))
                             ELSE Become(Part(rule[2], Top.from))
                  /\ UNCHANGED ret
      PROVE  ParserInv'
  <2>0. pos' = pos + 1 /\ rule[2] \in {"done", "from"} \cup (Phase \ Waiting)
    BY <1>5, HeaderRules, Advances DEF ParserInv
  <2>1. CASE rule[2] = "done"
    <3>1. PICK t : t = Tree(0, Top.from, pos)
      OBVIOUS
    <3>2. t \in Span /\ t.from = Top.from /\ t.to = pos /\ Known(t, nodes) /\ ~BareIn(t, nodes)
      BY <1>3, <3>1, Values DEF Tree, Known, BareIn
    <3>3. pos' \in Nat \ {0} /\ t.to = pos' - 1
      BY <1>3, <2>0, <3>2
    <3> QED
      BY <1>2, <1>5, <2>1, <3>1, <3>2, <3>3, PartReturns DEF Return
  <2>2. CASE rule[2] = "from"
    <3>1. "from" \in Waiting \ {"paren"} /\ pos' \in Nat \ {0}
      BY <1>3, <2>0 DEF Waiting
    <3>2. work' = Call(Part("from", Top.from), Expr(0, Null)) /\ UNCHANGED ret
      BY <1>5, <2>2
    <3> QED
      BY <1>2, <3>1, <3>2, CallsExpression
  <2>3. CASE rule[2] \in Phase \ Waiting
    <3>1. rule[2] \notin {"done", "from"} /\ rule[2] \in Phase \ {"paren"}
      BY <2>3 DEF Phase, Waiting
    <3>2. work' = Become(Part(rule[2], Top.from)) /\ UNCHANGED ret
      BY <1>5, <3>1
    <3> QED
      BY <1>2, <1>5, <2>3, <3>1, <3>2, PartGoesOn
  <2> QED
    BY <2>0, <2>1, <2>2, <2>3
<1> QED
  BY <1>1, <1>4, <1>5

LEMMA BehindNext == ParserInv /\ ParseBehind => ParserInv'
<1> SUFFICES ASSUME ParserInv, ParseBehind PROVE ParserInv'
  OBVIOUS
<1>1. /\ work # <<>> /\ ret \notin {Pending, Null} /\ Top.kind = "part" /\ Inside /\ ret # Null
      /\ UNCHANGED <<nodes, start, top>> /\ ret \in Span
  BY Values DEF ParseBehind, Inside, ParserInv, TypeInv
<1>2. /\ pos \in Nat \ {0} /\ Top.from \in Nat /\ ret.from \in Nat /\ ret.node \in Nat
      /\ Top.phase \in Waiting /\ Meets(Top, ret.from) /\ Known(ret, nodes)
      /\ nodes \in Seq(Node)
  <2>1. Top \in Frame /\ Meets(Top, Newest)
    BY <1>1, Innermost DEF ParserInv
  <2>2. Newest = ret.from
    BY <1>1 DEF Newest
  <2>3. Given(Top, ret) /\ Known(ret, nodes)
    BY <1>1 DEF ParserInv, SpanInv, TopRight
  <2>4. Top.phase \in Waiting
    BY <1>1, <2>3 DEF Given
  <2>5. Top.from \in Nat /\ ret.from \in Nat /\ ret.node \in Nat
    BY <1>1, <2>1 DEF Frame, PartFrame, ExprFrame, Span
  <2> QED
    BY <2>1, <2>2, <2>3, <2>4, <2>5 DEF ParserInv, TypeInv
<1>3. CASE Return(Null) /\ UNCHANGED <<tok, pos>>
  BY <1>1, <1>3, NothingReturned DEF Return
<1>4. ASSUME NEW rule \in Behind[Top.phase], rule[1] \in {tok, ""},
             IF rule[1] = "" THEN UNCHANGED <<tok, pos>> ELSE getNextToken,
             IF rule[2] = "done"
             THEN Return(Tree(IF Top.phase = "paren" THEN ret.node ELSE 0, Top.from,
                              IF rule[1] = "" THEN pos - 1 ELSE pos))
             ELSE work' = Call(Part(rule[2], Top.from), Expr(0, Null)) /\ ret' = Pending
      PROVE  ParserInv'
  <2>1. /\ rule[1] # "EOF"
        /\ rule[2] = "done" \/ rule[2] \in Waiting \ {"paren"}
    BY <1>2, <1>4, BehindRules
  <2>2. PICK to : to = IF rule[1] = "" THEN pos - 1 ELSE pos
    OBVIOUS
  <2>3. \/ UNCHANGED pos /\ to = pos - 1
        \/ pos' = pos + 1 /\ to = pos
    <3>1. CASE rule[1] = ""
      BY <1>4, <2>2, <3>1, Zenon
    <3>2. CASE rule[1] # ""
      <4>1. tok # "EOF" /\ getNextToken /\ to = pos
        BY <1>4, <2>1, <2>2, <3>2, Zenon
      <4> QED
        BY <4>1, Advances DEF ParserInv
    <3> QED
      BY <3>1, <3>2, Zenon
  <2>4. PICK q \in Nat \ {0} : q = pos' /\ to = q - 1
    BY <1>2, <2>3
  <2>5. CASE rule[2] = "done"
    <3>1. PICK n : n = IF Top.phase = "paren" THEN ret.node ELSE 0
      OBVIOUS
    <3>2. PICK t : t = Tree(n, Top.from, q - 1)
      OBVIOUS
    <3>3. t = [node |-> n, from |-> Top.from, to |-> q - 1] /\ n \in Nat
      BY <1>2, <3>1, <3>2 DEF Tree
    <3>4. n # 0 => /\ Top.from < ret.from /\ n <= Len(nodes)
                   /\ ret.from <= nodes[n].left.from
      BY <1>1, <1>2, <3>1 DEF Meets, Known
    <3>5. n # 0 => nodes[n].left.from \in Nat
      <4>1. ASSUME NEW i \in 1 .. Len(nodes) PROVE nodes[i].left.from \in Nat
        <5>1. nodes[i] \in Node
          BY <1>2
        <5> QED
          BY <5>1 DEF Node, Span
      <4> QED
        BY <1>2, <3>3, <3>4, <4>1
    <3>6. Known(t, nodes) /\ ~BareIn(t, nodes)
      BY <1>2, <3>3, <3>4, <3>5 DEF Known, BareIn
    <3>7. t \in Span /\ t.from = Top.from /\ t.to = q - 1
      <4>1. q - 1 \in Nat /\ Top.from \in Nat
        BY <1>2
      <4> QED
        BY <3>3, <4>1 DEF Span
    <3>8. work' = Pop /\ ret' = t
      BY <1>4, <2>2, <2>4, <2>5, <3>1, <3>2, Zenon DEF Return
    <3> QED
      BY <1>1, <2>4, <3>6, <3>7, <3>8, PartReturns
  <2>6. CASE rule[2] # "done"
    <3>1. work' = Call(Part(rule[2], Top.from), Expr(0, Null)) /\ ret' = Pending
      BY <1>4, <2>6, Zenon
    <3>2. rule[2] \in Waiting \ {"paren"}
      BY <2>1, <2>6, Zenon
    <3> QED
      BY <1>1, <2>4, <3>1, <3>2, CallsExpression
  <2> QED
    BY <2>5, <2>6
<1> QED
  BY <1>3, <1>4 DEF ParseBehind
(* A primary expression is wanted by a call that has neither operand or an   *)
(* operator, and has called for nothing yet.                                 *)
LEMMA PrimaryWanted ==
  ASSUME ParserInv, Wanted
  PROVE  /\ work # <<>> /\ ret = Pending /\ ret # Null /\ Newest = pos /\ pos \in Nat \ {0}
         /\ Top.kind = "expr" /\ ~Top.nested /\ (Top.lhs = Null \/ Top.op # "none")
         /\ Top = work[Len(work)] /\ Len(work) \in Nat /\ Len(work) >= 1
         /\ work \in Seq(Frame) /\ nodes \in Seq(Node) /\ NodesRight(nodes)
         /\ CallsRight(work, pos, nodes)
<1>1. work # <<>> /\ ret = Pending /\ ret # Null /\ Newest = pos
  BY Values DEF Wanted, Newest
<1>2. Own(Top, nodes) /\ Top \in Frame
  BY <1>1, Innermost DEF ParserInv
<1>3. Fresh(Top)
  BY <1>1 DEF Wanted, ParserInv, SpanInv, TopRight
<1>4. Top.nested \in BOOLEAN
  BY <1>2 DEF Wanted, Frame, ExprFrame, PartFrame
<1>5. ~Top.nested
  BY <1>2, <1>3, <1>4 DEF Wanted, Own, Fresh
<1> QED
  BY <1>1, <1>5, Innermost DEF Wanted, ParserInv, TypeInv

LEMMA NumberNext == ParserInv /\ ParseNumberExpr => ParserInv'
<1> SUFFICES ASSUME ParserInv, ParseNumberExpr PROVE ParserInv'
  OBVIOUS
<1>1. /\ Wanted /\ UNCHANGED <<nodes, start, top, work>> /\ ret' = Tree(0, pos, pos)
      /\ getNextToken /\ tok # "EOF"
  BY DEF ParseNumberExpr, Inside
<1>2. pos' = pos + 1 /\ pos \in Nat \ {0}
  BY <1>1, Advances DEF ParserInv, TypeInv
<1>3. PICK t : t = ret'
  OBVIOUS
<1>4. /\ t = Tree(0, pos, pos) /\ t \in Span /\ t.from = pos /\ t.to = pos
      /\ t # Pending /\ t # Null /\ Known(t, nodes) /\ ~BareIn(t, nodes)
  BY <1>1, <1>2, <1>3, Values DEF Tree, Known, BareIn
<1>5. Newest' = pos
  BY <1>3, <1>4 DEF Newest
<1>6. CallsRight(work, Newest, nodes)' /\ Inner(work, 0, Newest)' = Inner(work, 0, Newest)
  BY <1>1, <1>5, PrimaryWanted
<1>7. Top' = Top
  BY <1>1 DEF Top
<1>8. TopRight'
  BY <1>1, <1>2, <1>3, <1>4, <1>7, PrimaryWanted DEF TopRight, Given
<1>9. /\ pos' \in Nat \ {0} /\ work' \in Seq(Frame) /\ ret' \in Span \cup {Pending}
      /\ nodes' \in Seq(Node) /\ NodesRight(nodes)' /\ work' # <<>> /\ ret # Null /\ work # <<>>
      /\ work'[1] = work[1]
  BY <1>1, <1>2, <1>3, <1>4, PrimaryWanted
<1> QED
  BY <1>1, <1>6, <1>8, <1>9, Settled

LEMMA PrimaryFailsNext == ParserInv /\ ParsePrimaryFails => ParserInv'
<1> SUFFICES ASSUME ParserInv, ParsePrimaryFails PROVE ParserInv'
  OBVIOUS
<1>1. Wanted /\ ret' = Null /\ work' \in {work, Pop} /\ UNCHANGED <<pos, nodes, start, top>>
  BY DEF ParsePrimaryFails, Inside
<1>2. work # <<>>
  BY <1>1 DEF Wanted
<1> QED
  BY <1>1, <1>2, NothingReturned

LEMMA OpeningNext == ParserInv /\ ParseOpening => ParserInv'
<1> SUFFICES ASSUME ParserInv, ParseOpening PROVE ParserInv'
  OBVIOUS
<1>1. /\ Wanted /\ UNCHANGED <<nodes, start, top, ret>> /\ getNextToken /\ tok # "EOF"
  BY DEF ParseOpening, Inside, OpensExpression
<1>2. pos' = pos + 1 /\ pos \in Nat \ {0}
  BY <1>1, Advances DEF ParserInv, TypeInv
<1>3. PICK at2 : at2 = Newest'
  OBVIOUS
<1>4. at2 = pos + 1 /\ ret' = Pending
  BY <1>1, <1>2, <1>3, PrimaryWanted DEF Newest
<1>5. PICK v : v = work'
  OBVIOUS
<1>6. PICK n \in Nat : n = Len(work) /\ n >= 1
  BY <1>1, PrimaryWanted
<1>7. ASSUME NEW phase \in Phase, NEW fr \in {Part(phase, pos)}, NEW w \in {Append(work, fr)}
      PROVE  /\ fr \in Frame /\ fr.kind = "part" /\ fr.phase = phase
             /\ w \in Seq(Frame) /\ CallsRight(w, at2, nodes)
             /\ Inner(w, 0, at2) = Inner(work, 0, pos)
             /\ Len(w) = n + 1 /\ w[n + 1] = fr /\ w # <<>> /\ \A k \in 1 .. n : w[k] = work[k]
  <2>1. fr \in Frame
    BY <1>2, <1>7, Values
  <2>2. /\ fr.kind = "part" /\ fr.phase = phase /\ Own(fr, nodes) /\ Meets(fr, at2)
        /\ First(fr, at2) = pos
    BY <1>2, <1>4, <1>7 DEF Part, Own, Meets, First
  <2>3. Calls(work[Len(work)], fr)
    BY <1>1, <2>2, PrimaryWanted DEF Calls
  <2>4. work \in Seq(Frame) /\ work # <<>> /\ CallsRight(work, pos, nodes)
    BY <1>1, PrimaryWanted
  <2>5. w = Append(work, fr)
    OBVIOUS
  <2>6. PICK x : x = at2
    OBVIOUS
  <2>7. Meets(fr, x) /\ First(fr, x) = pos
    BY <2>2, <2>6
  <2>8. /\ w \in Seq(Frame) /\ CallsRight(w, x, nodes)
        /\ Inner(w, 0, x) = Inner(work, 0, pos)
        /\ Len(w) = Len(work) + 1 /\ w[Len(work) + 1] = fr /\ w # <<>>
        /\ \A k \in 1 .. Len(work) : w[k] = work[k]
    BY <2>1, <2>2, <2>3, <2>4, <2>5, <2>7, CallIsMade
  <2> QED
    BY <1>6, <2>1, <2>2, <2>6, <2>8
<1>8. /\ v \in Seq(Frame) /\ v # <<>> /\ CallsRight(v, at2, nodes)
      /\ Inner(v, 0, at2) = Inner(work, 0, pos)
      /\ v[1] = work[1]
      /\ v[Len(v)].kind = "expr" => Fresh(v[Len(v)])'
  <2>1. CASE /\ tok \in DOMAIN OpensExpression
             /\ v = work \o <<Part(OpensExpression[tok], pos), Expr(0, Null)>>
    <3>1. OpensExpression[tok] \in Waiting
      BY <2>1 DEF OpensExpression, Waiting
    <3>2. PICK fr : fr = Part(OpensExpression[tok], pos)
      OBVIOUS
    <3>3. PICK ex : ex = Expr(0, Null)
      OBVIOUS
    <3>4. PICK w : w = Append(work, fr)
      OBVIOUS
    <3>5. OpensExpression[tok] \in Phase
      BY <3>1 DEF Phase
    <3>6. /\ fr \in Frame /\ fr.kind = "part" /\ fr.phase = OpensExpression[tok]
          /\ w \in Seq(Frame) /\ CallsRight(w, at2, nodes)
          /\ Inner(w, 0, at2) = Inner(work, 0, pos)
          /\ Len(w) = n + 1 /\ w[n + 1] = fr /\ w # <<>> /\ \A k \in 1 .. n : w[k] = work[k]
      <4>1. fr \in {Part(OpensExpression[tok], pos)} /\ w \in {Append(work, fr)}
        BY <3>2, <3>4
      <4> QED
        BY <1>7, <3>5, <4>1
    <3>7. ex \in Frame
      <4>1. 0 \in 0 .. 41 /\ Null \in Span \cup {Null}
        OBVIOUS
      <4> QED
        BY <3>3, <4>1, Values
    <3>8. /\ Own(ex, nodes) /\ Meets(ex, at2) /\ First(ex, at2) = at2 /\ Calls(fr, ex)
          /\ Fresh(ex)'
      BY <3>1, <3>3, <3>6 DEF Own, Meets, First, Calls, Fresh, Expr
    <3>9. work \in Seq(Frame)
      BY <1>1, PrimaryWanted
    <3>10. v = Append(w, ex)
      BY <2>1, <3>2, <3>3, <3>4, <3>6, <3>7, <3>9
    <3>11. Calls(w[Len(w)], ex)
      BY <1>6, <3>6, <3>8
    <3>12. /\ v \in Seq(Frame) /\ CallsRight(v, at2, nodes)
           /\ Inner(v, 0, at2) = Inner(w, 0, at2)
           /\ Len(v) = Len(w) + 1 /\ v[Len(w) + 1] = ex /\ v # <<>>
           /\ \A k \in 1 .. Len(w) : v[k] = w[k]
      BY <3>6, <3>7, <3>8, <3>10, <3>11, CallIsMade
    <3>13. v[1] = work[1] /\ v[Len(v)] = ex
      BY <1>6, <3>6, <3>12
    <3> QED
      BY <3>6, <3>8, <3>12, <3>13
  <2>2. ASSUME NEW phase \in {"callee", "variable"}, v = Append(work, Part(phase, pos))
        PROVE  /\ v \in Seq(Frame) /\ v # <<>> /\ CallsRight(v, at2, nodes)
               /\ Inner(v, 0, at2) = Inner(work, 0, pos)
               /\ v[1] = work[1]
               /\ v[Len(v)].kind = "expr" => Fresh(v[Len(v)])'
    <3>1. PICK fr : fr = Part(phase, pos)
      OBVIOUS
    <3>2. phase \in Phase
      BY DEF Phase
    <3>3. /\ fr.kind = "part"
          /\ v \in Seq(Frame) /\ CallsRight(v, at2, nodes)
          /\ Inner(v, 0, at2) = Inner(work, 0, pos)
          /\ Len(v) = n + 1 /\ v[n + 1] = fr /\ v # <<>> /\ \A k \in 1 .. n : v[k] = work[k]
      <4>1. fr \in {Part(phase, pos)} /\ v \in {Append(work, fr)}
        BY <2>2, <3>1
      <4> QED
        BY <1>7, <3>2, <4>1
    <3> QED
      BY <1>6, <3>3
  <2> QED
    BY <1>5, <2>1, <2>2 DEF ParseOpening
<1>9. CallsRight(work, Newest, nodes)' /\ Inner(work, 0, Newest)' = Inner(work, 0, Newest)
  BY <1>1, <1>3, <1>5, <1>8, PrimaryWanted
<1>10. TopRight'
  BY <1>4, <1>5, <1>8 DEF TopRight, Top
<1>11. /\ pos' \in Nat \ {0} /\ work' \in Seq(Frame) /\ ret' \in Span \cup {Pending}
       /\ nodes' \in Seq(Node) /\ NodesRight(nodes)' /\ work' # <<>> /\ ret # Null /\ work # <<>>
       /\ work'[1] = work[1]
  BY <1>1, <1>2, <1>4, <1>5, <1>8, PrimaryWanted
<1> QED
  BY <1>1, <1>9, <1>10, <1>11, Settled
-----------------------------------------------------------------------------
(* Binary expressions                                                        *)
LEMMA ExprFields ==
  ASSUME NEW fr \in Frame, fr.kind = "expr"
  PROVE  /\ fr.min \in 0 .. 41 /\ fr.lhs \in Span \cup {Null} /\ fr.at \in Nat
         /\ fr.op \in Operator \cup {"none"} /\ fr.nested \in BOOLEAN /\ fr \in ExprFrame
<1>1. fr \in ExprFrame
  BY DEF Frame, PartFrame
<1> QED
  BY <1>1 DEF ExprFrame

LEMMA Bindings ==
  \A t, ns : ~BareIn(t, ns) => BindsIn(t, ns) = 100
BY DEF BindsIn

LEMMA ExpressionNext == ParserInv /\ ParseExpression => ParserInv'
<1> SUFFICES ASSUME ParserInv, ParseExpression PROVE ParserInv'
  OBVIOUS
<1>1. /\ work # <<>> /\ Top.kind = "expr" /\ ret \notin {Pending, Null} /\ Top.lhs = Null
      /\ work' = Become([Top EXCEPT !.lhs = ret]) /\ ret' = Pending
      /\ UNCHANGED <<nodes, start, top>> /\ UNCHANGED <<tok, pos>> /\ ret # Null
  BY DEF ParseExpression, HasTree, InExpr
<1>2. /\ ret \in Span /\ Top \in Frame /\ Own(Top, nodes) /\ Newest = ret.from
      /\ Len(work) > 1 => Calls(work[Len(work) - 1], Top)
      /\ ret.to = pos - 1 /\ Known(ret, nodes) /\ Given(Top, ret)
      /\ pos \in Nat \ {0}
  BY <1>1, Innermost DEF ParserInv, SpanInv, TopRight, TypeInv, Newest
<1>3. PICK fr : fr = [Top EXCEPT !.lhs = ret]
  OBVIOUS
<1>4. /\ fr \in Frame /\ fr.kind = "expr" /\ fr.min = Top.min /\ fr.lhs = ret
      /\ fr.op = Top.op /\ fr.nested = Top.nested /\ Top.min \in 0 .. 41
      /\ Top.nested \in BOOLEAN
  <2>1. Top \in ExprFrame /\ Top.min \in 0 .. 41 /\ Top.nested \in BOOLEAN
    BY <1>1, <1>2, ExprFields
  <2>2. PICK c : c = Top
    OBVIOUS
  <2>3. PICK t : t = ret
    OBVIOUS
  <2>4. c \in ExprFrame /\ t \in Span /\ fr = [c EXCEPT !.lhs = t]
    BY <1>2, <1>3, <2>1, <2>2, <2>3
  <2>5. /\ fr \in Frame /\ fr.kind = "expr" /\ fr.min = c.min /\ fr.lhs = t
        /\ fr.op = c.op /\ fr.at = c.at /\ fr.nested = c.nested
    <3>1. fr \in ExprFrame
      BY <2>4 DEF ExprFrame
    <3> QED
      BY <2>4, <3>1 DEF Frame, ExprFrame
  <2> QED
    BY <2>1, <2>2, <2>3, <2>5
<1>5. Top.op = "none" /\ ~Top.nested
  BY <1>1, <1>2, <1>4 DEF Own
<1>6. BindsIn(ret, nodes) = 100
  BY <1>1, <1>2, <1>5, Bindings DEF Given
<1>7. Own(fr, nodes)
  <2>1. /\ fr.op = "none" /\ ~fr.nested /\ fr.lhs # Null /\ Known(fr.lhs, nodes)
        /\ BindsIn(fr.lhs, nodes) >= fr.min
    <3>1. 100 >= Top.min
      BY <1>4
    <3> QED
      BY <1>1, <1>2, <1>4, <1>5, <1>6, <3>1
  <2> QED
    BY <2>1 DEF Own
<1>8. Meets(fr, Newest') /\ First(fr, Newest') = First(Top, Newest)
  BY <1>1, <1>2, <1>4, <1>5 DEF Meets, First
<1>9. Len(work) > 1 => Calls(work[Len(work) - 1], fr)
  BY <1>1, <1>2, <1>4 DEF Calls
<1>10. Fresh(fr)'
  <2>1. GetTokPrecedence(tok) <= 100
    BY Precedences
  <2>2. fr.lhs.to = pos' - 1 /\ BindsIn(fr.lhs, nodes') >= GetTokPrecedence(tok')
    BY <1>1, <1>2, <1>4, <1>6, <2>1
  <2> QED
    BY <1>4, <1>5, <2>2 DEF Fresh
<1> QED
  BY <1>1, <1>2, <1>3, <1>4, <1>7, <1>8, <1>9, <1>10, GoesOn

LEMMA OperatorNext == ParserInv /\ ParseOperator => ParserInv'
<1> SUFFICES ASSUME ParserInv, ParseOperator PROVE ParserInv'
  OBVIOUS
<1>1. /\ work # <<>> /\ Top.kind = "expr" /\ ret = Pending /\ ret # Null
      /\ Top.lhs # Null /\ Top.op = "none" /\ UNCHANGED <<nodes, start, top>>
  BY Values DEF ParseOperator, InExpr
<1>2. /\ Top \in Frame /\ Own(Top, nodes) /\ Newest = pos /\ Fresh(Top)
      /\ Len(work) > 1 => Calls(work[Len(work) - 1], Top)
      /\ pos \in Nat \ {0} /\ CallsRight(work, pos, nodes) /\ work \in Seq(Frame)
      /\ nodes \in Seq(Node) /\ NodesRight(nodes)
  BY <1>1, Innermost DEF ParserInv, SpanInv, TopRight, TypeInv, Newest
<1>3. /\ Top.lhs \in Span /\ Top.lhs.to = pos - 1 /\ Known(Top.lhs, nodes)
      /\ BindsIn(Top.lhs, nodes) >= GetTokPrecedence(tok)
      /\ BindsIn(Top.lhs, nodes) >= Top.min /\ ~Top.nested /\ Top.min \in 0 .. 41
      /\ Top.lhs # Pending
  <2>1. Top.lhs \in Span /\ Top.min \in 0 .. 41 /\ Top.nested \in BOOLEAN
    BY <1>1, <1>2, ExprFields
  <2>2. /\ Top.lhs.to = pos - 1 /\ Known(Top.lhs, nodes)
        /\ BindsIn(Top.lhs, nodes) >= GetTokPrecedence(tok)
        /\ BindsIn(Top.lhs, nodes) >= Top.min /\ ~Top.nested
    BY <1>1, <1>2, <2>1 DEF Own, Fresh
  <2> QED
    BY <2>1, <2>2, Values
<1>4. CASE GetTokPrecedence(tok) < Top.min /\ Return(Top.lhs) /\ UNCHANGED <<tok, pos>>
  <2>1. PICK n \in Nat : n = Len(work) /\ n >= 1
    BY <1>1, <1>2
  <2>2. PICK w : w = work'
    OBVIOUS
  <2>3. PICK t : t = Top.lhs
    OBVIOUS
  <2>4. ret' = t /\ Newest' = t.from /\ First(work[Len(work)], pos) = t.from
    BY <1>1, <1>3, <1>4, <2>3 DEF Return, Newest, First, Top
  <2>5. w = SubSeq(work, 1, Len(work) - 1)
    BY <1>4, <2>2 DEF Return, Pop
  <2>6. /\ w \in Seq(Frame) /\ CallsRight(w, t.from, nodes)
        /\ Inner(w, 0, t.from) = Inner(work, 0, pos)
        /\ Len(w) = n - 1 /\ \A k \in 1 .. n - 1 : w[k] = work[k]
    BY <1>1, <1>2, <2>1, <2>4, <2>5, CallReturns
  <2>7. CallsRight(work, Newest, nodes)' /\ Inner(work, 0, Newest)' = Inner(work, 0, Newest)
    BY <1>1, <1>2, <2>2, <2>4, <2>6
  <2>8. ASSUME w # <<>> PROVE Given(Top, ret)'
    <3>1. n > 1 /\ Top' = work[n - 1] /\ work[n - 1] \in Frame /\ Calls(work[n - 1], Top)
      BY <1>2, <2>1, <2>2, <2>6, <2>8 DEF Top
    <3>2. CASE work[n - 1].kind = "part"
      BY <3>1, <3>2 DEF Given, Calls
    <3>3. CASE work[n - 1].kind # "part"
      <4>1. /\ work[n - 1].lhs = Null \/ work[n - 1].op # "none"
            /\ work[n - 1].nested /\ Top.min = BinopPrecedence[work[n - 1].op] + 1
        BY <1>1, <3>1, <3>3 DEF Calls
      <4>2. work[n - 1].kind = "expr"
        BY <3>1, <3>3 DEF Frame, ExprFrame, PartFrame
      <4>3. Own(work[n - 1], nodes)
        BY <1>2, <2>1, <3>1 DEF CallsRight
      <4>4. work[n - 1].op \in Operator
        BY <3>1, <4>1, <4>2, <4>3, ExprFields DEF Own
      <4>5. BinopPrecedence[work[n - 1].op] \in 10 .. 40 /\ GetTokPrecedence(tok) \in -1 .. 40
        BY <4>4, Precedences
      <4>6. /\ BindsIn(t, nodes) > BinopPrecedence[work[n - 1].op]
            /\ GetTokPrecedence(tok) <= BinopPrecedence[work[n - 1].op]
        <5>1. BindsIn(t, nodes) \in Int
          <6>1. CASE ~BareIn(t, nodes)
            BY <6>1, Bindings
          <6>2. CASE BareIn(t, nodes)
            <7>1. t.node \in 1 .. Len(nodes)
              BY <1>2, <1>3, <2>3, <6>2 DEF BareIn, Known, Span
            <7>2. nodes[t.node].op \in Operator
              <8>1. nodes[t.node] \in Node
                BY <1>2, <7>1
              <8> QED
                BY <8>1 DEF Node
            <7> QED
              BY <6>2, <7>2, Precedences DEF BindsIn
          <6> QED
            BY <6>1, <6>2
        <5> QED
          BY <1>3, <1>4, <2>3, <4>1, <4>5, <5>1
      <4> QED
        BY <1>1, <1>4, <2>4, <3>1, <3>3, <4>1, <4>6 DEF Given
    <3> QED
      BY <3>2, <3>3
  <2>9. TopRight'
    BY <1>1, <1>3, <1>4, <2>2, <2>3, <2>4, <2>8 DEF TopRight
  <2>10. ASSUME top \in {"expr", "body"}, w = <<>> PROVE GetTokPrecedence(tok) = -1
    <3>1. n = 1
      <4>1. Len(w) = 0
        BY <2>10
      <4>2. Len(w) = n - 1
        BY <2>6
      <4> QED
        BY <4>1, <4>2
    <3>2. Top.min = 0
      BY <1>1, <2>1, <2>10, <3>1 DEF ParserInv, SpanInv, Whole, Top
    <3> QED
      BY <1>4, <3>2, Precedences
  <2>11. IF work' = <<>>
         THEN top \in {"expr", "body"} => ret' # Pending /\ GetTokPrecedence(tok)' = -1
         ELSE work'[1].kind = work[1].kind /\ (work[1].kind = "expr" => work'[1].min = work[1].min)
    <3>1. CASE w = <<>>
      BY <1>3, <1>4, <2>2, <2>3, <2>4, <2>10, <3>1
    <3>2. CASE w # <<>>
      <4>1. w[1] = work[1]
        BY <2>1, <2>6, <3>2
      <4> QED
        BY <2>2, <3>2, <4>1
    <3> QED
      BY <3>1, <3>2
  <2>12. /\ pos' \in Nat \ {0} /\ work' \in Seq(Frame) /\ ret' \in Span \cup {Pending}
         /\ nodes' \in Seq(Node) /\ NodesRight(nodes)'
    BY <1>1, <1>2, <1>3, <1>4, <2>2, <2>3, <2>4, <2>6
  <2> QED
    BY <1>1, <2>7, <2>9, <2>11, <2>12, Settled
<1>5. CASE /\ ~(GetTokPrecedence(tok) < Top.min)
           /\ work' = Become([Top EXCEPT !.op = tok, !.at = pos])
           /\ getNextToken /\ UNCHANGED ret
  <2>1. tok \in Operator /\ GetTokPrecedence(tok) = BinopPrecedence[tok]
        /\ BinopPrecedence[tok] \in 10 .. 40
    BY <1>3, <1>5, Precedences
  <2>2. PICK fr : fr = [Top EXCEPT !.op = tok, !.at = pos]
    OBVIOUS
  <2>3. /\ fr \in Frame /\ fr.kind = "expr" /\ fr.min = Top.min /\ fr.lhs = Top.lhs
        /\ fr.op = tok /\ fr.at = pos /\ fr.nested = Top.nested
    <3>1. PICK c : c = Top
      OBVIOUS
    <3>2. PICK o, p : o = tok /\ p = pos
      OBVIOUS
    <3>3. c \in ExprFrame
      BY <1>1, <1>2, <3>1, ExprFields
    <3>4. o \in Operator /\ p \in Nat /\ fr = [c EXCEPT !.op = o, !.at = p]
      BY <1>2, <2>1, <2>2, <3>1, <3>2
    <3>5. /\ fr \in Frame /\ fr.kind = "expr" /\ fr.min = c.min /\ fr.lhs = c.lhs
          /\ fr.op = o /\ fr.at = p /\ fr.nested = c.nested
      <4>1. PICK d : d = [c EXCEPT !.op = o]
        OBVIOUS
      <4>2. /\ d \in ExprFrame /\ d.kind = "expr" /\ d.min = c.min /\ d.lhs = c.lhs
            /\ d.op = o /\ d.nested = c.nested
        BY <3>3, <3>4, <4>1 DEF ExprFrame
      <4>3. fr = [d EXCEPT !.at = p]
        BY <3>3, <3>4, <4>1 DEF ExprFrame
      <4>4. /\ fr \in ExprFrame /\ fr.kind = "expr" /\ fr.min = c.min /\ fr.lhs = c.lhs
            /\ fr.op = o /\ fr.at = p /\ fr.nested = c.nested
        BY <3>4, <4>2, <4>3 DEF ExprFrame
      <4> QED
        BY <4>4 DEF Frame
    <3> QED
      BY <3>1, <3>2, <3>5
  <2>4. tok # "EOF" /\ tok # "none"
    BY <2>1 DEF Operator
  <2>5. pos' = pos + 1
    BY <1>5, <2>4, Advances DEF ParserInv
  <2>6. PICK at2 : at2 = Newest'
    OBVIOUS
  <2>7. at2 = pos + 1
    BY <1>1, <1>5, <2>5, <2>6 DEF Newest
  <2>8. Own(fr, nodes)
    <3>1. /\ ~fr.nested /\ fr.lhs # Null /\ Known(fr.lhs, nodes)
          /\ BindsIn(fr.lhs, nodes) >= fr.min /\ fr.lhs.to + 1 = fr.at
          /\ BinopPrecedence[fr.op] >= fr.min
          /\ BindsIn(fr.lhs, nodes) >= BinopPrecedence[fr.op]
      <4>1. Top.lhs.to + 1 = pos /\ Top.lhs.to \in Nat
        BY <1>2, <1>3 DEF Span
      <4>2. BinopPrecedence[tok] >= Top.min
        BY <1>3, <1>5, <2>1
      <4> QED
        BY <1>1, <1>3, <2>1, <2>3, <4>1, <4>2
    <3> QED
      BY <3>1 DEF Own
  <2>9. Meets(fr, at2) /\ First(fr, at2) = First(Top, Newest)
    BY <1>1, <2>3, <2>7 DEF Meets, First
  <2>10. Len(work) > 1 => Calls(work[Len(work) - 1], fr)
    BY <1>1, <1>2, <2>3 DEF Calls
  <2>11. Fresh(fr)'
    BY <1>3, <2>3, <2>4 DEF Fresh
  <2>12. pos' \in Nat \ {0}
    BY <1>2, <2>5
  <2> QED
    BY <1>1, <1>5, <2>2, <2>3, <2>6, <2>8, <2>9, <2>10, <2>11, <2>12, GoesOn
<1> QED
  BY <1>4, <1>5 DEF ParseOperator
(* A node more changes nothing for the trees there are.                      *)
LEMMA Grown ==
  ASSUME NEW ns \in Seq(Node), NEW ns2 \in Seq(Node), Len(ns2) = Len(ns) + 1,
         \A i \in 1 .. Len(ns) : ns2[i] = ns[i]
  PROVE  /\ \A t \in Span : Known(t, ns) => Known(t, ns2) /\ BindsIn(t, ns2) = BindsIn(t, ns)
         /\ \A w \in Seq(Frame) : \A at : CallsRight(w, at, ns) => CallsRight(w, at, ns2)
<1>1. PICK l \in Nat : l = Len(ns)
  OBVIOUS
<1>2. Len(ns2) = l + 1 /\ \A i \in 1 .. l : ns2[i] = ns[i]
  BY <1>1
<1>3. ASSUME NEW t \in Span, Known(t, ns)
      PROVE  Known(t, ns2) /\ BindsIn(t, ns2) = BindsIn(t, ns)
  <2>1. CASE t.node = 0
    BY <2>1 DEF Known, BindsIn, BareIn
  <2>2. CASE t.node # 0
    <3>1. t.node \in 1 .. l
      <4>1. t.node \in Nat
        BY DEF Span
      <4> QED
        BY <1>1, <1>3, <2>2, <4>1 DEF Known
    <3>2. ns2[t.node] = ns[t.node]
      BY <1>2, <3>1
    <3>3. Known(t, ns2)
      BY <1>2, <1>3, <2>2, <3>1, <3>2 DEF Known
    <3>4. BareIn(t, ns2) <=> BareIn(t, ns)
      BY <3>2 DEF BareIn
    <3> QED
      BY <3>2, <3>3, <3>4 DEF BindsIn
  <2> QED
    BY <2>1, <2>2
<1>4. ASSUME NEW w \in Seq(Frame), NEW at, CallsRight(w, at, ns), NEW k \in 1 .. Len(w)
      PROVE  /\ Own(w[k], ns2) /\ Meets(w[k], Inner(w, k, at))
             /\ k < Len(w) => Calls(w[k], w[k + 1])
  <2>1. /\ Own(w[k], ns) /\ Meets(w[k], Inner(w, k, at))
        /\ k < Len(w) => Calls(w[k], w[k + 1])
    BY <1>4 DEF CallsRight
  <2>2. w[k] \in Frame
    OBVIOUS
  <2>3. PICK fr : fr = w[k]
    OBVIOUS
  <2>4. ASSUME fr.kind = "expr" PROVE Own(fr, ns2)
    <3>1. Own(fr, ns) /\ fr.lhs \in Span \cup {Null}
      BY <2>1, <2>2, <2>3, <2>4, ExprFields
    <3>2. fr.op # "none" => fr.lhs # Null
      BY <2>4, <3>1 DEF Own
    <3>3. fr.lhs # Null => Known(fr.lhs, ns2) /\ BindsIn(fr.lhs, ns2) = BindsIn(fr.lhs, ns)
      BY <1>3, <2>4, <3>1 DEF Own
    <3> QED
      BY <2>4, <3>1, <3>2, <3>3 DEF Own
  <2>5. Own(fr, ns2)
    BY <2>4 DEF Own
  <2> QED
    BY <2>1, <2>3, <2>5
<1>5. \A w \in Seq(Frame) : \A at : CallsRight(w, at, ns) => CallsRight(w, at, ns2)
  BY <1>4 DEF CallsRight
<1> QED
  BY <1>1, <1>2, <1>3, <1>5

(* The two trees of an operator that has both become one.                    *)
LEMMA MergeNext ==
  ASSUME ParserInv, HasTree, Top.op # "none", ret' = Pending, UNCHANGED <<tok, pos>>,
         Top.nested \/ ~(GetTokPrecedence(Top.op) < GetTokPrecedence(tok)), Merge(ret)
  PROVE  ParserInv'
<1>1. /\ work # <<>> /\ Top.kind = "expr" /\ ret \notin {Pending, Null} /\ ret # Null
      /\ UNCHANGED <<start, top>>
  BY DEF HasTree, InExpr
<1>2. /\ ret \in Span /\ Top \in Frame /\ Own(Top, nodes) /\ Newest = ret.from
      /\ Len(work) > 1 => Calls(work[Len(work) - 1], Top)
      /\ ret.to = pos - 1 /\ Known(ret, nodes) /\ Given(Top, ret) /\ Meets(Top, ret.from)
      /\ pos \in Nat \ {0} /\ CallsRight(work, ret.from, nodes) /\ work \in Seq(Frame)
      /\ nodes \in Seq(Node) /\ NodesRight(nodes)
  BY <1>1, Innermost DEF ParserInv, SpanInv, TopRight, TypeInv, Newest
<1>3. PICK c, r : c = Top /\ r = ret
  OBVIOUS
<1>4. /\ c \in ExprFrame /\ c.min \in 0 .. 41 /\ c.lhs \in Span /\ c.lhs # Null /\ c.at \in Nat
      /\ c.op \in Operator /\ c.nested \in BOOLEAN /\ c.op # "none" /\ c.kind = "expr"
  BY <1>1, <1>2, <1>3, ExprFields, Values DEF Own
<1>5. /\ BinopPrecedence[c.op] \in 10 .. 40 /\ GetTokPrecedence(c.op) = BinopPrecedence[c.op]
      /\ GetTokPrecedence(tok) \in -1 .. 40
  BY <1>4, Precedences
<1>6. /\ Known(c.lhs, nodes) /\ c.lhs.to + 1 = c.at /\ BinopPrecedence[c.op] >= c.min
      /\ BindsIn(c.lhs, nodes) >= BinopPrecedence[c.op]
      /\ r.from = c.at + 1
  BY <1>1, <1>2, <1>3, <1>4 DEF Own, Meets
<1>7. BindsIn(r, nodes) > BinopPrecedence[c.op] /\ GetTokPrecedence(tok) <= BinopPrecedence[c.op]
  <2>1. CASE c.nested
    BY <1>2, <1>3, <1>4, <2>1 DEF Given
  <2>2. CASE ~c.nested
    <3>1. BindsIn(r, nodes) = 100
      BY <1>2, <1>3, <1>4, <2>2, Bindings DEF Given
    <3> QED
      BY <1>3, <1>5, <2>2, <3>1
  <2> QED
    BY <2>1, <2>2
<1>8. PICK l \in Nat : l = Len(nodes)
  BY <1>2
<1>9. PICK n : n = [op |-> c.op, at |-> c.at, left |-> c.lhs, right |-> r]
  OBVIOUS
<1>10. /\ n \in Node /\ n.op = c.op /\ n.at = c.at /\ n.left = c.lhs /\ n.right = r
  BY <1>2, <1>3, <1>4, <1>9 DEF Node
<1>11. PICK ns : ns = nodes'
  OBVIOUS
<1>12. ns = Append(nodes, n)
  BY <1>3, <1>9, <1>11 DEF Merge
<1>13. /\ ns \in Seq(Node) /\ Len(ns) = l + 1 /\ ns[l + 1] = n
       /\ \A i \in 1 .. l : ns[i] = nodes[i]
       /\ \A t \in Span : Known(t, nodes) => Known(t, ns) /\ BindsIn(t, ns) = BindsIn(t, nodes)
       /\ \A w \in Seq(Frame) : \A at : CallsRight(w, at, nodes) => CallsRight(w, at, ns)
  <2>1. PICK old : old = nodes
    OBVIOUS
  <2>2. old \in Seq(Node) /\ ns = Append(old, n) /\ n \in Node
    BY <1>2, <1>10, <1>12, <2>1
  <2>3. /\ ns \in Seq(Node) /\ Len(ns) = Len(old) + 1 /\ ns[Len(old) + 1] = n
        /\ \A i \in 1 .. Len(old) : ns[i] = old[i]
    BY <2>2
  <2>4. /\ \A t \in Span : Known(t, old) => Known(t, ns) /\ BindsIn(t, ns) = BindsIn(t, old)
        /\ \A w \in Seq(Frame) : \A at : CallsRight(w, at, old) => CallsRight(w, at, ns)
    BY <2>2, <2>3, Grown
  <2> QED
    BY <1>8, <2>1, <2>3, <2>4
<1>14. NodesRight(ns)
  <2> SUFFICES ASSUME NEW i \in 1 .. l + 1
               PROVE  /\ Known(ns[i].left, ns) /\ Known(ns[i].right, ns)
                      /\ ns[i].left.to + 1 = ns[i].at /\ ns[i].right.from = ns[i].at + 1
                      /\ BindsIn(ns[i].left, ns) >= BinopPrecedence[ns[i].op]
                      /\ BindsIn(ns[i].right, ns) > BinopPrecedence[ns[i].op]
    BY <1>13 DEF NodesRight
  <2>1. CASE i = l + 1
    BY <1>2, <1>3, <1>4, <1>6, <1>7, <1>10, <1>13, <2>1
  <2>2. CASE i # l + 1
    <3>1. i \in 1 .. l /\ ns[i] = nodes[i]
      BY <1>13, <2>2
    <3>2. nodes[i] \in Node
      BY <1>2, <1>8, <3>1
    <3>3. nodes[i].left \in Span /\ nodes[i].right \in Span
      BY <3>2 DEF Node
    <3>4. /\ Known(nodes[i].left, nodes) /\ Known(nodes[i].right, nodes)
          /\ nodes[i].left.to + 1 = nodes[i].at /\ nodes[i].right.from = nodes[i].at + 1
          /\ BindsIn(nodes[i].left, nodes) >= BinopPrecedence[nodes[i].op]
          /\ BindsIn(nodes[i].right, nodes) > BinopPrecedence[nodes[i].op]
      BY <1>2, <1>8, <3>1 DEF NodesRight
    <3> QED
      BY <1>13, <3>1, <3>3, <3>4
  <2> QED
    BY <2>1, <2>2
<1>15. PICK t : t = Tree(l + 1, c.lhs.from, r.to)
  OBVIOUS
<1>16. t \in Span /\ t # Null /\ t.node = l + 1 /\ t.from = c.lhs.from /\ t.to = r.to
  <2>1. l + 1 \in Nat /\ c.lhs.from \in Nat /\ r.to \in Nat
    BY <1>2, <1>3, <1>4 DEF Span
  <2> QED
    BY <1>15, <2>1, Values DEF Tree
<1>17. Known(t, ns) /\ BindsIn(t, ns) = BinopPrecedence[c.op]
  <2>1. t.node # 0 /\ ns[t.node] = n /\ t.node <= Len(ns) /\ t.from = n.left.from
    BY <1>10, <1>13, <1>16
  <2>2. t.from <= n.left.from
    BY <1>16, <2>1 DEF Span
  <2> QED
    BY <1>10, <2>1, <2>2 DEF Known, BareIn, BindsIn
<1>18. PICK fr : fr = Expr(c.min, t)
  OBVIOUS
<1>19. /\ fr \in Frame /\ fr.kind = "expr" /\ fr.min = c.min /\ fr.lhs = t /\ fr.op = "none"
       /\ fr.nested = FALSE
  <2>1. fr \in Frame
    BY <1>4, <1>16, <1>18, Values
  <2> QED
    BY <1>18, <2>1 DEF Expr
<1>20. PICK w : w = work'
  OBVIOUS
<1>21. w = Append(SubSeq(work, 1, Len(work) - 1), fr)
  BY <1>3, <1>8, <1>15, <1>18, <1>20 DEF Merge, Become, Pop
<1>22. PICK m \in Nat : m = Len(work) /\ m >= 1 /\ Top = work[m]
  BY <1>1, <1>2 DEF Top
<1>23. /\ Own(fr, ns) /\ Meets(fr, pos) /\ First(fr, pos) = First(work[m], r.from)
       /\ m > 1 => Calls(work[m - 1], fr)
  <2>1. Own(fr, ns)
    BY <1>5, <1>6, <1>16, <1>17, <1>19 DEF Own
  <2>2. Meets(fr, pos) /\ First(fr, pos) = First(work[m], r.from)
    BY <1>3, <1>4, <1>16, <1>19, <1>22 DEF Meets, First
  <2>3. m > 1 => Calls(work[m - 1], fr)
    BY <1>2, <1>3, <1>4, <1>16, <1>19, <1>22 DEF Calls
  <2> QED
    BY <2>1, <2>2, <2>3
<1>24. PICK at, at2 : at = r.from /\ at2 = pos
  OBVIOUS
<1>25. /\ CallsRight(work, at, ns) /\ Meets(fr, at2) /\ First(fr, at2) = First(work[Len(work)], at)
       /\ work \in Seq(Frame) /\ work # <<>> /\ Own(fr, ns) /\ fr \in Frame
       /\ Len(work) > 1 => Calls(work[Len(work) - 1], fr)
  BY <1>1, <1>2, <1>3, <1>13, <1>19, <1>22, <1>23, <1>24
<1>26. /\ w \in Seq(Frame) /\ CallsRight(w, at2, ns)
       /\ Inner(w, 0, at2) = Inner(work, 0, at)
       /\ Len(w) = Len(work) /\ w[Len(work)] = fr /\ w # <<>>
       /\ \A k \in 1 .. Len(work) - 1 : w[k] = work[k]
  BY <1>21, <1>25, CallGoesOn
<1>27. Newest' = pos
  BY DEF Newest
<1>28. CallsRight(work, Newest, nodes)' /\ Inner(work, 0, Newest)' = Inner(work, 0, Newest)
  BY <1>2, <1>3, <1>11, <1>20, <1>24, <1>26, <1>27
<1>29. Top' = fr
  BY <1>20, <1>26 DEF Top
<1>30. Fresh(fr)'
  BY <1>2, <1>3, <1>7, <1>11, <1>16, <1>17, <1>19 DEF Fresh
<1>31. TopRight'
  BY <1>29, <1>30 DEF TopRight
<1>32. work'[1].kind = work[1].kind /\ (work[1].kind = "expr" => work'[1].min = work[1].min)
  BY <1>3, <1>4, <1>19, <1>20, <1>22, <1>26
<1>33. /\ pos' \in Nat \ {0} /\ work' \in Seq(Frame) /\ ret' \in Span \cup {Pending}
       /\ nodes' \in Seq(Node) /\ NodesRight(nodes)' /\ work' # <<>>
  BY <1>2, <1>11, <1>13, <1>14, <1>20, <1>26
<1> QED
  BY <1>1, <1>28, <1>31, <1>32, <1>33, Settled
(* An operator that binds more tightly gets the right operand.               *)
LEMMA NestedNext ==
  ASSUME ParserInv, HasTree, Top.op # "none", ret' = Pending, UNCHANGED <<tok, pos, nodes>>,
         ~Top.nested, GetTokPrecedence(Top.op) < GetTokPrecedence(tok),
         work' = Call([Top EXCEPT !.nested = TRUE], Expr(GetTokPrecedence(Top.op) + 1, ret))
  PROVE  ParserInv'
<1>1. /\ work # <<>> /\ Top.kind = "expr" /\ ret \notin {Pending, Null} /\ ret # Null
      /\ UNCHANGED <<start, top>>
  BY DEF HasTree, InExpr
<1>2. /\ ret \in Span /\ Top \in Frame /\ Own(Top, nodes) /\ Newest = ret.from
      /\ Len(work) > 1 => Calls(work[Len(work) - 1], Top)
      /\ ret.to = pos - 1 /\ Known(ret, nodes) /\ Given(Top, ret) /\ Meets(Top, ret.from)
      /\ pos \in Nat \ {0} /\ CallsRight(work, ret.from, nodes) /\ work \in Seq(Frame)
      /\ nodes \in Seq(Node) /\ NodesRight(nodes)
  BY <1>1, Innermost DEF ParserInv, SpanInv, TopRight, TypeInv, Newest
<1>3. PICK c, r : c = Top /\ r = ret
  OBVIOUS
<1>4. /\ c \in ExprFrame /\ c.min \in 0 .. 41 /\ c.lhs \in Span /\ c.lhs # Null /\ c.at \in Nat
      /\ c.op \in Operator /\ c.op # "none" /\ c.kind = "expr"
  BY <1>1, <1>2, <1>3, ExprFields, Values DEF Own
<1>5. /\ BinopPrecedence[c.op] \in 10 .. 40 /\ GetTokPrecedence(c.op) = BinopPrecedence[c.op]
      /\ GetTokPrecedence(tok) \in -1 .. 40
  BY <1>4, Precedences
<1>6. BindsIn(r, nodes) = 100
  BY <1>2, <1>3, <1>4, Bindings DEF Given
<1>7. PICK b : b = TRUE
  OBVIOUS
<1>8. PICK fr : fr = [c EXCEPT !.nested = b]
  OBVIOUS
<1>9. /\ fr \in Frame /\ fr.kind = "expr" /\ fr.min = c.min /\ fr.lhs = c.lhs
      /\ fr.op = c.op /\ fr.at = c.at /\ fr.nested
  <2>1. c \in ExprFrame /\ b \in BOOLEAN
    BY <1>4, <1>7
  <2>2. fr \in ExprFrame
    BY <1>8, <2>1 DEF ExprFrame
  <2>3. /\ fr.kind = "expr" /\ fr.min = c.min /\ fr.lhs = c.lhs
        /\ fr.op = c.op /\ fr.at = c.at /\ fr.nested = b
    BY <1>8, <2>1, <2>2 DEF ExprFrame
  <2> QED
    BY <1>7, <2>2, <2>3 DEF Frame
<1>10. PICK m \in 0 .. 41 : m = BinopPrecedence[c.op] + 1
  BY <1>5
<1>11. PICK ex : ex = Expr(m, r)
  OBVIOUS
<1>12. /\ ex \in Frame /\ ex.kind = "expr" /\ ex.min = m /\ ex.lhs = r /\ ex.op = "none"
       /\ ex.nested = FALSE
  <2>1. ex \in Frame
    <3>1. r \in Span \cup {Null}
      BY <1>2, <1>3
    <3> QED
      BY <1>11, <3>1, Values
  <2> QED
    BY <1>11, <2>1 DEF Expr
<1>13. PICK at, at2 : at = r.from /\ at2 = pos
  OBVIOUS
<1>14. PICK n \in Nat : n = Len(work) /\ n >= 1 /\ Top = work[n]
  BY <1>1, <1>2 DEF Top
<1>15. PICK w : w = Become(fr)
  OBVIOUS
<1>16. w = Append(SubSeq(work, 1, Len(work) - 1), fr)
  BY <1>15 DEF Become, Pop
<1>17. /\ CallsRight(work, at, nodes) /\ Own(fr, nodes) /\ Meets(fr, at)
       /\ First(fr, at) = First(work[Len(work)], at)
       /\ Len(work) > 1 => Calls(work[Len(work) - 1], fr)
  <2>1. Own(fr, nodes)
    BY <1>2, <1>3, <1>4, <1>9 DEF Own
  <2>2. Meets(fr, at) /\ First(fr, at) = First(work[Len(work)], at)
    BY <1>2, <1>3, <1>4, <1>9, <1>13, <1>14 DEF Meets, First
  <2>3. n > 1 => Calls(work[n - 1], fr)
    BY <1>2, <1>3, <1>4, <1>9, <1>14 DEF Calls
  <2> QED
    BY <1>2, <1>3, <1>13, <1>14, <2>1, <2>2, <2>3
<1>18. /\ w \in Seq(Frame) /\ CallsRight(w, at, nodes)
       /\ Inner(w, 0, at) = Inner(work, 0, at)
       /\ Len(w) = n /\ w[n] = fr /\ w # <<>> /\ \A k \in 1 .. n - 1 : w[k] = work[k]
  <2>1. PICK ns : ns = nodes
    OBVIOUS
  <2>2. /\ CallsRight(work, at, ns) /\ Own(fr, ns) /\ work # <<>> /\ work \in Seq(Frame)
    BY <1>1, <1>2, <1>17, <2>1
  <2>3. /\ w \in Seq(Frame) /\ CallsRight(w, at, ns)
        /\ Inner(w, 0, at) = Inner(work, 0, at)
        /\ Len(w) = Len(work) /\ w[Len(work)] = fr /\ w # <<>>
        /\ \A k \in 1 .. Len(work) - 1 : w[k] = work[k]
    BY <1>9, <1>16, <1>17, <2>2, CallGoesOn
  <2> QED
    BY <1>14, <2>1, <2>3
<1>19. /\ Own(ex, nodes) /\ Meets(ex, at2) /\ First(ex, at2) = at /\ Calls(fr, ex)
  <2>1. Own(ex, nodes)
    <3>1. ex.lhs # Null /\ Known(ex.lhs, nodes) /\ BindsIn(ex.lhs, nodes) >= ex.min
      <4>1. 100 >= m
        BY <1>10
      <4> QED
        BY <1>1, <1>2, <1>3, <1>6, <1>12, <4>1
    <3> QED
      BY <1>12, <3>1 DEF Own
  <2>2. Meets(ex, at2) /\ First(ex, at2) = at
    BY <1>1, <1>3, <1>12, <1>13 DEF Meets, First
  <2>3. Calls(fr, ex)
    BY <1>1, <1>3, <1>4, <1>9, <1>10, <1>12 DEF Calls
  <2> QED
    BY <2>1, <2>2, <2>3
<1>20. PICK v : v = work'
  OBVIOUS
<1>21. v = Append(w, ex)
  BY <1>3, <1>5, <1>7, <1>8, <1>10, <1>11, <1>15, <1>20 DEF Call
<1>22. /\ v \in Seq(Frame) /\ CallsRight(v, at2, nodes)
       /\ Inner(v, 0, at2) = Inner(w, 0, at)
       /\ Len(v) = n + 1 /\ v[n + 1] = ex /\ v # <<>> /\ \A k \in 1 .. n : v[k] = w[k]
  BY <1>12, <1>18, <1>19, <1>21, CallIsMade
<1>23. Newest' = pos
  BY DEF Newest
<1>24. CallsRight(work, Newest, nodes)' /\ Inner(work, 0, Newest)' = Inner(work, 0, Newest)
  BY <1>2, <1>3, <1>13, <1>18, <1>20, <1>22, <1>23
<1>25. Top' = ex
  BY <1>20, <1>22 DEF Top
<1>26. Fresh(ex)'
  <2>1. 100 >= GetTokPrecedence(tok)
    BY <1>5
  <2>2. r.to = pos' - 1 /\ BindsIn(r, nodes') >= GetTokPrecedence(tok')
    BY <1>2, <1>3, <1>6, <2>1
  <2> QED
    BY <1>12, <2>2 DEF Fresh
<1>27. TopRight'
  BY <1>25, <1>26 DEF TopRight
<1>28. work'[1].kind = work[1].kind /\ (work[1].kind = "expr" => work'[1].min = work[1].min)
  <2>1. v[1] = w[1]
    BY <1>14, <1>22
  <2>2. CASE n = 1
    BY <1>3, <1>4, <1>9, <1>14, <1>18, <1>20, <2>1, <2>2
  <2>3. CASE n > 1
    <3>1. 1 \in 1 .. n - 1
      BY <2>3
    <3>2. w[1] = work[1]
      BY <1>18, <3>1
    <3> QED
      BY <1>20, <2>1, <3>2
  <2> QED
    BY <1>14, <2>2, <2>3
<1>29. /\ pos' \in Nat \ {0} /\ work' \in Seq(Frame) /\ ret' \in Span \cup {Pending}
       /\ nodes' \in Seq(Node) /\ NodesRight(nodes)' /\ work' # <<>>
  BY <1>2, <1>20, <1>22
<1> QED
  BY <1>1, <1>24, <1>27, <1>28, <1>29, Settled

LEMMA BinOpRHSNext == ParserInv /\ ParseBinOpRHS => ParserInv'
<1> SUFFICES ASSUME ParserInv, ParseBinOpRHS PROVE ParserInv'
  OBVIOUS
<1>1. HasTree /\ Top.op # "none" /\ ret' = Pending /\ UNCHANGED <<tok, pos>>
  BY DEF ParseBinOpRHS
<1>2. CASE ~Top.nested /\ GetTokPrecedence(Top.op) < GetTokPrecedence(tok)
  <2>1. /\ UNCHANGED nodes
        /\ work' = Call([Top EXCEPT !.nested = TRUE], Expr(GetTokPrecedence(Top.op) + 1, ret))
    BY <1>2 DEF ParseBinOpRHS
  <2> QED
    BY <1>1, <1>2, <2>1, NestedNext
<1>3. CASE ~(~Top.nested /\ GetTokPrecedence(Top.op) < GetTokPrecedence(tok))
  <2>1. Merge(ret)
    BY <1>3 DEF ParseBinOpRHS
  <2> QED
    BY <1>1, <1>3, <2>1, MergeNext
<1> QED
  BY <1>2, <1>3

LEMMA GiveUpNext == ParserInv /\ GiveUp => ParserInv'
<1> SUFFICES ASSUME ParserInv, GiveUp PROVE ParserInv'
  OBVIOUS
<1>1. /\ work # <<>> /\ ret' = Null /\ work' \in {work, Pop}
      /\ UNCHANGED <<pos, nodes, start, top>>
  BY DEF GiveUp, Inside
<1> QED
  BY <1>1, NothingReturned
-----------------------------------------------------------------------------
(* MainLoop and its handlers                                                 *)

(* Between two handlers there is nothing to say of a call.                   *)
LEMMA LoopNext ==
  ASSUME ParserInv, top' = "loop", work' = <<>>, ret' = Pending, pos' \in Nat \ {0},
         UNCHANGED <<nodes, start>>
  PROVE  ParserInv'
<1>1. TypeInv'
  BY DEF ParserInv, TypeInv
<1>2. CallsRight(work, Newest, nodes)' /\ TopRight' /\ Whole'
  BY DEF CallsRight, TopRight, Whole
<1> QED
  BY <1>1, <1>2 DEF ParserInv, SpanInv

(* A handler begins with one call, which begins where the handler does.      *)
LEMMA HandlerBegins ==
  ASSUME ParserInv, NEW fr \in Frame, work' = <<fr>>, ret' = Pending, pos' \in Nat \ {0},
         top' # "loop", nodes' \in {nodes, <<>>}, start' \in {start, pos'},
         IF fr.kind = "part" THEN top' \notin {"expr", "body"} /\ fr.phase # "paren"
         ELSE fr = Expr(0, Null) /\ start' = pos'
  PROVE  ParserInv'
<1>1. nodes' \in Seq(Node) /\ NodesRight(nodes)'
  <2>1. CASE nodes' = nodes
    BY <2>1 DEF ParserInv, TypeInv
  <2>2. CASE nodes' = <<>>
    BY <2>2 DEF NodesRight
  <2> QED
    BY <2>1, <2>2
<1>2. TypeInv'
  BY <1>1 DEF ParserInv, TypeInv
<1>3. PICK w, at, ns : w = work' /\ at = pos' /\ ns = nodes'
  OBVIOUS
<1>4. w \in Seq(Frame) /\ Len(w) = 1 /\ w[1] = fr /\ w # <<>> /\ Newest' = at
  BY <1>3 DEF Newest
<1>5. fr.kind \in {"part", "expr"}
  BY DEF Frame, PartFrame, ExprFrame
<1>6. fr.kind = "expr" => fr.lhs = Null /\ fr.op = "none" /\ fr.nested = FALSE /\ fr.min = 0
  BY DEF Expr
<1>7. fr.kind = "expr" => Fresh(fr)'
  BY <1>6 DEF Fresh
<1>8. Own(fr, ns) /\ Meets(fr, at) /\ (fr.kind = "expr" => First(fr, at) = at)
  BY <1>5, <1>6 DEF Own, Meets, First
<1>9. Inner(w, 1, at) = at /\ Inner(w, 0, at) = First(fr, at)
  BY <1>4 DEF Inner
<1>10. CallsRight(w, at, ns)
  <2> SUFFICES ASSUME NEW k \in 1 .. Len(w)
               PROVE  /\ Own(w[k], ns) /\ Meets(w[k], Inner(w, k, at))
                      /\ k < Len(w) => Calls(w[k], w[k + 1])
    BY DEF CallsRight
  <2>1. k = 1
    BY <1>4
  <2> QED
    BY <1>4, <1>8, <1>9, <2>1
<1>11. CallsRight(work, Newest, nodes)'
  BY <1>3, <1>4, <1>10
<1>12. TopRight'
  <2>1. Top' = fr
    BY <1>3, <1>4 DEF Top
  <2> QED
    BY <1>7, <2>1 DEF TopRight
<1>13. Whole'
  <2>1. CASE fr.kind = "part"
    BY <2>1 DEF Whole
  <2>2. CASE fr.kind # "part"
    <3>1. Inner(work, 0, Newest)' = start'
      BY <1>3, <1>4, <1>5, <1>8, <1>9, <2>2
    <3> QED
      BY <1>3, <1>4, <1>5, <1>6, <2>2, <3>1 DEF Whole
  <2> QED
    BY <2>1, <2>2
<1> QED
  BY <1>1, <1>2, <1>11, <1>12, <1>13 DEF ParserInv, SpanInv

LEMMA MainLoopNext == ParserInv /\ MainLoop => ParserInv'
<1> SUFFICES ASSUME ParserInv, MainLoop PROVE ParserInv'
  OBVIOUS
<1>1. /\ top = "loop" /\ tok # "EOF" /\ ret' = Pending /\ work = <<>> /\ TypeInv
      /\ pos \in Nat \ {0}
  BY DEF MainLoop, ParserInv, TypeInv
<1>2. CASE tok = ";" /\ getNextToken /\ UNCHANGED <<work, nodes, start, top>>
  <2>1. pos' \in Nat \ {0} /\ work' = <<>> /\ top' = "loop"
    BY <1>1, <1>2, Advances
  <2> QED
    BY <1>1, <1>2, <2>1, LoopNext
<1>3. CASE /\ tok \in {"def", "extern"} /\ top' = tok
           /\ work' = <<Part("name", pos + 1)>> /\ getNextToken /\ UNCHANGED <<nodes, start>>
  <2>1. PICK fr : fr = Part("name", pos + 1)
    OBVIOUS
  <2>2. fr.kind = "part" /\ fr.phase = "name"
    BY <2>1 DEF Part
  <2>3. fr \in Frame
    <3>1. "name" \in Phase /\ pos + 1 \in Nat
      BY <1>1 DEF Phase
    <3> QED
      BY <2>1, <3>1, Values
  <2>4. pos' \in Nat \ {0}
    BY <1>1, <1>3, Advances
  <2>5. top' # "loop" /\ top' \notin {"expr", "body"} /\ fr.phase # "paren"
    BY <1>3, <2>2
  <2>6. work' = <<fr>> /\ nodes' \in {nodes, <<>>} /\ start' \in {start, pos'}
    BY <1>3, <2>1
  <2> QED
    BY <1>1, <2>2, <2>3, <2>4, <2>5, <2>6, HandlerBegins
<1>4. CASE /\ tok \notin {";", "def", "extern"} /\ top' = "expr"
           /\ work' = <<Expr(0, Null)>> /\ nodes' = <<>> /\ start' = pos
           /\ UNCHANGED <<tok, pos>>
  <2>1. PICK fr : fr = Expr(0, Null)
    OBVIOUS
  <2>2. fr \in Frame /\ fr.kind = "expr"
    <3>1. 0 \in 0 .. 41 /\ Null \in Span \cup {Null}
      OBVIOUS
    <3>2. fr \in Frame
      BY <2>1, <3>1, Values
    <3> QED
      BY <2>1, <3>2 DEF Expr
  <2>3. /\ pos' \in Nat \ {0} /\ top' # "loop" /\ work' = <<fr>> /\ nodes' \in {nodes, <<>>}
        /\ start' \in {start, pos'} /\ start' = pos' /\ fr.kind # "part"
    BY <1>1, <1>4, <2>1, <2>2
  <2> QED
    BY <1>1, <2>1, <2>2, <2>3, HandlerBegins
<1> QED
  BY <1>2, <1>3, <1>4 DEF MainLoop

LEMMA DefinitionNext == ParserInv /\ ParseDefinition => ParserInv'
<1> SUFFICES ASSUME ParserInv, ParseDefinition PROVE ParserInv'
  OBVIOUS
<1>1. PICK fr : fr = Expr(0, Null)
  OBVIOUS
<1>2. fr \in Frame /\ fr.kind = "expr"
  <2>1. 0 \in 0 .. 41 /\ Null \in Span \cup {Null}
    OBVIOUS
  <2>2. fr \in Frame
    BY <1>1, <2>1, Values
  <2> QED
    BY <1>1, <2>2 DEF Expr
<1>3. /\ pos' \in Nat \ {0} /\ top' # "loop" /\ work' = <<fr>> /\ nodes' \in {nodes, <<>>}
      /\ start' \in {start, pos'} /\ start' = pos' /\ fr.kind # "part" /\ ret' = Pending
  BY <1>1, <1>2 DEF ParseDefinition, ParserInv, TypeInv
<1> QED
  BY <1>1, <1>2, <1>3, HandlerBegins

LEMMA HandlerEnds ==
  ParserInv /\ (HandToCodegen \/ SkipToken \/ Stopped \/ UNCHANGED vars) => ParserInv'
<1> SUFFICES ASSUME ParserInv, HandToCodegen \/ SkipToken \/ Stopped \/ UNCHANGED vars
             PROVE  ParserInv'
  OBVIOUS
<1>1. CASE HandToCodegen
  <2>1. top' = "loop" /\ work' = <<>> /\ ret' = Pending /\ pos' \in Nat \ {0}
        /\ UNCHANGED <<nodes, start>>
    BY <1>1 DEF HandToCodegen, Handed, ParserInv, TypeInv
  <2> QED
    BY <2>1, LoopNext
<1>2. CASE SkipToken
  <2>1. top' = "loop" /\ work' = <<>> /\ ret' = Pending /\ getNextToken
        /\ UNCHANGED <<nodes, start>>
    BY <1>2 DEF SkipToken
  <2>2. pos' \in Nat \ {0}
    BY <2>1, Advances DEF ParserInv
  <2> QED
    BY <2>1, <2>2, LoopNext
<1>3. CASE Stopped \/ UNCHANGED vars
  <2>1. UNCHANGED vars
    BY <1>3 DEF Stopped
  <2>2. UNCHANGED <<tok, pos, work, ret, nodes, start, top>>
    BY <2>1 DEF vars
  <2>3. UNCHANGED <<Newest, Top>>
    BY <2>2 DEF Newest, Top
  <2>4. TypeInv' /\ NodesRight(nodes)'
    BY <2>2 DEF ParserInv, TypeInv
  <2>5. TopRight' = TopRight
    BY <2>2, <2>3 DEF TopRight, Fresh, Given
  <2>6. Whole' = Whole /\ CallsRight(work, Newest, nodes)' = CallsRight(work, Newest, nodes)
    BY <2>2, <2>3 DEF Whole
  <2> QED
    BY <2>2, <2>4, <2>5, <2>6 DEF ParserInv, SpanInv
<1> QED
  BY <1>1, <1>2, <1>3
-----------------------------------------------------------------------------
LEMMA ParserInvInit == Init => ParserInv
<1> SUFFICES ASSUME Init PROVE ParserInv
  OBVIOUS
<1>1. TypeInv
  BY DEF Init, TypeInv
<1>2. NodesRight(nodes)
  BY DEF Init, NodesRight
<1>3. CallsRight(work, Newest, nodes) /\ TopRight /\ Whole
  BY DEF Init, CallsRight, TopRight, Whole
<1> QED
  BY <1>1, <1>2, <1>3 DEF ParserInv, SpanInv

LEMMA ParserInvNext == ParserInv /\ [Next]_vars => ParserInv'
BY NumberNext, PrimaryFailsNext, OpeningNext, IdentifierNext, HeaderNext, BehindNext,
   GiveUpNext, ExpressionNext, OperatorNext, BinOpRHSNext, MainLoopNext, DefinitionNext,
   HandlerEnds DEF Next, Step

LEMMA ParserInvAlways == Spec => []ParserInv
BY ParserInvInit, ParserInvNext, PTL DEF Spec

(* However an expression is nested, what is left without parentheses binds   *)
(* as tightly as its operator asks for: ParseBinOpRHS never gives an operand *)
(* to the wrong one of two operators.                                        *)
THEOREM OperatorsBind == Spec => []PrecedenceRespected
<1>1. ParserInv => PrecedenceRespected
  <2> SUFFICES ASSUME ParserInv, NEW i \in 1 .. Len(nodes)
               PROVE  /\ Binds(nodes[i].left) >= BinopPrecedence[nodes[i].op]
                      /\ Binds(nodes[i].right) > BinopPrecedence[nodes[i].op]
    BY DEF PrecedenceRespected, ParserInv, TypeInv
  <2>1. /\ BindsIn(nodes[i].left, nodes) >= BinopPrecedence[nodes[i].op]
        /\ BindsIn(nodes[i].right, nodes) > BinopPrecedence[nodes[i].op]
    BY DEF ParserInv, NodesRight
  <2>2. \A t : Binds(t) = BindsIn(t, nodes)
    BY DEF Binds, BindsIn, Bare, BareIn
  <2> QED
    BY <2>1, <2>2
<1> QED
  BY <1>1, ParserInvAlways, PTL

(* Every token is used, and used once: the operands of an operator touch it, *)
(* and what a handler is given spans all that was read since it began, up to *)
(* a token that cannot go on with it.                                        *)
THEOREM TokensAreKept == Spec => []NothingLost
<1>1. ParserInv => NothingLost
  <2> SUFFICES ASSUME ParserInv PROVE NothingLost
    OBVIOUS
  <2>1. \A i \in DOMAIN nodes : /\ nodes[i].left.to + 1 = nodes[i].at
                                /\ nodes[i].right.from = nodes[i].at + 1
    BY DEF ParserInv, TypeInv, NodesRight
  <2>2. ASSUME Handed, top # "extern"
        PROVE  ret.from = start /\ ret.to = pos - 1 /\ GetTokPrecedence(tok) = -1
    <3>1. /\ top \in {"expr", "body"} /\ work = <<>> /\ ret \notin {Pending, Null} /\ ret # Null
          /\ ret # Pending
      BY <2>2 DEF Handed
    <3>2. TopRight /\ Whole
      BY <3>1 DEF ParserInv, SpanInv
    <3>3. ret.to = pos - 1
      BY <3>1, <3>2 DEF TopRight
    <3>4. Inner(work, 0, Newest) = ret.from
      BY <3>1 DEF Inner, Newest
    <3> QED
      BY <3>1, <3>2, <3>3, <3>4 DEF Whole
  <2> QED
    BY <2>1, <2>2 DEF NothingLost
<1> QED
  BY <1>1, ParserInvAlways, PTL
=============================================================================
