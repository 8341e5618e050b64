-------------------------- MODULE KaleidoscopeProofs --------------------------
(* Theorems about Kaleidoscope, for any number of functions and expressions. *)
EXTENDS Kaleidoscope, IntervalProofs, FiniteSetTheorems, TLAPS

-----------------------------------------------------------------------------
(* The module: a name belongs to the function that has it, and while a body  *)
(* is generated its function is open.                                        *)
Name == FnName \cup {Anonymous}
Function == [name : Name, args : Seq(Var),
             state : {"declared", "open", "defined", "erased"}]
NamesInv ==
  /\ functions \in Seq(Function) /\ owner \in [FnName -> 0 .. Len(functions)]
  /\ \A n \in FnName : owner[n] # 0 => functions[owner[n]].name = n
  /\ \A f \in 1 .. Len(functions) :
       functions[f].state # "erased" /\ functions[f].name # Anonymous =>
         owner[functions[f].name] = f
  /\ work # <<>> => /\ current \in 1 .. Len(functions)
                    /\ functions[current].state = "open"

LEMMA NamesKnown ==
  ASSUME NamesInv
  PROVE  /\ functions \in Seq(Function) /\ Len(functions) \in Nat
         /\ owner \in [FnName -> 0 .. Len(functions)]
         /\ \A f \in 1 .. Len(functions) : /\ functions[f] \in Function
                                           /\ functions[f].name \in Name
<1>1. functions \in Seq(Function)
  BY DEF NamesInv
<1>2. \A f \in 1 .. Len(functions) : functions[f] \in Function
  BY <1>1
<1> QED
  BY <1>1, <1>2 DEF NamesInv, Function

LEMMA NamesInvInit == Init => NamesInv
BY DEF Init, NamesInv, Function

(* A prototype leaves every function that is not a declaration alone.        *)
LEMMA PrototypeAdds ==
  ASSUME NamesInv, NEW n \in Name, NEW args \in Seq(Var),
         NEW state \in {"declared", "open"}, Prototype(n, args, state)
  PROVE  /\ functions' \in Seq(Function) /\ owner' \in [FnName -> 0 .. Len(functions')]
         /\ \A m \in FnName : owner'[m] # 0 => functions'[owner'[m]].name = m
         /\ \A f \in 1 .. Len(functions') :
              functions'[f].state # "erased" /\ functions'[f].name # Anonymous =>
                owner'[functions'[f].name] = f
         /\ TheFunction(n) \in 1 .. Len(functions')
         /\ functions'[TheFunction(n)] = [name |-> n, args |-> args, state |-> state]
         /\ \A f \in 1 .. Len(functions) : /\ f \in 1 .. Len(functions')
                                           /\ functions[f].state = "defined" =>
                                                functions'[f] = functions[f]
<1> DEFINE g == [name |-> n, args |-> args, state |-> state]
<1>1. g \in Function /\ g.name = n /\ g.state # "erased"
  BY DEF Function
<1>2. /\ functions \in Seq(Function) /\ owner \in [FnName -> 0 .. Len(functions)]
      /\ Len(functions) \in Nat
      /\ \A f \in 1 .. Len(functions) : functions[f].name \in Name
  BY NamesKnown
<1>3. Anonymous \notin FnName
  BY KaleidoscopeAssumption
<1>4. CASE IsFree(n) /\ functions' = Append(functions, g)
           /\ owner' = IF n = Anonymous THEN owner ELSE [owner EXCEPT ![n] = Len(functions) + 1]
  <2> DEFINE k == Len(functions) + 1
  <2>1. /\ functions' \in Seq(Function) /\ Len(functions') = k /\ functions'[k] = g
        /\ \A f \in 1 .. Len(functions) : functions'[f] = functions[f]
        /\ k \in 1 .. k /\ k # 0
        /\ \A f \in 1 .. k : f # k => f \in 1 .. Len(functions)
    <3> HIDE DEF g
    <3> QED
      BY <1>1, <1>2, <1>4
  <2>2. TheFunction(n) = k
    BY <1>4 DEF TheFunction
  <2> HIDE DEF g, k
  <2>3. owner' = IF n = Anonymous THEN owner ELSE [owner EXCEPT ![n] = k]
    BY <1>4 DEF k
  <2>4. n # Anonymous => owner[n] = 0 /\ n \in FnName
    BY <1>4 DEF IsFree, Name
  <2>5. owner' \in [FnName -> 0 .. Len(functions')]
    <3>1. k \in 0 .. k /\ \A i \in 0 .. Len(functions) : i \in 0 .. k
      BY <1>2 DEF k
    <3> QED
      BY <1>2, <2>1, <2>3, <3>1
  <2>6. ASSUME NEW m \in FnName, owner'[m] # 0 PROVE functions'[owner'[m]].name = m
    <3>1. CASE m = n
      BY <1>1, <1>2, <1>3, <2>1, <2>3, <3>1
    <3>2. CASE m # n
      <4>1. owner'[m] = owner[m] /\ owner[m] \in 1 .. Len(functions)
        BY <1>2, <2>3, <2>6, <3>2
      <4> QED
        BY <2>1, <4>1 DEF NamesInv
    <3> QED
      BY <3>1, <3>2
  <2>7. ASSUME NEW f \in 1 .. Len(functions'),
               functions'[f].state # "erased", functions'[f].name # Anonymous
        PROVE  owner'[functions'[f].name] = f
    <3>1. CASE f = k
      BY <1>1, <1>2, <2>1, <2>3, <2>4, <2>7, <3>1
    <3>2. CASE f # k
      <4>1. f \in 1 .. Len(functions) /\ functions'[f] = functions[f] /\ f # 0
        BY <2>1, <3>2
      <4>2. owner[functions[f].name] = f
        BY <2>7, <4>1 DEF NamesInv
      <4>3. functions[f].name \in FnName /\ functions[f].name # n
        BY <1>2, <2>4, <2>7, <4>1, <4>2 DEF Name
      <4> QED
        BY <1>2, <2>3, <4>1, <4>2, <4>3
    <3> QED
      BY <3>1, <3>2
  <2> QED
    BY <2>1, <2>2, <2>5, <2>6, <2>7, <1>2 DEF k, g
<1>5. CASE Reusable(n, args) /\ functions' = [functions EXCEPT ![owner[n]] = g] /\ owner' = owner
  <2>1. /\ n \in FnName /\ owner[n] \in 1 .. Len(functions)
        /\ functions[owner[n]].state = "declared" /\ functions[owner[n]].name = n
    <3>1. n \in FnName /\ owner[n] # 0 /\ functions[owner[n]].state = "declared"
      BY <1>5 DEF Reusable, IsFree
    <3> QED
      BY <1>2, <3>1 DEF NamesInv
  <2> DEFINE k == owner[n]
  <2>2. /\ functions' \in Seq(Function) /\ Len(functions') = Len(functions)
        /\ functions'[k] = g
        /\ \A f \in 1 .. Len(functions) : f # k => functions'[f] = functions[f]
    <3> HIDE DEF g
    <3> QED
      BY <1>1, <1>2, <1>5, <2>1
  <2>3. TheFunction(n) = k
    BY <1>5 DEF TheFunction, Reusable
  <2> HIDE DEF g, k
  <2>4. \A f \in 1 .. Len(functions) : functions'[f].name = functions[f].name
    BY <1>1, <2>1, <2>2 DEF k
  <2>5. ASSUME NEW m \in FnName, owner[m] # 0 PROVE functions'[owner[m]].name = m
    <3>1. owner[m] \in 1 .. Len(functions)
      BY <1>2, <2>5
    <3> QED
      BY <2>4, <2>5, <3>1 DEF NamesInv
  <2>6. ASSUME NEW f \in 1 .. Len(functions),
               functions'[f].state # "erased", functions'[f].name # Anonymous
        PROVE  owner[functions'[f].name] = f
    <3>1. CASE f = k
      BY <2>1, <2>4, <3>1 DEF k
    <3>2. CASE f # k
      BY <2>2, <2>6, <3>2 DEF NamesInv
    <3> QED
      BY <3>1, <3>2
  <2> QED
    BY <1>2, <1>5, <2>1, <2>2, <2>3, <2>5, <2>6 DEF k, g
<1> QED
  BY <1>4, <1>5 DEF Prototype

LEMMA NamesInvNext == NamesInv /\ [Next]_vars => NamesInv'
<1> SUFFICES ASSUME NamesInv, [Next]_vars PROVE NamesInv'
  OBVIOUS
<1>0. Anonymous \in Name /\ FnName \subseteq Name /\ <<>> \in Seq(Var)
      /\ \A args \in ArgLists : args \in Seq(Var)
  BY KaleidoscopeAssumption DEF Name
<1>1. ASSUME NEW n \in FnName, NEW args \in ArgLists, HandleExtern(n, args) PROVE NamesInv'
  <2>0. work' = work /\ work = <<>>
    BY <1>1 DEF HandleExtern, AtTop
  <2>1. CASE Prototype(n, args, "declared")
    BY <1>0, <2>0, <2>1, PrototypeAdds DEF NamesInv
  <2>2. CASE UNCHANGED <<functions, owner, named>>
    BY <2>0, <2>2 DEF NamesInv
  <2> QED
    BY <1>1, <2>1, <2>2 DEF HandleExtern
<1>2. ASSUME NEW n \in Name, NEW args \in Seq(Var), BeginFunction(n, args) PROVE NamesInv'
  <2>1. CASE Prototype(n, args, "open") /\ current' = TheFunction(n)
    <3>1. functions'[TheFunction(n)] = [name |-> n, args |-> args, state |-> "open"]
      BY <2>1, PrototypeAdds
    <3>2. functions'[current'].state = "open"
      BY <2>1, <3>1
    <3> QED
      BY <2>1, <3>2, PrototypeAdds DEF NamesInv
  <2>2. CASE UNCHANGED <<functions, owner, current, work>>
    BY <2>2 DEF NamesInv
  <2> QED
    BY <1>2, <2>1, <2>2 DEF BeginFunction
<1>3. CASE UNCHANGED <<functions, owner, current>> /\ (work' = work \/ work # <<>>)
  BY <1>3 DEF NamesInv
<1>4. CASE EndFunction
  <2> DEFINE name == functions[current].name
  <2>1. /\ current \in 1 .. Len(functions) /\ functions \in Seq(Function)
        /\ owner \in [FnName -> 0 .. Len(functions)]
        /\ name \in Name /\ (name # Anonymous => owner[name] = current)
        /\ functions[current] \in Function
        /\ \A f \in 1 .. Len(functions) : functions[f].name \in Name
        /\ work' = <<>>
    <3>1. work # <<>> /\ work' = <<>>
      BY <1>4 DEF EndFunction
    <3>2. current \in 1 .. Len(functions) /\ functions[current].state = "open"
      BY <3>1 DEF NamesInv
    <3> QED
      BY <3>1, <3>2, NamesKnown DEF NamesInv
  <2>2. CASE functions' = [functions EXCEPT ![current].state = "defined"] /\ owner' = owner
    <3>1. /\ functions' \in Seq(Function) /\ Len(functions') = Len(functions)
          /\ \A f \in 1 .. Len(functions) : functions'[f].name = functions[f].name
          /\ \A f \in 1 .. Len(functions) : functions'[f].state # "erased" =>
               functions[f].state # "erased" \/ f = current
      <4> DEFINE g == [functions[current] EXCEPT !.state = "defined"]
      <4>1. g \in Function /\ g.name = name /\ g.state = "defined"
        BY <2>1 DEF Function
      <4> HIDE DEF g
      <4>2. functions' = [functions EXCEPT ![current] = g]
        BY <2>2 DEF g
      <4>3. /\ functions' \in Seq(Function) /\ Len(functions') = Len(functions)
            /\ \A f \in 1 .. Len(functions) :
                 functions'[f] = IF f = current THEN g ELSE functions[f]
        BY <2>1, <4>1, <4>2
      <4> QED
        BY <4>1, <4>3
    <3>2. functions[current].state # "erased"
      BY <1>4 DEF NamesInv, EndFunction
    <3>3. \A n \in FnName : owner[n] # 0 => owner[n] \in 1 .. Len(functions)
      BY <2>1
    <3> QED
      BY <2>1, <2>2, <3>1, <3>2, <3>3 DEF NamesInv
  <2>3. CASE /\ functions' = [functions EXCEPT ![current].state = "erased"]
             /\ owner' = [n \in FnName |-> IF n = name THEN 0 ELSE owner[n]]
    <3>1. /\ functions' \in Seq(Function) /\ Len(functions') = Len(functions)
          /\ \A f \in 1 .. Len(functions) : functions'[f].name = functions[f].name
          /\ \A f \in 1 .. Len(functions) : functions'[f].state # "erased" =>
               functions[f].state # "erased" /\ f # current
      <4> DEFINE g == [functions[current] EXCEPT !.state = "erased"]
      <4>1. g \in Function /\ g.name = name /\ g.state = "erased"
        BY <2>1 DEF Function
      <4> HIDE DEF g
      <4>2. functions' = [functions EXCEPT ![current] = g]
        BY <2>3 DEF g
      <4>3. /\ functions' \in Seq(Function) /\ Len(functions') = Len(functions)
            /\ \A f \in 1 .. Len(functions) :
                 functions'[f] = IF f = current THEN g ELSE functions[f]
        BY <2>1, <4>1, <4>2
      <4> QED
        BY <4>1, <4>3
    <3> HIDE DEF name
    <3>2. owner' \in [FnName -> 0 .. Len(functions)]
      BY <2>1, <2>3
    <3>3. \A n \in FnName :
            owner'[n] # 0 => owner[n] = owner'[n] /\ owner[n] \in 1 .. Len(functions)
      BY <2>1, <2>3
    <3>4. ASSUME NEW f \in 1 .. Len(functions),
                 functions'[f].state # "erased", functions'[f].name # Anonymous
          PROVE  owner'[functions'[f].name] = f
      <4>1. owner[functions[f].name] = f /\ f # current /\ functions[f].name \in FnName
        BY <2>1, <3>1, <3>4 DEF NamesInv, Name
      <4>2. functions[f].name # name
        BY <2>1, <3>1, <3>4, <4>1
      <4> QED
        BY <2>3, <3>1, <4>1, <4>2
    <3> QED
      BY <2>1, <3>1, <3>2, <3>3, <3>4 DEF NamesInv
  <2> QED
    BY <1>4, <2>2, <2>3 DEF EndFunction
<1>5. CASE MainLoopReturns \/ Visit \/ Stopped \/ UNCHANGED vars
  <2>1. UNCHANGED <<functions, owner, current>>
    BY <1>5 DEF MainLoopReturns, Visit, Stopped, vars, Number, While, BeginBinary, BeginIf, Variable,
                BeginCall, BeginFor, Begin, Node, session
  <2>2. work' = work \/ work # <<>>
    BY <1>5 DEF MainLoopReturns, Visit, Stopped, vars, Number, While, BeginBinary, BeginIf, Variable,
                BeginCall, BeginFor, Begin, Node, Evaluating
  <2> QED
    BY <1>3, <2>1, <2>2
<1>6. CASE Resume /\ ~EndFunction
  <2>1. UNCHANGED <<functions, owner, current>>
    BY <1>6 DEF Resume, GiveUp, BinaryLeft, BinaryRight, CallArgument, EndCall, IfCondition, IfThen,
                IfElse, ForStart, ForBody, ForStep, ForEnd, Phase, Returned, session
  <2>2. work # <<>>
    BY <1>6 DEF Resume, GiveUp, BinaryLeft, BinaryRight, CallArgument, EndCall, IfCondition, IfThen,
                IfElse, ForStart, ForBody, ForStep, ForEnd, Phase, Returned
  <2> QED
    BY <1>3, <2>1, <2>2
<1>7. CASE Handler
  <2>1. ASSUME NEW n \in FnName, NEW args \in ArgLists, HandleDefinition(n, args) PROVE NamesInv'
    BY <1>0, <1>2, <2>1 DEF HandleDefinition
  <2>2. CASE HandleTopLevelExpression
    BY <1>0, <1>2, <2>2 DEF HandleTopLevelExpression
  <2> QED
    BY <1>1, <1>5, <1>7, <2>1, <2>2 DEF Handler
<1> QED
  BY <1>4, <1>5, <1>6, <1>7 DEF Next

(* A body is only ever written while its function is open, so nothing that   *)
(* is read later takes it, its name or its calls away: neither a prototype   *)
(* of the name nor the erasing of another function.                          *)
THEOREM DefinitionsLast == Spec => BodiesKept
<1>1. ASSUME NamesInv, NamesInv', [Next]_vars, NEW f \in DOMAIN functions,
             functions[f].state = "defined"
      PROVE  /\ functions'[f] = functions[f]
             /\ functions[f].name # Anonymous => owner'[functions[f].name] = f
             /\ \A g \in FunctionId : <<f, g>> \in calls' => <<f, g>> \in calls
  <2>0. f \in 1 .. Len(functions) /\ work # <<>> => f # current
    BY <1>1 DEF NamesInv
  <2>1. f \in 1 .. Len(functions') /\ functions'[f] = functions[f]
    <3>0. /\ f \in 1 .. Len(functions) /\ <<>> \in Seq(Var) /\ Anonymous \in Name
          /\ FnName \subseteq Name /\ \A args \in ArgLists : args \in Seq(Var)
      BY <1>1, NamesKnown, KaleidoscopeAssumption DEF Name
    <3>1. CASE functions' = functions
      BY <3>0, <3>1
    <3>2. ASSUME NEW n \in Name, NEW args \in Seq(Var), NEW state \in {"declared", "open"},
                 Prototype(n, args, state)
          PROVE  f \in 1 .. Len(functions') /\ functions'[f] = functions[f]
      BY <1>1, <3>0, <3>2, PrototypeAdds
    <3>3. ASSUME NEW n \in FnName, NEW args \in ArgLists, HandleExtern(n, args)
          PROVE  functions' = functions \/ Prototype(n, args, "declared")
      BY <3>3 DEF HandleExtern
    <3>4. ASSUME NEW n \in Name, NEW args \in Seq(Var), BeginFunction(n, args)
          PROVE  functions' = functions \/ Prototype(n, args, "open")
      BY <3>4 DEF BeginFunction
    <3>5. CASE Handler
      <4>1. ASSUME NEW n \in FnName, NEW args \in ArgLists, HandleExtern(n, args)
            PROVE  f \in 1 .. Len(functions') /\ functions'[f] = functions[f]
        BY <3>0, <3>1, <3>2, <3>3, <4>1
      <4>2. ASSUME NEW n \in Name, NEW args \in Seq(Var), BeginFunction(n, args)
            PROVE  f \in 1 .. Len(functions') /\ functions'[f] = functions[f]
        BY <3>0, <3>1, <3>2, <3>4, <4>2
      <4>3. MainLoopReturns => functions' = functions
        BY DEF MainLoopReturns
      <4> QED
        BY <3>0, <3>1, <3>5, <4>1, <4>2, <4>3
        DEF Handler, HandleDefinition, HandleTopLevelExpression
    <3>6. CASE EndFunction
      <4>1. /\ f # current /\ current \in 1 .. Len(functions) /\ functions \in Seq(Function)
            /\ \E g : functions' = [functions EXCEPT ![current] = g]
        <5>1. work # <<>>
          BY <3>6 DEF EndFunction
        <5> QED
          BY <1>1, <2>0, <3>6, <5>1 DEF EndFunction, NamesInv
      <4> QED
        BY <3>0, <4>1
    <3>7. CASE (Visit \/ Resume \/ Stopped \/ UNCHANGED vars) /\ ~EndFunction
      <4>1. functions' = functions
        BY <3>7 DEF Visit, Stopped, vars, Number, While, BeginBinary, BeginIf, Variable,
                    BeginCall, BeginFor, Begin, Node, session, Resume, GiveUp, BinaryLeft,
                    BinaryRight, CallArgument, EndCall, IfCondition, IfThen, IfElse, ForStart,
                    ForBody, ForStep, ForEnd, Phase, Returned
      <4> QED
        BY <3>1, <4>1
    <3> QED
      BY <1>1, <3>5, <3>6, <3>7 DEF Next
  <2>2. functions[f].name # Anonymous => owner'[functions[f].name] = f
    BY <1>1, <2>1 DEF NamesInv
  <2>3. calls' = calls \/ (work # <<>> /\ \E g : calls' = calls \cup {<<current, g>>})
    BY <1>1 DEF Next, Handler, HandleExtern, HandleDefinition, HandleTopLevelExpression,
                BeginFunction, MainLoopReturns, Visit, Stopped, vars, Number, While, BeginBinary,
                BeginIf, Variable, BeginCall, BeginFor, Begin, Node, session, Resume, GiveUp,
                BinaryLeft, BinaryRight, CallArgument, EndCall, IfCondition, IfThen, IfElse,
                ForStart, ForBody, ForStep, ForEnd, EndFunction, Phase, Returned
  <2> QED
    BY <2>0, <2>1, <2>2, <2>3
<1>2. NamesInv /\ NamesInv' /\ [Next]_vars =>
        [\A f \in DOMAIN functions : functions[f].state = "defined" =>
           /\ functions'[f] = functions[f]
           /\ functions[f].name # Anonymous => owner'[functions[f].name] = f
           /\ \A g \in FunctionId : <<f, g>> \in calls' => <<f, g>> \in calls]_vars
  BY <1>1
<1>3. Spec => []NamesInv
  BY NamesInvInit, NamesInvNext, PTL DEF Spec
<1> QED
  BY <1>2, <1>3, PTL DEF Spec, BodiesKept
-----------------------------------------------------------------------------
(* What the variables hold.                                                  *)
Val == [of : Nat, at : Nat]
Result == Val \cup {Null}
Incoming == [val : Val, from : Nat]
BlockType == [attached : BOOLEAN, phi : SUBSET Incoming, uses : SUBSET Val,
              ends : Seq(SUBSET Nat)]

BodyFrame == [kind : {"body"}]
BinaryFrame == [kind : {"binary"}, vals : Seq(Result)]
CallFrame == [kind : {"call"}, callee : Nat, arity : Nat, vals : Seq(Val)]
CondFrame == [kind : {"if"}, phase : {"cond"}]
ThenFrame == [kind : {"if"}, phase : {"then"}, else : Nat, merge : Nat]
ElseFrame == [kind : {"if"}, phase : {"else"}, merge : Nat, incoming : Incoming]
StartFrame == [kind : {"for"}, phase : {"start"}, var : Var, step : BOOLEAN]
LoopFrame == [kind : {"for"}, phase : {"body", "step"}, var : Var, step : BOOLEAN,
              loop : Nat, old : Result]
LastFrame == [kind : {"for"}, phase : {"end"}, var : Var, step : Val,
              loop : Nat, old : Result]
Frame == BodyFrame \cup BinaryFrame \cup CallFrame \cup CondFrame \cup ThenFrame
           \cup ElseFrame \cup StartFrame \cup LoopFrame \cup LastFrame

(* The blocks a frame has made and still writes to: the else and merge       *)
(* blocks it has to attach, the header of a loop.                            *)
IsThen(w) == w.kind = "if" /\ w.phase = "then"
IsElse(w) == w.kind = "if" /\ w.phase = "else"
IsLoop(w) == w.kind = "for" /\ w.phase # "start"
Awaited(w) == IF IsThen(w) THEN {w.else, w.merge} ELSE IF IsElse(w) THEN {w.merge} ELSE {}
Held(w) == IF IsLoop(w) THEN {w.loop} ELSE Awaited(w)

TypeInv ==
  /\ named \in [Var -> Result] /\ ret \in Result \cup {Pending} /\ failed \in BOOLEAN
  /\ current \in Nat /\ insert \in Nat
  /\ blocks \in Seq(BlockType) /\ work \in Seq(Frame)
  /\ work # <<>> => insert \in 1 .. Len(blocks)
  /\ \A k \in 1 .. Len(work) : Held(work[k]) \subseteq 1 .. Len(blocks)

(* A null goes all the way up: once a Codegen has returned null, either the  *)
(* caller is about to see it or a binary operator remembers it.              *)
Spoilt(w) == w.kind = "binary" /\ w.vals # <<>> /\ w.vals[1] = Null
NullInv ==
  /\ work = <<>> => ret = Pending
  /\ work # <<>> => /\ work[1].kind = "body"
                    /\ \A k \in 2 .. Len(work) : work[k].kind # "body"
                    /\ failed <=> \/ ret = Null
                                  \/ \E k \in 1 .. Len(work) : Spoilt(work[k])

(* The insertion point and what the frames hold are under construction; the  *)
(* other blocks are ended.                                                   *)
TargetsIn(bs, b) == UNION {bs[b].ends[i] : i \in DOMAIN bs[b].ends}
PredsIn(bs, b) == {a \in 1 .. Len(bs) : b \in TargetsIn(bs, a)}
Closed(bs, b) == bs[b].attached /\ Len(bs[b].ends) = 1
PhiRight(bs, b) == bs[b].phi # {} =>
                     /\ {p.from : p \in bs[b].phi} = PredsIn(bs, b)
                     /\ Cardinality(bs[b].phi) = Cardinality(PredsIn(bs, b))
Untouched(B) == B.attached = FALSE /\ B.ends = <<>> /\ B.phi = {}
FrameRight(bs, w) ==
  /\ \A b \in Awaited(w) : Untouched(bs[b])
  /\ IsThen(w) => w.else # w.merge /\ PredsIn(bs, w.merge) = {}
  /\ IsElse(w) => PredsIn(bs, w.merge) = {w.incoming.from}
  /\ IsLoop(w) => \E p \in bs[w.loop].phi :
                    bs[w.loop].phi = {p} /\ PredsIn(bs, w.loop) = {p.from}

WellBuilt(bs, at, w) ==
  /\ at \in 1 .. Len(bs) /\ bs[at].attached /\ bs[at].ends = <<>>
  /\ \A b \in 1 .. Len(bs) :
       /\ b = at \/ Closed(bs, b) \/ \E k \in 1 .. Len(w) : b \in Awaited(w[k])
       /\ PhiRight(bs, b) /\ TargetsIn(bs, b) \subseteq 1 .. Len(bs)
  /\ \A k \in 1 .. Len(w) : FrameRight(bs, w[k]) /\ Held(w[k]) \subseteq 1 .. Len(bs)
  /\ \A i, j \in 1 .. Len(w) : i # j => Held(w[i]) \cap Held(w[j]) = {}
GraphInv == WellBuilt(blocks, insert, work)

(* The variable a name means in the first n frames, and the one each loop    *)
(* has to give back.                                                         *)
Loops(w, n, x) == {k \in 1 .. n : IsLoop(w[k]) /\ w[k].var = x}
Shadow(w, n, x) == IF Loops(w, n, x) # {} THEN Computed(w[Max(Loops(w, n, x))].loop)
                   ELSE WithArguments(NoNames, current, functions[current].args)[x]
GivesBack(w) ==
  \A k \in 1 .. Len(w) : IsLoop(w[k]) => w[k].old = Shadow(w, k - 1, w[k].var)
EnvInv == GivesBack(work) /\ \A x \in Var : named[x] = Shadow(work, Len(work), x)

(* The stack and the blocks, one change at a time.                           *)
LEMMA StackSteps ==
  ASSUME work \in Seq(Frame), NEW frame \in Frame
  PROVE  /\ Append(work, frame) \in Seq(Frame) /\ Append(work, frame) # <<>>
         /\ Len(Append(work, frame)) = Len(work) + 1
         /\ Append(work, frame)[Len(work) + 1] = frame
         /\ \A k \in 1 .. Len(work) : Append(work, frame)[k] = work[k]
         /\ work # <<>> =>
              /\ Len(work) \in Nat /\ Len(work) \in 1 .. Len(work) /\ Top \in Frame
              /\ Pop \in Seq(Frame) /\ Len(Pop) = Len(work) - 1
              /\ \A k \in 1 .. Len(work) - 1 : Pop[k] = work[k]
              /\ Become(frame) \in Seq(Frame) /\ Len(Become(frame)) = Len(work)
              /\ Become(frame)[Len(work)] = frame /\ Become(frame) # <<>>
              /\ \A k \in 1 .. Len(work) - 1 : Become(frame)[k] = work[k]
<1> DEFINE n == Len(work)
<1>1. /\ Append(work, frame) \in Seq(Frame) /\ Append(work, frame) # <<>>
      /\ Len(Append(work, frame)) = Len(work) + 1
      /\ Append(work, frame)[Len(work) + 1] = frame
      /\ \A k \in 1 .. Len(work) : Append(work, frame)[k] = work[k]
  OBVIOUS
<1>2. ASSUME work # <<>>
      PROVE  /\ n \in Nat /\ n \in 1 .. n /\ Top \in Frame
             /\ Pop \in Seq(Frame) /\ Len(Pop) = n - 1
             /\ \A k \in 1 .. n - 1 : Pop[k] = work[k]
  <2>1. ASSUME NEW s \in Seq(Frame), s # <<>>
        PROVE  /\ Len(s) \in Nat /\ Len(s) \in 1 .. Len(s) /\ s[Len(s)] \in Frame
               /\ SubSeq(s, 1, Len(s) - 1) \in Seq(Frame)
               /\ Len(SubSeq(s, 1, Len(s) - 1)) = Len(s) - 1
               /\ \A k \in 1 .. Len(s) - 1 : SubSeq(s, 1, Len(s) - 1)[k] = s[k]
    <3>1. Len(s) \in Nat /\ Len(s) # 0
      BY <2>1
    <3>2. Len(s) \in 1 .. Len(s) /\ Len(s) - 1 <= Len(s) /\ Len(s) - 1 \in Nat
      BY <3>1
    <3>3. ASSUME NEW m \in Nat, m <= Len(s)
          PROVE  /\ SubSeq(s, 1, m) \in Seq(Frame) /\ Len(SubSeq(s, 1, m)) = m
                 /\ \A k \in 1 .. m : SubSeq(s, 1, m)[k] = s[k]
      <4>1. \A k \in 1 .. m : s[k] \in Frame
        BY <2>1, <3>1, <3>3
      <4> QED
        BY <2>1, <3>3, <4>1
    <3>4. s[Len(s)] \in Frame
      BY <2>1, <3>2
    <3> QED
      BY <3>1, <3>2, <3>3, <3>4
  <2> QED
    BY <1>2, <2>1 DEF Top, Pop
<1>3. ASSUME work # <<>>
      PROVE  /\ Become(frame) \in Seq(Frame) /\ Len(Become(frame)) = n
             /\ Become(frame)[n] = frame /\ Become(frame) # <<>>
             /\ \A k \in 1 .. n - 1 : Become(frame)[k] = work[k]
  <2> DEFINE p == Pop
  <2>1. n \in Nat /\ p \in Seq(Frame) /\ Len(p) = n - 1 /\ \A k \in 1 .. n - 1 : p[k] = work[k]
    BY <1>2, <1>3
  <2> HIDE DEF p, n
  <2>2. /\ Append(p, frame) \in Seq(Frame) /\ Len(Append(p, frame)) = n
        /\ Append(p, frame)[n] = frame /\ Append(p, frame) # <<>>
        /\ \A k \in 1 .. n - 1 : Append(p, frame)[k] = work[k]
    BY <2>1
  <2> QED
    BY <2>2 DEF Become, p
<1> QED
  BY <1>1, <1>2, <1>3

LEMMA TopKnown ==
  ASSUME Top \in Frame
  PROVE  /\ Top.kind = "body" => Top \in BodyFrame
         /\ Top.kind = "binary" => Top \in BinaryFrame
         /\ Top.kind = "call" => Top \in CallFrame
         /\ Top.kind = "if" =>
              /\ Top.phase = "cond" => Top \in CondFrame
              /\ Top.phase = "then" => Top \in ThenFrame
              /\ Top.phase = "else" => Top \in ElseFrame
         /\ Top.kind = "for" =>
              /\ Top.phase = "start" => Top \in StartFrame
              /\ Top.phase \in {"body", "step"} => Top \in LoopFrame
              /\ Top.phase = "end" => Top \in LastFrame
BY DEF Frame, BodyFrame, BinaryFrame, CallFrame, CondFrame, ThenFrame, ElseFrame,
       StartFrame, LoopFrame, LastFrame

LEMMA BlockChanged ==
  ASSUME NEW bs \in Seq(BlockType), NEW i \in 1 .. Len(bs), NEW B \in BlockType,
         NEW cs, cs = [bs EXCEPT ![i] = B]
  PROVE  /\ cs \in Seq(BlockType) /\ Len(cs) = Len(bs)
         /\ \A b \in 1 .. Len(bs) : cs[b] = IF b = i THEN B ELSE bs[b]
OBVIOUS

(* What Use and Jump do to the blocks, and what they leave alone.            *)
LEMMA UseKeeps ==
  ASSUME NEW bs \in Seq(BlockType), insert \in 1 .. Len(bs), NEW vals \in SUBSET Val
  PROVE  /\ Use(bs, vals) \in Seq(BlockType) /\ Len(Use(bs, vals)) = Len(bs)
         /\ \A b \in 1 .. Len(bs) : /\ Use(bs, vals)[b].attached = bs[b].attached
                                    /\ Use(bs, vals)[b].phi = bs[b].phi
                                    /\ Use(bs, vals)[b].ends = bs[b].ends
                                    /\ Use(bs, vals)[b].uses =
                                         IF b = insert THEN bs[b].uses \cup vals ELSE bs[b].uses
<1> DEFINE B == [bs[insert] EXCEPT !.uses = @ \cup vals]
<1>1. bs[insert] \in BlockType
  OBVIOUS
<1>2. /\ B \in BlockType /\ B.attached = bs[insert].attached /\ B.phi = bs[insert].phi
      /\ B.ends = bs[insert].ends /\ B.uses = bs[insert].uses \cup vals
  BY <1>1 DEF BlockType
<1>3. Use(bs, vals) = [bs EXCEPT ![insert] = B]
  BY DEF Use
<1> HIDE DEF B
<1>4. /\ Use(bs, vals) \in Seq(BlockType) /\ Len(Use(bs, vals)) = Len(bs)
      /\ \A b \in 1 .. Len(bs) : Use(bs, vals)[b] = IF b = insert THEN B ELSE bs[b]
  BY <1>2, <1>3, BlockChanged
<1> QED
  BY <1>2, <1>4

LEMMA JumpAdds ==
  ASSUME NEW bs \in Seq(BlockType), insert \in 1 .. Len(bs), NEW targets \in SUBSET Nat
  PROVE  /\ Jump(bs, targets) \in Seq(BlockType) /\ Len(Jump(bs, targets)) = Len(bs)
         /\ \A b \in 1 .. Len(bs) : /\ Jump(bs, targets)[b].attached = bs[b].attached
                                    /\ Jump(bs, targets)[b].phi = bs[b].phi
                                    /\ Jump(bs, targets)[b].uses = bs[b].uses
                                    /\ Jump(bs, targets)[b].ends =
                                         IF b = insert THEN Append(bs[b].ends, targets)
                                                       ELSE bs[b].ends
<1> DEFINE B == [bs[insert] EXCEPT !.ends = Append(@, targets)]
<1>1. bs[insert] \in BlockType /\ Append(bs[insert].ends, targets) \in Seq(SUBSET Nat)
  <2>1. bs[insert] \in BlockType
    OBVIOUS
  <2>2. bs[insert].ends \in Seq(SUBSET Nat)
    BY <2>1 DEF BlockType
  <2> QED
    BY <2>1, <2>2
<1>2. /\ B \in BlockType /\ B.attached = bs[insert].attached /\ B.phi = bs[insert].phi
      /\ B.ends = Append(bs[insert].ends, targets) /\ B.uses = bs[insert].uses
  BY <1>1 DEF BlockType
<1>3. Jump(bs, targets) = [bs EXCEPT ![insert] = B]
  BY DEF Jump
<1> HIDE DEF B
<1>4. /\ Jump(bs, targets) \in Seq(BlockType) /\ Len(Jump(bs, targets)) = Len(bs)
      /\ \A b \in 1 .. Len(bs) : Jump(bs, targets)[b] = IF b = insert THEN B ELSE bs[b]
  BY <1>2, <1>3, BlockChanged
<1> QED
  BY <1>2, <1>4

LEMMA Values ==
  /\ Const \in Val /\ Const \in Result /\ Const # Null /\ Const # Pending
  /\ \A b \in Nat : current \in Nat => Computed(b) \in Val
  /\ \A f \in Nat : Argument(f) \in Val
  /\ Null \notin Val /\ Pending \notin Result
  /\ \A v \in Val : v \in Result /\ v # Null /\ v # Pending
  /\ \A v \in Result \cup {Pending} : v # Null /\ v # Pending => v \in Val
BY KaleidoscopeAssumption DEF Val, Result, Const, Computed, Argument

LEMMA TypeKept ==
  ASSUME NEW N \in [Var -> Result], NEW r \in Result \cup {Pending}, NEW f \in BOOLEAN,
         NEW c \in Nat, NEW i \in Nat, NEW bs \in Seq(BlockType), NEW w \in Seq(Frame),
         w # <<>> => i \in 1 .. Len(bs),
         \A k \in 1 .. Len(w) : Held(w[k]) \subseteq 1 .. Len(bs),
         named' = N, ret' = r, failed' = f, current' = c, insert' = i, blocks' = bs, work' = w
  PROVE  TypeInv'
BY Zenon DEF TypeInv

LEMMA WithArgumentsIn ==
  ASSUME NEW N \in [Var -> Result], NEW f \in Nat, NEW args
  PROVE  WithArguments(N, f, args) \in [Var -> Result]
BY Values DEF WithArguments, Result

LEMMA NewBlockIn == \A a \in BOOLEAN : NewBlock(a) \in BlockType
BY DEF NewBlock, BlockType

(* A visited node changes nothing but the stack and what is returned.        *)
LEMMA VisitEffect ==
  ASSUME NamesInv, TypeInv, Visit
  PROVE  /\ work # <<>> /\ ret = Pending
         /\ UNCHANGED <<functions, owner, calls, current, atEOF, named, blocks, insert>>
         /\ \/ work' = work /\ ret' \in Result /\ failed' = (failed \/ ret' = Null)
            \/ \E frame \in BinaryFrame \cup CallFrame \cup CondFrame \cup StartFrame :
                 /\ work' = Append(work, frame) /\ ret' = ret /\ failed' = failed
                 /\ frame.kind \in {"binary", "call"} => frame.vals = <<>>
<1>1. Const \in Result /\ Const # Null /\ Null \in Result /\ named \in [Var -> Result]
      /\ failed \in BOOLEAN
  BY Values DEF Result, TypeInv
<1>2. CASE Number
  BY <1>1, <1>2 DEF Number, Evaluating, session
<1>3. CASE While
  BY <1>1, <1>3 DEF While, Node, Evaluating, session
<1>4. CASE BeginBinary
  <2>1. [kind |-> "binary", vals |-> <<>>] \in BinaryFrame
    BY DEF BinaryFrame
  <2> QED
    BY <1>4, <2>1 DEF BeginBinary, Begin, Node, Evaluating, session
<1>5. CASE BeginIf
  <2>1. [kind |-> "if", phase |-> "cond"] \in CondFrame
    BY DEF CondFrame
  <2> QED
    BY <1>5, <2>1 DEF BeginIf, Begin, Node, Evaluating, session
<1>6. ASSUME NEW x \in Var, Variable(x)
      PROVE  /\ work # <<>> /\ ret = Pending
             /\ UNCHANGED <<functions, owner, calls, current, atEOF, named, blocks, insert>>
             /\ work' = work /\ ret' \in Result /\ failed' = (failed \/ ret' = Null)
  BY <1>1, <1>6 DEF Variable, Node, Evaluating, session
<1>7. ASSUME NEW n \in FnName, NEW args \in ArgLists, BeginCall(n, Len(args))
      PROVE  /\ work # <<>> /\ ret = Pending
             /\ UNCHANGED <<functions, owner, calls, current, atEOF, named, blocks, insert>>
             /\ \/ work' = work /\ ret' \in Result /\ failed' = (failed \/ ret' = Null)
                \/ \E frame \in CallFrame :
                     /\ work' = Append(work, frame) /\ ret' = ret /\ failed' = failed
                     /\ frame.vals = <<>>
  <2> DEFINE frame == [kind |-> "call", callee |-> owner[n], arity |-> Len(args), vals |-> <<>>]
  <2>1. frame \in CallFrame /\ frame.vals = <<>>
    <3>1. owner[n] \in Nat /\ Len(args) \in Nat
      BY NamesKnown, KaleidoscopeAssumption
    <3> QED
      BY <3>1 DEF CallFrame
  <2> HIDE DEF frame
  <2>2. CASE Begin(frame)
    BY <2>1, <2>2 DEF Begin, Node, Evaluating, session
  <2>3. CASE Node /\ ret' = Null /\ failed' = TRUE /\ UNCHANGED work
    BY <1>1, <2>3 DEF Node, Evaluating, session
  <2> QED
    BY <1>7, <2>2, <2>3 DEF BeginCall, frame
<1>8. ASSUME NEW x \in Var, NEW step \in BOOLEAN, BeginFor(x, step)
      PROVE  /\ work # <<>> /\ ret = Pending
             /\ UNCHANGED <<functions, owner, calls, current, atEOF, named, blocks, insert>>
             /\ \E frame \in StartFrame :
                  /\ work' = Append(work, frame) /\ ret' = ret /\ failed' = failed
                  /\ frame.kind = "for"
  <2>1. /\ [kind |-> "for", phase |-> "start", var |-> x, step |-> step] \in StartFrame
    BY DEF StartFrame
  <2> QED
    BY <1>8, <2>1 DEF BeginFor, Begin, Node, Evaluating, session
<1> QED
  BY <1>2, <1>3, <1>4, <1>5, <1>6, <1>7, <1>8 DEF Visit

(* The steps that make no block and end none: a frame is dropped, or takes   *)
(* note of what was returned.                                                *)
Alike(v, w) == \/ v \in BinaryFrame /\ w \in BinaryFrame
               \/ v \in CallFrame /\ w \in CallFrame
               \/ /\ v \in LoopFrame \cup LastFrame /\ w \in LoopFrame
                  /\ v.loop = w.loop /\ v.var = w.var /\ v.old = w.old
Quiet == GiveUp \/ BinaryLeft \/ BinaryRight \/ CallArgument \/ EndCall \/ ForBody \/ ForStep

LEMMA QuietEffect ==
  ASSUME TypeInv, Quiet
  PROVE  /\ work # <<>> /\ Top.kind # "body"
         /\ UNCHANGED <<functions, owner, current, named, insert, failed>>
         /\ ret' \in Result \cup {Pending}
         /\ blocks' = blocks \/ \E vals \in SUBSET Val : blocks' = Use(blocks, vals)
         /\ \/ work' = Pop /\ (ret = Null \/ Top \in BinaryFrame \cup CallFrame)
            \/ \E frame \in Frame : work' = Become(frame) /\ Alike(frame, Top)
<1>1. ASSUME work # <<>>
      PROVE  Top \in Frame /\ Null \in Result /\ insert \in Nat /\ current \in Nat
             /\ Computed(insert) \in Val /\ ret \in Result \cup {Pending}
  BY <1>1, StackSteps, Values DEF TypeInv, Result, Frame, BodyFrame
<1>2. CASE GiveUp
  BY <1>1, <1>2 DEF GiveUp, Returned, session
<1>3. CASE BinaryLeft
  <2>0. work # <<>> /\ Top.kind = "binary" /\ ret \in Result
    BY <1>1, <1>3 DEF BinaryLeft, Returned
  <2>1. Top \in BinaryFrame
    BY <1>1, <2>0, TopKnown
  <2> DEFINE frame == [Top EXCEPT !.vals = <<ret>>]
  <2>2. frame \in BinaryFrame
    <3>1. <<ret>> \in Seq(Result)
      BY <2>0
    <3> QED
      BY <2>1, <3>1 DEF BinaryFrame
  <2>3. work' = Become(frame) /\ ret' = Pending
        /\ UNCHANGED <<functions, owner, current, named, insert, failed, blocks>>
    BY <1>3 DEF BinaryLeft, Returned, session
  <2> HIDE DEF frame
  <2> QED
    BY <2>0, <2>1, <2>2, <2>3 DEF Alike, Frame
<1>4. CASE BinaryRight
  <2>0. work # <<>> /\ Top.kind = "binary" /\ ret \in Result /\ Top.vals # <<>>
    BY <1>1, <1>4 DEF BinaryRight, Returned
  <2>1. Top \in BinaryFrame
    BY <1>1, <2>0, TopKnown
  <2>2. Top.vals[1] \in Result
    BY <2>0, <2>1 DEF BinaryFrame
  <2>3. /\ work' = Pop /\ UNCHANGED <<functions, owner, current, named, insert, failed>>
        /\ \/ ret' = Null /\ blocks' = blocks
           \/ /\ ret # Null /\ Top.vals[1] # Null
              /\ ret' = Computed(insert) /\ blocks' = Use(blocks, {ret, Top.vals[1]})
    BY <1>4 DEF BinaryRight, Returned, session
  <2>4. ret # Null /\ Top.vals[1] # Null => {ret, Top.vals[1]} \in SUBSET Val
    BY <2>0, <2>2, Values DEF Result
  <2> QED
    BY <1>1, <2>0, <2>1, <2>3, <2>4, Values
<1>5. CASE CallArgument
  <2>0. work # <<>> /\ Top.kind = "call" /\ ret \in Val
    BY <1>1, <1>5, Values DEF CallArgument, Returned
  <2>1. Top \in CallFrame
    BY <1>1, <2>0, TopKnown
  <2> DEFINE frame == [Top EXCEPT !.vals = Append(@, ret)]
  <2>2. frame \in CallFrame
    <3>1. Top.vals \in Seq(Val)
      BY <2>1 DEF CallFrame
    <3>2. Append(Top.vals, ret) \in Seq(Val)
      BY <2>0, <3>1
    <3> QED
      BY <2>1, <3>2 DEF CallFrame
  <2>3. work' = Become(frame) /\ ret' = Pending
        /\ UNCHANGED <<functions, owner, current, named, insert, failed, blocks>>
    BY <1>5 DEF CallArgument, Returned, session
  <2> HIDE DEF frame
  <2> QED
    BY <2>0, <2>1, <2>2, <2>3 DEF Alike, Frame
<1>6. CASE EndCall
  <2>0. work # <<>> /\ Top.kind = "call"
    BY <1>6 DEF EndCall
  <2>1. Top \in CallFrame
    BY <1>1, <2>0, TopKnown
  <2>2. Ids(Top.vals) \in SUBSET Val
    <3>1. Top.vals \in Seq(Val)
      BY <2>1 DEF CallFrame
    <3> QED
      BY <3>1 DEF Ids
  <2>3. work' = Pop /\ ret' = Computed(insert) /\ blocks' = Use(blocks, Ids(Top.vals))
        /\ UNCHANGED <<functions, owner, current, named, insert, failed>>
    BY <1>6 DEF EndCall
  <2> QED
    BY <1>1, <2>0, <2>1, <2>2, <2>3, Values
<1>7. ASSUME work # <<>>, Top \in LoopFrame, NEW v \in Val,
             work' = ToEnd, blocks' = NextVar(v), ret' = Pending,
             UNCHANGED <<functions, owner, current, named, insert, failed>>
      PROVE  /\ blocks' = blocks \/ \E vals \in SUBSET Val : blocks' = Use(blocks, vals)
             /\ \E frame \in Frame : work' = Become(frame) /\ Alike(frame, Top)
  <2> DEFINE frame == [Top EXCEPT !.phase = "end", !.step = Computed(insert)]
  <2>1. frame \in LastFrame /\ frame.loop = Top.loop /\ frame.var = Top.var
        /\ frame.old = Top.old
    BY <1>1, <1>7 DEF LoopFrame, LastFrame
  <2>2. {v, Computed(Top.loop)} \in SUBSET Val
    BY <1>1, <1>7, Values DEF LoopFrame
  <2>3. work' = Become(frame) /\ blocks' = Use(blocks, {v, Computed(Top.loop)})
    BY <1>7 DEF ToEnd, NextVar
  <2> HIDE DEF frame
  <2> QED
    BY <1>7, <2>1, <2>2, <2>3 DEF Alike, Frame
<1>8. CASE ForBody
  <2>0. /\ work # <<>> /\ Top.kind = "for" /\ Top.phase = "body" /\ ret' = Pending
        /\ UNCHANGED <<functions, owner, current, named, insert, failed>>
    BY <1>8 DEF ForBody, Phase, Returned, session
  <2>1. Top \in LoopFrame
    BY <1>1, <2>0, TopKnown
  <2>2. CASE work' = ToEnd /\ blocks' = NextVar(Const)
    BY <1>7, <2>0, <2>1, <2>2, Values
  <2>3. CASE work' = Become([Top EXCEPT !.phase = "step"]) /\ UNCHANGED blocks
    <3> DEFINE frame == [Top EXCEPT !.phase = "step"]
    <3>1. frame \in LoopFrame /\ frame.loop = Top.loop /\ frame.var = Top.var
          /\ frame.old = Top.old
      BY <2>1 DEF LoopFrame
    <3> HIDE DEF frame
    <3>2. frame \in Frame /\ Alike(frame, Top) /\ work' = Become(frame)
      BY <2>1, <2>3, <3>1 DEF Alike, Frame, frame
    <3> QED
      BY <2>0, <2>3, <3>2
  <2> QED
    BY <1>8, <2>0, <2>2, <2>3 DEF ForBody
<1>9. CASE ForStep
  <2>0. /\ work # <<>> /\ Top.kind = "for" /\ Top.phase = "step" /\ ret' = Pending
        /\ UNCHANGED <<functions, owner, current, named, insert, failed>>
        /\ work' = ToEnd /\ blocks' = NextVar(ret) /\ ret # Null /\ ret # Pending
    BY <1>9 DEF ForStep, Phase, Returned, session
  <2>1. Top \in LoopFrame /\ ret \in Val
    BY <1>1, <2>0, TopKnown, Values
  <2> QED
    BY <1>7, <2>0, <2>1
<1> QED
  BY <1>2, <1>3, <1>4, <1>5, <1>6, <1>8, <1>9 DEF Quiet

(* The steps that make blocks or end the current one.                        *)
Jumped(targets, vals) ==
  \A b \in 1 .. Len(blocks) :
    /\ blocks'[b].ends = IF b = insert THEN Append(blocks[b].ends, targets) ELSE blocks[b].ends
    /\ blocks'[b].uses = IF b = insert THEN blocks[b].uses \cup vals ELSE blocks[b].uses
Others == UNCHANGED <<functions, owner, current, failed>>

LEMMA JumpUse ==
  ASSUME TypeInv, work # <<>>, NEW targets \in SUBSET Nat, NEW vals \in SUBSET Val
  PROVE  LET bs == Jump(Use(blocks, vals), targets) IN
         /\ bs \in Seq(BlockType) /\ Len(bs) = Len(blocks)
         /\ \A b \in 1 .. Len(blocks) :
              /\ bs[b].attached = blocks[b].attached /\ bs[b].phi = blocks[b].phi
              /\ bs[b].ends = IF b = insert THEN Append(blocks[b].ends, targets)
                                            ELSE blocks[b].ends
              /\ bs[b].uses = IF b = insert THEN blocks[b].uses \cup vals ELSE blocks[b].uses
<1>1. blocks \in Seq(BlockType) /\ insert \in 1 .. Len(blocks)
  BY DEF TypeInv
<1> DEFINE us == Use(blocks, vals)
<1>2. /\ us \in Seq(BlockType) /\ Len(us) = Len(blocks)
      /\ \A b \in 1 .. Len(blocks) : /\ us[b].attached = blocks[b].attached
                                     /\ us[b].phi = blocks[b].phi
                                     /\ us[b].ends = blocks[b].ends
                                     /\ us[b].uses = IF b = insert THEN blocks[b].uses \cup vals
                                                                   ELSE blocks[b].uses
  BY <1>1, UseKeeps
<1> HIDE DEF us
<1> DEFINE bs == Jump(us, targets)
<1>3. /\ bs \in Seq(BlockType) /\ Len(bs) = Len(us)
      /\ \A b \in 1 .. Len(us) : /\ bs[b].attached = us[b].attached /\ bs[b].phi = us[b].phi
                                 /\ bs[b].uses = us[b].uses
                                 /\ bs[b].ends = IF b = insert THEN Append(us[b].ends, targets)
                                                               ELSE us[b].ends
  BY <1>1, <1>2, JumpAdds
<1> HIDE DEF bs
<1> QED
  BY <1>2, <1>3 DEF bs, us

LEMMA Joined ==
  ASSUME NEW S, NEW s \in Seq(S), NEW t \in Seq(S)
  PROVE  /\ s \o t \in Seq(S) /\ Len(s \o t) = Len(s) + Len(t)
         /\ \A i \in 1 .. Len(s) : (s \o t)[i] = s[i]
         /\ \A i \in 1 .. Len(t) : (s \o t)[Len(s) + i] = t[i]
<1>1. /\ s \o t \in Seq(S) /\ Len(s \o t) = Len(s) + Len(t)
      /\ \A i \in 1 .. Len(s) : (s \o t)[i] = s[i]
  OBVIOUS
<1>2. ASSUME NEW i \in 1 .. Len(t) PROVE (s \o t)[Len(s) + i] = t[i]
  <2>1. Len(s) \in Nat /\ i \in Nat /\ Len(s) + i \in 1 .. Len(s) + Len(t)
        /\ ~(Len(s) + i <= Len(s)) /\ Len(s) + i - Len(s) = i
    OBVIOUS
  <2> QED
    BY <2>1
<1> QED
  BY <1>1, <1>2

LEMMA IfConditionEffect ==
  ASSUME TypeInv, IfCondition
  PROVE  LET n == Len(blocks) IN
         /\ work # <<>> /\ Top \in CondFrame /\ ret \in Val /\ Others
         /\ ret' = Pending /\ named' = named /\ insert' = n + 1
         /\ \E frame \in ThenFrame :
              frame.else = n + 2 /\ frame.merge = n + 3 /\ work' = Become(frame)
         /\ blocks' \in Seq(BlockType) /\ Len(blocks') = n + 3
         /\ Jumped({n + 1, n + 2}, {ret})
         /\ \A b \in 1 .. n : /\ blocks'[b].attached = blocks[b].attached
                              /\ blocks'[b].phi = blocks[b].phi
         /\ blocks'[n + 1] = NewBlock(TRUE)
         /\ blocks'[n + 2] = NewBlock(FALSE) /\ blocks'[n + 3] = NewBlock(FALSE)
<1>1. /\ work # <<>> /\ Top.kind = "if" /\ Top.phase = "cond" /\ ret # Null /\ ret # Pending
      /\ Others /\ ret' = Pending /\ named' = named
  BY DEF IfCondition, Phase, Returned, session, Others
<1>2. Top \in CondFrame /\ ret \in Val
  BY <1>1, StackSteps, TopKnown, Values DEF TypeInv, Frame, BodyFrame
<1> DEFINE n == Len(blocks)
<1>3. n \in Nat /\ {n + 1, n + 2} \in SUBSET Nat
  BY DEF TypeInv
<1> DEFINE frame == [kind |-> "if", phase |-> "then", else |-> n + 2, merge |-> n + 3]
<1>4. insert' = n + 1 /\ work' = Become(frame)
  BY DEF IfCondition
<1>5. frame \in ThenFrame /\ frame.else = n + 2 /\ frame.merge = n + 3
  BY <1>3 DEF ThenFrame
<1> HIDE DEF frame
<1> DEFINE bs == Jump(Use(blocks, {ret}), {n + 1, n + 2})
<1>6. /\ bs \in Seq(BlockType) /\ Len(bs) = n
      /\ \A b \in 1 .. n :
           /\ bs[b].attached = blocks[b].attached /\ bs[b].phi = blocks[b].phi
           /\ bs[b].ends = IF b = insert THEN Append(blocks[b].ends, {n + 1, n + 2})
                                         ELSE blocks[b].ends
           /\ bs[b].uses = IF b = insert THEN blocks[b].uses \cup {ret} ELSE blocks[b].uses
  <2>1. {ret} \in SUBSET Val
    BY <1>2
  <2> QED
    BY <1>1, <1>3, <2>1, JumpUse
<1>7. blocks' = bs \o <<NewBlock(TRUE), NewBlock(FALSE), NewBlock(FALSE)>>
  BY DEF IfCondition
<1> HIDE DEF bs
<1>8. /\ blocks' \in Seq(BlockType) /\ Len(blocks') = n + 3
      /\ \A b \in 1 .. n : blocks'[b] = bs[b]
      /\ blocks'[n + 1] = NewBlock(TRUE)
      /\ blocks'[n + 2] = NewBlock(FALSE) /\ blocks'[n + 3] = NewBlock(FALSE)
  <2> DEFINE T == NewBlock(TRUE)
             F == NewBlock(FALSE)
  <2>1. T \in BlockType /\ F \in BlockType
    BY NewBlockIn
  <2>2. blocks' = bs \o <<T, F, F>>
    BY <1>7
  <2> HIDE DEF T, F, n
  <2>3. /\ blocks' \in Seq(BlockType) /\ Len(blocks') = n + 3
        /\ \A b \in 1 .. n : blocks'[b] = bs[b]
        /\ blocks'[n + 1] = T /\ blocks'[n + 2] = F /\ blocks'[n + 3] = F
    <3> DEFINE c == <<T, F, F>>
    <3>1. c \in Seq(BlockType) /\ Len(c) = 3 /\ c[1] = T /\ c[2] = F /\ c[3] = F
      BY <2>1
    <3> HIDE DEF c
    <3>2. blocks' = bs \o c
      BY <2>2 DEF c
    <3>a. /\ blocks' \in Seq(BlockType) /\ Len(blocks') = Len(bs) + Len(c)
          /\ \A i \in 1 .. Len(bs) : blocks'[i] = bs[i]
          /\ \A i \in 1 .. Len(c) : blocks'[Len(bs) + i] = c[i]
      <4>1. bs \in Seq(BlockType) /\ c \in Seq(BlockType)
        BY <1>6, <3>1
      <4> QED
        BY <3>2, <4>1, Joined
    <3>3. blocks' \in Seq(BlockType) /\ Len(blocks') = n + 3
      BY <1>6, <3>1, <3>a
    <3>4. \A b \in 1 .. n : blocks'[b] = bs[b]
      BY <1>6, <3>a
    <3>5. blocks'[n + 1] = c[1] /\ blocks'[n + 2] = c[2] /\ blocks'[n + 3] = c[3]
      <4>1. 1 \in 1 .. 3 /\ 2 \in 1 .. 3 /\ 3 \in 1 .. 3
        OBVIOUS
      <4>2. \A i \in 1 .. 3 : blocks'[n + i] = c[i]
        BY <1>6, <3>1, <3>a
      <4> QED
        BY <4>1, <4>2
    <3> QED
      BY <3>1, <3>3, <3>4, <3>5
  <2> QED
    BY <2>3 DEF T, F
<1> HIDE DEF n
<1> QED
  BY <1>1, <1>2, <1>4, <1>5, <1>6, <1>8 DEF Jumped, n

Attach(bs, m) == [bs EXCEPT ![m].attached = TRUE]
LEMMA Attaches ==
  ASSUME NEW bs \in Seq(BlockType), NEW m \in 1 .. Len(bs)
  PROVE  LET cs == Attach(bs, m) IN
         /\ cs \in Seq(BlockType) /\ Len(cs) = Len(bs)
         /\ \A b \in 1 .. Len(bs) :
              /\ cs[b].attached = (b = m \/ bs[b].attached) /\ cs[b].phi = bs[b].phi
              /\ cs[b].ends = bs[b].ends /\ cs[b].uses = bs[b].uses
<1>1. \A b \in 1 .. Len(bs) : bs[b] \in BlockType
  OBVIOUS
<1> DEFINE A == [bs[m] EXCEPT !.attached = TRUE]
<1>2. /\ A \in BlockType /\ A.attached = TRUE /\ A.phi = bs[m].phi /\ A.ends = bs[m].ends
      /\ A.uses = bs[m].uses
  BY <1>1 DEF BlockType
<1> DEFINE cs == Attach(bs, m)
<1>3. cs = [bs EXCEPT ![m] = A]
  BY DEF Attach
<1> HIDE DEF A, cs
<1>4. /\ cs \in Seq(BlockType) /\ Len(cs) = Len(bs)
      /\ \A b \in 1 .. Len(bs) : cs[b] = IF b = m THEN A ELSE bs[b]
  BY <1>2, <1>3, BlockChanged
<1>5. \A b \in 1 .. Len(bs) : bs[b].attached \in BOOLEAN
  BY <1>1 DEF BlockType
<1>6. ASSUME NEW b \in 1 .. Len(bs)
      PROVE  /\ cs[b].attached = (b = m \/ bs[b].attached) /\ cs[b].phi = bs[b].phi
             /\ cs[b].ends = bs[b].ends /\ cs[b].uses = bs[b].uses
  BY <1>2, <1>4, <1>5, Zenon
<1> QED
  BY <1>4, <1>6 DEF cs

SetPhi(bs, m, p) == [bs EXCEPT ![m].phi = p]
LEMMA SetsPhi ==
  ASSUME NEW bs \in Seq(BlockType), NEW m \in 1 .. Len(bs), NEW p \in SUBSET Incoming
  PROVE  LET cs == SetPhi(bs, m, p) IN
         /\ cs \in Seq(BlockType) /\ Len(cs) = Len(bs)
         /\ \A b \in 1 .. Len(bs) :
              /\ cs[b].attached = bs[b].attached
              /\ cs[b].phi = IF b = m THEN p ELSE bs[b].phi
              /\ cs[b].ends = bs[b].ends /\ cs[b].uses = bs[b].uses
<1>1. \A b \in 1 .. Len(bs) : bs[b] \in BlockType
  OBVIOUS
<1> DEFINE P == [bs[m] EXCEPT !.phi = p]
<1>2. /\ P \in BlockType /\ P.attached = bs[m].attached /\ P.phi = p /\ P.ends = bs[m].ends
      /\ P.uses = bs[m].uses
  BY <1>1 DEF BlockType
<1> DEFINE cs == SetPhi(bs, m, p)
<1>3. cs = [bs EXCEPT ![m] = P]
  BY DEF SetPhi
<1> HIDE DEF P, cs
<1>4. /\ cs \in Seq(BlockType) /\ Len(cs) = Len(bs)
      /\ \A b \in 1 .. Len(bs) : cs[b] = IF b = m THEN P ELSE bs[b]
  BY <1>2, <1>3, BlockChanged
<1>5. ASSUME NEW b \in 1 .. Len(bs)
      PROVE  /\ cs[b].attached = bs[b].attached
             /\ cs[b].phi = IF b = m THEN p ELSE bs[b].phi
             /\ cs[b].ends = bs[b].ends /\ cs[b].uses = bs[b].uses
  BY <1>2, <1>4, Zenon
<1> QED
  BY <1>4, <1>5 DEF cs

LEMMA IfThenEffect ==
  ASSUME TypeInv, IfThen
  PROVE  LET n == Len(blocks) IN
         /\ work # <<>> /\ Top \in ThenFrame /\ ret \in Val /\ Others
         /\ Top.else \in 1 .. n /\ Top.merge \in 1 .. n
         /\ ret' = Pending /\ named' = named /\ insert' = Top.else
         /\ \E frame \in ElseFrame :
              /\ frame.merge = Top.merge /\ frame.incoming = [val |-> ret, from |-> insert]
              /\ work' = Become(frame)
         /\ blocks' \in Seq(BlockType) /\ Len(blocks') = n
         /\ Jumped({Top.merge}, {})
         /\ \A b \in 1 .. n : /\ blocks'[b].attached = (b = Top.else \/ blocks[b].attached)
                              /\ blocks'[b].phi = blocks[b].phi
<1>1. /\ work # <<>> /\ Top.kind = "if" /\ Top.phase = "then" /\ ret # Null /\ ret # Pending
      /\ Others /\ ret' = Pending /\ named' = named /\ insert' = Top.else
  BY DEF IfThen, Phase, Returned, session, Others
<1>2. Top \in ThenFrame /\ ret \in Val /\ insert \in Nat /\ insert \in 1 .. Len(blocks)
  BY <1>1, StackSteps, TopKnown, Values DEF TypeInv, Frame, BodyFrame
<1> DEFINE n == Len(blocks)
<1>3. Top.else \in 1 .. n /\ Top.merge \in 1 .. n /\ {Top.merge} \in SUBSET Nat
  <2>1. Len(work) \in 1 .. Len(work)
    BY <1>1, StackSteps DEF TypeInv, Frame, BodyFrame
  <2>2. Held(Top) = {Top.else, Top.merge}
    BY <1>1 DEF Held, Awaited, IsLoop, IsThen
  <2> QED
    BY <1>2, <2>1, <2>2 DEF TypeInv, Top, ThenFrame
<1> DEFINE frame == [kind |-> "if", phase |-> "else", merge |-> Top.merge,
                     incoming |-> [val |-> ret, from |-> insert]]
<1>4. frame \in ElseFrame /\ frame.merge = Top.merge
      /\ frame.incoming = [val |-> ret, from |-> insert]
  BY <1>2 DEF ElseFrame, ThenFrame, Incoming
<1>5. work' = Become(frame)
  BY DEF IfThen
<1> HIDE DEF frame
<1> DEFINE bs == Jump(blocks, {Top.merge})
<1>6. /\ bs \in Seq(BlockType) /\ Len(bs) = n
      /\ \A b \in 1 .. n : /\ bs[b].attached = blocks[b].attached /\ bs[b].phi = blocks[b].phi
                           /\ bs[b].uses = blocks[b].uses
                           /\ bs[b].ends = IF b = insert THEN Append(blocks[b].ends, {Top.merge})
                                                         ELSE blocks[b].ends
  BY <1>2, <1>3, JumpAdds DEF TypeInv
<1>7. blocks' = Attach(bs, Top.else)
  BY DEF IfThen, Attach
<1> HIDE DEF bs
<1>8. /\ blocks' \in Seq(BlockType) /\ Len(blocks') = n
      /\ \A b \in 1 .. n :
           /\ blocks'[b].attached = (b = Top.else \/ bs[b].attached) /\ blocks'[b].phi = bs[b].phi
           /\ blocks'[b].ends = bs[b].ends /\ blocks'[b].uses = bs[b].uses
  <2>1. Top.else \in 1 .. Len(bs)
    BY <1>3, <1>6
  <2> QED
    BY <1>6, <1>7, <2>1, Attaches
<1>9. Jumped({Top.merge}, {})
  <2>1. ASSUME NEW b \in 1 .. n
        PROVE  /\ blocks'[b].ends = IF b = insert THEN Append(blocks[b].ends, {Top.merge})
                                                  ELSE blocks[b].ends
               /\ blocks'[b].uses = blocks[b].uses
    <3>1. blocks'[b].ends = bs[b].ends /\ blocks'[b].uses = bs[b].uses
      BY <1>8
    <3> QED
      BY <1>6, <3>1
  <2>2. \A u : u \cup {} = u
    OBVIOUS
  <2> QED
    BY <2>1, <2>2, Zenon DEF Jumped
<1> HIDE DEF n
<1> QED
  BY <1>1, <1>2, <1>3, <1>4, <1>5, <1>6, <1>8, <1>9 DEF n

LEMMA IfElseEffect ==
  ASSUME TypeInv, IfElse
  PROVE  LET n == Len(blocks) IN
         /\ work # <<>> /\ Top \in ElseFrame /\ ret \in Val /\ Others
         /\ Top.merge \in 1 .. n
         /\ ret' = Computed(Top.merge) /\ named' = named /\ insert' = Top.merge
         /\ work' = Pop
         /\ blocks' \in Seq(BlockType) /\ Len(blocks') = n
         /\ Jumped({Top.merge}, {})
         /\ \A b \in 1 .. n :
              /\ blocks'[b].attached = (b = Top.merge \/ blocks[b].attached)
              /\ blocks'[b].phi = IF b = Top.merge
                                  THEN {Top.incoming, [val |-> ret, from |-> insert]}
                                  ELSE blocks[b].phi
<1>1. /\ work # <<>> /\ Top.kind = "if" /\ Top.phase = "else" /\ ret # Null /\ ret # Pending
      /\ Others /\ ret' = Computed(Top.merge) /\ named' = named /\ insert' = Top.merge
      /\ work' = Pop
  BY DEF IfElse, Phase, Returned, session, Others
<1>2. Top \in ElseFrame /\ ret \in Val /\ insert \in Nat /\ insert \in 1 .. Len(blocks)
  BY <1>1, StackSteps, TopKnown, Values DEF TypeInv, Frame, BodyFrame
<1> DEFINE n == Len(blocks)
           P == {Top.incoming, [val |-> ret, from |-> insert]}
<1>3. Top.merge \in 1 .. n /\ {Top.merge} \in SUBSET Nat /\ P \in SUBSET Incoming
  <2>1. Len(work) \in 1 .. Len(work)
    BY <1>1, StackSteps DEF TypeInv, Frame, BodyFrame
  <2>2. Held(Top) = {Top.merge}
    BY <1>1 DEF Held, Awaited, IsLoop, IsThen, IsElse
  <2> QED
    BY <1>2, <2>1, <2>2 DEF TypeInv, Top, ElseFrame, Incoming
<1> DEFINE bs == Jump(blocks, {Top.merge})
<1>4. /\ bs \in Seq(BlockType) /\ Len(bs) = n
      /\ \A b \in 1 .. n : /\ bs[b].attached = blocks[b].attached /\ bs[b].phi = blocks[b].phi
                           /\ bs[b].uses = blocks[b].uses
                           /\ bs[b].ends = IF b = insert THEN Append(blocks[b].ends, {Top.merge})
                                                         ELSE blocks[b].ends
  BY <1>2, <1>3, JumpAdds DEF TypeInv
<1> DEFINE cs == Attach(bs, Top.merge)
<1>5. blocks' = SetPhi(cs, Top.merge, P)
  BY DEF IfElse, Attach, SetPhi
<1> HIDE DEF bs, P
<1>6. Top.merge \in 1 .. Len(bs)
  BY <1>3, <1>4
<1>7. /\ cs \in Seq(BlockType) /\ Len(cs) = n
      /\ \A b \in 1 .. n :
           /\ cs[b].attached = (b = Top.merge \/ bs[b].attached) /\ cs[b].phi = bs[b].phi
           /\ cs[b].ends = bs[b].ends /\ cs[b].uses = bs[b].uses
  BY <1>3, <1>4, <1>6, Attaches
<1> HIDE DEF cs
<1>8. /\ blocks' \in Seq(BlockType) /\ Len(blocks') = n
      /\ \A b \in 1 .. n :
           /\ blocks'[b].attached = cs[b].attached
           /\ blocks'[b].phi = IF b = Top.merge THEN P ELSE cs[b].phi
           /\ blocks'[b].ends = cs[b].ends /\ blocks'[b].uses = cs[b].uses
  BY <1>3, <1>5, <1>7, SetsPhi
<1>9. Jumped({Top.merge}, {})
  <2>1. ASSUME NEW b \in 1 .. n
        PROVE  /\ blocks'[b].ends = IF b = insert THEN Append(blocks[b].ends, {Top.merge})
                                                  ELSE blocks[b].ends
               /\ blocks'[b].uses = blocks[b].uses
    <3>1. blocks'[b].ends = bs[b].ends /\ blocks'[b].uses = bs[b].uses
      BY <1>7, <1>8
    <3> QED
      BY <1>4, <3>1
  <2>2. \A u : u \cup {} = u
    OBVIOUS
  <2> QED
    BY <2>1, <2>2, Zenon DEF Jumped
<1> HIDE DEF n
<1>10. \A b \in 1 .. n :
         /\ blocks'[b].attached = (b = Top.merge \/ blocks[b].attached)
         /\ blocks'[b].phi = IF b = Top.merge THEN P ELSE blocks[b].phi
  BY <1>4, <1>7, <1>8
<1> QED
  BY <1>1, <1>2, <1>3, <1>8, <1>9, <1>10 DEF n, P

LEMMA ForStartEffect ==
  ASSUME TypeInv, ForStart
  PROVE  LET n == Len(blocks)
             entry == {[val |-> ret, from |-> insert]} IN
         /\ work # <<>> /\ Top \in StartFrame /\ ret \in Val /\ Others
         /\ ret' = Pending /\ insert' = n + 1
         /\ named' = [named EXCEPT ![Top.var] = Computed(n + 1)]
         /\ \E frame \in LoopFrame :
              /\ frame.loop = n + 1 /\ frame.var = Top.var /\ frame.old = named[Top.var]
              /\ work' = Become(frame)
         /\ blocks' \in Seq(BlockType) /\ Len(blocks') = n + 1
         /\ Jumped({n + 1}, {})
         /\ \A b \in 1 .. n : /\ blocks'[b].attached = blocks[b].attached
                              /\ blocks'[b].phi = blocks[b].phi
         /\ blocks'[n + 1].attached = TRUE /\ blocks'[n + 1].phi = entry
         /\ blocks'[n + 1].ends = <<>> /\ blocks'[n + 1].uses = {}
<1> DEFINE n == Len(blocks)
           entry == {[val |-> ret, from |-> insert]}
<1>1. /\ work # <<>> /\ Top.kind = "for" /\ Top.phase = "start" /\ ret # Null /\ ret # Pending
      /\ Others /\ ret' = Pending /\ insert' = n + 1
      /\ named' = [named EXCEPT ![Top.var] = Computed(n + 1)]
  BY DEF ForStart, Phase, Returned, session, Others
<1>2. /\ Top \in StartFrame /\ ret \in Val /\ insert \in Nat /\ insert \in 1 .. Len(blocks)
      /\ n \in Nat /\ {n + 1} \in SUBSET Nat /\ named \in [Var -> Result]
  BY <1>1, StackSteps, TopKnown, Values DEF TypeInv, Frame, BodyFrame
<1> DEFINE frame == [kind |-> "for", phase |-> "body", var |-> Top.var,
                     step |-> Top.step, loop |-> n + 1, old |-> named[Top.var]]
<1>3. /\ frame \in LoopFrame /\ frame.loop = n + 1 /\ frame.var = Top.var
      /\ frame.old = named[Top.var]
  BY <1>2 DEF LoopFrame, StartFrame
<1>4. work' = Become(frame)
  BY DEF ForStart
<1> HIDE DEF frame
<1> DEFINE bs == Jump(blocks, {n + 1})
           L == [NewBlock(TRUE) EXCEPT !.phi = entry]
<1>5. /\ bs \in Seq(BlockType) /\ Len(bs) = n
      /\ \A b \in 1 .. n : /\ bs[b].attached = blocks[b].attached /\ bs[b].phi = blocks[b].phi
                           /\ bs[b].uses = blocks[b].uses
                           /\ bs[b].ends = IF b = insert THEN Append(blocks[b].ends, {n + 1})
                                                         ELSE blocks[b].ends
  BY <1>2, JumpAdds DEF TypeInv
<1>6. L \in BlockType /\ L.attached = TRUE /\ L.phi = entry /\ L.ends = <<>> /\ L.uses = {}
  <2>1. entry \in SUBSET Incoming
    BY <1>2 DEF Incoming
  <2> HIDE DEF entry
  <2> DEFINE N == NewBlock(TRUE)
  <2>2. N \in BlockType /\ N.attached = TRUE /\ N.ends = <<>> /\ N.uses = {}
    BY NewBlockIn DEF NewBlock
  <2> HIDE DEF N
  <2>3. L = [N EXCEPT !.phi = entry]
    BY DEF N
  <2> QED
    BY <2>1, <2>2, <2>3 DEF BlockType
<1>7. blocks' = Append(bs, L)
  BY DEF ForStart
<1> HIDE DEF bs, L, entry
<1>8. /\ blocks' \in Seq(BlockType) /\ Len(blocks') = n + 1 /\ blocks'[n + 1] = L
      /\ \A b \in 1 .. n : blocks'[b] = bs[b]
  <2> HIDE DEF n
  <2> QED
    BY <1>2, <1>5, <1>6, <1>7
<1>9. Jumped({n + 1}, {})
  <2>1. \A u : u \cup {} = u
    OBVIOUS
  <2> QED
    BY <1>5, <1>8, <2>1, Zenon DEF Jumped
<1> HIDE DEF n
<1>10. \A b \in 1 .. n : /\ blocks'[b].attached = blocks[b].attached
                         /\ blocks'[b].phi = blocks[b].phi
  BY <1>5, <1>8
<1> QED
  BY <1>1, <1>2, <1>3, <1>4, <1>6, <1>8, <1>9, <1>10 DEF n, entry

LEMMA ForEndEffect ==
  ASSUME TypeInv, ForEnd
  PROVE  LET n == Len(blocks)
             back == {[val |-> Top.step, from |-> insert]} IN
         /\ work # <<>> /\ Top \in LastFrame /\ ret \in Val /\ Others
         /\ Top.loop \in 1 .. n
         /\ ret' = Const /\ insert' = n + 1 /\ work' = Pop
         /\ named' = [named EXCEPT ![Top.var] = Top.old]
         /\ blocks' \in Seq(BlockType) /\ Len(blocks') = n + 1
         /\ Jumped({Top.loop, n + 1}, {ret})
         /\ \A b \in 1 .. n : /\ blocks'[b].attached = blocks[b].attached
                              /\ blocks'[b].phi = IF b = Top.loop THEN blocks[b].phi \cup back
                                                                  ELSE blocks[b].phi
         /\ blocks'[n + 1] = NewBlock(TRUE)
<1> DEFINE n == Len(blocks)
           back == {[val |-> Top.step, from |-> insert]}
<1>1. /\ work # <<>> /\ Top.kind = "for" /\ Top.phase = "end" /\ ret # Null /\ ret # Pending
      /\ Others /\ ret' = Const /\ insert' = n + 1 /\ work' = Pop
      /\ named' = [named EXCEPT ![Top.var] = Top.old]
  BY DEF ForEnd, Phase, Returned, session, Others
<1>2. /\ Top \in LastFrame /\ ret \in Val /\ insert \in Nat /\ insert \in 1 .. Len(blocks)
      /\ n \in Nat /\ {ret} \in SUBSET Val
  BY <1>1, StackSteps, TopKnown, Values DEF TypeInv, Frame, BodyFrame
<1>3. Top.loop \in 1 .. n /\ {Top.loop, n + 1} \in SUBSET Nat /\ back \in SUBSET Incoming
  <2>1. Len(work) \in 1 .. Len(work)
    BY <1>1, StackSteps DEF TypeInv, Frame, BodyFrame
  <2>2. Held(Top) = {Top.loop}
    BY <1>1 DEF Held, IsLoop
  <2>3. Top.loop \in 1 .. n
    BY <2>1, <2>2 DEF TypeInv, Top
  <2> QED
    BY <1>2, <2>3 DEF LastFrame, Incoming
<1> DEFINE bs == Jump(Use(blocks, {ret}), {Top.loop, n + 1})
<1>4. /\ bs \in Seq(BlockType) /\ Len(bs) = n
      /\ \A b \in 1 .. n :
           /\ bs[b].attached = blocks[b].attached /\ bs[b].phi = blocks[b].phi
           /\ bs[b].ends = IF b = insert THEN Append(blocks[b].ends, {Top.loop, n + 1})
                                         ELSE blocks[b].ends
           /\ bs[b].uses = IF b = insert THEN blocks[b].uses \cup {ret} ELSE blocks[b].uses
  BY <1>1, <1>2, <1>3, JumpUse
<1> DEFINE p == bs[Top.loop].phi \cup back
           cs == SetPhi(bs, Top.loop, p)
<1>5. blocks' = Append(cs, NewBlock(TRUE))
  BY DEF ForEnd, SetPhi
<1>6. p = blocks[Top.loop].phi \cup back /\ p \in SUBSET Incoming
  <2>1. blocks[Top.loop].phi \in SUBSET Incoming
    <3>1. blocks[Top.loop] \in BlockType
      BY <1>3 DEF TypeInv
    <3> QED
      BY <3>1 DEF BlockType
  <2> HIDE DEF back, bs
  <2> QED
    BY <1>3, <1>4, <2>1
<1> HIDE DEF bs, back, p
<1>7. Top.loop \in 1 .. Len(bs)
  BY <1>3, <1>4
<1>8. /\ cs \in Seq(BlockType) /\ Len(cs) = n
      /\ \A b \in 1 .. n :
           /\ cs[b].attached = bs[b].attached
           /\ cs[b].phi = IF b = Top.loop THEN p ELSE bs[b].phi
           /\ cs[b].ends = bs[b].ends /\ cs[b].uses = bs[b].uses
  BY <1>4, <1>6, <1>7, SetsPhi
<1> HIDE DEF cs
<1>9. /\ blocks' \in Seq(BlockType) /\ Len(blocks') = n + 1
      /\ blocks'[n + 1] = NewBlock(TRUE)
      /\ \A b \in 1 .. n : blocks'[b] = cs[b]
  <2> DEFINE B == NewBlock(TRUE)
  <2>1. B \in BlockType /\ blocks' = Append(cs, B)
    BY <1>5, NewBlockIn
  <2> HIDE DEF n, B
  <2>2. /\ blocks' \in Seq(BlockType) /\ Len(blocks') = n + 1 /\ blocks'[n + 1] = B
        /\ \A b \in 1 .. n : blocks'[b] = cs[b]
    BY <1>2, <1>8, <2>1
  <2> QED
    BY <2>2 DEF B
<1>10. Jumped({Top.loop, n + 1}, {ret})
  <2>1. ASSUME NEW b \in 1 .. n
        PROVE  /\ blocks'[b].ends = IF b = insert THEN Append(blocks[b].ends, {Top.loop, n + 1})
                                                  ELSE blocks[b].ends
               /\ blocks'[b].uses = IF b = insert THEN blocks[b].uses \cup {ret}
                                                  ELSE blocks[b].uses
    <3>1. blocks'[b].ends = bs[b].ends /\ blocks'[b].uses = bs[b].uses
      BY <1>8, <1>9
    <3> QED
      BY <1>4, <3>1
  <2> QED
    BY <2>1 DEF Jumped
<1> HIDE DEF n
<1>11. \A b \in 1 .. n : /\ blocks'[b].attached = blocks[b].attached
                         /\ blocks'[b].phi = IF b = Top.loop THEN blocks[b].phi \cup back
                                                             ELSE blocks[b].phi
  <2>1. \A b \in 1 .. n : /\ blocks'[b].attached = bs[b].attached
                          /\ blocks'[b].phi = IF b = Top.loop THEN p ELSE bs[b].phi
    BY <1>8, <1>9
  <2>2. \A b \in 1 .. n : bs[b].attached = blocks[b].attached /\ bs[b].phi = blocks[b].phi
    BY <1>4
  <2> HIDE DEF back
  <2> QED
    BY <1>6, <2>1, <2>2
<1> QED
  BY <1>1, <1>2, <1>3, <1>9, <1>10, <1>11 DEF n, back

LEMMA HeldBy ==
  /\ \A w \in BodyFrame \cup BinaryFrame \cup CallFrame \cup CondFrame \cup StartFrame :
       ~IsThen(w) /\ ~IsElse(w) /\ ~IsLoop(w) /\ Held(w) = {} /\ Awaited(w) = {}
  /\ \A w \in ThenFrame : /\ IsThen(w) /\ ~IsElse(w) /\ ~IsLoop(w)
                          /\ Held(w) = {w.else, w.merge} /\ Awaited(w) = {w.else, w.merge}
  /\ \A w \in ElseFrame : /\ ~IsThen(w) /\ IsElse(w) /\ ~IsLoop(w)
                          /\ Held(w) = {w.merge} /\ Awaited(w) = {w.merge}
  /\ \A w \in LoopFrame \cup LastFrame : /\ ~IsThen(w) /\ ~IsElse(w) /\ IsLoop(w)
                                         /\ Held(w) = {w.loop} /\ Awaited(w) = {}
BY DEF Held, Awaited, IsThen, IsElse, IsLoop, BodyFrame, BinaryFrame, CallFrame, CondFrame,
       StartFrame, ThenFrame, ElseFrame, LoopFrame, LastFrame

LEMMA EndFunctionEffect ==
  ASSUME TypeInv, EndFunction
  PROVE  /\ work # <<>> /\ Top.kind = "body" /\ work' = <<>> /\ ret' = Pending
         /\ ret \in Result /\ UNCHANGED <<named, current, failed>>
         /\ \/ /\ ret \in Val /\ insert' = insert
               /\ blocks' = Jump(Use(blocks, {ret}), {})
            \/ ret = Null /\ blocks' = <<>> /\ insert' = 0
BY Values DEF EndFunction, TypeInv, Result

LEMMA BeginFunctionEffect ==
  ASSUME NamesInv, TypeInv, NEW n \in Name, NEW args \in Seq(Var), BeginFunction(n, args)
  PROVE  /\ work = <<>> /\ UNCHANGED <<ret, atEOF>>
         /\ \/ /\ Prototype(n, args, "open") /\ current' = TheFunction(n)
               /\ TheFunction(n) \in Nat
               /\ named' = WithArguments(NoNames, TheFunction(n), args)
               /\ named' \in [Var -> Result]
               /\ blocks' = <<NewBlock(TRUE)>> /\ insert' = 1
               /\ work' = <<[kind |-> "body"]>> /\ failed' = FALSE
               /\ functions'[TheFunction(n)].args = args
            \/ named' = NoNames /\ named' \in [Var -> Result]
               /\ UNCHANGED <<functions, owner, current, blocks, insert, work, failed>>
<1>1. NoNames \in [Var -> Result]
  BY DEF NoNames, Result
<1>2. work = <<>> /\ UNCHANGED <<ret, atEOF>>
  BY DEF BeginFunction, AtTop
<1>3. CASE Prototype(n, args, "open")
  <2>1. /\ TheFunction(n) \in 1 .. Len(functions')
        /\ functions'[TheFunction(n)] = [name |-> n, args |-> args, state |-> "open"]
    BY <1>3, PrototypeAdds
  <2>2. TheFunction(n) \in Nat
    BY NamesKnown DEF TheFunction, IsFree, Name
  <2>3. WithArguments(NoNames, TheFunction(n), args) \in [Var -> Result]
    BY <1>1, <2>2, WithArgumentsIn
  <2>4. ~Refused(n, args)
    BY <1>3 DEF Prototype, Refused
  <2>5. /\ current' = TheFunction(n) /\ named' = WithArguments(NoNames, TheFunction(n), args)
        /\ blocks' = <<NewBlock(TRUE)>> /\ insert' = 1
        /\ work' = <<[kind |-> "body"]>> /\ failed' = FALSE
    BY <2>4 DEF BeginFunction
  <2>6. functions'[TheFunction(n)].args = args
    BY <2>1
  <2> QED
    BY <1>2, <1>3, <2>2, <2>3, <2>5, <2>6, Zenon
<1>4. CASE ~Prototype(n, args, "open")
  BY <1>1, <1>2, <1>4 DEF BeginFunction
<1> QED
  BY <1>3, <1>4

LEMMA TypeInvInit == Init => TypeInv
<1> SUFFICES ASSUME Init PROVE TypeInv
  OBVIOUS
<1>1. named \in [Var -> Result]
  BY DEF Init, NoNames, Result
<1>2. /\ ret = Pending /\ failed = FALSE /\ current = 0 /\ insert = 0 /\ blocks = <<>>
      /\ work = <<>>
  BY DEF Init
<1>3. ret \in Result \cup {Pending} /\ failed \in BOOLEAN
  BY <1>2
<1>4. current \in Nat /\ insert \in Nat /\ blocks \in Seq(BlockType) /\ work \in Seq(Frame)
  BY <1>2
<1>5. work = <<>> /\ \A k \in 1 .. Len(work) : Held(work[k]) \subseteq 1 .. Len(blocks)
  BY <1>2
<1> QED
  BY <1>1, <1>3, <1>4, <1>5 DEF TypeInv

LEMMA TypeInvNext == NamesInv /\ TypeInv /\ [Next]_vars => TypeInv'
<1> SUFFICES ASSUME NamesInv, TypeInv, [Next]_vars PROVE TypeInv'
  OBVIOUS
<1>0. /\ named \in [Var -> Result] /\ ret \in Result \cup {Pending} /\ failed \in BOOLEAN
      /\ current \in Nat /\ insert \in Nat
      /\ blocks \in Seq(BlockType) /\ work \in Seq(Frame) /\ Len(blocks) \in Nat
      /\ Len(work) \in Nat
      /\ work # <<>> => insert \in 1 .. Len(blocks)
      /\ \A k \in 1 .. Len(work) : Held(work[k]) \subseteq 1 .. Len(blocks)
      /\ Pending \in Result \cup {Pending} /\ <<>> \in Seq(Frame) /\ <<>> \in Seq(BlockType)
  BY DEF TypeInv
<1>1. ASSUME NEW frame \in Frame, NEW bs \in Seq(BlockType), Len(blocks) <= Len(bs),
             Held(frame) \subseteq 1 .. Len(bs), work # <<>>
      PROVE  /\ \A k \in 1 .. Len(work) + 1 :
                  Held(Append(work, frame)[k]) \subseteq 1 .. Len(bs)
             /\ \A k \in 1 .. Len(work) : Held(Become(frame)[k]) \subseteq 1 .. Len(bs)
             /\ \A k \in 1 .. Len(work) - 1 : Held(Pop[k]) \subseteq 1 .. Len(bs)
  <2>1. \A k \in 1 .. Len(work) : Held(work[k]) \subseteq 1 .. Len(bs)
    <3>1. \A b \in 1 .. Len(blocks) : b \in 1 .. Len(bs)
      BY <1>0, <1>1
    <3> QED
      BY <1>0, <3>1
  <2>2. /\ \A k \in 1 .. Len(work) : Append(work, frame)[k] = work[k]
        /\ Append(work, frame)[Len(work) + 1] = frame
        /\ \A k \in 1 .. Len(work) - 1 : Become(frame)[k] = work[k] /\ Pop[k] = work[k]
        /\ Become(frame)[Len(work)] = frame
    BY <1>0, <1>1, StackSteps
  <2>3. \A k \in 1 .. Len(work) + 1 : k \in 1 .. Len(work) \/ k = Len(work) + 1
    BY <1>0
  <2>4. \A k \in 1 .. Len(work) : k \in 1 .. Len(work) - 1 \/ k = Len(work)
    BY <1>0
  <2>5. \A k \in 1 .. Len(work) - 1 : k \in 1 .. Len(work)
    BY <1>0
  <2> QED
    BY <1>1, <2>1, <2>2, <2>3, <2>4, <2>5, Zenon
<1>2. CASE Visit
  <2>1. /\ work # <<>> /\ UNCHANGED <<current, named, blocks, insert>>
        /\ \/ work' = work /\ ret' \in Result /\ failed' = (failed \/ ret' = Null)
           \/ \E frame \in BinaryFrame \cup CallFrame \cup CondFrame \cup StartFrame :
                work' = Append(work, frame) /\ ret' = ret /\ failed' = failed
    BY <1>2, VisitEffect
  <2>2. CASE work' = work /\ ret' \in Result /\ failed' = (failed \/ ret' = Null)
    <3>1. PICK r \in Result \cup {Pending}, f \in BOOLEAN : ret' = r /\ failed' = f
      BY <2>2
    <3> QED
      BY <1>0, <2>1, <2>2, <3>1, TypeKept
  <2>3. ASSUME NEW frame \in BinaryFrame \cup CallFrame \cup CondFrame \cup StartFrame,
               work' = Append(work, frame), ret' = ret, failed' = failed
        PROVE  TypeInv'
    <3>1. frame \in Frame /\ Held(frame) = {}
      BY HeldBy DEF Frame
    <3>2. /\ Append(work, frame) \in Seq(Frame) /\ Len(Append(work, frame)) = Len(work) + 1
          /\ \A k \in 1 .. Len(work) + 1 :
               Held(Append(work, frame)[k]) \subseteq 1 .. Len(blocks)
      BY <1>0, <1>1, <2>1, <3>1, StackSteps
    <3> QED
      BY <1>0, <2>1, <2>3, <3>2, TypeKept
  <2> QED
    BY <2>1, <2>2, <2>3
<1>3. CASE Quiet
  <2>1. /\ work # <<>> /\ UNCHANGED <<current, named, insert, failed>>
        /\ ret' \in Result \cup {Pending}
        /\ blocks' = blocks \/ \E vals \in SUBSET Val : blocks' = Use(blocks, vals)
        /\ work' = Pop \/ \E frame \in Frame : work' = Become(frame) /\ Alike(frame, Top)
    BY <1>3, QuietEffect
  <2>2. PICK bs \in Seq(BlockType) : blocks' = bs /\ Len(bs) = Len(blocks)
    <3>1. insert \in 1 .. Len(blocks)
      BY <1>0, <2>1
    <3> QED
      BY <1>0, <2>1, <3>1, UseKeeps
  <2>3. PICK r \in Result \cup {Pending} : ret' = r
    BY <2>1
  <2>4. insert \in 1 .. Len(bs) /\ Len(blocks) <= Len(bs)
    BY <1>0, <2>1, <2>2
  <2>5. CASE work' = Pop
    <3>1. [kind |-> "body"] \in Frame /\ Held([kind |-> "body"]) = {}
      BY HeldBy DEF Frame, BodyFrame
    <3>2. Pop \in Seq(Frame) /\ Len(Pop) = Len(work) - 1
          /\ \A k \in 1 .. Len(work) - 1 : Held(Pop[k]) \subseteq 1 .. Len(bs)
      BY <1>0, <1>1, <2>1, <2>4, <3>1, StackSteps
    <3> QED
      BY <1>0, <2>1, <2>2, <2>3, <2>4, <2>5, <3>2, TypeKept
  <2>6. ASSUME NEW frame \in Frame, work' = Become(frame), Alike(frame, Top) PROVE TypeInv'
    <3>1. Held(frame) = Held(Top)
      BY <2>6, HeldBy DEF Alike
    <3>2. Held(Top) \subseteq 1 .. Len(bs)
      <4>1. Len(work) \in 1 .. Len(work)
        BY <1>0, <2>1
      <4> QED
        BY <1>0, <2>2, <4>1 DEF Top
    <3>3. Become(frame) \in Seq(Frame) /\ Len(Become(frame)) = Len(work)
          /\ \A k \in 1 .. Len(work) : Held(Become(frame)[k]) \subseteq 1 .. Len(bs)
      BY <1>0, <1>1, <2>1, <2>4, <3>1, <3>2, StackSteps
    <3> QED
      BY <1>0, <2>1, <2>2, <2>3, <2>4, <2>6, <3>3, TypeKept
  <2> QED
    BY <2>1, <2>5, <2>6
<1>4. CASE IfCondition
  <2> DEFINE m == Len(blocks)
  <2>1. /\ work # <<>> /\ Others /\ ret' = Pending /\ named' = named /\ insert' = m + 1
        /\ \E frame \in ThenFrame :
             frame.else = m + 2 /\ frame.merge = m + 3 /\ work' = Become(frame)
        /\ blocks' \in Seq(BlockType) /\ Len(blocks') = m + 3
    BY <1>4, IfConditionEffect
  <2> HIDE DEF m
  <2>2. PICK bs \in Seq(BlockType) : blocks' = bs /\ Len(bs) = m + 3
    BY <2>1
  <2>3. PICK frame \in ThenFrame : frame.else = m + 2 /\ frame.merge = m + 3 /\ work' = Become(frame)
    BY <2>1
  <2>4. m \in Nat /\ Len(blocks) <= Len(bs) /\ m + 1 \in 1 .. Len(bs) /\ m + 1 \in Nat
        /\ m + 2 \in 1 .. Len(bs) /\ m + 3 \in 1 .. Len(bs)
    BY <1>0, <2>2 DEF m
  <2>5. frame \in Frame /\ Held(frame) \subseteq 1 .. Len(bs)
    BY <2>3, <2>4, HeldBy DEF Frame
  <2>6. Become(frame) \in Seq(Frame) /\ Len(Become(frame)) = Len(work)
        /\ \A k \in 1 .. Len(work) : Held(Become(frame)[k]) \subseteq 1 .. Len(bs)
    BY <1>0, <1>1, <2>1, <2>4, <2>5, StackSteps
  <2>7. PICK i \in Nat : i = m + 1
    BY <2>4
  <2> QED
    BY <1>0, <2>1, <2>2, <2>3, <2>4, <2>6, <2>7, TypeKept DEF Others
<1>5. CASE IfThen
  <2> DEFINE m == Len(blocks)
  <2>1. /\ work # <<>> /\ Others /\ ret' = Pending /\ named' = named /\ insert' = Top.else
        /\ Top.else \in 1 .. m /\ Top.merge \in 1 .. m
        /\ \E frame \in ElseFrame : frame.merge = Top.merge /\ work' = Become(frame)
        /\ blocks' \in Seq(BlockType) /\ Len(blocks') = m
    BY <1>5, IfThenEffect
  <2>2. PICK bs \in Seq(BlockType) : blocks' = bs /\ Len(bs) = m
    BY <2>1
  <2>3. PICK frame \in ElseFrame : frame.merge = Top.merge /\ work' = Become(frame)
    BY <2>1
  <2>4. frame \in Frame /\ Held(frame) \subseteq 1 .. Len(bs) /\ Len(blocks) <= Len(bs)
    BY <1>0, <2>1, <2>2, <2>3, HeldBy DEF Frame
  <2>6. Become(frame) \in Seq(Frame) /\ Len(Become(frame)) = Len(work)
        /\ \A k \in 1 .. Len(work) : Held(Become(frame)[k]) \subseteq 1 .. Len(bs)
    BY <1>0, <1>1, <2>1, <2>4, StackSteps
  <2>7. PICK i \in Nat : i = Top.else /\ i \in 1 .. Len(bs)
    BY <1>0, <2>1, <2>2
  <2> QED
    BY <1>0, <2>1, <2>2, <2>3, <2>6, <2>7, TypeKept DEF Others
<1>6. CASE IfElse
  <2> DEFINE m == Len(blocks)
  <2>1. /\ work # <<>> /\ Others /\ ret' = Computed(Top.merge) /\ named' = named
        /\ insert' = Top.merge /\ Top.merge \in 1 .. m /\ work' = Pop
        /\ blocks' \in Seq(BlockType) /\ Len(blocks') = m
    BY <1>6, IfElseEffect
  <2>2. PICK bs \in Seq(BlockType) : blocks' = bs /\ Len(bs) = m
    BY <2>1
  <2>3. PICK i \in Nat : i = Top.merge /\ i \in 1 .. Len(bs)
    BY <1>0, <2>1, <2>2
  <2>4. PICK r \in Result \cup {Pending} : r = Computed(Top.merge)
    BY <1>0, <2>3, Values
  <2>5. [kind |-> "body"] \in Frame /\ Held([kind |-> "body"]) = {} /\ Len(blocks) <= Len(bs)
    BY <1>0, <2>2, HeldBy DEF Frame, BodyFrame
  <2>6. Pop \in Seq(Frame) /\ Len(Pop) = Len(work) - 1
        /\ \A k \in 1 .. Len(work) - 1 : Held(Pop[k]) \subseteq 1 .. Len(bs)
    BY <1>0, <1>1, <2>1, <2>5, StackSteps
  <2> QED
    BY <1>0, <2>1, <2>2, <2>3, <2>4, <2>6, TypeKept DEF Others
<1>7. CASE ForStart
  <2> DEFINE m == Len(blocks)
             N == [named EXCEPT ![Top.var] = Computed(m + 1)]
  <2>1. /\ work # <<>> /\ Top \in StartFrame /\ Others /\ ret' = Pending /\ insert' = m + 1
        /\ named' = N
        /\ \E frame \in LoopFrame : frame.loop = m + 1 /\ work' = Become(frame)
        /\ blocks' \in Seq(BlockType) /\ Len(blocks') = m + 1
    BY <1>7, ForStartEffect
  <2>2. PICK bs \in Seq(BlockType) : blocks' = bs /\ Len(bs) = m + 1
    BY <2>1
  <2>3. PICK frame \in LoopFrame : frame.loop = m + 1 /\ work' = Become(frame)
    BY <2>1
  <2>4. PICK i \in Nat : i = m + 1 /\ i \in 1 .. Len(bs) /\ Len(blocks) <= Len(bs)
    BY <1>0, <2>2
  <2>5. frame \in Frame /\ Held(frame) \subseteq 1 .. Len(bs)
    BY <2>3, <2>4, HeldBy DEF Frame
  <2>6. Become(frame) \in Seq(Frame) /\ Len(Become(frame)) = Len(work)
        /\ \A k \in 1 .. Len(work) : Held(Become(frame)[k]) \subseteq 1 .. Len(bs)
    BY <1>0, <1>1, <2>1, <2>4, <2>5, StackSteps
  <2>7. N \in [Var -> Result]
    <3>1. Computed(m + 1) \in Result
      BY <1>0, <2>4, Values
    <3> QED
      BY <1>0, <3>1
  <2> HIDE DEF N, m
  <2> QED
    BY <1>0, <2>1, <2>2, <2>3, <2>4, <2>6, <2>7, TypeKept DEF Others
<1>8. CASE ForEnd
  <2> DEFINE m == Len(blocks)
             N == [named EXCEPT ![Top.var] = Top.old]
  <2>1. /\ work # <<>> /\ Top \in LastFrame /\ Others /\ ret' = Const /\ insert' = m + 1
        /\ named' = N /\ work' = Pop
        /\ blocks' \in Seq(BlockType) /\ Len(blocks') = m + 1
    BY <1>8, ForEndEffect
  <2>2. PICK bs \in Seq(BlockType) : blocks' = bs /\ Len(bs) = m + 1
    BY <2>1
  <2>4. PICK i \in Nat : i = m + 1 /\ i \in 1 .. Len(bs) /\ Len(blocks) <= Len(bs)
    BY <1>0, <2>2
  <2>5. [kind |-> "body"] \in Frame /\ Held([kind |-> "body"]) = {}
    BY HeldBy DEF Frame, BodyFrame
  <2>6. Pop \in Seq(Frame) /\ Len(Pop) = Len(work) - 1
        /\ \A k \in 1 .. Len(work) - 1 : Held(Pop[k]) \subseteq 1 .. Len(bs)
    BY <1>0, <1>1, <2>1, <2>4, <2>5, StackSteps
  <2>7. N \in [Var -> Result] /\ Const \in Result \cup {Pending}
    BY <1>0, <2>1, Values DEF LastFrame
  <2> HIDE DEF N, m
  <2> QED
    BY <1>0, <2>1, <2>2, <2>4, <2>6, <2>7, TypeKept DEF Others
<1>9. CASE EndFunction
  <2>1. /\ work # <<>> /\ work' = <<>> /\ ret' = Pending /\ UNCHANGED <<named, current, failed>>
        /\ \/ /\ ret \in Val /\ insert' = insert
              /\ blocks' = Jump(Use(blocks, {ret}), {})
           \/ blocks' = <<>> /\ insert' = 0
    BY <1>9, EndFunctionEffect
  <2>2. PICK bs \in Seq(BlockType) : blocks' = bs
    <3>1. ret \in Val => {ret} \in SUBSET Val /\ {} \in SUBSET Nat
      OBVIOUS
    <3> QED
      BY <1>0, <2>1, <3>1, JumpUse
  <2>3. PICK i \in Nat : insert' = i
    BY <1>0, <2>1
  <2>4. \A k \in 1 .. Len(<<>>) : FALSE
    OBVIOUS
  <2> QED
    BY <1>0, <2>1, <2>2, <2>3, <2>4, TypeKept
<1>10. ASSUME NEW n \in Name, NEW args \in Seq(Var), BeginFunction(n, args) PROVE TypeInv'
  <2>1. CASE /\ current' = TheFunction(n) /\ TheFunction(n) \in Nat
             /\ named' \in [Var -> Result]
             /\ blocks' = <<NewBlock(TRUE)>> /\ insert' = 1
             /\ work' = <<[kind |-> "body"]>> /\ failed' = FALSE /\ ret' = ret
    <3> DEFINE bs == <<NewBlock(TRUE)>>
               w == <<[kind |-> "body"]>>
    <3>1. bs \in Seq(BlockType) /\ Len(bs) = 1 /\ 1 \in 1 .. 1
      <4> DEFINE B == NewBlock(TRUE)
      <4>1. B \in BlockType
        BY NewBlockIn
      <4> HIDE DEF B
      <4>2. <<B>> \in Seq(BlockType) /\ Len(<<B>>) = 1 /\ 1 \in 1 .. 1
        BY <4>1
      <4> QED
        BY <4>2 DEF B
    <3>2. w \in Seq(Frame) /\ \A k \in 1 .. Len(w) : Held(w[k]) = {}
      BY HeldBy DEF Frame, BodyFrame
    <3>3. PICK N \in [Var -> Result], c \in Nat, i \in Nat :
            named' = N /\ current' = c /\ insert' = i /\ i = 1
      BY <2>1
    <3>4. blocks' = bs /\ work' = w
      BY <2>1
    <3> HIDE DEF bs, w
    <3>5. i \in 1 .. Len(bs) /\ \A k \in 1 .. Len(w) : Held(w[k]) \subseteq 1 .. Len(bs)
      BY <3>1, <3>2, <3>3
    <3>6. ret' = ret /\ failed' = FALSE /\ FALSE \in BOOLEAN
      BY <2>1
    <3> QED
      BY <1>0, <3>1, <3>2, <3>3, <3>4, <3>5, <3>6, TypeKept
  <2>2. CASE /\ named' \in [Var -> Result]
             /\ UNCHANGED <<ret, current, blocks, insert, work, failed>>
    <3>1. PICK N \in [Var -> Result] : named' = N
      BY <2>2
    <3> QED
      BY <1>0, <2>2, <3>1, TypeKept
  <2> QED
    BY <1>10, <2>1, <2>2, BeginFunctionEffect
<1>11. ASSUME NEW n \in FnName, NEW args \in ArgLists, HandleExtern(n, args) PROVE TypeInv'
  <2>1. UNCHANGED <<current, blocks, insert, work, ret, failed>>
    BY <1>11 DEF HandleExtern
  <2>2. named' = named \/ named' = WithArguments(named, TheFunction(n), args)
    BY <1>11 DEF HandleExtern
  <2>3. TheFunction(n) \in Nat
    BY NamesKnown DEF TheFunction, IsFree
  <2>4. PICK N \in [Var -> Result] : named' = N
    BY <1>0, <2>2, <2>3, WithArgumentsIn
  <2> QED
    BY <1>0, <2>1, <2>4, TypeKept
<1>12. CASE MainLoopReturns \/ Stopped \/ UNCHANGED vars
  <2>1. UNCHANGED <<named, current, blocks, insert, work, ret, failed>>
    BY <1>12 DEF MainLoopReturns, Stopped, vars
  <2> QED
    BY <1>0, <2>1, TypeKept
<1>13. CASE Handler
  <2>0. Anonymous \in Name /\ FnName \subseteq Name /\ <<>> \in Seq(Var)
        /\ \A args \in ArgLists : args \in Seq(Var)
    BY KaleidoscopeAssumption DEF Name
  <2> QED
    BY <1>10, <1>11, <1>12, <1>13, <2>0
    DEF Handler, HandleDefinition, HandleTopLevelExpression
<1> QED
  BY <1>2, <1>3, <1>4, <1>5, <1>6, <1>7, <1>8, <1>9, <1>12, <1>13 DEF Next, Resume, Quiet

LEMMA AtTheTop ==
  ASSUME TypeInv, NullInv, work # <<>>, Top.kind # "body"
  PROVE  Len(work) \in Nat /\ Len(work) >= 2 /\ Pop # <<>> /\ Pop[1] = work[1]
<1>1. Len(work) \in Nat /\ Len(work) \in 1 .. Len(work) /\ Pop \in Seq(Frame)
      /\ Len(Pop) = Len(work) - 1 /\ \A k \in 1 .. Len(work) - 1 : Pop[k] = work[k]
  BY StackSteps DEF TypeInv, Frame, BodyFrame
<1>2. Len(work) # 1
  BY DEF NullInv, Top
<1>3. 1 \in 1 .. Len(work) - 1 /\ Len(work) >= 2 /\ Len(Pop) # 0
  BY <1>1, <1>2
<1> QED
  BY <1>1, <1>3

LEMMA NullPop ==
  ASSUME TypeInv, NullInv, work # <<>>, Top.kind # "body", work' = Pop, failed' = failed,
         ret = Null \/ Spoilt(Top) <=> ret' = Null
  PROVE  NullInv'
<1> DEFINE m == Len(work)
<1>0. [kind |-> "body"] \in Frame
  BY DEF Frame, BodyFrame
<1>1. /\ m \in Nat /\ m >= 2 /\ work' # <<>> /\ work'[1] = work[1]
      /\ Len(work') = m - 1 /\ \A k \in 1 .. m - 1 : work'[k] = work[k]
  <2>1. /\ m \in Nat /\ m >= 2 /\ Pop # <<>> /\ Pop[1] = work[1]
    BY AtTheTop
  <2>2. Len(Pop) = m - 1 /\ \A k \in 1 .. m - 1 : Pop[k] = work[k]
    BY <1>0, StackSteps DEF TypeInv
  <2> QED
    BY <2>1, <2>2
<1>2. Top = work[m]
  BY DEF Top
<1> HIDE DEF m
<1>3. /\ \A k \in 1 .. m : k \in 1 .. m - 1 \/ k = m
      /\ \A k \in 1 .. m - 1 : k \in 1 .. m
      /\ \A k \in 2 .. m - 1 : k \in 1 .. m - 1 /\ k \in 2 .. m
      /\ m \in 1 .. m
  BY <1>1
<1>4. (\E k \in 1 .. m : Spoilt(work[k]))
        <=> Spoilt(Top) \/ \E k \in 1 .. m - 1 : Spoilt(work'[k])
  BY <1>1, <1>2, <1>3
<1>5. /\ work[1].kind = "body" /\ \A k \in 2 .. m : work[k].kind # "body"
      /\ failed <=> ret = Null \/ \E k \in 1 .. m : Spoilt(work[k])
  BY DEF NullInv, m
<1>6. \A k \in 2 .. m - 1 : work'[k].kind # "body"
  BY <1>1, <1>3, <1>5
<1>7. failed' <=> ret' = Null \/ \E k \in 1 .. m - 1 : Spoilt(work'[k])
  BY <1>4, <1>5
<1>8. (\E k \in 1 .. Len(work) : Spoilt(work[k]))' <=> \E k \in 1 .. m - 1 : Spoilt(work'[k])
  BY <1>1 DEF Spoilt
<1> QED
  BY <1>1, <1>5, <1>6, <1>7, <1>8 DEF NullInv

LEMMA NullBecome ==
  ASSUME TypeInv, NullInv, work # <<>>, Top.kind # "body", failed' = failed,
         NEW frame \in Frame, work' = Become(frame), frame.kind # "body",
         ret = Null \/ Spoilt(Top) <=> ret' = Null \/ Spoilt(frame)
  PROVE  NullInv'
<1> DEFINE m == Len(work)
<1>1. /\ m \in Nat /\ m >= 2 /\ work' # <<>>
      /\ Len(work') = m /\ \A k \in 1 .. m - 1 : work'[k] = work[k]
      /\ work'[m] = frame
  BY AtTheTop, StackSteps DEF TypeInv
<1>2. Top = work[m]
  BY DEF Top
<1> HIDE DEF m
<1>3. /\ \A k \in 1 .. m : k \in 1 .. m - 1 \/ k = m
      /\ \A k \in 1 .. m - 1 : k \in 1 .. m
      /\ \A k \in 2 .. m : (k \in 1 .. m - 1 /\ k \in 2 .. m) \/ k = m
      /\ m \in 1 .. m /\ 1 \in 1 .. m - 1
  BY <1>1
<1>4. (\E k \in 1 .. m : Spoilt(work[k]))
        <=> Spoilt(Top) \/ \E k \in 1 .. m - 1 : Spoilt(work[k])
  BY <1>1, <1>2, <1>3
<1>5. /\ work[1].kind = "body" /\ \A k \in 2 .. m : work[k].kind # "body"
      /\ failed <=> ret = Null \/ \E k \in 1 .. m : Spoilt(work[k])
  BY DEF NullInv, m
<1>6. work'[1].kind = "body" /\ \A k \in 2 .. m : work'[k].kind # "body"
  BY <1>1, <1>3, <1>5
<1>7. (\E k \in 1 .. m : Spoilt(work'[k]))
        <=> Spoilt(frame) \/ \E k \in 1 .. m - 1 : Spoilt(work[k])
  BY <1>1, <1>3
<1>8. failed' <=> ret' = Null \/ \E k \in 1 .. m : Spoilt(work'[k])
  BY <1>4, <1>5, <1>7
<1>9. (\E k \in 1 .. Len(work) : Spoilt(work[k]))' <=> \E k \in 1 .. m : Spoilt(work'[k])
  BY <1>1 DEF Spoilt
<1> QED
  BY <1>1, <1>6, <1>8, <1>9 DEF NullInv

LEMMA NullSame ==
  ASSUME NullInv, UNCHANGED <<work, ret, failed>>
  PROVE  NullInv'
BY DEF NullInv, Spoilt

LEMMA NullInvNext == NamesInv /\ TypeInv /\ NullInv /\ [Next]_vars => NullInv'
<1> SUFFICES ASSUME NamesInv, TypeInv, NullInv, [Next]_vars PROVE NullInv'
  OBVIOUS
<1>0. work # <<>> => Top \in Frame /\ insert \in Nat
  BY StackSteps DEF TypeInv, Frame, BodyFrame
<1>1. \A frame \in Frame : frame.kind # "binary" => ~Spoilt(frame)
  BY DEF Spoilt
<1>2. CASE Visit
  <2>1. /\ work # <<>> /\ ret = Pending /\ Pending # Null
        /\ \/ work' = work /\ ret' \in Result /\ failed' = (failed \/ ret' = Null)
           \/ \E frame \in BinaryFrame \cup CallFrame \cup CondFrame \cup StartFrame :
                /\ work' = Append(work, frame) /\ ret' = ret /\ failed' = failed
                /\ frame.kind \in {"binary", "call"} => frame.vals = <<>>
    BY <1>2, VisitEffect, KaleidoscopeAssumption
  <2>2. CASE work' = work /\ ret' \in Result /\ failed' = (failed \/ ret' = Null)
    <3>1. (\E k \in 1 .. Len(work) : Spoilt(work[k]))' <=> \E k \in 1 .. Len(work) : Spoilt(work[k])
      BY <2>2 DEF Spoilt
    <3>2. failed' <=> ret' = Null \/ \E k \in 1 .. Len(work) : Spoilt(work[k])
      BY <2>1, <2>2 DEF NullInv
    <3> QED
      BY <2>1, <2>2, <3>1, <3>2 DEF NullInv
  <2>3. ASSUME NEW frame \in BinaryFrame \cup CallFrame \cup CondFrame \cup StartFrame,
               work' = Append(work, frame), ret' = ret, failed' = failed,
               frame.kind \in {"binary", "call"} => frame.vals = <<>>
        PROVE  NullInv'
    <3> DEFINE m == Len(work)
    <3>1. frame \in Frame /\ frame.kind # "body" /\ ~Spoilt(frame)
      BY <2>3 DEF Frame, Spoilt, BinaryFrame, CallFrame, CondFrame, StartFrame
    <3>2. /\ work' # <<>> /\ Len(work') = m + 1 /\ work'[m + 1] = frame
          /\ \A k \in 1 .. m : work'[k] = work[k]
          /\ m \in Nat /\ m \in 1 .. m
      BY <2>1, <2>3, <3>1, StackSteps DEF TypeInv
    <3> HIDE DEF m
    <3>3. /\ \A k \in 1 .. m + 1 : k \in 1 .. m \/ k = m + 1
          /\ \A k \in 1 .. m : k \in 1 .. m + 1
          /\ \A k \in 2 .. m + 1 : (k \in 1 .. m /\ k \in 2 .. m) \/ k = m + 1
          /\ 1 \in 1 .. m
      BY <3>2
    <3>4. /\ work[1].kind = "body" /\ \A k \in 2 .. m : work[k].kind # "body"
          /\ failed <=> ret = Null \/ \E k \in 1 .. m : Spoilt(work[k])
      BY <2>1 DEF NullInv, m
    <3>5. work'[1].kind = "body" /\ \A k \in 2 .. m + 1 : work'[k].kind # "body"
      BY <3>1, <3>2, <3>3, <3>4
    <3>6. (\E k \in 1 .. m + 1 : Spoilt(work'[k])) <=> \E k \in 1 .. m : Spoilt(work[k])
      BY <3>1, <3>2, <3>3
    <3>7. failed' <=> ret' = Null \/ \E k \in 1 .. m + 1 : Spoilt(work'[k])
      BY <2>3, <3>4, <3>6
    <3>8. (\E k \in 1 .. Len(work) : Spoilt(work[k]))'
            <=> \E k \in 1 .. m + 1 : Spoilt(work'[k])
      BY <3>2 DEF Spoilt
    <3> QED
      BY <3>2, <3>5, <3>7, <3>8 DEF NullInv
  <2> QED
    BY <2>1, <2>2, <2>3
<1>3. CASE GiveUp
  <2>1. /\ work # <<>> /\ Top.kind # "body" /\ work' = Pop /\ UNCHANGED <<ret, failed>>
        /\ ret = Null
    BY <1>3 DEF GiveUp, Returned
  <2> QED
    BY <2>1, NullPop
<1>4. CASE BinaryLeft
  <2> DEFINE frame == [Top EXCEPT !.vals = <<ret>>]
  <2>1. /\ work # <<>> /\ Top.kind = "binary" /\ ret \in Result /\ Top.vals = <<>>
        /\ ret' = Pending /\ failed' = failed /\ work' = Become(frame)
    BY <1>4 DEF BinaryLeft, Returned, TypeInv
  <2>2. Top \in BinaryFrame
    BY <1>0, <2>1, TopKnown
  <2>3. frame \in BinaryFrame /\ frame.kind = "binary" /\ frame.vals = <<ret>>
    <3>1. <<ret>> \in Seq(Result)
      BY <2>1
    <3> QED
      BY <2>2, <3>1 DEF BinaryFrame
  <2> HIDE DEF frame
  <2>4. frame \in Frame /\ (Spoilt(frame) <=> ret = Null) /\ ~Spoilt(Top) /\ Pending # Null
    BY <2>1, <2>3, KaleidoscopeAssumption DEF Frame, Spoilt
  <2> QED
    BY <2>1, <2>3, <2>4, NullBecome
<1>5. CASE BinaryRight
  <2>1. /\ work # <<>> /\ Top.kind = "binary" /\ Top.vals # <<>>
        /\ failed' = failed /\ work' = Pop
        /\ IF Null \in {ret, Top.vals[1]} THEN ret' = Null ELSE ret' = Computed(insert)
    BY <1>5 DEF BinaryRight, Returned
  <2>2. Computed(insert) # Null
    BY <1>0, <2>1, Values DEF TypeInv
  <2>3. ret = Null \/ Spoilt(Top) <=> ret' = Null
    BY <2>1, <2>2 DEF Spoilt
  <2> QED
    BY <2>1, <2>3, NullPop
<1>6. CASE CallArgument
  <2> DEFINE frame == [Top EXCEPT !.vals = Append(@, ret)]
  <2>1. /\ work # <<>> /\ Top.kind = "call" /\ ret # Null /\ ret # Pending
        /\ ret' = Pending /\ failed' = failed /\ work' = Become(frame)
    BY <1>6 DEF CallArgument, Returned
  <2>2. Top \in CallFrame /\ ret \in Val
    BY <1>0, <2>1, TopKnown, Values DEF TypeInv
  <2>3. frame \in CallFrame /\ frame.kind = "call"
    <3>1. Top.vals \in Seq(Val)
      BY <2>2 DEF CallFrame
    <3>2. Append(Top.vals, ret) \in Seq(Val)
      BY <2>2, <3>1
    <3> QED
      BY <2>2, <3>2 DEF CallFrame
  <2> HIDE DEF frame
  <2>4. frame \in Frame /\ ~Spoilt(frame) /\ ~Spoilt(Top) /\ Pending # Null
    BY <2>1, <2>3, KaleidoscopeAssumption DEF Frame, Spoilt
  <2> QED
    BY <2>1, <2>3, <2>4, NullBecome
<1>7. CASE EndCall
  <2>1. /\ work # <<>> /\ Top.kind = "call" /\ ret = Pending
        /\ failed' = failed /\ work' = Pop /\ ret' = Computed(insert)
    BY <1>7 DEF EndCall
  <2>2. Computed(insert) # Null /\ Pending # Null
    BY <1>0, <2>1, Values, KaleidoscopeAssumption DEF TypeInv
  <2> QED
    BY <1>0, <1>1, <2>1, <2>2, NullPop
<1>8. ASSUME NEW frame \in Frame, frame.kind \in {"if", "for"}, work' = Become(frame),
             work # <<>>, Top.kind \in {"if", "for"}, ret # Null, ret' = Pending,
             failed' = failed
      PROVE  NullInv'
  <2>1. ~Spoilt(frame) /\ ~Spoilt(Top) /\ Pending # Null
    BY <1>8, KaleidoscopeAssumption DEF Spoilt
  <2> QED
    BY <1>8, <2>1, NullBecome
<1>9. CASE IfCondition
  <2>1. PICK frame \in ThenFrame : work' = Become(frame)
    BY <1>9, IfConditionEffect
  <2>2. /\ frame \in Frame /\ frame.kind = "if" /\ work # <<>> /\ Top.kind = "if"
        /\ ret # Null /\ ret' = Pending /\ failed' = failed
    BY <1>9, IfConditionEffect DEF Frame, ThenFrame, IfCondition, Phase, Returned
  <2> QED
    BY <1>8, <2>1, <2>2
<1>10. CASE IfThen
  <2>1. PICK frame \in ElseFrame : work' = Become(frame)
    BY <1>10, IfThenEffect
  <2>2. /\ frame \in Frame /\ frame.kind = "if" /\ work # <<>> /\ Top.kind = "if"
        /\ ret # Null /\ ret' = Pending /\ failed' = failed
    BY <1>10 DEF Frame, ElseFrame, IfThen, Phase, Returned
  <2> QED
    BY <1>8, <2>1, <2>2
<1>11. CASE ForStart
  <2>1. PICK frame \in LoopFrame : work' = Become(frame)
    BY <1>11, ForStartEffect
  <2>2. /\ frame \in Frame /\ frame.kind = "for" /\ work # <<>> /\ Top.kind = "for"
        /\ ret # Null /\ ret' = Pending /\ failed' = failed
    BY <1>11 DEF Frame, LoopFrame, ForStart, Phase, Returned
  <2> QED
    BY <1>8, <2>1, <2>2
<1>12. CASE ForBody \/ ForStep
  <2>1. /\ work # <<>> /\ Top.kind = "for" /\ Top.phase \in {"body", "step"}
        /\ ret # Null /\ ret' = Pending /\ failed' = failed
    BY <1>12 DEF ForBody, ForStep, Phase, Returned
  <2>2. Top \in LoopFrame
    BY <1>0, <2>1, TopKnown
  <2>3. PICK frame \in Frame : work' = Become(frame) /\ Alike(frame, Top)
    <3>1. ret # Null /\ Top \notin BinaryFrame \cup CallFrame
      BY <2>1 DEF BinaryFrame, CallFrame
    <3> QED
      BY <1>12, <3>1, QuietEffect DEF Quiet
  <2>4. frame.kind = "for"
    BY <2>1, <2>3 DEF Alike, BinaryFrame, CallFrame, LoopFrame, LastFrame
  <2> QED
    BY <1>8, <2>1, <2>3, <2>4
<1>13. CASE IfElse \/ ForEnd
  <2>1. /\ work # <<>> /\ Top.kind \in {"if", "for"} /\ ret # Null /\ failed' = failed
        /\ work' = Pop
    BY <1>13 DEF IfElse, ForEnd, Phase, Returned
  <2>2. ret' # Null
    <3>1. CASE IfElse
      <4>1. ret' = Computed(Top.merge) /\ Top.merge \in 1 .. Len(blocks)
        BY <3>1, IfElseEffect
      <4> QED
        BY <4>1, Values DEF TypeInv
    <3>2. CASE ForEnd
      BY <3>2, Values DEF ForEnd
    <3> QED
      BY <1>13, <3>1, <3>2
  <2>3. ~Spoilt(Top)
    BY <2>1 DEF Spoilt
  <2> QED
    BY <2>1, <2>2, <2>3, NullPop
<1>14. CASE EndFunction
  <2>1. work' = <<>> /\ ret' = Pending
    BY <1>14 DEF EndFunction
  <2> QED
    BY <2>1 DEF NullInv
<1>15. ASSUME NEW n \in Name, NEW args \in Seq(Var), BeginFunction(n, args) PROVE NullInv'
  <2>1. CASE work' = <<[kind |-> "body"]>> /\ failed' = FALSE
    <3>1. ret' = Pending /\ Pending # Null
      BY <1>15, BeginFunctionEffect, KaleidoscopeAssumption DEF NullInv
    <3>2. /\ work' # <<>> /\ Len(work') = 1 /\ work'[1].kind = "body"
          /\ \A k \in 1 .. 1 : ~Spoilt(work'[k])
      BY <2>1 DEF Spoilt
    <3>3. (\E k \in 1 .. Len(work) : Spoilt(work[k]))' = FALSE
      BY <3>2 DEF Spoilt
    <3>4. \A k \in 2 .. 1 : FALSE
      OBVIOUS
    <3>5. (\A k \in 2 .. Len(work) : work[k].kind # "body")'
      BY <3>2
    <3> QED
      BY <2>1, <3>1, <3>2, <3>3, <3>5, Zenon DEF NullInv
  <2>2. CASE UNCHANGED <<work, ret, failed>>
    BY <2>2, NullSame
  <2> QED
    BY <1>15, <2>1, <2>2, BeginFunctionEffect
<1>16. ASSUME NEW n \in FnName, NEW args \in ArgLists, HandleExtern(n, args) PROVE NullInv'
  BY <1>16, NullSame DEF HandleExtern
<1>17. CASE MainLoopReturns \/ Stopped \/ UNCHANGED vars
  BY <1>17, NullSame DEF MainLoopReturns, Stopped, vars
<1>18. CASE Handler
  <2>0. Anonymous \in Name /\ FnName \subseteq Name /\ <<>> \in Seq(Var)
        /\ \A args \in ArgLists : args \in Seq(Var)
    BY KaleidoscopeAssumption DEF Name
  <2> QED
    BY <1>15, <1>16, <1>17, <1>18, <2>0
    DEF Handler, HandleDefinition, HandleTopLevelExpression
<1> QED
  BY <1>2, <1>3, <1>4, <1>5, <1>6, <1>7, <1>9, <1>10, <1>11, <1>12, <1>13, <1>14, <1>17, <1>18
  DEF Next, Resume

LEMMA NullInvInit == Init => NullInv
BY DEF Init, NullInv

-----------------------------------------------------------------------------
(* Names: what the first n frames hide.                                      *)
LoopAlike(v, w) ==
  /\ IsLoop(v) <=> IsLoop(w)
  /\ IsLoop(w) => v.loop = w.loop /\ v.var = w.var /\ v.old = w.old

LEMMA MaxKnown ==
  ASSUME NEW n \in Nat, NEW S \in SUBSET (1 .. n), S # {}
  PROVE  Max(S) \in S /\ \A k \in S : k <= Max(S)
<1>1. PICK m \in S : \A k \in S : k <= m
  BY LargestExists
<1>2. \A k \in S : m >= k
  BY <1>1
<1>3. Max(S) \in S /\ \A k \in S : Max(S) >= k
  BY <1>2 DEF Max
<1> QED
  BY <1>3

LEMMA ShadowTop ==
  ASSUME NEW w, NEW n \in Nat, n # 0, NEW x
  PROVE  /\ IsLoop(w[n]) /\ w[n].var = x => Shadow(w, n, x) = Computed(w[n].loop)
         /\ ~(IsLoop(w[n]) /\ w[n].var = x) => Shadow(w, n, x) = Shadow(w, n - 1, x)
<1>1. ASSUME IsLoop(w[n]), w[n].var = x PROVE Shadow(w, n, x) = Computed(w[n].loop)
  <2>1. n \in Loops(w, n, x) /\ Loops(w, n, x) \in SUBSET (1 .. n)
    BY <1>1 DEF Loops
  <2>2. Max(Loops(w, n, x)) \in 1 .. n /\ n <= Max(Loops(w, n, x))
    BY <2>1, MaxKnown
  <2>3. Max(Loops(w, n, x)) = n
    BY <2>2
  <2> QED
    BY <2>1, <2>3 DEF Shadow
<1>2. ASSUME ~(IsLoop(w[n]) /\ w[n].var = x) PROVE Shadow(w, n, x) = Shadow(w, n - 1, x)
  <2>1. \A k \in 1 .. n : k \in 1 .. n - 1 \/ k = n
    OBVIOUS
  <2>2. \A k \in 1 .. n - 1 : k \in 1 .. n
    OBVIOUS
  <2>3. Loops(w, n, x) = Loops(w, n - 1, x)
    BY <1>2, <2>1, <2>2 DEF Loops
  <2> QED
    BY <2>3 DEF Shadow
<1> QED
  BY <1>1, <1>2

LEMMA ShadowSame ==
  ASSUME NEW v, NEW w, NEW n \in Nat, NEW x, \A k \in 1 .. n : LoopAlike(v[k], w[k])
  PROVE  Shadow(v, n, x) = Shadow(w, n, x)
<1>1. Loops(v, n, x) = Loops(w, n, x)
  BY DEF Loops, LoopAlike
<1>2. ASSUME Loops(w, n, x) # {}
      PROVE  v[Max(Loops(w, n, x))].loop = w[Max(Loops(w, n, x))].loop
  <2>1. Loops(w, n, x) \in SUBSET (1 .. n)
    BY DEF Loops
  <2>2. Max(Loops(w, n, x)) \in Loops(w, n, x)
    BY <1>2, <2>1, MaxKnown
  <2>3. Max(Loops(w, n, x)) \in 1 .. n /\ IsLoop(w[Max(Loops(w, n, x))])
    BY <2>2 DEF Loops
  <2> QED
    BY <2>3 DEF LoopAlike
<1> QED
  BY <1>1, <1>2 DEF Shadow

LEMMA ShadowPrefix ==
  ASSUME NEW v, NEW w, NEW m \in Nat, \A k \in 1 .. m : v[k] = w[k]
  PROVE  \A n \in 0 .. m : \A x : Shadow(v, n, x) = Shadow(w, n, x)
<1>1. ASSUME NEW n \in 0 .. m, NEW x PROVE Shadow(v, n, x) = Shadow(w, n, x)
  <2>1. n \in Nat /\ \A k \in 1 .. n : k \in 1 .. m
    OBVIOUS
  <2>2. \A k \in 1 .. n : LoopAlike(v[k], w[k])
    BY <2>1 DEF LoopAlike
  <2> QED
    BY <2>1, <2>2, ShadowSame
<1> QED
  BY <1>1

LEMMA EnvKept ==
  ASSUME NEW w, UNCHANGED <<functions, current>>, work' = w, GivesBack(w),
         \A x \in Var : named'[x] = Shadow(w, Len(w), x)
  PROVE  EnvInv'
<1>1. \A n, x : Shadow(work, n, x)' = Shadow(w, n, x)
  BY DEF Shadow, Loops, Computed, WithArguments, NoNames, Argument, Ids, IsLoop
<1>2. (\A x \in Var : named[x] = Shadow(work, Len(work), x))'
  BY <1>1
<1>3. GivesBack(work)'
  BY <1>1 DEF GivesBack, IsLoop
<1> QED
  BY <1>2, <1>3 DEF EnvInv

(* Frames that are no loops may come and go.                                 *)
LEMMA EnvQuiet ==
  ASSUME EnvInv, UNCHANGED <<functions, current, named>>,
         NEW w, work' = w, Len(w) \in Nat, Len(work) \in Nat,
         NEW p \in Nat, p <= Len(w), p <= Len(work),
         Len(w) <= p + 1, Len(work) <= p + 1,
         \A k \in 1 .. p : LoopAlike(w[k], work[k]),
         Len(w) # p => ~IsLoop(w[Len(w)]), Len(work) # p => ~IsLoop(work[Len(work)])
  PROVE  EnvInv'
<1>1. \A n \in 0 .. p : \A x : Shadow(w, n, x) = Shadow(work, n, x)
  <2>1. ASSUME NEW n \in 0 .. p, NEW x PROVE Shadow(w, n, x) = Shadow(work, n, x)
    <3>1. n \in Nat /\ \A k \in 1 .. n : k \in 1 .. p
      OBVIOUS
    <3> QED
      BY <3>1, ShadowSame
  <2> QED
    BY <2>1
<1>2. \A x : Shadow(w, Len(w), x) = Shadow(w, p, x)
  <2>1. Len(w) = p \/ (Len(w) # 0 /\ Len(w) - 1 = p)
    OBVIOUS
  <2> QED
    BY <2>1, ShadowTop
<1>3. \A x : Shadow(work, Len(work), x) = Shadow(work, p, x)
  <2>1. Len(work) = p \/ (Len(work) # 0 /\ Len(work) - 1 = p)
    OBVIOUS
  <2> QED
    BY <2>1, ShadowTop
<1>4. \A x \in Var : named'[x] = Shadow(w, Len(w), x)
  <2>1. p \in 0 .. p
    OBVIOUS
  <2> QED
    BY <1>1, <1>2, <1>3, <2>1 DEF EnvInv
<1>5. ASSUME NEW k \in 1 .. Len(w), IsLoop(w[k])
      PROVE  w[k].old = Shadow(w, k - 1, w[k].var)
  <2>1. k \in 1 .. p
    <3>1. k <= p \/ (k = Len(w) /\ Len(w) # p)
      OBVIOUS
    <3> QED
      BY <1>5, <3>1
  <2>2. k \in 1 .. Len(work) /\ k - 1 \in 0 .. p
    BY <2>1
  <2>3. IsLoop(work[k]) /\ w[k].old = work[k].old /\ w[k].var = work[k].var
    BY <1>5, <2>1 DEF LoopAlike
  <2> QED
    BY <1>1, <2>2, <2>3 DEF EnvInv, GivesBack
<1> QED
  BY <1>4, <1>5, EnvKept DEF GivesBack

(* A loop opens: its variable hides one, which its frame remembers.          *)
Opened(w, frame, v) ==
  /\ Len(w) = Len(work) /\ Len(work) \in Nat /\ Len(work) # 0
  /\ \A k \in 1 .. Len(work) - 1 : w[k] = work[k]
  /\ w[Len(work)] = frame /\ IsLoop(frame) /\ ~IsLoop(work[Len(work)])
  /\ named \in [Var -> Result] /\ frame.old = named[frame.var] /\ frame.var \in Var
  /\ v = Computed(frame.loop)

LEMMA EnvOpens ==
  ASSUME EnvInv, UNCHANGED <<functions, current>>, NEW w, NEW frame, NEW v,
         Opened(w, frame, v), work' = w, named' = [named EXCEPT ![frame.var] = v]
  PROVE  EnvInv'
<1>0. PICK m \in Nat : m = Len(work)
  BY DEF Opened
<1>1. /\ m # 0 /\ m - 1 \in Nat /\ m - 1 \in 0 .. m - 1 /\ m \in 1 .. m
      /\ \A k \in 1 .. m - 1 : w[k] = work[k]
      /\ Len(w) = m /\ w[m] = frame /\ IsLoop(frame) /\ ~IsLoop(work[m])
      /\ named \in [Var -> Result] /\ frame.old = named[frame.var] /\ frame.var \in Var
      /\ v = Computed(frame.loop)
  BY <1>0 DEF Opened
<1>2. \A n \in 0 .. m - 1 : \A x : Shadow(w, n, x) = Shadow(work, n, x)
  <2>1. PICK q \in Nat : q = m - 1
    BY <1>1
  <2>2. \A k \in 1 .. q : w[k] = work[k]
    BY <1>1, <2>1
  <2>3. \A n \in 0 .. q : \A x : Shadow(w, n, x) = Shadow(work, n, x)
    BY <2>2, ShadowPrefix
  <2> QED
    BY <2>1, <2>3
<1>3. \A x \in Var : named[x] = Shadow(w, m - 1, x)
  <2>1. \A x : Shadow(work, m, x) = Shadow(work, m - 1, x)
    BY <1>1, ShadowTop
  <2>2. \A x \in Var : named[x] = Shadow(work, m, x)
    BY <1>0 DEF EnvInv
  <2> QED
    BY <1>1, <1>2, <2>1, <2>2
<1>4. \A x \in Var : named'[x] = Shadow(w, m, x)
  <2>1. ASSUME NEW x \in Var PROVE named'[x] = Shadow(w, m, x)
    <3>1. CASE x = frame.var
      <4>1. named'[x] = Computed(frame.loop)
        BY <1>1, <3>1
      <4> QED
        BY <1>1, <3>1, <4>1, ShadowTop
    <3>2. CASE x # frame.var
      <4>1. named'[x] = named[x]
        BY <1>1, <3>2
      <4> QED
        BY <1>1, <1>3, <3>2, <4>1, ShadowTop
    <3> QED
      BY <3>1, <3>2
  <2> QED
    BY <2>1
<1>5. ASSUME NEW k \in 1 .. m, IsLoop(w[k]) PROVE w[k].old = Shadow(w, k - 1, w[k].var)
  <2>1. CASE k = m
    BY <1>1, <1>3, <2>1
  <2>2. CASE k # m
    <3>1. k \in 1 .. m - 1 /\ k - 1 \in 0 .. m - 1
      BY <1>1, <2>2
    <3>2. w[k] = work[k]
      BY <1>1, <3>1
    <3>3. work[k].old = Shadow(work, k - 1, work[k].var)
      BY <1>0, <1>5, <3>2 DEF EnvInv, GivesBack
    <3> QED
      BY <1>2, <3>1, <3>2, <3>3
  <2> QED
    BY <2>1, <2>2
<1> QED
  BY <1>1, <1>4, <1>5, EnvKept DEF GivesBack

(* A loop ends and gives back what it hid.                                   *)
Ended(w, frame) ==
  /\ Len(work) \in Nat /\ Len(work) # 0 /\ Len(w) = Len(work) - 1
  /\ \A k \in 1 .. Len(work) - 1 : w[k] = work[k]
  /\ work[Len(work)] = frame /\ IsLoop(frame)
  /\ named \in [Var -> Result] /\ frame.var \in Var

LEMMA EnvCloses ==
  ASSUME EnvInv, UNCHANGED <<functions, current>>, NEW w, NEW frame, Ended(w, frame),
         work' = w, named' = [named EXCEPT ![frame.var] = frame.old]
  PROVE  EnvInv'
<1>0. PICK m \in Nat : m = Len(work)
  BY DEF Ended
<1>1. /\ m # 0 /\ m - 1 \in Nat /\ m - 1 \in 0 .. m - 1 /\ m \in 1 .. m
      /\ \A k \in 1 .. m - 1 : w[k] = work[k]
      /\ Len(w) = m - 1 /\ work[m] = frame /\ IsLoop(frame)
      /\ named \in [Var -> Result] /\ frame.var \in Var
  BY <1>0 DEF Ended
<1>2. \A n \in 0 .. m - 1 : \A x : Shadow(w, n, x) = Shadow(work, n, x)
  BY <1>1, ShadowPrefix
<1>3. ASSUME NEW x \in Var PROVE named'[x] = Shadow(w, m - 1, x)
  <2>1. CASE x = frame.var
    <3>1. named'[x] = frame.old
      BY <1>1, <2>1
    <3>2. frame.old = Shadow(work, m - 1, frame.var)
      BY <1>0, <1>1 DEF EnvInv, GivesBack
    <3> QED
      BY <1>1, <1>2, <2>1, <3>1, <3>2
  <2>2. CASE x # frame.var
    <3>1. named'[x] = named[x]
      BY <1>1, <2>2
    <3>2. named[x] = Shadow(work, m, x)
      BY <1>0 DEF EnvInv
    <3>3. Shadow(work, m, x) = Shadow(work, m - 1, x)
      BY <1>1, <2>2, ShadowTop
    <3> QED
      BY <1>1, <1>2, <3>1, <3>2, <3>3
  <2> QED
    BY <2>1, <2>2
<1>4. ASSUME NEW k \in 1 .. m - 1, IsLoop(w[k]) PROVE w[k].old = Shadow(w, k - 1, w[k].var)
  <2>1. k \in 1 .. m /\ k - 1 \in 0 .. m - 1 /\ w[k] = work[k]
    BY <1>1
  <2>2. work[k].old = Shadow(work, k - 1, work[k].var)
    BY <1>0, <1>4, <2>1 DEF EnvInv, GivesBack
  <2> QED
    BY <1>2, <2>1, <2>2
<1> QED
  BY <1>1, <1>3, <1>4, EnvKept DEF GivesBack

LEMMA EnvInvNext ==
  ASSUME NamesInv, TypeInv, NullInv, [Next]_vars,
         work # <<>> /\ ~failed => EnvInv, (work # <<>> /\ ~failed)'
  PROVE  EnvInv'
<1>0. /\ named \in [Var -> Result] /\ work \in Seq(Frame) /\ Len(work) \in Nat
      /\ work' # <<>> /\ ~failed'
  BY DEF TypeInv
<1>1. ASSUME work # <<>>
      PROVE  /\ Len(work) # 0 /\ Len(work) \in 1 .. Len(work) /\ Top = work[Len(work)]
             /\ Top \in Frame /\ Len(work) - 1 \in Nat
             /\ \A k \in 1 .. Len(work) - 1 : k \in 1 .. Len(work)
  <2>1. Len(work) \in 1 .. Len(work) /\ Top \in Frame
    BY <1>0, <1>1, StackSteps DEF Frame, BodyFrame
  <2> QED
    BY <1>0, <2>1 DEF Top
<1>2. ASSUME work # <<>>, EnvInv, UNCHANGED <<functions, current, named>>, work' = work
      PROVE  EnvInv'
  <2>1. \A k \in 1 .. Len(work) : LoopAlike(work[k], work[k])
    BY DEF LoopAlike
  <2>2. Len(work) <= Len(work) /\ Len(work) <= Len(work) + 1
    BY <1>0
  <2> QED
    BY <1>0, <1>2, <2>1, <2>2, EnvQuiet
<1>3. ASSUME work # <<>>, EnvInv, UNCHANGED <<functions, current, named>>,
             NEW frame \in Frame, work' = Append(work, frame), ~IsLoop(frame)
      PROVE  EnvInv'
  <2> DEFINE w == Append(work, frame)
             m == Len(work)
  <2>1. /\ Len(w) = m + 1 /\ w[m + 1] = frame /\ \A k \in 1 .. m : w[k] = work[k]
    BY <1>0, <1>3, StackSteps
  <2> HIDE DEF w
  <2>2. \A k \in 1 .. m : LoopAlike(w[k], work[k])
    BY <2>1 DEF LoopAlike
  <2>3. ~IsLoop(w[Len(w)]) /\ m <= Len(w) /\ m <= m + 1 /\ m <= m /\ Len(w) <= m + 1
        /\ Len(w) \in Nat
    BY <1>0, <1>3, <2>1
  <2>4. work' = w
    BY <1>3 DEF w
  <2> QED
    BY <1>0, <1>3, <2>2, <2>3, <2>4, EnvQuiet
<1>4. ASSUME work # <<>>, EnvInv, UNCHANGED <<functions, current, named>>,
             work' = Pop, ~IsLoop(Top)
      PROVE  EnvInv'
  <2> DEFINE w == Pop
             m == Len(work)
  <2>1. Len(w) = m - 1 /\ \A k \in 1 .. m - 1 : w[k] = work[k]
    BY <1>0, <1>1, <1>4, StackSteps
  <2> HIDE DEF w
  <2>2. \A k \in 1 .. m - 1 : LoopAlike(w[k], work[k])
    BY <2>1 DEF LoopAlike
  <2>3. /\ ~IsLoop(work[m]) /\ m - 1 <= Len(w) /\ m - 1 <= m /\ m <= m - 1 + 1
        /\ Len(w) <= m - 1 + 1 /\ Len(w) \in Nat /\ m - 1 \in Nat
    BY <1>0, <1>1, <1>4, <2>1
  <2>4. work' = w
    BY <1>4 DEF w
  <2>5. Len(w) # m - 1 => ~IsLoop(w[Len(w)])
    BY <2>1
  <2> HIDE DEF m
  <2> QED
    BY <1>0, <1>4, <2>2, <2>3, <2>4, <2>5, EnvQuiet DEF m
<1>5. ASSUME work # <<>>, EnvInv, UNCHANGED <<functions, current, named>>,
             NEW frame \in Frame, work' = Become(frame), LoopAlike(frame, Top)
      PROVE  EnvInv'
  <2> DEFINE w == Become(frame)
             m == Len(work)
  <2>1. Len(w) = m /\ w[m] = frame /\ \A k \in 1 .. m - 1 : w[k] = work[k]
    BY <1>0, <1>5, StackSteps
  <2> HIDE DEF w
  <2>2. \A k \in 1 .. m : LoopAlike(w[k], work[k])
    <3>1. \A k \in 1 .. m : k \in 1 .. m - 1 \/ k = m
      BY <1>0
    <3>2. \A k \in 1 .. m - 1 : LoopAlike(w[k], work[k])
      BY <2>1 DEF LoopAlike
    <3> QED
      BY <1>1, <1>5, <2>1, <3>1, <3>2
  <2>3. m <= Len(w) /\ m <= m /\ m <= m + 1 /\ Len(w) <= m + 1 /\ Len(w) \in Nat
    BY <1>0, <2>1
  <2>4. work' = w
    BY <1>5 DEF w
  <2> QED
    BY <1>0, <1>5, <2>1, <2>2, <2>3, <2>4, EnvQuiet
<1>6. CASE Visit
  <2>1. /\ work # <<>> /\ UNCHANGED <<functions, current, named>>
        /\ \/ work' = work /\ failed' = (failed \/ ret' = Null)
           \/ \E frame \in BinaryFrame \cup CallFrame \cup CondFrame \cup StartFrame :
                work' = Append(work, frame) /\ failed' = failed
    BY <1>6, VisitEffect
  <2>2. ~failed /\ EnvInv
    BY <1>0, <2>1 DEF TypeInv
  <2>3. CASE work' = work
    BY <1>2, <2>1, <2>2, <2>3
  <2>4. ASSUME NEW frame \in BinaryFrame \cup CallFrame \cup CondFrame \cup StartFrame,
               work' = Append(work, frame)
        PROVE  EnvInv'
    <3>1. frame \in Frame /\ ~IsLoop(frame)
      BY HeldBy DEF Frame
    <3> QED
      BY <1>3, <2>1, <2>2, <2>4, <3>1
  <2> QED
    BY <2>1, <2>3, <2>4
<1>7. CASE Quiet
  <2>1. /\ work # <<>> /\ UNCHANGED <<functions, current, named, failed>>
        /\ \/ work' = Pop /\ (ret = Null \/ Top \in BinaryFrame \cup CallFrame)
           \/ \E frame \in Frame : work' = Become(frame) /\ Alike(frame, Top)
    BY <1>7, QuietEffect
  <2>2. ~failed /\ EnvInv /\ ret # Null
    BY <1>0, <2>1 DEF NullInv
  <2>3. CASE work' = Pop
    <3>1. ~IsLoop(Top)
      <4>1. Top \in BinaryFrame \cup CallFrame \/ \E frame \in Frame : Pop = Become(frame)
        BY <2>1, <2>2, <2>3
      <4>2. \A frame \in Frame : Pop # Become(frame)
        <5>1. ASSUME NEW frame \in Frame PROVE Pop # Become(frame)
          <6>1. Len(Pop) = Len(work) - 1 /\ Len(Become(frame)) = Len(work)
            BY <1>0, <2>1, StackSteps
          <6> QED
            BY <1>0, <6>1
        <5> QED
          BY <5>1
      <4> QED
        BY <4>1, <4>2, HeldBy
    <3> QED
      BY <1>4, <2>1, <2>2, <2>3, <3>1
  <2>4. ASSUME NEW frame \in Frame, work' = Become(frame), Alike(frame, Top) PROVE EnvInv'
    <3>1. LoopAlike(frame, Top)
      BY <2>4, HeldBy DEF Alike, LoopAlike
    <3> QED
      BY <1>5, <2>1, <2>2, <2>4, <3>1
  <2> QED
    BY <2>1, <2>3, <2>4
<1>8. CASE IfCondition
  <2>1. /\ work # <<>> /\ Top \in CondFrame /\ Others /\ named' = named
        /\ \E frame \in ThenFrame : work' = Become(frame)
    BY <1>8, IfConditionEffect
  <2>2. PICK frame \in ThenFrame : work' = Become(frame)
    BY <2>1
  <2>3. frame \in Frame /\ LoopAlike(frame, Top)
    BY <2>1, HeldBy DEF Frame, LoopAlike
  <2> QED
    BY <1>0, <1>5, <2>1, <2>2, <2>3 DEF Others
<1>9. CASE IfThen
  <2>1. /\ work # <<>> /\ Top \in ThenFrame /\ Others /\ named' = named
        /\ \E frame \in ElseFrame : work' = Become(frame)
    BY <1>9, IfThenEffect
  <2>2. PICK frame \in ElseFrame : work' = Become(frame)
    BY <2>1
  <2>3. frame \in Frame /\ LoopAlike(frame, Top)
    BY <2>1, HeldBy DEF Frame, LoopAlike
  <2> QED
    BY <1>0, <1>5, <2>1, <2>2, <2>3 DEF Others
<1>10. CASE IfElse
  <2>1. work # <<>> /\ Top \in ElseFrame /\ Others /\ named' = named /\ work' = Pop
    BY <1>10, IfElseEffect
  <2> QED
    BY <1>0, <1>4, <2>1, HeldBy DEF Others
<1>11. CASE ForStart
  <2>1. /\ work # <<>> /\ Top \in StartFrame /\ Others
        /\ named' = [named EXCEPT ![Top.var] = Computed(Len(blocks) + 1)]
        /\ \E frame \in LoopFrame :
             /\ frame.loop = Len(blocks) + 1 /\ frame.var = Top.var
             /\ frame.old = named[Top.var] /\ work' = Become(frame)
    BY <1>11, ForStartEffect
  <2>2. PICK frame \in LoopFrame :
          /\ frame.loop = Len(blocks) + 1 /\ frame.var = Top.var
          /\ frame.old = named[Top.var] /\ work' = Become(frame)
    BY <2>1
  <2> DEFINE w == Become(frame)
             m == Len(work)
  <2>3. frame \in Frame /\ IsLoop(frame) /\ ~IsLoop(work[m]) /\ frame.var \in Var
    BY <1>1, <2>1, HeldBy DEF Frame, LoopFrame
  <2>4. Len(w) = m /\ w[m] = frame /\ \A k \in 1 .. m - 1 : w[k] = work[k]
    BY <1>0, <2>1, <2>3, StackSteps
  <2>5. PICK v : /\ v = Computed(frame.loop) /\ work' = w
                 /\ named' = [named EXCEPT ![frame.var] = v] /\ frame.old = named[frame.var]
    BY <2>1, <2>2
  <2> HIDE DEF w
  <2>6. EnvInv /\ UNCHANGED <<functions, current>> /\ m # 0
    BY <1>0, <1>1, <2>1 DEF Others
  <2>7. Opened(w, frame, v)
    BY <1>0, <2>3, <2>4, <2>5, <2>6 DEF Opened
  <2> QED
    BY <2>5, <2>6, <2>7, EnvOpens
<1>12. CASE ForEnd
  <2>1. /\ work # <<>> /\ Top \in LastFrame /\ Others
        /\ named' = [named EXCEPT ![Top.var] = Top.old] /\ work' = Pop
    BY <1>12, ForEndEffect
  <2> DEFINE w == Pop
             m == Len(work)
  <2>2. IsLoop(Top) /\ work[m] = Top /\ Top.var \in Var
    BY <1>1, <2>1, HeldBy DEF LastFrame
  <2>3. Len(w) = m - 1 /\ \A k \in 1 .. m - 1 : w[k] = work[k]
    BY <1>0, <1>1, <2>1, StackSteps
  <2>4. EnvInv /\ UNCHANGED <<functions, current>> /\ m # 0
    BY <1>0, <1>1, <2>1 DEF Others
  <2>5. work' = w
    BY <2>1
  <2> HIDE DEF w
  <2>6. Ended(w, Top)
    BY <1>0, <2>2, <2>3, <2>4 DEF Ended
  <2> QED
    BY <2>1, <2>4, <2>5, <2>6, EnvCloses
<1>13. CASE EndFunction
  BY <1>0, <1>13 DEF EndFunction
<1>14. ASSUME NEW n \in Name, NEW args \in Seq(Var), BeginFunction(n, args) PROVE EnvInv'
  <2>1. /\ current' = TheFunction(n) /\ functions'[TheFunction(n)].args = args
        /\ named' = WithArguments(NoNames, TheFunction(n), args)
        /\ work' = <<[kind |-> "body"]>>
    BY <1>0, <1>14, BeginFunctionEffect
  <2> DEFINE w == <<[kind |-> "body"]>>
  <2>2. Len(w) = 1 /\ \A k \in 1 .. 1 : ~IsLoop(w[k])
    BY DEF IsLoop
  <2>3. work' = w
    BY <2>1
  <2> HIDE DEF w
  <2>4. \A x : (Shadow(work, Len(work), x))' = WithArguments(NoNames, TheFunction(n), args)[x]
    <3>1. \A x : Loops(work, Len(work), x)' = {}
      BY <2>2, <2>3 DEF Loops, IsLoop
    <3> QED
      BY <2>1, <3>1 DEF Shadow, WithArguments, NoNames, Argument, Ids
  <2>5. (\A x \in Var : named[x] = Shadow(work, Len(work), x))'
    BY <2>1, <2>4
  <2>6. GivesBack(work)'
    BY <2>2, <2>3 DEF GivesBack, IsLoop
  <2> QED
    BY <2>5, <2>6 DEF EnvInv
<1>15. CASE (\E n \in FnName, args \in ArgLists : HandleExtern(n, args)) \/ MainLoopReturns
            \/ Stopped \/ UNCHANGED vars
  <2>1. (work = <<>> /\ work' = work) \/ UNCHANGED vars
    BY <1>15 DEF HandleExtern, MainLoopReturns, AtTop, Stopped
  <2>2. UNCHANGED vars
    BY <1>0, <2>1
  <2> QED
    BY <1>0, <1>2, <2>2 DEF vars
<1>16. CASE Handler
  <2>0. Anonymous \in Name /\ FnName \subseteq Name /\ <<>> \in Seq(Var)
        /\ \A args \in ArgLists : args \in Seq(Var)
    BY KaleidoscopeAssumption DEF Name
  <2> QED
    BY <1>14, <1>15, <1>16, <2>0
    DEF Handler, HandleDefinition, HandleTopLevelExpression
<1> QED
  BY <1>6, <1>7, <1>8, <1>9, <1>10, <1>11, <1>12, <1>13, <1>15, <1>16 DEF Next, Resume, Quiet

(* While nothing has failed a name means the variable of the innermost loop  *)
(* around it, however deep the loops are and whatever they are called: the   *)
(* frame of a loop keeps what the loops outside it hide.                     *)
THEOREM NamesAreLexical == Spec => []LexicalNames
<1> DEFINE Inv == /\ NamesInv /\ TypeInv /\ NullInv
                  /\ work # <<>> /\ ~failed => EnvInv
<1>1. Init => Inv
  <2>1. Init => work = <<>>
    BY DEF Init
  <2> QED
    BY <2>1, NamesInvInit, TypeInvInit, NullInvInit
<1>2. Inv /\ [Next]_vars => Inv'
  BY NamesInvNext, TypeInvNext, NullInvNext, EnvInvNext
<1>3. Inv => LexicalNames
  <2> SUFFICES ASSUME Inv, work # <<>>, ~failed PROVE LexicalNames
    BY DEF LexicalNames
  <2>1. EnvInv /\ DOMAIN work = 1 .. Len(work)
    BY DEF TypeInv
  <2>2. ASSUME NEW x \in Var
        PROVE  LET loops == {k \in DOMAIN work : /\ work[k].kind = "for" /\ work[k].var = x
                                                 /\ work[k].phase # "start"}
               IN named[x] = IF loops # {} THEN Computed(work[Max(loops)].loop)
                             ELSE WithArguments(NoNames, current, functions[current].args)[x]
    <3>1. {k \in DOMAIN work : /\ work[k].kind = "for" /\ work[k].var = x
                               /\ work[k].phase # "start"} = Loops(work, Len(work), x)
      BY <2>1 DEF Loops, IsLoop
    <3>2. named[x] = Shadow(work, Len(work), x)
      BY <2>1 DEF EnvInv
    <3> QED
      BY <3>1, <3>2 DEF Shadow
  <2> QED
    BY <2>2 DEF LexicalNames
<1> QED
  BY <1>1, <1>2, <1>3, PTL DEF Spec

-----------------------------------------------------------------------------
(* The graph of blocks.                                                      *)
LEMMA Pairs ==
  /\ \A x : Cardinality({x}) = 1
  /\ \A x, y : x # y => Cardinality({x, y}) = 2
<1>1. ASSUME NEW x PROVE IsFiniteSet({x}) /\ Cardinality({x}) = 1
  BY FS_Singleton
<1>2. ASSUME NEW x, NEW y, x # y PROVE Cardinality({x, y}) = 2
  <2>1. {x, y} = {x} \cup {y}
    OBVIOUS
  <2>2. y \notin {x}
    BY <1>2
  <2>3. Cardinality({x} \cup {y}) = Cardinality({x}) + 1
    BY <1>1, <2>2, FS_AddElement
  <2> QED
    BY <1>1, <2>1, <2>3
<1> QED
  BY <1>1, <1>2

LEMMA HeldSplit ==
  \A w \in Frame : /\ Awaited(w) \subseteq Held(w)
                   /\ IsThen(w) => w.merge \in Held(w)
                   /\ IsElse(w) => w.merge \in Held(w)
                   /\ IsLoop(w) => w.loop \in Held(w) /\ Awaited(w) = {}
BY HeldBy DEF Frame

LEMMA TargetsOfJump ==
  ASSUME NEW bs, NEW b, NEW targets \in SUBSET Nat
  PROVE  /\ bs[b].ends = <<>> => TargetsIn(bs, b) = {}
         /\ bs[b].ends = Append(<<>>, targets) =>
              TargetsIn(bs, b) = targets /\ Len(bs[b].ends) = 1
<1>1. ASSUME bs[b].ends = <<>> PROVE TargetsIn(bs, b) = {}
  <2>1. DOMAIN bs[b].ends = {}
    BY <1>1
  <2> QED
    BY <2>1 DEF TargetsIn
<1>2. ASSUME bs[b].ends = Append(<<>>, targets)
      PROVE  TargetsIn(bs, b) = targets /\ Len(bs[b].ends) = 1
  <2> DEFINE s == Append(<<>>, targets)
  <2>1. DOMAIN s = {1} /\ s[1] = targets /\ Len(s) = 1
    OBVIOUS
  <2> HIDE DEF s
  <2>2. TargetsIn(bs, b) = UNION {s[i] : i \in DOMAIN s}
    BY <1>2 DEF TargetsIn, s
  <2>3. UNION {s[i] : i \in DOMAIN s} = targets
    BY <2>1
  <2> QED
    BY <1>2, <2>1, <2>2, <2>3 DEF s
<1> QED
  BY <1>1, <1>2

(* A step that ends the current block with a jump.                           *)
Ends(bs, targets) ==
  /\ Len(bs) \in Nat /\ Len(blocks) \in Nat /\ Len(blocks) <= Len(bs)
  /\ targets \in SUBSET Nat
  /\ \A b \in 1 .. Len(blocks) :
       bs[b].ends = IF b = insert THEN Append(blocks[b].ends, targets) ELSE blocks[b].ends
  /\ \A b \in 1 .. Len(bs) : b \notin 1 .. Len(blocks) => bs[b].ends = <<>>

LEMMA EdgesAdded ==
  ASSUME GraphInv, NEW bs, NEW targets, Ends(bs, targets)
  PROVE  /\ \A b \in 1 .. Len(blocks) :
              TargetsIn(bs, b) = IF b = insert THEN targets ELSE TargetsIn(blocks, b)
         /\ \A b \in 1 .. Len(bs) : b \notin 1 .. Len(blocks) => TargetsIn(bs, b) = {}
         /\ Len(bs[insert].ends) = 1
         /\ \A b : b \notin targets => PredsIn(bs, b) = PredsIn(blocks, b)
         /\ \A b \in targets : PredsIn(bs, b) = PredsIn(blocks, b) \cup {insert}
         /\ \A b : insert \notin PredsIn(blocks, b)
         /\ \A b : b \notin 1 .. Len(blocks) => PredsIn(blocks, b) = {}
<1> DEFINE n == Len(blocks)
<1>1. /\ insert \in 1 .. n /\ blocks[insert].ends = <<>>
      /\ \A b \in 1 .. n : TargetsIn(blocks, b) \subseteq 1 .. n
  BY DEF GraphInv, WellBuilt
<1>2. /\ targets \in SUBSET Nat
      /\ \A b \in 1 .. n :
           bs[b].ends = IF b = insert THEN Append(blocks[b].ends, targets) ELSE blocks[b].ends
      /\ \A b \in 1 .. Len(bs) : b \notin 1 .. n => bs[b].ends = <<>>
      /\ \A b \in 1 .. n : b \in 1 .. Len(bs)
  BY DEF Ends
<1>3. bs[insert].ends = Append(<<>>, targets)
  BY <1>1, <1>2
<1>4. TargetsIn(bs, insert) = targets /\ Len(bs[insert].ends) = 1
  BY <1>2, <1>3, TargetsOfJump
<1>5. \A b \in 1 .. n : b # insert => TargetsIn(bs, b) = TargetsIn(blocks, b)
  BY <1>2 DEF TargetsIn
<1>6. \A b \in 1 .. Len(bs) : b \notin 1 .. n => TargetsIn(bs, b) = {}
  BY <1>2, TargetsOfJump
<1>7. TargetsIn(blocks, insert) = {}
  BY <1>1, <1>2, TargetsOfJump
<1> HIDE DEF n
<1>8. \A b : insert \notin PredsIn(blocks, b)
  BY <1>7 DEF PredsIn
<1>9. \A b : b \notin 1 .. n => PredsIn(blocks, b) = {}
  BY <1>1 DEF PredsIn, n
<1>10. ASSUME NEW b PROVE PredsIn(bs, b) = PredsIn(blocks, b)
                            \cup (IF b \in targets THEN {insert} ELSE {})
  <2>1. \A a \in 1 .. n : a # insert => (a \in PredsIn(bs, b) <=> a \in PredsIn(blocks, b))
    BY <1>2, <1>5 DEF PredsIn, n
  <2>2. \A a \in PredsIn(bs, b) : a \in 1 .. n
    BY <1>6 DEF PredsIn
  <2>3. insert \in PredsIn(bs, b) <=> b \in targets
    BY <1>1, <1>2, <1>4 DEF PredsIn, n
  <2>4. \A a \in PredsIn(blocks, b) : a \in 1 .. n
    BY DEF PredsIn, n
  <2> QED
    BY <1>8, <2>1, <2>2, <2>3, <2>4
<1> QED
  BY <1>4, <1>5, <1>6, <1>8, <1>9, <1>10 DEF n, Closed

(* The frames below the top keep their blocks: the step writes to those of   *)
(* the top frame and to new ones.                                            *)
LEMMA FrameStays ==
  ASSUME GraphInv, NEW bs, NEW targets, Ends(bs, targets),
         NEW w \in Frame, FrameRight(blocks, w), Held(w) \subseteq 1 .. Len(blocks),
         \A b \in Held(w) : /\ b \notin targets /\ bs[b].attached = blocks[b].attached
                            /\ bs[b].phi = blocks[b].phi
  PROVE  FrameRight(bs, w)
<1>1. /\ Awaited(w) \subseteq Held(w)
      /\ IsThen(w) => w.merge \in Held(w)
      /\ IsElse(w) => w.merge \in Held(w)
      /\ IsLoop(w) => w.loop \in Held(w)
  BY HeldSplit
<1>2. \A b \in Held(w) : PredsIn(bs, b) = PredsIn(blocks, b)
  BY EdgesAdded
<1>3. \A b \in Awaited(w) : Untouched(bs[b])
  <2>1. blocks[insert].attached
    BY DEF GraphInv, WellBuilt
  <2>2. \A b \in Awaited(w) : b # insert /\ b \in 1 .. Len(blocks) /\ Untouched(blocks[b])
    BY <1>1, <2>1 DEF FrameRight, Untouched
  <2>3. \A b \in Awaited(w) : bs[b].ends = blocks[b].ends
    BY <2>2 DEF Ends
  <2> QED
    BY <1>1, <2>2, <2>3 DEF Untouched
<1>4. IsThen(w) => w.else # w.merge /\ PredsIn(bs, w.merge) = {}
  BY <1>1, <1>2 DEF FrameRight
<1>5. IsElse(w) => PredsIn(bs, w.merge) = {w.incoming.from}
  BY <1>1, <1>2 DEF FrameRight
<1>6. IsLoop(w) => \E p \in bs[w.loop].phi :
                     bs[w.loop].phi = {p} /\ PredsIn(bs, w.loop) = {p.from}
  BY <1>1, <1>2 DEF FrameRight
<1> QED
  BY <1>3, <1>4, <1>5, <1>6 DEF FrameRight

(* What a step that jumps has to see to: the blocks of the top frame and the *)
(* ones it makes.  `own` is what it may write to.                            *)
Builds(bs, targets, at, w) ==
  LET m == Len(work)
      own == Held(Top) \cup {b \in 1 .. Len(bs) : b \notin 1 .. Len(blocks)}
  IN /\ Ends(bs, targets) /\ targets \subseteq own
     /\ \A b \in 1 .. Len(blocks) :
          /\ blocks[b].attached => bs[b].attached
          /\ b \notin own => /\ bs[b].attached = blocks[b].attached
                             /\ bs[b].phi = blocks[b].phi
     /\ at \in own /\ bs[at].attached /\ bs[at].ends = <<>>
     /\ \A k \in 1 .. m - 1 : w[k] = work[k]
     /\ Len(w) = m - 1 \/ /\ Len(w) = m /\ w[m] \in Frame
                          /\ Held(w[m]) \subseteq own /\ FrameRight(bs, w[m])
     /\ \A b \in own : PhiRight(bs, b)
     /\ \A b \in Awaited(Top) \cup (own \ Held(Top)) :
          b = at \/ Closed(bs, b) \/ (Len(w) = m /\ b \in Awaited(w[m]))

LEMMA GraphStep ==
  ASSUME TypeInv, GraphInv, work # <<>>,
         NEW bs, NEW targets, NEW at, NEW w, Builds(bs, targets, at, w)
  PROVE  WellBuilt(bs, at, w)
<1> DEFINE own == Held(Top) \cup {b \in 1 .. Len(bs) : b \notin 1 .. Len(blocks)}
<1>1. PICK m \in Nat : m = Len(work) /\ m # 0
  BY DEF TypeInv
<1>2. PICK n \in Nat : n = Len(blocks)
  BY DEF TypeInv
<1>3. /\ Ends(bs, targets) /\ targets \subseteq own
      /\ \A b \in 1 .. n : /\ blocks[b].attached => bs[b].attached
                           /\ b \notin own => /\ bs[b].attached = blocks[b].attached
                                              /\ bs[b].phi = blocks[b].phi
      /\ at \in own /\ bs[at].attached /\ bs[at].ends = <<>>
      /\ \A k \in 1 .. m - 1 : w[k] = work[k]
      /\ Len(w) = m - 1 \/ /\ Len(w) = m /\ w[m] \in Frame
                           /\ Held(w[m]) \subseteq own /\ FrameRight(bs, w[m])
      /\ \A b \in own : PhiRight(bs, b)
      /\ \A b \in Awaited(Top) \cup (own \ Held(Top)) :
           b = at \/ Closed(bs, b) \/ (Len(w) = m /\ b \in Awaited(w[m]))
  BY <1>1, <1>2 DEF Builds
<1>4. PICK N \in Nat : N = Len(bs) /\ n <= N /\ \A b \in 1 .. n : b \in 1 .. N
  BY <1>2, <1>3 DEF Ends
<1>5. /\ \A k \in 1 .. m : /\ work[k] \in Frame /\ FrameRight(blocks, work[k])
                           /\ Held(work[k]) \subseteq 1 .. n
      /\ \A i, j \in 1 .. m : i # j => Held(work[i]) \cap Held(work[j]) = {}
      /\ \A b \in 1 .. n :
           /\ b = insert \/ Closed(blocks, b) \/ \E k \in 1 .. m : b \in Awaited(work[k])
           /\ PhiRight(blocks, b) /\ TargetsIn(blocks, b) \subseteq 1 .. n
      /\ insert \in 1 .. n /\ blocks[insert].attached
  <2>1. \A k \in 1 .. m : work[k] \in Frame
    BY <1>1 DEF TypeInv
  <2>2. /\ \A k \in 1 .. m : FrameRight(blocks, work[k]) /\ Held(work[k]) \subseteq 1 .. n
        /\ \A i, j \in 1 .. m : i # j => Held(work[i]) \cap Held(work[j]) = {}
        /\ insert \in 1 .. n /\ blocks[insert].attached
    BY <1>1, <1>2 DEF GraphInv, WellBuilt
  <2>3. \A b \in 1 .. n :
          /\ b = insert \/ Closed(blocks, b) \/ \E k \in 1 .. m : b \in Awaited(work[k])
          /\ PhiRight(blocks, b) /\ TargetsIn(blocks, b) \subseteq 1 .. n
    BY <1>1, <1>2 DEF GraphInv, WellBuilt
  <2> QED
    BY <2>1, <2>2, <2>3
<1>6. /\ Top = work[m] /\ m \in 1 .. m /\ Top \in Frame
      /\ \A k \in 1 .. m - 1 : k \in 1 .. m /\ k # m
      /\ \A k \in 1 .. m : k \in 1 .. m - 1 \/ k = m
  BY <1>1, <1>5 DEF Top
<1>7. \A b \in own : b \in 1 .. N /\ (b \in Held(Top) \/ b \notin 1 .. n)
  BY <1>2, <1>4, <1>5, <1>6
<1> HIDE DEF own
<1>8. \A k \in 1 .. m - 1 : \A b \in Held(work[k]) : b \in 1 .. n /\ b \notin own
  <2>1. ASSUME NEW k \in 1 .. m - 1, NEW b \in Held(work[k])
        PROVE  b \in 1 .. n /\ b \notin own
    <3>1. b \in 1 .. n
      BY <1>5, <1>6
    <3>2. b \notin Held(Top)
      BY <1>5, <1>6
    <3> QED
      BY <1>7, <3>1, <3>2
  <2> QED
    BY <2>1
<1>9. \A k \in 1 .. m - 1 : FrameRight(bs, w[k])
  <2>1. ASSUME NEW k \in 1 .. m - 1 PROVE FrameRight(bs, w[k])
    <3>1. /\ work[k] \in Frame /\ FrameRight(blocks, work[k])
          /\ Held(work[k]) \subseteq 1 .. Len(blocks)
      BY <1>2, <1>5, <1>6
    <3>2. \A b \in Held(work[k]) : /\ b \notin targets
                                   /\ bs[b].attached = blocks[b].attached
                                   /\ bs[b].phi = blocks[b].phi
      BY <1>3, <1>8
    <3>3. FrameRight(bs, work[k])
      BY <1>3, <3>1, <3>2, FrameStays
    <3> QED
      BY <1>3, <3>3
  <2> QED
    BY <2>1
<1>10. \A k \in 1 .. Len(w) : k \in 1 .. m - 1 \/ (k = m /\ Len(w) = m)
  BY <1>1, <1>3
<1>11. \A k \in 1 .. Len(w) : FrameRight(bs, w[k]) /\ Held(w[k]) \subseteq 1 .. N
  <2>1. ASSUME NEW k \in 1 .. Len(w) PROVE FrameRight(bs, w[k]) /\ Held(w[k]) \subseteq 1 .. N
    <3>1. CASE k \in 1 .. m - 1
      BY <1>3, <1>4, <1>8, <1>9, <3>1
    <3>2. CASE k = m /\ Len(w) = m
      <4>1. Held(w[m]) \subseteq own /\ FrameRight(bs, w[m])
        BY <1>1, <1>3, <3>2
      <4> QED
        BY <1>7, <3>2, <4>1
    <3> QED
      BY <1>10, <3>1, <3>2
  <2> QED
    BY <2>1
<1>12. \A i, j \in 1 .. Len(w) : i # j => Held(w[i]) \cap Held(w[j]) = {}
  <2>1. ASSUME NEW i \in 1 .. Len(w), NEW j \in 1 .. Len(w), i # j,
               NEW b \in Held(w[i]), b \in Held(w[j])
        PROVE  FALSE
    <3>1. ASSUME NEW k \in 1 .. m - 1, Len(w) = m, b \in Held(w[k]), b \in Held(w[m])
          PROVE  FALSE
      <4>1. b \in own
        BY <1>1, <1>3, <3>1
      <4> QED
        BY <1>3, <1>8, <3>1, <4>1
    <3>2. ASSUME i \in 1 .. m - 1, j \in 1 .. m - 1 PROVE FALSE
      <4>1. b \in Held(work[i]) /\ b \in Held(work[j])
        BY <1>3, <2>1, <3>2
      <4> QED
        BY <1>5, <1>6, <2>1, <3>2, <4>1
    <3> QED
      BY <1>10, <2>1, <3>1, <3>2
  <2> QED
    BY <2>1
<1>13. /\ \A b \in 1 .. n : TargetsIn(bs, b) = IF b = insert THEN targets ELSE TargetsIn(blocks, b)
       /\ \A b \in 1 .. N : b \notin 1 .. n => TargetsIn(bs, b) = {}
       /\ \A b : b \notin targets => PredsIn(bs, b) = PredsIn(blocks, b)
       /\ Len(bs[insert].ends) = 1
  BY <1>2, <1>3, <1>4, EdgesAdded
<1>14. \A b \in 1 .. N : TargetsIn(bs, b) \subseteq 1 .. N
  <2>1. targets \subseteq 1 .. N
    BY <1>3, <1>7
  <2>2. ASSUME NEW b \in 1 .. N PROVE TargetsIn(bs, b) \subseteq 1 .. N
    <3>1. CASE b \notin 1 .. n
      BY <1>13, <3>1
    <3>2. CASE b = insert
      BY <1>5, <1>13, <2>1, <3>2
    <3>3. CASE b \in 1 .. n /\ b # insert
      BY <1>4, <1>5, <1>13, <3>3
    <3> QED
      BY <3>1, <3>2, <3>3
  <2> QED
    BY <2>2
<1>15. \A b \in 1 .. N : PhiRight(bs, b)
  <2>1. ASSUME NEW b \in 1 .. N, b \notin own PROVE PhiRight(bs, b)
    <3>1. b \in 1 .. n
      BY <1>2, <1>4, <2>1 DEF own
    <3>2. bs[b].phi = blocks[b].phi /\ PredsIn(bs, b) = PredsIn(blocks, b) /\ PhiRight(blocks, b)
      BY <1>3, <1>5, <1>13, <2>1, <3>1
    <3> QED
      BY <3>2 DEF PhiRight
  <2> QED
    BY <1>3, <2>1
<1>16. \A b \in 1 .. N : b = at \/ Closed(bs, b) \/ \E k \in 1 .. Len(w) : b \in Awaited(w[k])
  <2>1. ASSUME NEW b \in 1 .. N
        PROVE  b = at \/ Closed(bs, b) \/ \E k \in 1 .. Len(w) : b \in Awaited(w[k])
    <3>1. m \in 1 .. m /\ (Len(w) = m => m \in 1 .. Len(w))
      BY <1>1
    <3>2. CASE b \notin 1 .. n
      <4>1. b \in own
        BY <1>2, <1>4, <3>2 DEF own
      <4>2. b \notin Held(Top)
        BY <1>5, <1>6, <3>2
      <4> QED
        BY <1>3, <3>1, <4>1, <4>2
    <3>3. CASE b = insert
      <4>1. bs[b].attached
        BY <1>3, <1>5, <3>3
      <4> QED
        BY <1>13, <3>3, <4>1 DEF Closed
    <3>4. CASE b \in 1 .. n /\ b # insert /\ Closed(blocks, b)
      <4>1. bs[b].attached /\ bs[b].ends = blocks[b].ends
        BY <1>2, <1>3, <3>4 DEF Closed, Ends
      <4> QED
        BY <3>4, <4>1 DEF Closed
    <3>5. ASSUME NEW k \in 1 .. m - 1, b \in Awaited(work[k])
          PROVE  \E i \in 1 .. Len(w) : b \in Awaited(w[i])
      <4>1. k \in 1 .. Len(w)
        BY <1>1, <1>3
      <4> QED
        BY <1>3, <3>5, <4>1
    <3>6. CASE b \in Awaited(work[m])
      BY <1>3, <1>6, <3>1, <3>6
    <3> QED
      BY <1>5, <1>6, <3>2, <3>3, <3>4, <3>5, <3>6
  <2> QED
    BY <2>1
<1>17. at \in 1 .. N
  BY <1>3, <1>7
<1> QED
  BY <1>3, <1>4, <1>11, <1>12, <1>14, <1>15, <1>16, <1>17 DEF WellBuilt

(* A step that only notes what was returned, or drops a frame with no block. *)
Same(bs) == /\ Len(bs) = Len(blocks)
            /\ \A b \in 1 .. Len(blocks) :
                 /\ bs[b].attached = blocks[b].attached /\ bs[b].phi = blocks[b].phi
                 /\ bs[b].ends = blocks[b].ends
Plain(w) == ~IsThen(w) /\ ~IsElse(w) /\ ~IsLoop(w)
SameFrame(v, w) == v = w \/ (Plain(v) /\ Plain(w)) \/ (IsLoop(v) /\ IsLoop(w) /\ v.loop = w.loop)

LEMMA FrameCarried ==
  ASSUME GraphInv, NEW bs, Same(bs), NEW v, NEW w, SameFrame(v, w), FrameRight(blocks, w),
         Held(w) \subseteq 1 .. Len(blocks), Awaited(w) \subseteq Held(w),
         IsThen(w) \/ IsElse(w) => w.merge \in Held(w)
  PROVE  /\ FrameRight(bs, v) /\ Held(v) = Held(w) /\ Awaited(v) = Awaited(w)
         /\ \A b : PredsIn(bs, b) = PredsIn(blocks, b)
<1>1. \A b : PredsIn(bs, b) = PredsIn(blocks, b)
  BY DEF Same, PredsIn, TargetsIn
<1>2. Held(v) = Held(w) /\ Awaited(v) = Awaited(w)
  BY DEF SameFrame, Plain, Held, Awaited, IsLoop, IsThen, IsElse
<1>3. \A b \in Awaited(v) : Untouched(bs[b])
  <2>1. \A b \in Awaited(w) : b \in 1 .. Len(blocks) /\ Untouched(blocks[b])
    BY DEF FrameRight
  <2> QED
    BY <1>2, <2>1 DEF Same, Untouched
<1>4. IsThen(v) => v = w /\ v.else # v.merge /\ PredsIn(bs, v.merge) = {}
  BY <1>1 DEF SameFrame, Plain, FrameRight, IsLoop, IsThen
<1>5. IsElse(v) => v = w /\ PredsIn(bs, v.merge) = {v.incoming.from}
  BY <1>1 DEF SameFrame, Plain, FrameRight, IsLoop, IsElse
<1>6. IsLoop(v) => \E p \in bs[v.loop].phi :
                     bs[v.loop].phi = {p} /\ PredsIn(bs, v.loop) = {p.from}
  <2>1. ASSUME IsLoop(v) PROVE IsLoop(w) /\ v.loop = w.loop
    BY <2>1 DEF SameFrame, Plain
  <2>2. ASSUME IsLoop(v) PROVE w.loop \in 1 .. Len(blocks)
    BY <2>1, <2>2 DEF Held
  <2>3. ASSUME IsLoop(v) PROVE bs[v.loop].phi = blocks[w.loop].phi
    BY <2>1, <2>2, <2>3 DEF Same
  <2> QED
    BY <1>1, <2>1, <2>3 DEF FrameRight
<1> QED
  BY <1>1, <1>2, <1>3, <1>4, <1>5, <1>6 DEF FrameRight

(* `p` frames are as they were, and what is above them is plain.             *)
Kept(w, p) ==
  /\ p \in Nat /\ Len(work) \in p .. p + 1 /\ Len(w) \in p .. p + 1
  /\ \A k \in 1 .. p : SameFrame(w[k], work[k])
  /\ Len(work) # p => Plain(work[Len(work)])
  /\ Len(w) # p => Plain(w[Len(w)])

LEMMA GraphQuiet ==
  ASSUME TypeInv, GraphInv, NEW bs, Same(bs), NEW w, NEW p, Kept(w, p)
  PROVE  WellBuilt(bs, insert, w)
<1>1. /\ p \in Nat /\ Len(work) \in Nat /\ Len(w) \in Nat
      /\ \A k \in 1 .. p : k \in 1 .. Len(work) /\ k \in 1 .. Len(w) /\ SameFrame(w[k], work[k])
      /\ \A k \in 1 .. Len(work) : k \in 1 .. p \/ Plain(work[k])
      /\ \A k \in 1 .. Len(w) : k \in 1 .. p \/ Plain(w[k])
  <2>1. p \in Nat /\ Len(work) \in p .. p + 1 /\ Len(w) \in p .. p + 1
    BY DEF Kept
  <2>2. /\ \A k \in 1 .. Len(work) : k \in 1 .. p \/ (k = Len(work) /\ Len(work) # p)
        /\ \A k \in 1 .. Len(w) : k \in 1 .. p \/ (k = Len(w) /\ Len(w) # p)
        /\ \A k \in 1 .. p : k \in 1 .. Len(work) /\ k \in 1 .. Len(w)
    BY <2>1
  <2> QED
    BY <2>1, <2>2 DEF Kept
<1>2. \A v : Plain(v) => Held(v) = {} /\ Awaited(v) = {}
  BY DEF Plain, Held, Awaited
<1>3. \A k \in 1 .. Len(work) :
        /\ FrameRight(blocks, work[k]) /\ Held(work[k]) \subseteq 1 .. Len(blocks)
        /\ Awaited(work[k]) \subseteq Held(work[k])
        /\ IsThen(work[k]) \/ IsElse(work[k]) => work[k].merge \in Held(work[k])
  <2>1. \A k \in 1 .. Len(work) : work[k] \in Frame
    BY DEF TypeInv
  <2>2. \A k \in 1 .. Len(work) :
          FrameRight(blocks, work[k]) /\ Held(work[k]) \subseteq 1 .. Len(blocks)
    BY DEF GraphInv, WellBuilt
  <2> QED
    BY <2>1, <2>2, HeldSplit
<1>4. \A k \in 1 .. p : /\ FrameRight(bs, w[k]) /\ Held(w[k]) = Held(work[k])
                        /\ Awaited(w[k]) = Awaited(work[k])
  <2>1. ASSUME NEW k \in 1 .. p
        PROVE  /\ FrameRight(bs, w[k]) /\ Held(w[k]) = Held(work[k])
               /\ Awaited(w[k]) = Awaited(work[k])
    <3>1. /\ SameFrame(w[k], work[k]) /\ FrameRight(blocks, work[k])
          /\ Held(work[k]) \subseteq 1 .. Len(blocks)
          /\ Awaited(work[k]) \subseteq Held(work[k])
          /\ IsThen(work[k]) \/ IsElse(work[k]) => work[k].merge \in Held(work[k])
      BY <1>1, <1>3
    <3> QED
      BY <3>1, FrameCarried
  <2> QED
    BY <2>1
<1>5. \A k \in 1 .. Len(w) : FrameRight(bs, w[k]) /\ Held(w[k]) \subseteq 1 .. Len(bs)
  <2>1. ASSUME NEW k \in 1 .. Len(w), Plain(w[k])
        PROVE  FrameRight(bs, w[k]) /\ Held(w[k]) \subseteq 1 .. Len(bs)
    BY <1>2, <2>1 DEF FrameRight, Plain
  <2>2. Len(bs) = Len(blocks)
    BY DEF Same
  <2> QED
    BY <1>1, <1>3, <1>4, <2>1, <2>2
<1>6. \A i, j \in 1 .. Len(w) : i # j => Held(w[i]) \cap Held(w[j]) = {}
  <2>1. \A i, j \in 1 .. Len(work) : i # j => Held(work[i]) \cap Held(work[j]) = {}
    BY DEF GraphInv, WellBuilt
  <2> QED
    BY <1>1, <1>2, <1>4, <2>1
<1>7. \A b : PredsIn(bs, b) = PredsIn(blocks, b)
  BY DEF Same, PredsIn, TargetsIn
<1>8. /\ insert \in 1 .. Len(blocks) /\ blocks[insert].attached /\ blocks[insert].ends = <<>>
      /\ \A b \in 1 .. Len(blocks) :
           /\ b = insert \/ Closed(blocks, b) \/ \E k \in 1 .. Len(work) : b \in Awaited(work[k])
           /\ PhiRight(blocks, b) /\ TargetsIn(blocks, b) \subseteq 1 .. Len(blocks)
  BY DEF GraphInv, WellBuilt
<1>9. ASSUME NEW b \in 1 .. Len(blocks)
      PROVE  /\ b = insert \/ Closed(bs, b) \/ \E k \in 1 .. Len(w) : b \in Awaited(w[k])
             /\ PhiRight(bs, b) /\ TargetsIn(bs, b) \subseteq 1 .. Len(blocks)
  <2>1. Closed(blocks, b) => Closed(bs, b)
    BY DEF Same, Closed
  <2>2. PhiRight(bs, b)
    BY <1>7, <1>8 DEF PhiRight, Same
  <2>3. TargetsIn(bs, b) \subseteq 1 .. Len(blocks)
    BY <1>8 DEF Same, TargetsIn
  <2>4. ASSUME NEW k \in 1 .. Len(work), b \in Awaited(work[k])
        PROVE  \E i \in 1 .. Len(w) : b \in Awaited(w[i])
    <3>1. k \in 1 .. p
      BY <1>1, <1>2, <2>4
    <3> QED
      BY <1>1, <1>4, <2>4, <3>1
  <2> QED
    BY <1>8, <2>1, <2>2, <2>3, <2>4
<1> QED
  BY <1>5, <1>6, <1>8, <1>9 DEF WellBuilt, Same

LEMMA TopBlocks ==
  ASSUME TypeInv, GraphInv, work # <<>>
  PROVE  /\ Len(work) \in 1 .. Len(work) /\ Top = work[Len(work)] /\ Top \in Frame
         /\ FrameRight(blocks, Top) /\ Held(Top) \subseteq 1 .. Len(blocks)
         /\ insert \in 1 .. Len(blocks) /\ blocks[insert].attached
         /\ blocks[insert].ends = <<>> /\ insert \notin Awaited(Top)
<1>1. Len(work) \in 1 .. Len(work) /\ Top \in Frame
  BY StackSteps DEF TypeInv, Frame, BodyFrame
<1>2. FrameRight(blocks, Top) /\ Held(Top) \subseteq 1 .. Len(blocks)
  BY <1>1 DEF GraphInv, WellBuilt, Top
<1> QED
  BY <1>1, <1>2 DEF GraphInv, WellBuilt, Top, FrameRight, Untouched

LEMMA NewBlockKnown ==
  /\ NewBlock(TRUE).attached /\ Untouched(NewBlock(FALSE))
  /\ \A a : NewBlock(a).ends = <<>> /\ NewBlock(a).phi = {}
BY DEF NewBlock, Untouched

LEMMA NoPhi == \A bs, b : bs[b].phi = {} => PhiRight(bs, b)
BY DEF PhiRight

LEMMA IfConditionGraph == TypeInv /\ GraphInv /\ IfCondition => GraphInv'
<1> SUFFICES ASSUME TypeInv, GraphInv, IfCondition PROVE GraphInv'
  OBVIOUS
<1>1. PICK n \in Nat : n = Len(blocks)
  BY DEF TypeInv
<1>2. PICK bs \in Seq(BlockType) : bs = blocks'
  BY IfConditionEffect
<1>3. /\ work # <<>> /\ Top \in CondFrame /\ insert' = n + 1
      /\ Len(bs) = n + 3 /\ Jumped({n + 1, n + 2}, {ret})
      /\ \A b \in 1 .. n : bs[b].attached = blocks[b].attached /\ bs[b].phi = blocks[b].phi
      /\ bs[n + 1] = NewBlock(TRUE) /\ bs[n + 2] = NewBlock(FALSE)
      /\ bs[n + 3] = NewBlock(FALSE)
  BY <1>1, <1>2, IfConditionEffect
<1>4. PICK frame \in ThenFrame :
        frame.else = n + 2 /\ frame.merge = n + 3 /\ work' = Become(frame)
  BY <1>1, IfConditionEffect
<1>5. \A b \in 1 .. n + 3 : b \notin 1 .. n => b \in {n + 1, n + 2, n + 3}
  OBVIOUS
<1>6. Ends(bs, {n + 1, n + 2})
  <2>1. \A b \in 1 .. n + 3 : b \notin 1 .. n => bs[b].ends = <<>>
    BY <1>3, <1>5, NewBlockKnown
  <2>2. n + 3 \in Nat /\ n <= n + 3 /\ {n + 1, n + 2} \in SUBSET Nat
    OBVIOUS
  <2>3. \A b \in 1 .. n : bs[b].ends = IF b = insert THEN Append(blocks[b].ends, {n + 1, n + 2})
                                                     ELSE blocks[b].ends
    BY <1>1, <1>2, <1>3 DEF Jumped
  <2> QED
    BY <1>1, <1>3, <2>1, <2>2, <2>3 DEF Ends
<1>7. frame \in Frame /\ Held(frame) = {n + 2, n + 3} /\ Awaited(frame) = {n + 2, n + 3}
      /\ IsThen(frame) /\ ~IsElse(frame) /\ ~IsLoop(frame)
  BY <1>4, HeldBy DEF Frame
<1>8. FrameRight(bs, frame)
  <2>1. n + 3 \notin {n + 1, n + 2} /\ n + 3 \notin 1 .. n /\ n + 2 # n + 3
    OBVIOUS
  <2>2. PredsIn(bs, n + 3) = {}
    BY <1>1, <1>6, <2>1, EdgesAdded
  <2> QED
    BY <1>3, <1>4, <1>7, <2>1, <2>2, NewBlockKnown DEF FrameRight
<1>9. Held(Top) = {} /\ Awaited(Top) = {}
  BY <1>3, HeldBy
<1>10. PICK w : w = Become(frame)
  OBVIOUS
<1>11. /\ Len(w) = Len(work) /\ w[Len(work)] = frame
       /\ \A k \in 1 .. Len(work) - 1 : w[k] = work[k]
  BY <1>3, <1>7, <1>10, StackSteps DEF TypeInv
<1> DEFINE own == Held(Top) \cup {b \in 1 .. Len(bs) : b \notin 1 .. Len(blocks)}
<1>12. own = {n + 1, n + 2, n + 3}
  <2>1. n + 1 \in 1 .. n + 3 /\ n + 2 \in 1 .. n + 3 /\ n + 3 \in 1 .. n + 3
        /\ n + 1 \notin 1 .. n /\ n + 2 \notin 1 .. n /\ n + 3 \notin 1 .. n
    OBVIOUS
  <2> QED
    BY <1>1, <1>3, <1>5, <1>9, <2>1
<1>13. Builds(bs, {n + 1, n + 2}, n + 1, w)
  <2> HIDE DEF own
  <2>1. \A b \in own : PhiRight(bs, b)
    <3>1. bs[n + 1].phi = {} /\ bs[n + 2].phi = {} /\ bs[n + 3].phi = {}
      BY <1>3, NewBlockKnown
    <3>2. PhiRight(bs, n + 1) /\ PhiRight(bs, n + 2) /\ PhiRight(bs, n + 3)
      BY <3>1, NoPhi
    <3> QED
      BY <1>12, <3>2
  <2>2. bs[n + 1].attached /\ bs[n + 1].ends = <<>>
    BY <1>3, NewBlockKnown
  <2>3. \A b \in own : b = n + 1 \/ b \in Awaited(frame)
    BY <1>7, <1>12
  <2>4. {n + 1, n + 2} \subseteq own /\ n + 1 \in own /\ Held(frame) \subseteq own
    BY <1>7, <1>12
  <2>5. \A b \in 1 .. Len(blocks) :
          bs[b].attached = blocks[b].attached /\ bs[b].phi = blocks[b].phi
    BY <1>1, <1>3
  <2> QED
    BY <1>6, <1>7, <1>8, <1>9, <1>11, <2>1, <2>2, <2>3, <2>4, <2>5 DEF Builds, own
<1>14. WellBuilt(bs, n + 1, w)
  BY <1>3, <1>13, GraphStep
<1> QED
  BY <1>2, <1>3, <1>4, <1>10, <1>14 DEF GraphInv

LEMMA IfThenGraph == TypeInv /\ GraphInv /\ IfThen => GraphInv'
<1> SUFFICES ASSUME TypeInv, GraphInv, IfThen PROVE GraphInv'
  OBVIOUS
<1>1. PICK n \in Nat : n = Len(blocks)
  BY DEF TypeInv
<1>2. PICK bs \in Seq(BlockType) : bs = blocks'
  BY IfThenEffect
<1>3. PICK e, g : e = Top.else /\ g = Top.merge
  OBVIOUS
<1>4. /\ work # <<>> /\ Top \in ThenFrame /\ e \in 1 .. n /\ g \in 1 .. n /\ insert' = e
      /\ Len(bs) = n /\ Jumped({g}, {})
      /\ \A b \in 1 .. n : /\ bs[b].attached = (b = e \/ blocks[b].attached)
                           /\ bs[b].phi = blocks[b].phi
  BY <1>1, <1>2, <1>3, IfThenEffect
<1>5. PICK frame \in ElseFrame :
        /\ frame.merge = g /\ frame.incoming = [val |-> ret, from |-> insert]
        /\ work' = Become(frame)
  BY <1>3, IfThenEffect
<1>6. Held(Top) = {e, g} /\ Awaited(Top) = {e, g} /\ IsThen(Top)
  BY <1>3, <1>4, HeldBy
<1>7. /\ FrameRight(blocks, Top) /\ insert \in 1 .. n /\ insert \notin {e, g}
      /\ \A b \in 1 .. n : blocks[b].attached \in BOOLEAN
  <2>1. \A b \in 1 .. n : blocks[b] \in BlockType
    BY <1>1 DEF TypeInv
  <2> QED
    BY <1>1, <1>4, <1>6, <2>1, TopBlocks DEF BlockType
<1>8. /\ Untouched(blocks[e]) /\ Untouched(blocks[g]) /\ e # g /\ PredsIn(blocks, g) = {}
  BY <1>3, <1>6, <1>7 DEF FrameRight
<1>9. \A b \in 1 .. n : bs[b].ends = IF b = insert THEN Append(blocks[b].ends, {g})
                                                   ELSE blocks[b].ends
  BY <1>1, <1>2, <1>4 DEF Jumped
<1>10. Ends(bs, {g})
  <2>1. {g} \in SUBSET Nat /\ n <= n
    BY <1>4
  <2> QED
    BY <1>1, <1>4, <1>9, <2>1 DEF Ends
<1>11. frame \in Frame /\ Held(frame) = {g} /\ Awaited(frame) = {g}
       /\ ~IsThen(frame) /\ IsElse(frame) /\ ~IsLoop(frame)
  BY <1>5, HeldBy DEF Frame
<1>12. \A b \in {e, g} : bs[b].ends = <<>> /\ bs[b].phi = {}
  BY <1>4, <1>7, <1>8, <1>9 DEF Untouched
<1>13. bs[e].attached /\ bs[g].attached = FALSE
  BY <1>4, <1>7, <1>8, Zenon DEF Untouched
<1>14. FrameRight(bs, frame)
  <2>1. PredsIn(bs, g) = {insert}
    BY <1>8, <1>10, EdgesAdded
  <2>2. frame.incoming.from = insert
    BY <1>5
  <2>3. Untouched(bs[g])
    BY <1>12, <1>13 DEF Untouched
  <2> QED
    BY <1>5, <1>11, <2>1, <2>2, <2>3 DEF FrameRight
<1>15. PICK w : w = Become(frame)
  OBVIOUS
<1>16. /\ Len(w) = Len(work) /\ w[Len(work)] = frame
       /\ \A k \in 1 .. Len(work) - 1 : w[k] = work[k]
  BY <1>4, <1>11, <1>15, StackSteps DEF TypeInv
<1> DEFINE own == Held(Top) \cup {b \in 1 .. Len(bs) : b \notin 1 .. Len(blocks)}
<1>17. own = {e, g}
  BY <1>1, <1>4, <1>6
<1>18. Builds(bs, {g}, e, w)
  <2> HIDE DEF own
  <2>1. \A b \in own : PhiRight(bs, b)
    BY <1>12, <1>17, NoPhi
  <2>2. bs[e].ends = <<>> /\ {g} \subseteq own /\ e \in own /\ Held(frame) \subseteq own
    BY <1>11, <1>12, <1>17
  <2>3. \A b \in own : b = e \/ b \in Awaited(frame)
    BY <1>11, <1>17
  <2>4. \A b \in 1 .. Len(blocks) :
          /\ blocks[b].attached => bs[b].attached
          /\ b \notin own => bs[b].attached = blocks[b].attached /\ bs[b].phi = blocks[b].phi
    <3>1. ASSUME NEW b \in 1 .. n
          PROVE  /\ blocks[b].attached => bs[b].attached
                 /\ b \notin own => bs[b].attached = blocks[b].attached
                                    /\ bs[b].phi = blocks[b].phi
      <4>1. bs[b].attached = (b = e \/ blocks[b].attached) /\ bs[b].phi = blocks[b].phi
            /\ blocks[b].attached \in BOOLEAN
        BY <1>4, <1>7
      <4>2. b \notin own => b # e
        BY <1>17
      <4> QED
        BY <4>1, <4>2, Zenon
    <3> QED
      BY <1>1, <3>1
  <2>5. Awaited(Top) \cup (own \ Held(Top)) \subseteq own
    BY <1>6, <1>17
  <2>6. \A b \in Awaited(Top) \cup (own \ Held(Top)) :
          b = e \/ Closed(bs, b) \/ (Len(w) = Len(work) /\ b \in Awaited(w[Len(work)]))
    BY <1>16, <2>3, <2>5
  <2>7. Len(w) = Len(work) /\ w[Len(work)] \in Frame /\ Held(w[Len(work)]) \subseteq own
        /\ FrameRight(bs, w[Len(work)])
    BY <1>11, <1>14, <1>16, <2>2
  <2> QED
    BY <1>10, <1>13, <1>16, <2>1, <2>2, <2>4, <2>6, <2>7, Zenon DEF Builds, own
<1>19. WellBuilt(bs, e, w)
  BY <1>4, <1>18, GraphStep
<1> QED
  BY <1>2, <1>4, <1>5, <1>15, <1>19 DEF GraphInv

LEMMA IfElseGraph == TypeInv /\ GraphInv /\ IfElse => GraphInv'
<1> SUFFICES ASSUME TypeInv, GraphInv, IfElse PROVE GraphInv'
  OBVIOUS
<1>1. PICK n \in Nat : n = Len(blocks)
  BY DEF TypeInv
<1>2. PICK bs \in Seq(BlockType) : bs = blocks'
  BY IfElseEffect
<1>3. PICK g, p, q : g = Top.merge /\ p = Top.incoming /\ q = [val |-> ret, from |-> insert]
  OBVIOUS
<1>4. /\ work # <<>> /\ Top \in ElseFrame /\ g \in 1 .. n /\ insert' = g
      /\ Len(bs) = n /\ Jumped({g}, {}) /\ work' = Pop
      /\ \A b \in 1 .. n : /\ bs[b].attached = (b = g \/ blocks[b].attached)
                           /\ bs[b].phi = IF b = g THEN {p, q} ELSE blocks[b].phi
  BY <1>1, <1>2, <1>3, IfElseEffect
<1>6. Held(Top) = {g} /\ Awaited(Top) = {g} /\ IsElse(Top)
  BY <1>3, <1>4, HeldBy
<1>7. /\ FrameRight(blocks, Top) /\ insert \in 1 .. n /\ insert # g
      /\ \A b \in 1 .. n : blocks[b].attached \in BOOLEAN
  <2>1. \A b \in 1 .. n : blocks[b] \in BlockType
    BY <1>1 DEF TypeInv
  <2> QED
    BY <1>1, <1>4, <1>6, <2>1, TopBlocks DEF BlockType
<1>8. Untouched(blocks[g]) /\ PredsIn(blocks, g) = {p.from}
  BY <1>3, <1>6, <1>7 DEF FrameRight
<1>9. \A b \in 1 .. n : bs[b].ends = IF b = insert THEN Append(blocks[b].ends, {g})
                                                   ELSE blocks[b].ends
  BY <1>1, <1>2, <1>4 DEF Jumped
<1>10. Ends(bs, {g})
  <2>1. {g} \in SUBSET Nat /\ n <= n
    BY <1>4
  <2> QED
    BY <1>1, <1>4, <1>9, <2>1 DEF Ends
<1>11. bs[g].ends = <<>> /\ bs[g].phi = {p, q}
  BY <1>4, <1>7, <1>8, <1>9 DEF Untouched
<1>12. bs[g].attached
  BY <1>4, Zenon
<1>13. PhiRight(bs, g)
  <2>1. PredsIn(bs, g) = {p.from, insert} /\ p.from # insert
    BY <1>8, <1>10, EdgesAdded
  <2>2. q.from = insert /\ p # q
    BY <1>3, <2>1
  <2>3. {r.from : r \in {p, q}} = {p.from, insert}
    BY <2>2
  <2>4. Cardinality({p, q}) = 2 /\ Cardinality({p.from, insert}) = 2
    BY <2>1, <2>2, Pairs
  <2> QED
    BY <1>11, <2>1, <2>3, <2>4 DEF PhiRight
<1>15. PICK w : w = Pop
  OBVIOUS
<1>16. Len(w) = Len(work) - 1 /\ \A k \in 1 .. Len(work) - 1 : w[k] = work[k]
  BY <1>4, <1>15, StackSteps DEF TypeInv, Frame, BodyFrame
<1> DEFINE own == Held(Top) \cup {b \in 1 .. Len(bs) : b \notin 1 .. Len(blocks)}
<1>17. own = {g}
  BY <1>1, <1>4, <1>6
<1>18. Builds(bs, {g}, g, w)
  <2> HIDE DEF own
  <2>1. \A b \in own : PhiRight(bs, b)
    BY <1>13, <1>17
  <2>2. {g} \subseteq own /\ g \in own
    BY <1>17
  <2>4. \A b \in 1 .. Len(blocks) :
          /\ blocks[b].attached => bs[b].attached
          /\ b \notin own => bs[b].attached = blocks[b].attached /\ bs[b].phi = blocks[b].phi
    <3>1. ASSUME NEW b \in 1 .. n
          PROVE  /\ blocks[b].attached => bs[b].attached
                 /\ b \notin own => bs[b].attached = blocks[b].attached
                                    /\ bs[b].phi = blocks[b].phi
      <4>1. /\ bs[b].attached = (b = g \/ blocks[b].attached)
            /\ b # g => bs[b].phi = blocks[b].phi
            /\ blocks[b].attached \in BOOLEAN
        BY <1>4, <1>7
      <4>2. b \notin own => b # g
        BY <1>17
      <4> QED
        BY <4>1, <4>2, Zenon
    <3> QED
      BY <1>1, <3>1
  <2>5. Awaited(Top) \cup (own \ Held(Top)) = {g}
    BY <1>6, <1>17
  <2>6. \A b \in Awaited(Top) \cup (own \ Held(Top)) :
          b = g \/ Closed(bs, b) \/ (Len(w) = Len(work) /\ b \in Awaited(w[Len(work)]))
    BY <2>5
  <2> QED
    BY <1>10, <1>11, <1>12, <1>16, <2>1, <2>2, <2>4, <2>6, Zenon DEF Builds, own
<1>19. WellBuilt(bs, g, w)
  BY <1>4, <1>18, GraphStep
<1> QED
  BY <1>2, <1>4, <1>15, <1>19 DEF GraphInv

LEMMA ForStartGraph == TypeInv /\ GraphInv /\ ForStart => GraphInv'
<1> SUFFICES ASSUME TypeInv, GraphInv, ForStart PROVE GraphInv'
  OBVIOUS
<1>1. PICK n \in Nat : n = Len(blocks)
  BY DEF TypeInv
<1>2. PICK bs \in Seq(BlockType) : bs = blocks'
  BY ForStartEffect
<1>a. PICK h \in Nat : h = n + 1
  OBVIOUS
<1>b. PICK q : q = [val |-> ret, from |-> insert]
  OBVIOUS
<1>3. h = n + 1 /\ q = [val |-> ret, from |-> insert]
  BY <1>a, <1>b
<1>4. /\ work # <<>> /\ Top \in StartFrame /\ insert' = h
      /\ Len(bs) = n + 1 /\ Jumped({h}, {})
      /\ \A b \in 1 .. n : bs[b].attached = blocks[b].attached /\ bs[b].phi = blocks[b].phi
      /\ bs[h].attached /\ bs[h].phi = {q} /\ bs[h].ends = <<>>
  BY <1>1, <1>2, <1>3, ForStartEffect
<1>5. PICK frame \in LoopFrame : frame.loop = h /\ work' = Become(frame)
  BY <1>1, <1>3, ForStartEffect
<1>6. Held(Top) = {} /\ Awaited(Top) = {}
  BY <1>4, HeldBy
<1>7. \A b \in 1 .. n + 1 : b \notin 1 .. n => b = h
  BY <1>3
<1>8. h \in 1 .. n + 1 /\ h \notin 1 .. n /\ n <= n + 1 /\ n + 1 \in Nat
  BY <1>3
<1>9. \A b \in 1 .. n : bs[b].ends = IF b = insert THEN Append(blocks[b].ends, {h})
                                                   ELSE blocks[b].ends
  BY <1>1, <1>2, <1>4 DEF Jumped
<1>10. Ends(bs, {h})
  <2>1. {h} \in SUBSET Nat
    OBVIOUS
  <2> QED
    BY <1>1, <1>4, <1>7, <1>8, <1>9, <2>1 DEF Ends
<1>11. frame \in Frame /\ Held(frame) = {h} /\ Awaited(frame) = {}
       /\ ~IsThen(frame) /\ ~IsElse(frame) /\ IsLoop(frame)
  BY <1>5, HeldBy DEF Frame
<1>12. PredsIn(bs, h) = {insert} /\ q.from = insert
  BY <1>1, <1>3, <1>8, <1>10, EdgesAdded
<1>13. PhiRight(bs, h)
  <2>1. {r.from : r \in {q}} = {insert}
    BY <1>12
  <2> QED
    BY <1>4, <1>12, <2>1, Pairs DEF PhiRight
<1>14. FrameRight(bs, frame)
  BY <1>4, <1>5, <1>11, <1>12 DEF FrameRight
<1>15. PICK w : w = Become(frame)
  OBVIOUS
<1>16. /\ Len(w) = Len(work) /\ w[Len(work)] = frame
       /\ \A k \in 1 .. Len(work) - 1 : w[k] = work[k]
  BY <1>4, <1>11, <1>15, StackSteps DEF TypeInv
<1> DEFINE own == Held(Top) \cup {b \in 1 .. Len(bs) : b \notin 1 .. Len(blocks)}
<1>17. own = {h}
  BY <1>1, <1>4, <1>6, <1>7, <1>8
<1>18. Builds(bs, {h}, h, w)
  <2> HIDE DEF own
  <2>1. \A b \in own : PhiRight(bs, b)
    BY <1>13, <1>17
  <2>2. {h} \subseteq own /\ h \in own /\ Held(frame) \subseteq own
    BY <1>11, <1>17
  <2>3. \A b \in Awaited(Top) \cup (own \ Held(Top)) : b = h
    BY <1>6, <1>17
  <2>4. \A b \in 1 .. Len(blocks) :
          bs[b].attached = blocks[b].attached /\ bs[b].phi = blocks[b].phi
    BY <1>1, <1>4
  <2> QED
    BY <1>4, <1>10, <1>11, <1>14, <1>16, <2>1, <2>2, <2>3, <2>4, Zenon DEF Builds, own
<1>19. WellBuilt(bs, h, w)
  BY <1>4, <1>18, GraphStep
<1> QED
  BY <1>2, <1>4, <1>5, <1>15, <1>19 DEF GraphInv

LEMMA ForEndGraph == TypeInv /\ GraphInv /\ ForEnd => GraphInv'
<1> SUFFICES ASSUME TypeInv, GraphInv, ForEnd PROVE GraphInv'
  OBVIOUS
<1>1. PICK n \in Nat : n = Len(blocks)
  BY DEF TypeInv
<1>2. PICK bs \in Seq(BlockType) : bs = blocks'
  BY ForEndEffect
<1>a. PICK h \in Nat : h = n + 1
  OBVIOUS
<1>b. PICK l, q : l = Top.loop /\ q = [val |-> Top.step, from |-> insert]
  OBVIOUS
<1>3. h = n + 1 /\ l = Top.loop /\ q = [val |-> Top.step, from |-> insert]
  BY <1>a, <1>b
<1>4. /\ work # <<>> /\ Top \in LastFrame /\ l \in 1 .. n /\ insert' = h
      /\ Len(bs) = n + 1 /\ Jumped({l, h}, {ret}) /\ work' = Pop
      /\ \A b \in 1 .. n : /\ bs[b].attached = blocks[b].attached
                           /\ bs[b].phi = IF b = l THEN blocks[b].phi \cup {q}
                                                   ELSE blocks[b].phi
      /\ bs[h] = NewBlock(TRUE)
  BY <1>1, <1>2, <1>3, ForEndEffect
<1>5. bs[h].attached /\ bs[h].phi = {} /\ bs[h].ends = <<>>
  BY <1>4, NewBlockKnown
<1>6. Held(Top) = {l} /\ Awaited(Top) = {} /\ IsLoop(Top)
  BY <1>3, <1>4, HeldBy
<1>7. \A b \in 1 .. n + 1 : b \notin 1 .. n => b = h
  BY <1>3
<1>8. h \in 1 .. n + 1 /\ h \notin 1 .. n /\ n <= n + 1 /\ n + 1 \in Nat /\ l # h
  BY <1>3, <1>4
<1>9. \A b \in 1 .. n : bs[b].ends = IF b = insert THEN Append(blocks[b].ends, {l, h})
                                                   ELSE blocks[b].ends
  BY <1>1, <1>2, <1>4 DEF Jumped
<1>10. Ends(bs, {l, h})
  <2>1. {l, h} \in SUBSET Nat
    BY <1>4
  <2> QED
    BY <1>1, <1>4, <1>5, <1>7, <1>8, <1>9, <2>1 DEF Ends
<1>11. PICK p : blocks[l].phi = {p} /\ PredsIn(blocks, l) = {p.from}
  BY <1>3, <1>4, <1>6, TopBlocks DEF FrameRight
<1>12. PhiRight(bs, l)
  <2>1. PredsIn(bs, l) = {p.from, insert} /\ p.from # insert
    BY <1>10, <1>11, EdgesAdded
  <2>2. q.from = insert /\ p # q
    BY <1>3, <2>1
  <2>3. {r.from : r \in {p, q}} = {p.from, insert}
    BY <2>2
  <2>4. Cardinality({p, q}) = 2 /\ Cardinality({p.from, insert}) = 2
    BY <2>1, <2>2, Pairs
  <2>5. bs[l].phi = {p, q}
    BY <1>4, <1>11
  <2> QED
    BY <2>1, <2>3, <2>4, <2>5 DEF PhiRight
<1>13. PhiRight(bs, h)
  BY <1>5, NoPhi
<1>15. PICK w : w = Pop
  OBVIOUS
<1>16. Len(w) = Len(work) - 1 /\ \A k \in 1 .. Len(work) - 1 : w[k] = work[k]
  BY <1>4, <1>15, StackSteps DEF TypeInv, Frame, BodyFrame
<1> DEFINE own == Held(Top) \cup {b \in 1 .. Len(bs) : b \notin 1 .. Len(blocks)}
<1>17. own = {l, h}
  BY <1>1, <1>4, <1>6, <1>7, <1>8
<1>18. Builds(bs, {l, h}, h, w)
  <2> HIDE DEF own
  <2>1. \A b \in own : PhiRight(bs, b)
    BY <1>12, <1>13, <1>17
  <2>2. {l, h} \subseteq own /\ h \in own
    BY <1>17
  <2>3. \A b \in Awaited(Top) \cup (own \ Held(Top)) : b = h
    BY <1>6, <1>17
  <2>4. \A b \in 1 .. Len(blocks) :
          /\ bs[b].attached = blocks[b].attached
          /\ b \notin own => bs[b].phi = blocks[b].phi
    BY <1>1, <1>4, <1>17
  <2> QED
    BY <1>5, <1>10, <1>16, <2>1, <2>2, <2>3, <2>4, Zenon DEF Builds, own
<1>19. WellBuilt(bs, h, w)
  BY <1>4, <1>18, GraphStep
<1> QED
  BY <1>2, <1>4, <1>15, <1>19 DEF GraphInv

LEMMA GraphInvNext ==
  ASSUME NamesInv, TypeInv, NullInv, [Next]_vars,
         work # <<>> /\ ~failed => GraphInv, (work # <<>> /\ ~failed)'
  PROVE  GraphInv'
<1>0. /\ work \in Seq(Frame) /\ Len(work) \in Nat /\ blocks \in Seq(BlockType)
      /\ work' # <<>> /\ ~failed'
  BY DEF TypeInv
<1>1. ASSUME work # <<>>
      PROVE  Len(work) # 0 /\ Top = work[Len(work)] /\ Top \in Frame /\ Len(work) - 1 \in Nat
  BY <1>0, <1>1, StackSteps DEF Frame, BodyFrame, Top
<1>2. /\ Same(blocks) /\ \A w : SameFrame(w, w)
      /\ \A w \in BodyFrame \cup BinaryFrame \cup CallFrame \cup CondFrame \cup StartFrame : Plain(w)
  BY HeldBy DEF Same, SameFrame, Plain
<1>3. ASSUME GraphInv, NEW bs, Same(bs), NEW w, NEW p, Kept(w, p),
             insert' = insert, blocks' = bs, work' = w
      PROVE  GraphInv'
  <2>1. WellBuilt(bs, insert, w)
    BY <1>3, GraphQuiet
  <2> QED
    BY <1>3, <2>1 DEF GraphInv
<1>4. ASSUME GraphInv, work # <<>>, UNCHANGED <<blocks, insert, work>> PROVE GraphInv'
  BY <1>4 DEF GraphInv
<1>5. CASE Visit
  <2>1. /\ work # <<>> /\ UNCHANGED <<blocks, insert>>
        /\ \/ work' = work /\ failed' = (failed \/ ret' = Null)
           \/ \E frame \in BinaryFrame \cup CallFrame \cup CondFrame \cup StartFrame :
                work' = Append(work, frame) /\ failed' = failed
    BY <1>5, VisitEffect
  <2>2. GraphInv
    BY <1>0, <2>1 DEF TypeInv
  <2>3. ASSUME NEW frame \in BinaryFrame \cup CallFrame \cup CondFrame \cup StartFrame,
               work' = Append(work, frame)
        PROVE  GraphInv'
    <3>1. frame \in Frame /\ Plain(frame)
      BY <1>2 DEF Frame
    <3>2. PICK w : w = Append(work, frame)
      OBVIOUS
    <3>3. PICK m \in Nat : m = Len(work)
      BY <1>0
    <3>4. Len(w) = m + 1 /\ w[m + 1] = frame /\ \A k \in 1 .. m : w[k] = work[k]
      BY <1>0, <3>1, <3>2, <3>3, StackSteps
    <3>5. Kept(w, m)
      BY <1>2, <3>1, <3>3, <3>4 DEF Kept
    <3>6. PICK bs : bs = blocks
      OBVIOUS
    <3> QED
      BY <1>2, <1>3, <2>1, <2>2, <2>3, <3>2, <3>5, <3>6
  <2> QED
    BY <1>4, <2>1, <2>2, <2>3
<1>6. CASE Quiet
  <2>1. /\ work # <<>> /\ UNCHANGED <<insert, failed>> /\ Top.kind # "body"
        /\ blocks' = blocks \/ \E vals \in SUBSET Val : blocks' = Use(blocks, vals)
        /\ \/ work' = Pop /\ (ret = Null \/ Top \in BinaryFrame \cup CallFrame)
           \/ \E frame \in Frame : work' = Become(frame) /\ Alike(frame, Top)
    BY <1>6, QuietEffect
  <2>2. GraphInv /\ ret # Null
    BY <1>0, <2>1 DEF NullInv
  <2>3. PICK bs : bs = blocks' /\ Same(bs)
    <3>1. insert \in 1 .. Len(blocks)
      BY <2>2 DEF GraphInv, WellBuilt
    <3>2. \A vals \in SUBSET Val : Same(Use(blocks, vals))
      BY <1>0, <3>1, UseKeeps DEF Same
    <3> QED
      BY <1>2, <2>1, <3>2
  <2>4. PICK m \in Nat : m = Len(work) /\ m # 0 /\ m - 1 \in Nat
    BY <1>0, <1>1, <2>1
  <2>5. PICK w : w = work'
    OBVIOUS
  <2>6. PICK p : Kept(w, p)
    <3>1. CASE w = Pop /\ Top \in BinaryFrame \cup CallFrame
      <4>1. Len(w) = m - 1 /\ \A k \in 1 .. m - 1 : w[k] = work[k]
        BY <1>0, <1>1, <2>1, <2>4, <3>1, StackSteps
      <4>2. Plain(work[m])
        BY <1>1, <1>2, <2>1, <2>4, <3>1
      <4>3. Kept(w, m - 1)
        BY <1>2, <2>4, <4>1, <4>2 DEF Kept
      <4> QED
        BY <4>3
    <3>2. ASSUME NEW frame \in Frame, w = Become(frame), Alike(frame, Top)
          PROVE  Kept(w, m)
      <4>1. Len(w) = m /\ w[m] = frame /\ \A k \in 1 .. m - 1 : w[k] = work[k]
        BY <1>0, <2>1, <2>4, <3>2, StackSteps
      <4>2. SameFrame(frame, Top)
        BY <3>2, HeldBy DEF Alike, SameFrame, Plain
      <4>3. \A k \in 1 .. m : k \in 1 .. m - 1 \/ k = m
        BY <2>4
      <4>4. \A k \in 1 .. m : SameFrame(w[k], work[k])
        BY <1>1, <1>2, <2>1, <2>4, <4>1, <4>2, <4>3
      <4> QED
        BY <2>4, <4>1, <4>4 DEF Kept
    <3> QED
      BY <2>1, <2>2, <2>5, <3>1, <3>2
  <2> QED
    BY <1>3, <2>1, <2>2, <2>3, <2>5, <2>6
<1>7. CASE IfCondition \/ IfThen \/ IfElse \/ ForStart \/ ForEnd
  <2>1. work # <<>> /\ failed' = failed
    BY <1>7 DEF IfCondition, IfThen, IfElse, ForStart, ForEnd, Phase, Returned
  <2>2. GraphInv
    BY <1>0, <2>1
  <2> QED
    BY <1>7, <2>2, IfConditionGraph, IfThenGraph, IfElseGraph, ForStartGraph, ForEndGraph
<1>8. CASE EndFunction
  BY <1>0, <1>8 DEF EndFunction
<1>9. ASSUME NEW n \in Name, NEW args \in Seq(Var), BeginFunction(n, args) PROVE GraphInv'
  <2>1. blocks' = <<NewBlock(TRUE)>> /\ insert' = 1 /\ work' = <<[kind |-> "body"]>>
    BY <1>0, <1>9, BeginFunctionEffect
  <2> DEFINE B == NewBlock(TRUE)
             F == [kind |-> "body"]
  <2>2. B.attached /\ B.ends = <<>> /\ B.phi = {} /\ Plain(F)
    BY <1>2, NewBlockKnown DEF BodyFrame
  <2> HIDE DEF B, F
  <2>3. PICK bs, w : bs = <<B>> /\ w = <<F>>
    OBVIOUS
  <2>4. Len(bs) = 1 /\ bs[1] = B /\ Len(w) = 1 /\ w[1] = F
    BY <2>3
  <2>5. \A k \in 1 .. 1 : k = 1
    OBVIOUS
  <2>6. Held(F) = {} /\ FrameRight(bs, F)
    BY <2>2 DEF Held, Awaited, Plain, FrameRight
  <2>7. TargetsIn(bs, 1) = {}
    BY <2>2, <2>4, TargetsOfJump
  <2>8. PhiRight(bs, 1)
    BY <2>2, <2>4, NoPhi
  <2>9. WellBuilt(bs, 1, w)
    BY <2>2, <2>4, <2>5, <2>6, <2>7, <2>8 DEF WellBuilt
  <2> QED
    BY <2>1, <2>3, <2>9 DEF GraphInv, B, F
<1>10. CASE (\E n \in FnName, args \in ArgLists : HandleExtern(n, args)) \/ MainLoopReturns
            \/ Stopped \/ UNCHANGED vars
  <2>1. (work = <<>> /\ work' = work) \/ UNCHANGED vars
    BY <1>10 DEF HandleExtern, MainLoopReturns, AtTop, Stopped
  <2>2. UNCHANGED vars
    BY <1>0, <2>1
  <2> QED
    BY <1>0, <1>4, <2>2 DEF vars
<1>11. CASE Handler
  <2>0. Anonymous \in Name /\ FnName \subseteq Name /\ <<>> \in Seq(Var)
        /\ \A args \in ArgLists : args \in Seq(Var)
    BY KaleidoscopeAssumption DEF Name
  <2> QED
    BY <1>9, <1>10, <1>11, <2>0
    DEF Handler, HandleDefinition, HandleTopLevelExpression
<1> QED
  BY <1>5, <1>6, <1>7, <1>8, <1>10, <1>11 DEF Next, Resume, Quiet

(* What is left when a function returns: only the insertion point is open.   *)
LEMMA WellFormedAtEnd ==
  ASSUME TypeInv, NullInv, GraphInv, EndFunction, ret # Null
  PROVE  BlocksWellFormed'
<1>1. PICK bs : bs = blocks'
  OBVIOUS
<1>2. PICK n \in Nat : n = Len(blocks)
  BY DEF TypeInv
<1>3. /\ work # <<>> /\ Top.kind = "body" /\ ret \in Val /\ bs = Jump(Use(blocks, {ret}), {})
  BY <1>1, EndFunctionEffect
<1>4. Len(work) = 1 /\ Awaited(work[1]) = {}
  <2>1. Top.kind = "body" /\ Len(work) \in Nat /\ Len(work) \in 1 .. Len(work)
    BY <1>3, TopBlocks DEF TypeInv
  <2>2. \A k \in 2 .. Len(work) : work[k].kind # "body"
    BY <1>3 DEF NullInv
  <2>3. Len(work) = 1
    <3>1. PICK m \in Nat : m = Len(work) /\ m \in 1 .. m
      BY <2>1
    <3>2. m \notin 2 .. m
      BY <2>1, <2>2, <3>1 DEF Top
    <3>3. m = 1
      BY <3>1, <3>2
    <3> QED
      BY <3>1, <3>3
  <2> QED
    BY <2>1, <2>3 DEF Top, Awaited, IsThen, IsElse
<1>5. /\ bs \in Seq(BlockType) /\ Len(bs) = n
      /\ \A b \in 1 .. n :
           /\ bs[b].attached = blocks[b].attached /\ bs[b].phi = blocks[b].phi
           /\ bs[b].ends = IF b = insert THEN Append(blocks[b].ends, {}) ELSE blocks[b].ends
  <2>1. {} \in SUBSET Nat /\ {ret} \in SUBSET Val
    BY <1>3
  <2> QED
    BY <1>2, <1>3, <2>1, JumpUse
<1>6. Ends(bs, {})
  BY <1>2, <1>5 DEF Ends
<1>7. /\ \A b : PredsIn(bs, b) = PredsIn(blocks, b)
      /\ Len(bs[insert].ends) = 1
  BY <1>6, EdgesAdded
<1>8. /\ insert \in 1 .. n /\ blocks[insert].attached
      /\ \A b \in 1 .. n : PhiRight(blocks, b) /\ (b = insert \/ Closed(blocks, b))
  BY <1>2, <1>4 DEF GraphInv, WellBuilt
<1>9. ASSUME NEW b \in 1 .. n
      PROVE  Closed(bs, b) /\ PhiRight(bs, b)
  <2>1. PhiRight(bs, b)
    BY <1>5, <1>7, <1>8 DEF PhiRight
  <2>2. CASE b = insert
    BY <1>5, <1>7, <1>8, <2>1, <2>2 DEF Closed
  <2>3. CASE b # insert
    BY <1>5, <1>8, <2>1, <2>3 DEF Closed
  <2> QED
    BY <2>2, <2>3
<1>10. DOMAIN bs = 1 .. n
  BY <1>5
<1>11. \A b : (Preds(b))' = PredsIn(bs, b)
  BY <1>1, <1>5, <1>10 DEF Preds, PredsIn, Targets, TargetsIn, Block
<1> QED
  BY <1>1, <1>9, <1>10, <1>11 DEF BlocksWellFormed, Block, Closed, PhiRight

(* A function that is kept has come this far without a null.                 *)
LEMMA KeptUnspoilt ==
  ASSUME TypeInv, NullInv, EndFunction, ret # Null
  PROVE  work # <<>> /\ ~failed
<1>1. work # <<>> /\ Top.kind = "body" /\ Len(work) \in Nat
  BY EndFunctionEffect DEF TypeInv
<1>2. \A k \in 1 .. Len(work) : k = 1 \/ k \in 2 .. Len(work)
  BY <1>1
<1>3. Len(work) \in 1 .. Len(work)
  BY <1>1, StackSteps DEF TypeInv, Frame, BodyFrame
<1>4. Len(work) = 1
  BY <1>1, <1>2, <1>3 DEF NullInv, Top
<1>5. \A k \in 1 .. Len(work) : work[k].kind = "body"
  BY <1>1, <1>4 DEF Top
<1>6. ~\E k \in 1 .. Len(work) : Spoilt(work[k])
  BY <1>5 DEF Spoilt
<1> QED
  BY <1>1, <1>6 DEF NullInv

(* No function the code generator hands over needs a look at the verifier's  *)
(* answer for its shape: each block is in it and ends in its only            *)
(* terminator, and a PHI node has one value for each block that jumps there, *)
(* however the conditionals and loops are nested.                            *)
THEOREM FunctionsAreWellFormed == Spec => []BlocksWellFormed
<1> DEFINE Inv == /\ NamesInv /\ TypeInv /\ NullInv /\ BlocksWellFormed
                  /\ work # <<>> /\ ~failed => GraphInv
<1>1. Init => Inv
  <2>1. Init => work = <<>> /\ blocks = <<>>
    BY DEF Init
  <2>2. Init => BlocksWellFormed
    BY <2>1 DEF BlocksWellFormed, Finished
  <2> QED
    BY <2>1, <2>2, NamesInvInit, TypeInvInit, NullInvInit
<1>2. Inv /\ [Next]_vars => Inv'
  <2> SUFFICES ASSUME Inv, [Next]_vars PROVE Inv'
    OBVIOUS
  <2>1. NamesInv' /\ TypeInv' /\ NullInv'
    BY NamesInvNext, TypeInvNext, NullInvNext
  <2>2. (work # <<>> /\ ~failed => GraphInv)'
    BY GraphInvNext
  <2>3. BlocksWellFormed'
    <3>1. ASSUME UNCHANGED <<blocks, work>> PROVE BlocksWellFormed'
      <4>1. \A b : (Preds(b))' = Preds(b)
        BY <3>1 DEF Preds, Targets, Block
      <4> QED
        BY <3>1, <4>1 DEF BlocksWellFormed, Finished, Block
    <3>2. ASSUME work' # <<>> PROVE BlocksWellFormed'
      BY <3>2 DEF BlocksWellFormed, Finished
    <3>3. CASE EndFunction
      <4>1. CASE ret = Null
        <5>1. blocks' = <<>>
          BY <3>3, <4>1, EndFunctionEffect, Values
        <5> QED
          BY <5>1 DEF BlocksWellFormed, Finished
      <4>2. CASE ret # Null
        <5>1. work # <<>> /\ ~failed
          BY <3>3, <4>2, KeptUnspoilt
        <5>2. Top.kind = "body"
          BY <3>3, EndFunctionEffect
        <5> QED
          BY <3>3, <4>2, <5>1, <5>2, WellFormedAtEnd
      <4> QED
        BY <4>1, <4>2
    <3>4. CASE Visit \/ (Resume /\ ~EndFunction)
      <4>1. CASE Visit
        <5>1. \/ work' = work /\ work # <<>>
              \/ \E frame \in Frame : work' = Append(work, frame)
          BY <4>1, VisitEffect DEF Frame
        <5> QED
          BY <3>2, <5>1, StackSteps DEF TypeInv
      <4>2. CASE Resume /\ ~EndFunction
        <5>1. work # <<>> /\ Top.kind # "body"
          BY <4>2 DEF Resume, GiveUp, BinaryLeft, BinaryRight, CallArgument, EndCall,
                      IfCondition, IfThen, IfElse, ForStart, ForBody, ForStep, ForEnd, Phase,
                      Returned
        <5>2. Pop # <<>> /\ \A frame : Become(frame) # <<>>
          <6>1. Pop # <<>> /\ Pop \in Seq(Frame)
            BY <5>1, AtTheTop, StackSteps DEF TypeInv, Frame, BodyFrame
          <6> QED
            BY <6>1 DEF Become
        <5>3. work' = Pop \/ \E frame : work' = Become(frame)
          BY <4>2 DEF Resume, GiveUp, BinaryLeft, BinaryRight, CallArgument, EndCall,
                      IfCondition, IfThen, IfElse, ForStart, ForBody, ForStep, ForEnd, ToEnd
        <5> QED
          BY <3>2, <5>2, <5>3
      <4> QED
        BY <3>4, <4>1, <4>2
    <3>5. ASSUME NEW n \in FnName \cup {Anonymous}, NEW args, BeginFunction(n, args)
          PROVE  BlocksWellFormed'
      <4>1. work' = <<[kind |-> "body"]>> \/ UNCHANGED <<blocks, work>>
        BY <3>5 DEF BeginFunction
      <4> QED
        BY <3>1, <3>2, <4>1
    <3>6. CASE Handler \/ Stopped \/ UNCHANGED vars
      <4>1. ASSUME NEW n \in FnName, NEW args \in ArgLists, HandleExtern(n, args)
            PROVE  UNCHANGED <<blocks, work>>
        BY <4>1 DEF HandleExtern
      <4>2. MainLoopReturns \/ Stopped \/ UNCHANGED vars => UNCHANGED <<blocks, work>>
        BY DEF MainLoopReturns, Stopped, vars
      <4> QED
        BY <3>1, <3>5, <3>6, <4>1, <4>2 DEF Handler, HandleDefinition, HandleTopLevelExpression
    <3> QED
      BY <3>3, <3>4, <3>6 DEF Next
  <2> QED
    BY <2>1, <2>2, <2>3
<1>3. Inv => BlocksWellFormed
  OBVIOUS
<1> QED
  BY <1>1, <1>2, <1>3, PTL DEF Spec

-----------------------------------------------------------------------------
(* Every use is in reach of the value used.                                   *)

(* Domination, told without recursion: a set of blocks that leaves out d and *)
(* B, has the entry in it and is left by a jump to d only.                   *)
Cuts(bs, d, B) ==
  \E C \in SUBSET (1 .. Len(bs)) :
    /\ 1 \in C \cup {d} /\ d \notin C /\ C \cap B = {}
    /\ \A a \in C : TargetsIn(bs, a) \subseteq C \cup {d}
Known(f, bs, v, B) == /\ v.of \in {0, f}
                      /\ v.at # 0 => v.at \in 1 .. Len(bs) /\ Cuts(bs, v.at, B)
Sound(f, bs, v, b) == b \in 1 .. Len(bs) /\ bs[b].attached /\ Known(f, bs, v, {b})
UsesSound(f, bs) ==
  \A b \in 1 .. Len(bs) : /\ \A v \in bs[b].uses : Sound(f, bs, v, b)
                          /\ \A p \in bs[b].phi : Sound(f, bs, p.val, p.from)

(* The values the frames have yet to use reach the insertion point and the   *)
(* blocks that frames above them have yet to attach.                         *)
Remembered(w) ==
  IF w.kind \in {"binary", "call"} THEN {w.vals[i] : i \in DOMAIN w.vals} \ {Null}
  ELSE IF w.kind = "for" /\ w.phase = "end" THEN {w.step} ELSE {}
FrameHolds(f, bs, w, B) ==
  /\ \A v \in Remembered(w) : Known(f, bs, v, B)
  /\ IsLoop(w) => Cuts(bs, w.loop, B)
  /\ IsElse(w) => Sound(f, bs, w.incoming.val, w.incoming.from)
Above(w, k) == UNION {Awaited(w[j]) : j \in k + 1 .. Len(w)}
StackHolds(f, bs, at, w) ==
  \A k \in 1 .. Len(w) : FrameHolds(f, bs, w[k], {at} \cup Above(w, k))
RetHolds(f, bs, at, r) == r \notin {Null, Pending} => Known(f, bs, r, {at})
ReachInv == /\ UsesSound(current, blocks) /\ StackHolds(current, blocks, insert, work)
            /\ RetHolds(current, blocks, insert, ret)

(* A cut leaves out any part of what it leaves out.                          *)
LEMMA CutsLess ==
  ASSUME NEW bs, NEW d, NEW A, NEW B, A \subseteq B, Cuts(bs, d, B)
  PROVE  Cuts(bs, d, A)
<1>1. PICK C \in SUBSET (1 .. Len(bs)) :
        /\ 1 \in C \cup {d} /\ d \notin C /\ C \cap B = {}
        /\ \A a \in C : TargetsIn(bs, a) \subseteq C \cup {d}
  BY DEF Cuts
<1>2. C \cap A = {}
  BY <1>1
<1> QED
  BY <1>1, <1>2 DEF Cuts

(* A value known in some blocks is known in fewer.                           *)
LEMMA KnownLess ==
  ASSUME NEW f, NEW bs, NEW v, NEW A, NEW B, A \subseteq B, Known(f, bs, v, B)
  PROVE  Known(f, bs, v, A)
BY CutsLess DEF Known

(* A block cuts itself off, once every jump stays among the blocks.          *)
LEMMA CutsItself ==
  ASSUME NEW bs, NEW n \in Nat, n = Len(bs), NEW d \in 1 .. n, NEW old \in SUBSET (1 .. n),
         1 \in old, \A a \in old \ {d} : TargetsIn(bs, a) \subseteq old \cup {d}
  PROVE  Cuts(bs, d, {d})
<1> DEFINE C == old \ {d}
<1>1. C \in SUBSET (1 .. Len(bs)) /\ 1 \in C \cup {d} /\ d \notin C /\ C \cap {d} = {}
  OBVIOUS
<1>2. \A a \in C : TargetsIn(bs, a) \subseteq C \cup {d}
  OBVIOUS
<1> HIDE DEF C
<1> QED
  BY <1>1, <1>2 DEF Cuts

(* What a step must leave of the cuts: those that leave out the insertion    *)
(* point leave out every new block too, those of attached blocks stay.       *)
Fresh(bs) == {b \in 1 .. Len(bs) : b \notin 1 .. Len(blocks)}
Carries(bs) ==
  /\ \A b \in 1 .. Len(blocks) : b \in 1 .. Len(bs) /\ (blocks[b].attached => bs[b].attached)
  /\ \A d \in 1 .. Len(blocks) : \A B :
       insert \in B /\ Cuts(blocks, d, B) => Cuts(bs, d, B \cup Fresh(bs))
  /\ \A d, b \in 1 .. Len(blocks) :
       blocks[b].attached /\ Cuts(blocks, d, {b}) => Cuts(bs, d, {b})

(* A step that ends no block carries every cut over.                         *)
LEMMA CarriesSame ==
  ASSUME NEW bs, Same(bs)
  PROVE  Carries(bs)
<1>1. Len(bs) = Len(blocks) /\ \A b \in 1 .. Len(blocks) : bs[b].attached = blocks[b].attached
  BY DEF Same
<1>2. \A a \in 1 .. Len(blocks) : TargetsIn(bs, a) = TargetsIn(blocks, a)
  BY DEF Same, TargetsIn
<1>3. \A d, B : Cuts(blocks, d, B) => Cuts(bs, d, B)
  <2>1. ASSUME NEW d, NEW B, Cuts(blocks, d, B) PROVE Cuts(bs, d, B)
    <3>1. PICK C \in SUBSET (1 .. Len(blocks)) :
            /\ 1 \in C \cup {d} /\ d \notin C /\ C \cap B = {}
            /\ \A a \in C : TargetsIn(blocks, a) \subseteq C \cup {d}
      BY <2>1 DEF Cuts
    <3>2. \A a \in C : TargetsIn(bs, a) \subseteq C \cup {d}
      BY <1>2, <3>1
    <3> QED
      BY <1>1, <3>1, <3>2 DEF Cuts
  <2> QED
    BY <2>1
<1>4. \A B : B \cup Fresh(bs) = B
  BY <1>1 DEF Fresh
<1> QED
  BY <1>1, <1>3, <1>4 DEF Carries

(* A jump goes on to blocks that end nowhere yet, or back to a block l that  *)
(* every way to the insertion point has gone through.                        *)
Lands(bs, targets, l) ==
  \A t \in targets :
    /\ t \in 1 .. Len(bs)
    /\ \/ bs[t].ends = <<>> /\ (t \in 1 .. Len(blocks) => ~blocks[t].attached)
       \/ t = l /\ l \in 1 .. Len(blocks) /\ Cuts(blocks, l, {insert})

(* So does a jump that lands well. A cut that leaves out another attached    *)
(* block than the insertion point takes the targets in; the loop header it   *)
(* would take in with them is taken out of it first, with the header's own   *)
(* cut.                                                                      *)
LEMMA CarriesJump ==
  ASSUME TypeInv, GraphInv, NEW bs, NEW targets, Ends(bs, targets), NEW l,
         \A b \in 1 .. Len(blocks) : blocks[b].attached => bs[b].attached,
         Lands(bs, targets, l)
  PROVE  Carries(bs)
<1>1. PICK n \in Nat : n = Len(blocks)
  BY DEF TypeInv
<1>2. PICK N \in Nat : N = Len(bs) /\ n <= N /\ \A b \in 1 .. n : b \in 1 .. N
  BY <1>1 DEF Ends
<1>3. /\ \A b \in 1 .. n : TargetsIn(bs, b) = IF b = insert THEN targets ELSE TargetsIn(blocks, b)
      /\ insert \in 1 .. n
  BY <1>1, EdgesAdded DEF GraphInv, WellBuilt
<1>4. \A t : bs[t].ends = <<>> => TargetsIn(bs, t) = {}
  BY TargetsOfJump
<1>5. ASSUME NEW d, NEW C \in SUBSET (1 .. n), NEW B, insert \notin C, C \cap B = {},
             1 \in C \cup {d}, d \notin C,
             \A a \in C : TargetsIn(blocks, a) \subseteq C \cup {d}
      PROVE  Cuts(bs, d, B \cup Fresh(bs))
  <2>1. C \in SUBSET (1 .. N) /\ C \cap (B \cup Fresh(bs)) = {}
    BY <1>1, <1>2, <1>5 DEF Fresh
  <2>2. \A a \in C : TargetsIn(bs, a) \subseteq C \cup {d}
    BY <1>3, <1>5
  <2> QED
    BY <1>2, <1>5, <2>1, <2>2 DEF Cuts
<1>6. ASSUME NEW d \in 1 .. n, NEW B, insert \in B, Cuts(blocks, d, B)
      PROVE  Cuts(bs, d, B \cup Fresh(bs))
  <2>1. PICK C \in SUBSET (1 .. n) :
          /\ 1 \in C \cup {d} /\ d \notin C /\ C \cap B = {}
          /\ \A a \in C : TargetsIn(blocks, a) \subseteq C \cup {d}
    BY <1>1, <1>6 DEF Cuts
  <2>2. insert \notin C
    BY <1>6, <2>1
  <2> QED
    BY <1>5, <2>1, <2>2
<1>7. ASSUME NEW d \in 1 .. n, NEW b \in 1 .. n, blocks[b].attached, Cuts(blocks, d, {b})
      PROVE  Cuts(bs, d, {b})
  <2>1. PICK A \in SUBSET (1 .. n) :
          /\ 1 \in A \cup {d} /\ d \notin A /\ A \cap {b} = {}
          /\ \A a \in A : TargetsIn(blocks, a) \subseteq A \cup {d}
    BY <1>1, <1>7 DEF Cuts
  <2>2. PICK C \in SUBSET (1 .. n) :
          /\ 1 \in C \cup {d} /\ d \notin C /\ C \cap {b} = {}
          /\ \A a \in C : TargetsIn(blocks, a) \subseteq C \cup {d}
          /\ \/ insert \notin C
             \/ l \in targets /\ l \in 1 .. n /\ Cuts(blocks, l, {insert}) => l \in C
    <3>1. CASE l \in targets /\ l \in 1 .. n /\ Cuts(blocks, l, {insert}) /\ l \notin A
      <4>1. PICK E \in SUBSET (1 .. n) :
              /\ 1 \in E \cup {l} /\ l \notin E /\ E \cap {insert} = {}
              /\ \A a \in E : TargetsIn(blocks, a) \subseteq E \cup {l}
        BY <1>1, <3>1 DEF Cuts
      <4> DEFINE C == A \cap E
      <4>2. C \in SUBSET (1 .. n) /\ insert \notin C /\ d \notin C /\ C \cap {b} = {}
        BY <2>1, <4>1
      <4>3. 1 \in C \cup {d}
        BY <2>1, <3>1, <4>1
      <4>4. \A a \in C : TargetsIn(blocks, a) \subseteq C \cup {d}
        <5>1. ASSUME NEW a \in C, NEW t \in TargetsIn(blocks, a) PROVE t \in C \cup {d}
          <6>1. t \in A \cup {d} /\ t \in E \cup {l}
            BY <2>1, <4>1, <5>1
          <6> QED
            BY <3>1, <6>1
        <5> QED
          BY <5>1
      <4> HIDE DEF C
      <4> QED
        BY <4>2, <4>3, <4>4
    <3>2. CASE ~(l \in targets /\ l \in 1 .. n /\ Cuts(blocks, l, {insert}) /\ l \notin A)
      BY <2>1, <3>2
    <3> QED
      BY <3>1, <3>2
  <2>3. CASE insert \notin C
    <3>1. Cuts(bs, d, {b} \cup Fresh(bs))
      BY <1>5, <2>2, <2>3
    <3> QED
      BY <3>1, CutsLess
  <2>4. CASE insert \in C
    <3> DEFINE S == C \cup (targets \ {d})
    <3>1. ASSUME NEW t \in targets PROVE t \in C \/ (bs[t].ends = <<>> /\ t # b)
      BY <1>1, <1>7, <2>2, <2>4, <3>1 DEF Lands
    <3>2. S \in SUBSET (1 .. N) /\ 1 \in S \cup {d} /\ d \notin S
      BY <1>2, <2>2 DEF Lands
    <3>3. S \cap {b} = {}
      BY <2>2, <3>1
    <3>4. ASSUME NEW a \in S PROVE TargetsIn(bs, a) \subseteq S \cup {d}
      <4>1. CASE a = insert
        BY <1>3, <4>1
      <4>2. CASE a # insert /\ a \in C
        BY <1>3, <2>2, <4>2
      <4>3. CASE a \notin C
        BY <1>4, <3>1, <4>3
      <4> QED
        BY <4>1, <4>2, <4>3
    <3> HIDE DEF S
    <3> QED
      BY <1>2, <3>2, <3>3, <3>4 DEF Cuts
  <2> QED
    BY <2>3, <2>4
<1> QED
  BY <1>1, <1>2, <1>6, <1>7 DEF Carries

(* What a step that carries the cuts leaves of a value's reach.              *)
LEMMA KnownCarried ==
  ASSUME NEW bs, Carries(bs), NEW f, NEW v
  PROVE  /\ \A A, B : insert \in B /\ A \subseteq B \cup Fresh(bs) /\ Known(f, blocks, v, B) =>
                        Known(f, bs, v, A)
         /\ \A b : Sound(f, blocks, v, b) => Sound(f, bs, v, b)
<1>1. ASSUME NEW A, NEW B, insert \in B, A \subseteq B \cup Fresh(bs), Known(f, blocks, v, B)
      PROVE  Known(f, bs, v, A)
  <2>1. ASSUME v.at # 0 PROVE v.at \in 1 .. Len(bs) /\ Cuts(bs, v.at, B \cup Fresh(bs))
    BY <1>1, <2>1 DEF Known, Carries
  <2> QED
    BY <1>1, <2>1, CutsLess DEF Known
<1>2. ASSUME NEW b, Sound(f, blocks, v, b) PROVE Sound(f, bs, v, b)
  <2>1. b \in 1 .. Len(blocks) /\ blocks[b].attached /\ Known(f, blocks, v, {b})
    BY <1>2 DEF Sound
  <2>2. b \in 1 .. Len(bs) /\ bs[b].attached
    BY <2>1 DEF Carries
  <2>3. ASSUME v.at # 0 PROVE v.at \in 1 .. Len(bs) /\ Cuts(bs, v.at, {b})
    BY <2>1, <2>3 DEF Known, Carries
  <2> QED
    BY <2>1, <2>2, <2>3 DEF Known, Sound
<1> QED
  BY <1>1, <1>2

(* The same for what a frame holds.                                          *)
LEMMA FrameHeld ==
  ASSUME NEW bs, Carries(bs), NEW f, NEW w, NEW A, NEW B, insert \in B,
         A \subseteq B \cup Fresh(bs), FrameHolds(f, blocks, w, B),
         Held(w) \subseteq 1 .. Len(blocks)
  PROVE  FrameHolds(f, bs, w, A)
<1>1. \A v \in Remembered(w) : Known(f, bs, v, A)
  BY KnownCarried DEF FrameHolds
<1>2. IsLoop(w) => Cuts(bs, w.loop, A)
  <2>1. IsLoop(w) => w.loop \in 1 .. Len(blocks)
    BY DEF Held
  <2>2. IsLoop(w) => Cuts(bs, w.loop, B \cup Fresh(bs))
    BY <2>1 DEF FrameHolds, Carries
  <2> QED
    BY <2>2, CutsLess
<1>3. IsElse(w) => Sound(f, bs, w.incoming.val, w.incoming.from)
  BY KnownCarried DEF FrameHolds
<1> QED
  BY <1>1, <1>2, <1>3 DEF FrameHolds

(* A step keeps the first p frames and has at most one in the place of those *)
(* above; it moves the insertion point to a new block or to one of the       *)
(* blocks the frame it replaces has waited for, and so may the new frame.    *)
LastAwaits(w, p) == IF Len(w) = p + 1 THEN Awaited(w[p + 1]) ELSE {}
Replaces(w, p, at, bs) ==
  /\ p \in Nat /\ Len(work) \in p .. p + 1 /\ Len(w) \in p .. p + 1
  /\ \A k \in 1 .. p : w[k] = work[k]
  /\ {at} \cup LastAwaits(w, p) \subseteq {insert} \cup LastAwaits(work, p) \cup Fresh(bs)

(* The same for the stack, but for the frame the step puts on top.           *)
LEMMA StackHeld ==
  ASSUME TypeInv, NEW bs, Carries(bs), NEW f, StackHolds(f, blocks, insert, work),
         NEW w, NEW at, NEW p, Replaces(w, p, at, bs),
         Len(w) = p + 1 => FrameHolds(f, bs, w[p + 1], {at})
  PROVE  StackHolds(f, bs, at, w)
<1>1. /\ p \in Nat /\ Len(work) \in p .. p + 1 /\ Len(w) \in p .. p + 1
      /\ \A k \in 1 .. p : w[k] = work[k]
      /\ {at} \cup LastAwaits(w, p) \subseteq {insert} \cup LastAwaits(work, p) \cup Fresh(bs)
  BY DEF Replaces
<1>2. ASSUME NEW k \in 1 .. p PROVE FrameHolds(f, bs, w[k], {at} \cup Above(w, k))
  <2>1. k \in 1 .. Len(work) /\ k \in 1 .. Len(w)
    BY <1>1
  <2>2. FrameHolds(f, blocks, work[k], {insert} \cup Above(work, k))
        /\ Held(work[k]) \subseteq 1 .. Len(blocks)
    BY <2>1 DEF StackHolds, TypeInv
  <2>3. LastAwaits(work, p) \subseteq Above(work, k)
    <3>1. Len(work) = p + 1 => p + 1 \in k + 1 .. Len(work)
      BY <1>1
    <3> QED
      BY <3>1 DEF LastAwaits, Above
  <2>4. Above(w, k) \subseteq LastAwaits(w, p) \cup Above(work, k)
    <3>1. \A j \in k + 1 .. Len(w) :
            \/ j = p + 1 /\ Len(w) = p + 1
            \/ j \in 1 .. p /\ j \in k + 1 .. Len(work)
      BY <1>1
    <3> QED
      BY <1>1, <3>1 DEF LastAwaits, Above
  <2>5. {at} \cup Above(w, k) \subseteq {insert} \cup Above(work, k) \cup Fresh(bs)
    BY <1>1, <2>3, <2>4
  <2> QED
    BY <1>1, <2>2, <2>5, FrameHeld
<1>3. CASE Len(w) = p + 1
  <2>1. Above(w, p + 1) = {}
    <3>1. p + 1 + 1 .. Len(w) = {}
      BY <1>1, <1>3
    <3> QED
      BY <3>1 DEF Above
  <2>2. \A k \in 1 .. Len(w) : k \in 1 .. p \/ k = p + 1
    BY <1>1
  <2> QED
    BY <1>2, <1>3, <2>1, <2>2 DEF StackHolds
<1>4. CASE Len(w) # p + 1
  <2>1. \A k \in 1 .. Len(w) : k \in 1 .. p
    BY <1>1, <1>4
  <2> QED
    BY <1>2, <2>1 DEF StackHolds
<1> QED
  BY <1>3, <1>4

(* The same for the uses, but for those the step adds.                       *)
LEMMA UsesHeld ==
  ASSUME NEW bs, Carries(bs), NEW f, UsesSound(f, blocks),
         \A b \in 1 .. Len(bs) :
           /\ \A v \in bs[b].uses : \/ b \in 1 .. Len(blocks) /\ v \in blocks[b].uses
                                    \/ Sound(f, blocks, v, b)
           /\ \A q \in bs[b].phi : \/ b \in 1 .. Len(blocks) /\ q \in blocks[b].phi
                                   \/ Sound(f, blocks, q.val, q.from)
  PROVE  UsesSound(f, bs)
BY KnownCarried DEF UsesSound

(* What the frame on top, and the value just returned, may be used for.      *)
LEMMA TopHolds ==
  ASSUME TypeInv, GraphInv, ReachInv, work # <<>>
  PROVE  /\ insert \in 1 .. Len(blocks) /\ blocks[insert].attached
         /\ FrameHolds(current, blocks, Top, {insert})
         /\ \A v : Known(current, blocks, v, {insert}) <=> Sound(current, blocks, v, insert)
         /\ ret \notin {Null, Pending} => Known(current, blocks, ret, {insert})
         /\ Known(current, blocks, Const, {insert})
<1>1. /\ Len(work) \in 1 .. Len(work) /\ Top = work[Len(work)]
      /\ insert \in 1 .. Len(blocks) /\ blocks[insert].attached
  BY TopBlocks
<1>2. FrameHolds(current, blocks, Top, {insert})
  <2>1. Above(work, Len(work)) = {}
    <3>1. Len(work) \in Nat
      BY DEF TypeInv
    <3>2. Len(work) + 1 .. Len(work) = {}
      BY <3>1
    <3> QED
      BY <3>2 DEF Above
  <2>2. FrameHolds(current, blocks, work[Len(work)], {insert} \cup Above(work, Len(work)))
    BY <1>1 DEF ReachInv, StackHolds
  <2> QED
    BY <1>1, <2>1, <2>2
<1>3. \A v : Known(current, blocks, v, {insert}) <=> Sound(current, blocks, v, insert)
  BY <1>1 DEF Sound
<1>4. Known(current, blocks, Const, {insert})
  BY DEF Known, Const
<1> QED
  BY <1>1, <1>2, <1>3, <1>4 DEF ReachInv, RetHolds

(* What is computed at the insertion point may be used there, and so may the *)
(* variable of a loop that is open around it.                                *)
LEMMA ComputedHere ==
  ASSUME TypeInv, GraphInv
  PROVE  /\ Known(current, blocks, Computed(insert), {insert})
         /\ \A l \in 1 .. Len(blocks) : Cuts(blocks, l, {insert}) =>
                                          Known(current, blocks, Computed(l), {insert})
<1>1. PICK n \in Nat : n = Len(blocks)
  BY DEF TypeInv
<1>2. insert \in 1 .. n /\ \A b \in 1 .. n : TargetsIn(blocks, b) \subseteq 1 .. n
  BY <1>1 DEF GraphInv, WellBuilt
<1>3. 1 \in 1 .. n
  BY <1>2
<1>4. \A a \in (1 .. n) \ {insert} : TargetsIn(blocks, a) \subseteq (1 .. n) \cup {insert}
  BY <1>2
<1>5. Cuts(blocks, insert, {insert})
  BY <1>1, <1>2, <1>3, <1>4, CutsItself
<1> QED
  BY <1>1, <1>2, <1>5 DEF Known, Computed

(* The invariant after a step, from what the step does to each part of it.   *)
LEMMA ReachStep ==
  ASSUME TypeInv, ReachInv, NEW bs, NEW at, NEW w, NEW p, Carries(bs), Replaces(w, p, at, bs),
         \A b \in 1 .. Len(bs) :
           /\ \A v \in bs[b].uses : \/ b \in 1 .. Len(blocks) /\ v \in blocks[b].uses
                                    \/ Sound(current, blocks, v, b)
           /\ \A q \in bs[b].phi : \/ b \in 1 .. Len(blocks) /\ q \in blocks[b].phi
                                   \/ Sound(current, blocks, q.val, q.from),
         Len(w) = p + 1 => FrameHolds(current, bs, w[p + 1], {at}),
         RetHolds(current, bs, at, ret'),
         blocks' = bs, insert' = at, work' = w, current' = current
  PROVE  ReachInv'
<1>1. UsesSound(current, blocks) /\ StackHolds(current, blocks, insert, work)
  BY DEF ReachInv
<1>2. PICK f, r : f = current /\ r = ret'
  OBVIOUS
<1>3. UsesSound(f, bs)
  BY <1>1, <1>2, UsesHeld
<1>4. StackHolds(f, bs, at, w)
  BY <1>1, <1>2, StackHeld
<1>5. RetHolds(f, bs, at, r)
  BY <1>2
<1> QED
  BY <1>2, <1>3, <1>4, <1>5 DEF ReachInv

(* The steps that make no block and end none.                                *)
LEMMA QuietStep ==
  ASSUME TypeInv, GraphInv, ReachInv, work # <<>>, NEW vals \in SUBSET Val,
         \A v \in vals : Known(current, blocks, v, {insert}),
         NEW bs, bs = blocks \/ bs = Use(blocks, vals),
         NEW w, NEW p, Replaces(w, p, insert, bs),
         Len(w) = p + 1 => FrameHolds(current, blocks, w[p + 1], {insert})
                           /\ Held(w[p + 1]) \subseteq 1 .. Len(blocks),
         RetHolds(current, blocks, insert, ret'),
         blocks' = bs, insert' = insert, work' = w, current' = current
  PROVE  ReachInv'
<1>1. /\ blocks \in Seq(BlockType) /\ insert \in 1 .. Len(blocks)
      /\ \A v : Known(current, blocks, v, {insert}) <=> Sound(current, blocks, v, insert)
  BY TopHolds DEF TypeInv
<1>2. /\ Len(bs) = Len(blocks)
      /\ \A b \in 1 .. Len(blocks) :
           /\ bs[b].attached = blocks[b].attached /\ bs[b].phi = blocks[b].phi
           /\ bs[b].ends = blocks[b].ends
           /\ \A v \in bs[b].uses : v \in blocks[b].uses \/ (b = insert /\ v \in vals)
  <2>1. CASE bs = blocks
    BY <2>1
  <2>2. CASE bs = Use(blocks, vals)
    <3>1. Len(bs) = Len(blocks)
          /\ \A b \in 1 .. Len(blocks) :
               /\ bs[b].attached = blocks[b].attached /\ bs[b].phi = blocks[b].phi
               /\ bs[b].ends = blocks[b].ends
               /\ bs[b].uses = IF b = insert THEN blocks[b].uses \cup vals ELSE blocks[b].uses
      BY <1>1, <2>2, UseKeeps
    <3> QED
      BY <3>1
  <2> QED
    BY <2>1, <2>2
<1>3. Carries(bs)
  BY <1>2, CarriesSame DEF Same
<1>4. Len(w) = p + 1 => FrameHolds(current, bs, w[p + 1], {insert})
  BY <1>3, FrameHeld
<1>5. RetHolds(current, bs, insert, ret')
  BY <1>3, KnownCarried DEF RetHolds
<1>6. \A b \in 1 .. Len(bs) :
        /\ \A v \in bs[b].uses : \/ b \in 1 .. Len(blocks) /\ v \in blocks[b].uses
                                 \/ Sound(current, blocks, v, b)
        /\ \A q \in bs[b].phi : \/ b \in 1 .. Len(blocks) /\ q \in blocks[b].phi
                                \/ Sound(current, blocks, q.val, q.from)
  BY <1>1, <1>2
<1> QED
  BY <1>3, <1>4, <1>5, <1>6, ReachStep

(* Each such step, a phase of a frame.                                       *)
LEMMA QuietReach ==
  ASSUME TypeInv, GraphInv, ReachInv, Quiet, ret # Null
  PROVE  ReachInv'
<1>1. /\ work # <<>> /\ insert' = insert /\ current' = current
      /\ work \in Seq(Frame) /\ Top \in Frame
  BY QuietEffect, AtTheTop, TopBlocks DEF TypeInv
<1>2. PICK m \in Nat : m = Len(work) /\ m # 0 /\ m - 1 \in Nat /\ Top = work[m]
  <2>1. Len(work) \in Nat /\ Len(work) # 0
    BY <1>1
  <2> QED
    BY <2>1 DEF Top
<1>3. /\ insert \in 1 .. Len(blocks) /\ FrameHolds(current, blocks, Top, {insert})
      /\ ret \notin {Null, Pending} => Known(current, blocks, ret, {insert})
      /\ Known(current, blocks, Const, {insert}) /\ Held(Top) \subseteq 1 .. Len(blocks)
      /\ Known(current, blocks, Computed(insert), {insert})
      /\ Computed(insert) \in Val /\ Const \in Val
      /\ ret \notin {Null, Pending} => ret \in Val
  BY <1>1, TopHolds, TopBlocks, ComputedHere, Values DEF TypeInv
<1>4. ASSUME Awaited(Top) = {}, NEW vals \in SUBSET Val,
             \A v \in vals : Known(current, blocks, v, {insert}),
             blocks' = blocks \/ blocks' = Use(blocks, vals),
             RetHolds(current, blocks, insert, ret'),
             \/ work' = Pop
             \/ \E frame \in Frame :
                  /\ work' = Become(frame) /\ Held(frame) = Held(Top) /\ Awaited(frame) = {}
                  /\ FrameHolds(current, blocks, frame, {insert})
      PROVE  ReachInv'
  <2>1. PICK w, bs : w = work' /\ bs = blocks'
    OBVIOUS
  <2>2. LastAwaits(work, m - 1) = {}
    BY <1>2, <1>4 DEF LastAwaits
  <2>3. CASE w = Pop
    <3>1. Len(w) = m - 1 /\ \A k \in 1 .. m - 1 : w[k] = work[k]
      BY <1>1, <1>2, <2>3, StackSteps
    <3>2. LastAwaits(w, m - 1) = {}
      BY <1>2, <3>1 DEF LastAwaits
    <3>3. Replaces(w, m - 1, insert, bs)
      BY <1>2, <2>2, <3>1, <3>2 DEF Replaces
    <3>4. Len(w) # m - 1 + 1
      BY <1>2, <3>1
    <3> QED
      BY <1>1, <1>2, <1>4, <2>1, <3>3, <3>4, QuietStep
  <2>4. ASSUME NEW frame \in Frame, w = Become(frame), Held(frame) = Held(Top),
               Awaited(frame) = {}, FrameHolds(current, blocks, frame, {insert})
        PROVE  ReachInv'
    <3>1. Len(w) = m /\ w[m] = frame /\ \A k \in 1 .. m - 1 : w[k] = work[k]
      BY <1>1, <1>2, <2>4, StackSteps
    <3>2. LastAwaits(w, m - 1) = {}
      BY <1>2, <2>4, <3>1 DEF LastAwaits
    <3>3. Replaces(w, m - 1, insert, bs)
      BY <1>2, <2>2, <3>1, <3>2 DEF Replaces
    <3>4. m - 1 + 1 = m
      BY <1>2
    <3> QED
      BY <1>1, <1>2, <1>3, <1>4, <2>1, <2>4, <3>1, <3>3, <3>4, QuietStep
  <2> QED
    BY <1>4, <2>1, <2>3, <2>4
<1>5. \A frame \in BinaryFrame \cup CallFrame :
        /\ frame \in Frame /\ Held(frame) = {} /\ Awaited(frame) = {}
        /\ FrameHolds(current, blocks, frame, {insert}) <=>
             \A i \in DOMAIN frame.vals :
               frame.vals[i] = Null \/ Known(current, blocks, frame.vals[i], {insert})
  <2> SUFFICES ASSUME NEW frame \in BinaryFrame \cup CallFrame
               PROVE  /\ frame \in Frame /\ Held(frame) = {} /\ Awaited(frame) = {}
                      /\ FrameHolds(current, blocks, frame, {insert}) <=>
                           \A i \in DOMAIN frame.vals :
                             \/ frame.vals[i] = Null
                             \/ Known(current, blocks, frame.vals[i], {insert})
    OBVIOUS
  <2>1. Remembered(frame) = {frame.vals[i] : i \in DOMAIN frame.vals} \ {Null}
    BY DEF Remembered, BinaryFrame, CallFrame
  <2>2. frame \in Frame /\ Held(frame) = {} /\ Awaited(frame) = {}
        /\ ~IsLoop(frame) /\ ~IsElse(frame)
    BY HeldBy DEF Frame
  <2>3. FrameHolds(current, blocks, frame, {insert}) <=>
          \A v \in Remembered(frame) : Known(current, blocks, v, {insert})
    BY <2>2 DEF FrameHolds
  <2> QED
    BY <2>1, <2>2, <2>3
<1>6. CASE BinaryLeft
  <2>1. Top \in BinaryFrame /\ ret \in Val /\ ret # Pending
    BY <1>1, <1>3, <1>6, TopKnown DEF BinaryLeft, Returned
  <2>2. PICK frame : frame = [Top EXCEPT !.vals = <<ret>>]
    OBVIOUS
  <2>3. frame \in BinaryFrame /\ frame.vals = <<ret>>
    <3>1. <<ret>> \in Seq(Result)
      BY <2>1, Values
    <3> QED
      BY <2>1, <2>2, <3>1 DEF BinaryFrame
  <2>4. FrameHolds(current, blocks, frame, {insert})
    <3>1. \A i \in DOMAIN <<ret>> : <<ret>>[i] = ret
      OBVIOUS
    <3> QED
      BY <1>3, <1>5, <2>1, <2>3, <3>1
  <2>5. work' = Become(frame) /\ ret' = Pending /\ blocks' = blocks
    BY <1>6, <2>2 DEF BinaryLeft
  <2>6. RetHolds(current, blocks, insert, ret')
    BY <2>5 DEF RetHolds
  <2> QED
    BY <1>4, <1>5, <2>1, <2>3, <2>4, <2>5, <2>6
<1>7. CASE BinaryRight
  <2>1. Top \in BinaryFrame /\ ret \in Val /\ ret # Pending /\ Top.vals # <<>>
    BY <1>1, <1>3, <1>7, TopKnown DEF BinaryRight, Returned
  <2>2. 1 \in DOMAIN Top.vals /\ Top.vals[1] \in Result
    BY <2>1 DEF BinaryFrame
  <2>3. /\ work' = Pop
        /\ \/ ret' = Null /\ blocks' = blocks
           \/ /\ Top.vals[1] # Null /\ ret' = Computed(insert)
              /\ blocks' = Use(blocks, {ret, Top.vals[1]})
    BY <1>7 DEF BinaryRight
  <2>4. CASE ret' = Null /\ blocks' = blocks
    BY <1>4, <1>5, <2>1, <2>3, <2>4 DEF RetHolds
  <2>5. CASE Top.vals[1] # Null /\ ret' = Computed(insert)
             /\ blocks' = Use(blocks, {ret, Top.vals[1]})
    <3>1. Top.vals[1] \in Val /\ Known(current, blocks, Top.vals[1], {insert})
      BY <1>3, <1>5, <2>1, <2>2, <2>5, Values DEF Result
    <3>2. {ret, Top.vals[1]} \in SUBSET Val
          /\ \A v \in {ret, Top.vals[1]} : Known(current, blocks, v, {insert})
      BY <1>3, <2>1, <3>1, Values
    <3>3. RetHolds(current, blocks, insert, ret')
      BY <1>3, <2>5 DEF RetHolds
    <3> QED
      BY <1>4, <1>5, <2>1, <2>3, <2>5, <3>2, <3>3
  <2> QED
    BY <2>3, <2>4, <2>5
<1>8. CASE CallArgument
  <2>1. Top \in CallFrame /\ ret \in Val /\ ret # Pending
    BY <1>1, <1>3, <1>8, TopKnown DEF CallArgument, Returned
  <2>2. PICK frame : frame = [Top EXCEPT !.vals = Append(@, ret)]
    OBVIOUS
  <2>3. Top.vals \in Seq(Val) /\ frame \in CallFrame /\ frame.vals = Append(Top.vals, ret)
    <3>1. Top.vals \in Seq(Val)
      BY <2>1 DEF CallFrame
    <3>2. Append(Top.vals, ret) \in Seq(Val)
      BY <2>1, <3>1
    <3> QED
      BY <2>1, <2>2, <3>1, <3>2 DEF CallFrame
  <2>4. FrameHolds(current, blocks, frame, {insert})
    <3>1. \A i \in DOMAIN Append(Top.vals, ret) :
            \/ i \in DOMAIN Top.vals /\ Append(Top.vals, ret)[i] = Top.vals[i]
            \/ Append(Top.vals, ret)[i] = ret
      BY <2>1, <2>3
    <3> QED
      BY <1>3, <1>5, <2>1, <2>3, <3>1, Values
  <2>5. work' = Become(frame) /\ ret' = Pending /\ blocks' = blocks
    BY <1>8, <2>2 DEF CallArgument
  <2>6. RetHolds(current, blocks, insert, ret')
    BY <2>5 DEF RetHolds
  <2> QED
    BY <1>4, <1>5, <2>1, <2>3, <2>4, <2>5, <2>6
<1>9. CASE EndCall
  <2>1. Top \in CallFrame
    BY <1>1, <1>9, TopKnown DEF EndCall
  <2>2. Top.vals \in Seq(Val)
    BY <2>1 DEF CallFrame
  <2>3. Ids(Top.vals) \in SUBSET Val
        /\ \A v \in Ids(Top.vals) : Known(current, blocks, v, {insert})
    <3>1. \A i \in DOMAIN Top.vals : Top.vals[i] \in Val
      BY <2>2
    <3> QED
      BY <1>3, <1>5, <2>1, <3>1, Values DEF Ids
  <2>4. work' = Pop /\ ret' = Computed(insert) /\ blocks' = Use(blocks, Ids(Top.vals))
    BY <1>9 DEF EndCall
  <2>5. RetHolds(current, blocks, insert, ret')
    BY <1>3, <2>4 DEF RetHolds
  <2> QED
    BY <1>4, <1>5, <2>1, <2>3, <2>4, <2>5
<1>10. ASSUME Top \in LoopFrame
       PROVE  /\ Awaited(Top) = {} /\ Top.loop \in 1 .. Len(blocks)
              /\ Cuts(blocks, Top.loop, {insert})
              /\ Known(current, blocks, Computed(Top.loop), {insert})
              /\ Computed(Top.loop) \in Val
  <2>1. Awaited(Top) = {} /\ IsLoop(Top) /\ Held(Top) = {Top.loop}
    BY <1>10, HeldBy
  <2>2. Top.loop \in 1 .. Len(blocks) /\ Cuts(blocks, Top.loop, {insert})
    BY <1>3, <2>1 DEF FrameHolds
  <2>3. Top.loop \in Nat /\ current \in Nat
    BY <1>10 DEF LoopFrame, TypeInv
  <2> QED
    BY <2>1, <2>2, <2>3, ComputedHere, Values
<1>11. ASSUME Top \in LoopFrame, NEW v \in Val, Known(current, blocks, v, {insert}),
              work' = ToEnd, blocks' = NextVar(v), ret' = Pending
       PROVE  ReachInv'
  <2>1. PICK frame : frame = [Top EXCEPT !.phase = "end", !.step = Computed(insert)]
    OBVIOUS
  <2>2. /\ frame \in LastFrame /\ frame.loop = Top.loop /\ frame.step = Computed(insert)
        /\ frame.kind = "for" /\ frame.phase = "end"
    BY <1>3, <1>11, <2>1 DEF LoopFrame, LastFrame
  <2>3. frame \in Frame /\ Held(frame) = Held(Top) /\ Awaited(frame) = {} /\ ~IsElse(frame)
    BY <1>11, <2>2, HeldBy DEF Frame
  <2>4. FrameHolds(current, blocks, frame, {insert})
    BY <1>3, <1>10, <1>11, <2>2, <2>3 DEF FrameHolds, Remembered
  <2>5. PICK vals : vals = {v, Computed(Top.loop)}
    OBVIOUS
  <2>6. vals \in SUBSET Val /\ \A u \in vals : Known(current, blocks, u, {insert})
    BY <1>10, <1>11, <2>5
  <2>7. work' = Become(frame) /\ blocks' = Use(blocks, vals)
    BY <1>11, <2>1, <2>5 DEF ToEnd, NextVar
  <2>8. RetHolds(current, blocks, insert, ret')
    BY <1>11 DEF RetHolds
  <2> QED
    BY <1>4, <1>10, <1>11, <2>3, <2>4, <2>6, <2>7, <2>8
<1>12. CASE ForBody
  <2>1. Top \in LoopFrame /\ ret' = Pending /\ Top.phase = "body"
    BY <1>1, <1>12, TopKnown DEF ForBody, Phase, Returned
  <2>2. CASE Top.step
    <3>1. PICK frame : frame = [Top EXCEPT !.phase = "step"]
      OBVIOUS
    <3>2. /\ frame \in LoopFrame /\ frame.loop = Top.loop
          /\ frame.kind = "for" /\ frame.phase = "step"
      BY <2>1, <3>1 DEF LoopFrame
    <3>3. frame \in Frame /\ Held(frame) = Held(Top) /\ Awaited(frame) = {} /\ ~IsElse(frame)
      BY <2>1, <3>2, HeldBy DEF Frame
    <3>4. FrameHolds(current, blocks, frame, {insert})
      BY <1>10, <2>1, <3>2, <3>3 DEF FrameHolds, Remembered
    <3>5. work' = Become(frame) /\ blocks' = blocks
      BY <1>12, <2>2, <3>1 DEF ForBody
    <3>6. RetHolds(current, blocks, insert, ret')
      BY <2>1 DEF RetHolds
    <3> QED
      BY <1>4, <1>10, <2>1, <3>3, <3>4, <3>5, <3>6
  <2>3. CASE ~Top.step
    BY <1>3, <1>11, <1>12, <2>1, <2>3 DEF ForBody
  <2> QED
    BY <2>2, <2>3
<1>13. CASE ForStep
  <2>1. Top \in LoopFrame /\ ret' = Pending /\ ret \in Val /\ ret # Pending
    BY <1>1, <1>3, <1>13, TopKnown DEF ForStep, Phase, Returned
  <2> QED
    BY <1>3, <1>11, <1>13, <2>1 DEF ForStep
<1>14. ~GiveUp
  BY DEF GiveUp
<1> QED
  BY <1>6, <1>7, <1>8, <1>9, <1>12, <1>13, <1>14 DEF Quiet

(* A variable means a loop's block or an argument, and both reach where it   *)
(* is used.                                                                  *)
LEMMA VisitReturns ==
  ASSUME TypeInv, GraphInv, EnvInv, ReachInv, Visit
  PROVE  RetHolds(current, blocks, insert, ret')
<1>1. work # <<>> /\ ret = Pending
  BY DEF Visit, Number, While, BeginBinary, BeginIf, Variable, BeginCall, BeginFor, Begin, Node,
         Evaluating
<1>2. ret' \in {Null, Pending, Const} \/ \E x \in Var : ret' = named[x]
  BY <1>1 DEF Visit, Number, While, BeginBinary, BeginIf, Variable, BeginCall, BeginFor, Begin, Node
<1>3. Known(current, blocks, Const, {insert})
  BY <1>1, TopHolds
<1>4. ASSUME NEW x \in Var, named[x] # Null PROVE Known(current, blocks, named[x], {insert})
  <2>1. named[x] = Shadow(work, Len(work), x) /\ Len(work) \in Nat
    BY DEF EnvInv, TypeInv
  <2>2. CASE Loops(work, Len(work), x) # {}
    <3>1. PICK k : k = Max(Loops(work, Len(work), x))
      OBVIOUS
    <3>2. k \in Loops(work, Len(work), x)
      <4>1. Loops(work, Len(work), x) \in SUBSET (1 .. Len(work))
        BY DEF Loops
      <4> QED
        BY <2>1, <2>2, <3>1, <4>1, MaxKnown
    <3>3. k \in 1 .. Len(work) /\ IsLoop(work[k])
      BY <3>2 DEF Loops
    <3>4. Cuts(blocks, work[k].loop, {insert} \cup Above(work, k))
      BY <3>3 DEF ReachInv, StackHolds, FrameHolds
    <3>5. work[k].loop \in 1 .. Len(blocks)
      BY <3>3 DEF TypeInv, Held
    <3>6. Cuts(blocks, work[k].loop, {insert})
      BY <3>4, CutsLess
    <3>7. named[x] = Computed(work[k].loop)
      BY <2>1, <2>2, <3>1 DEF Shadow
    <3> QED
      BY <3>5, <3>6, <3>7, ComputedHere
  <2>3. CASE Loops(work, Len(work), x) = {}
    <3>1. named[x] = WithArguments(NoNames, current, functions[current].args)[x]
      BY <2>1, <2>3 DEF Shadow
    <3>2. named[x] = Argument(current)
      BY <1>4, <3>1 DEF WithArguments, NoNames
    <3> QED
      BY <3>2 DEF Known, Argument
  <2> QED
    BY <2>2, <2>3
<1> QED
  BY <1>2, <1>3, <1>4 DEF RetHolds

(* Entering a node: a leaf returns its value, the rest push a frame.         *)
LEMMA VisitReach ==
  ASSUME NamesInv, TypeInv, GraphInv, EnvInv, ReachInv, Visit
  PROVE  ReachInv'
<1>1. /\ work # <<>> /\ UNCHANGED <<current, blocks, insert>>
      /\ \/ work' = work
         \/ \E frame \in BinaryFrame \cup CallFrame \cup CondFrame \cup StartFrame :
              /\ work' = Append(work, frame)
              /\ frame.kind \in {"binary", "call"} => frame.vals = <<>>
  BY VisitEffect
<1>2. RetHolds(current, blocks, insert, ret')
  BY VisitReturns
<1>3. PICK m \in Nat : m = Len(work)
  BY DEF TypeInv
<1>4. PICK w, bs : w = work' /\ bs = blocks
  OBVIOUS
<1>5. \A u : Len(u) = m => LastAwaits(u, m) = {}
  BY DEF LastAwaits
<1>6. CASE w = work
  <2>1. Replaces(w, m, insert, bs) /\ Len(w) # m + 1
    BY <1>3, <1>5, <1>6 DEF Replaces
  <2>2. {} \in SUBSET Val /\ \A v \in {} : Known(current, blocks, v, {insert})
    OBVIOUS
  <2>3. blocks' = bs /\ insert' = insert /\ work' = w /\ current' = current
    BY <1>1, <1>4
  <2> QED
    BY <1>1, <1>2, <1>4, <2>1, <2>2, <2>3, QuietStep
<1>7. ASSUME NEW frame \in BinaryFrame \cup CallFrame \cup CondFrame \cup StartFrame,
             w = Append(work, frame), frame.kind \in {"binary", "call"} => frame.vals = <<>>
      PROVE  ReachInv'
  <2>1. frame \in Frame /\ Held(frame) = {} /\ Awaited(frame) = {}
        /\ ~IsLoop(frame) /\ ~IsElse(frame)
    BY HeldBy DEF Frame
  <2>2. Remembered(frame) = {}
    <3>1. ASSUME frame.kind \in {"binary", "call"} PROVE DOMAIN frame.vals = {}
      BY <1>7, <3>1
    <3> QED
      BY <3>1 DEF Remembered, BinaryFrame, CallFrame, CondFrame, StartFrame
  <2>3. Len(w) = m + 1 /\ w[m + 1] = frame /\ \A k \in 1 .. m : w[k] = work[k]
    BY <1>3, <1>7, <2>1, StackSteps DEF TypeInv
  <2>4. LastAwaits(w, m) = {}
    BY <2>1, <2>3 DEF LastAwaits
  <2>5. Replaces(w, m, insert, bs)
    BY <1>3, <1>5, <2>3, <2>4 DEF Replaces
  <2>6. FrameHolds(current, blocks, w[m + 1], {insert})
    BY <2>1, <2>2, <2>3 DEF FrameHolds
  <2> QED
    BY <1>1, <1>2, <1>4, <2>1, <2>3, <2>5, <2>6, QuietStep
<1> QED
  BY <1>1, <1>4, <1>6, <1>7

(* The steps that jump.                                                      *)
LEMMA NewBlockUses ==
  \A a : NewBlock(a).uses = {} /\ NewBlock(a).phi = {} /\ NewBlock(a).ends = <<>>
BY DEF NewBlock

(* The frame on top, replaced.                                               *)
LEMMA Replaced ==
  ASSUME work \in Seq(Frame), work # <<>>, NEW frame \in Frame, NEW w, w = Become(frame),
         NEW m, m = Len(work)
  PROVE  Len(w) = m /\ w[m] = frame /\ \A k \in 1 .. m - 1 : w[k] = work[k]
BY StackSteps

(* One step each for the phases that make blocks or end some.                *)
LEMMA IfConditionReach ==
  ASSUME TypeInv, GraphInv, ReachInv, IfCondition
  PROVE  ReachInv'
<1>1. PICK n \in Nat : n = Len(blocks)
  BY DEF TypeInv
<1>2. PICK bs : bs = blocks'
  OBVIOUS
<1>3. /\ work # <<>> /\ Top \in CondFrame /\ ret \in Val /\ insert' = n + 1
      /\ ret' = Pending /\ current' = current
      /\ Len(bs) = n + 3 /\ Jumped({n + 1, n + 2}, {ret})
      /\ \A b \in 1 .. n : bs[b].attached = blocks[b].attached /\ bs[b].phi = blocks[b].phi
      /\ bs[n + 1] = NewBlock(TRUE) /\ bs[n + 2] = NewBlock(FALSE)
      /\ bs[n + 3] = NewBlock(FALSE)
  BY <1>1, <1>2, IfConditionEffect DEF Others
<1>4. PICK frame \in ThenFrame :
        frame.else = n + 2 /\ frame.merge = n + 3 /\ work' = Become(frame)
  BY <1>1, IfConditionEffect
<1>5. /\ \A b \in 1 .. n + 3 : b \notin 1 .. n => b \in {n + 1, n + 2, n + 3}
      /\ \A b \in {n + 1, n + 2, n + 3} : b \in 1 .. n + 3 /\ b \notin 1 .. n
  OBVIOUS
<1>6. \A b \in {n + 1, n + 2, n + 3} : bs[b].ends = <<>> /\ bs[b].uses = {} /\ bs[b].phi = {}
  BY <1>3, NewBlockUses
<1>7. Ends(bs, {n + 1, n + 2})
  <2>1. n + 3 \in Nat /\ n <= n + 3 /\ {n + 1, n + 2} \in SUBSET Nat
    OBVIOUS
  <2>2. \A b \in 1 .. n : bs[b].ends = IF b = insert THEN Append(blocks[b].ends, {n + 1, n + 2})
                                                     ELSE blocks[b].ends
    BY <1>1, <1>2, <1>3 DEF Jumped
  <2> QED
    BY <1>1, <1>3, <1>5, <1>6, <2>1, <2>2 DEF Ends
<1>8. Carries(bs)
  <2>1. \A t \in {n + 1, n + 2} : t \in 1 .. Len(bs) /\ bs[t].ends = <<>> /\ t \notin 1 .. n
    BY <1>3, <1>5, <1>6
  <2>2. Lands(bs, {n + 1, n + 2}, insert)
    BY <1>1, <2>1 DEF Lands
  <2>3. \A b \in 1 .. Len(blocks) : blocks[b].attached => bs[b].attached
    BY <1>1, <1>3
  <2> QED
    BY <1>7, <2>2, <2>3, CarriesJump
<1>9. /\ insert \in 1 .. n /\ Sound(current, blocks, ret, insert)
      /\ Len(work) \in 1 .. Len(work) /\ Top = work[Len(work)] /\ work \in Seq(Frame)
  BY <1>1, <1>3, TopHolds, TopBlocks, Values DEF TypeInv
<1>10. PICK m \in Nat : m = Len(work) /\ m - 1 \in Nat /\ m - 1 + 1 = m
  BY <1>9
<1>11. frame \in Frame /\ Awaited(frame) = {n + 2, n + 3} /\ ~IsElse(frame) /\ ~IsLoop(frame)
       /\ Remembered(frame) = {}
  BY <1>4, HeldBy DEF Frame, Remembered, ThenFrame
<1>12. PICK w : w = Become(frame)
  OBVIOUS
<1>13. Len(w) = m /\ w[m] = frame /\ \A k \in 1 .. m - 1 : w[k] = work[k]
  BY <1>3, <1>9, <1>10, <1>11, <1>12, Replaced
<1>14. Replaces(w, m - 1, n + 1, bs)
  <2>1. LastAwaits(w, m - 1) = {n + 2, n + 3}
    BY <1>10, <1>11, <1>13 DEF LastAwaits
  <2>2. {n + 1} \cup {n + 2, n + 3} \subseteq Fresh(bs)
    BY <1>1, <1>3, <1>5 DEF Fresh
  <2> QED
    BY <1>10, <1>13, <2>1, <2>2 DEF Replaces
<1>15. FrameHolds(current, bs, w[m], {n + 1})
  BY <1>11, <1>13 DEF FrameHolds
<1>16. RetHolds(current, bs, n + 1, ret')
  BY <1>3 DEF RetHolds
<1>17. \A b \in 1 .. Len(bs) :
         /\ \A v \in bs[b].uses : \/ b \in 1 .. Len(blocks) /\ v \in blocks[b].uses
                                  \/ Sound(current, blocks, v, b)
         /\ \A q \in bs[b].phi : \/ b \in 1 .. Len(blocks) /\ q \in blocks[b].phi
                                 \/ Sound(current, blocks, q.val, q.from)
  <2>1. \A b \in 1 .. n : /\ \A v \in bs[b].uses : v \in blocks[b].uses \/ (b = insert /\ v = ret)
                          /\ bs[b].phi = blocks[b].phi
    <3>1. \A b \in 1 .. n : bs[b].uses = IF b = insert THEN blocks[b].uses \cup {ret}
                                                      ELSE blocks[b].uses
      BY <1>1, <1>2, <1>3 DEF Jumped
    <3> QED
      BY <1>3, <3>1
  <2> QED
    BY <1>1, <1>3, <1>5, <1>6, <1>9, <2>1
<1> QED
  BY <1>2, <1>3, <1>4, <1>8, <1>10, <1>12, <1>14, <1>15, <1>16, <1>17, ReachStep

LEMMA IfThenReach ==
  ASSUME TypeInv, GraphInv, ReachInv, IfThen
  PROVE  ReachInv'
<1>1. PICK n \in Nat : n = Len(blocks)
  BY DEF TypeInv
<1>2. PICK bs, e, g : bs = blocks' /\ e = Top.else /\ g = Top.merge
  OBVIOUS
<1>3. /\ work # <<>> /\ Top \in ThenFrame /\ ret \in Val /\ insert' = e
      /\ ret' = Pending /\ current' = current /\ e \in 1 .. n /\ g \in 1 .. n
      /\ Len(bs) = n /\ Jumped({g}, {})
      /\ \A b \in 1 .. n : /\ bs[b].attached = (b = e \/ blocks[b].attached)
                           /\ bs[b].phi = blocks[b].phi
  BY <1>1, <1>2, IfThenEffect DEF Others
<1>4. PICK frame \in ElseFrame :
        /\ frame.merge = g /\ frame.incoming = [val |-> ret, from |-> insert]
        /\ work' = Become(frame)
  BY <1>2, IfThenEffect
<1>5. /\ insert \in 1 .. n /\ Sound(current, blocks, ret, insert)
      /\ Len(work) \in 1 .. Len(work) /\ Top = work[Len(work)] /\ work \in Seq(Frame)
      /\ FrameRight(blocks, Top) /\ insert \notin Awaited(Top)
  BY <1>1, <1>3, TopHolds, TopBlocks, Values DEF TypeInv
<1>6. Awaited(Top) = {e, g}
  BY <1>2, <1>3, HeldBy
<1>7. Untouched(blocks[g]) /\ g # insert
  BY <1>5, <1>6 DEF FrameRight
<1>8. \A b \in 1 .. n : /\ bs[b].ends = IF b = insert THEN Append(blocks[b].ends, {g})
                                                      ELSE blocks[b].ends
                        /\ bs[b].uses = IF b = insert THEN blocks[b].uses \cup {}
                                                      ELSE blocks[b].uses
  BY <1>1, <1>2, <1>3 DEF Jumped
<1>9. Ends(bs, {g})
  <2>1. {g} \in SUBSET Nat /\ n <= n
    BY <1>3
  <2> QED
    BY <1>1, <1>3, <1>8, <2>1 DEF Ends
<1>10. Carries(bs)
  <2>1. bs[g].ends = <<>> /\ ~blocks[g].attached /\ g \in 1 .. Len(bs)
    BY <1>3, <1>7, <1>8 DEF Untouched
  <2>2. Lands(bs, {g}, insert)
    BY <2>1 DEF Lands
  <2>3. \A b \in 1 .. Len(blocks) : blocks[b].attached => bs[b].attached
    BY <1>1, <1>3
  <2> QED
    BY <1>9, <2>2, <2>3, CarriesJump
<1>11. PICK m \in Nat : m = Len(work) /\ m - 1 \in Nat /\ m - 1 + 1 = m
  BY <1>5
<1>12. frame \in Frame /\ Awaited(frame) = {g} /\ IsElse(frame) /\ ~IsLoop(frame)
       /\ Remembered(frame) = {}
  BY <1>4, HeldBy DEF Frame, Remembered, ElseFrame
<1>13. PICK w : w = Become(frame)
  OBVIOUS
<1>14. Len(w) = m /\ w[m] = frame /\ \A k \in 1 .. m - 1 : w[k] = work[k]
  BY <1>3, <1>5, <1>11, <1>12, <1>13, Replaced
<1>15. Replaces(w, m - 1, e, bs)
  <2>1. LastAwaits(w, m - 1) = {g} /\ LastAwaits(work, m - 1) = {e, g}
    BY <1>5, <1>6, <1>11, <1>12, <1>14 DEF LastAwaits
  <2> QED
    BY <1>11, <1>14, <2>1 DEF Replaces
<1>16. FrameHolds(current, bs, w[m], {e})
  <2>1. Sound(current, bs, ret, insert)
    BY <1>5, <1>10, KnownCarried
  <2> QED
    BY <1>4, <1>12, <1>14, <2>1 DEF FrameHolds
<1>17. RetHolds(current, bs, e, ret')
  BY <1>3 DEF RetHolds
<1>18. \A b \in 1 .. Len(bs) :
         b \in 1 .. Len(blocks) /\ bs[b].uses = blocks[b].uses /\ bs[b].phi = blocks[b].phi
  BY <1>1, <1>3, <1>8
<1> QED
  BY <1>2, <1>3, <1>4, <1>10, <1>11, <1>13, <1>15, <1>16, <1>17, <1>18, ReachStep

LEMMA IfElseReach ==
  ASSUME TypeInv, GraphInv, ReachInv, IfElse
  PROVE  ReachInv'
<1>1. PICK n \in Nat : n = Len(blocks)
  BY DEF TypeInv
<1>2. PICK bs, g, q : bs = blocks' /\ g = Top.merge /\ q = [val |-> ret, from |-> insert]
  OBVIOUS
<1>3. /\ work # <<>> /\ Top \in ElseFrame /\ ret \in Val /\ insert' = g
      /\ ret' = Computed(g) /\ current' = current /\ g \in 1 .. n /\ work' = Pop
      /\ Len(bs) = n /\ Jumped({g}, {})
      /\ \A b \in 1 .. n : /\ bs[b].attached = (b = g \/ blocks[b].attached)
                           /\ bs[b].phi = IF b = g THEN {Top.incoming, q} ELSE blocks[b].phi
  BY <1>1, <1>2, IfElseEffect DEF Others
<1>5. /\ insert \in 1 .. n /\ Sound(current, blocks, ret, insert)
      /\ FrameHolds(current, blocks, Top, {insert})
      /\ Len(work) \in 1 .. Len(work) /\ Top = work[Len(work)] /\ work \in Seq(Frame)
      /\ FrameRight(blocks, Top) /\ insert \notin Awaited(Top)
  BY <1>1, <1>3, TopHolds, TopBlocks, Values DEF TypeInv
<1>6. Awaited(Top) = {g} /\ IsElse(Top)
  BY <1>2, <1>3, HeldBy
<1>7. Untouched(blocks[g]) /\ g # insert
  BY <1>5, <1>6 DEF FrameRight
<1>8. \A b \in 1 .. n : /\ bs[b].ends = IF b = insert THEN Append(blocks[b].ends, {g})
                                                      ELSE blocks[b].ends
                        /\ bs[b].uses = IF b = insert THEN blocks[b].uses \cup {}
                                                      ELSE blocks[b].uses
  BY <1>1, <1>2, <1>3 DEF Jumped
<1>9. Ends(bs, {g})
  <2>1. {g} \in SUBSET Nat /\ n <= n
    BY <1>3
  <2> QED
    BY <1>1, <1>3, <1>8, <2>1 DEF Ends
<1>10. Carries(bs)
  <2>1. bs[g].ends = <<>> /\ ~blocks[g].attached /\ g \in 1 .. Len(bs)
    BY <1>3, <1>7, <1>8 DEF Untouched
  <2>2. Lands(bs, {g}, insert)
    BY <2>1 DEF Lands
  <2>3. \A b \in 1 .. Len(blocks) : blocks[b].attached => bs[b].attached
    BY <1>1, <1>3
  <2> QED
    BY <1>9, <2>2, <2>3, CarriesJump
<1>11. PICK m \in Nat : m = Len(work) /\ m - 1 \in Nat /\ m - 1 + 1 = m
  BY <1>5
<1>12. PICK w : w = Pop
  OBVIOUS
<1>13. Len(w) = m - 1 /\ Len(w) # m - 1 + 1 /\ \A k \in 1 .. m - 1 : w[k] = work[k]
  BY <1>3, <1>5, <1>11, <1>12, StackSteps DEF Frame, BodyFrame
<1>14. Replaces(w, m - 1, g, bs)
  <2>1. LastAwaits(w, m - 1) = {} /\ LastAwaits(work, m - 1) = {g}
    BY <1>5, <1>6, <1>11, <1>13 DEF LastAwaits
  <2> QED
    BY <1>11, <1>13, <2>1 DEF Replaces
<1>15. RetHolds(current, bs, g, ret')
  <2>1. \A b \in 1 .. n : TargetsIn(bs, b) \subseteq 1 .. n
    <3>1. \A b \in 1 .. n : TargetsIn(blocks, b) \subseteq 1 .. n
      BY <1>1 DEF GraphInv, WellBuilt
    <3> QED
      BY <1>1, <1>3, <1>9, <3>1, EdgesAdded
  <2>2. 1 \in 1 .. n
    BY <1>3
  <2>3. \A a \in (1 .. n) \ {g} : TargetsIn(bs, a) \subseteq (1 .. n) \cup {g}
    BY <2>1
  <2>4. Cuts(bs, g, {g})
    BY <1>3, <2>2, <2>3, CutsItself
  <2>5. g \in 1 .. Len(bs)
    BY <1>3
  <2> QED
    BY <1>3, <2>4, <2>5 DEF RetHolds, Known, Computed
<1>16. \A b \in 1 .. Len(bs) :
         /\ b \in 1 .. Len(blocks) /\ bs[b].uses = blocks[b].uses
         /\ \A r \in bs[b].phi : r \in blocks[b].phi \/ Sound(current, blocks, r.val, r.from)
  <2>1. Sound(current, blocks, Top.incoming.val, Top.incoming.from)
    BY <1>5, <1>6 DEF FrameHolds
  <2>2. q.val = ret /\ q.from = insert
    BY <1>2
  <2> QED
    BY <1>1, <1>3, <1>5, <1>8, <2>1, <2>2
<1> QED
  BY <1>2, <1>3, <1>10, <1>12, <1>13, <1>14, <1>15, <1>16, ReachStep

LEMMA ForStartReach ==
  ASSUME TypeInv, GraphInv, ReachInv, ForStart
  PROVE  ReachInv'
<1>1. PICK n \in Nat : n = Len(blocks)
  BY DEF TypeInv
<1>2. PICK bs, q : bs = blocks' /\ q = [val |-> ret, from |-> insert]
  OBVIOUS
<1>a. PICK h \in Nat : h = n + 1
  OBVIOUS
<1>3. /\ work # <<>> /\ Top \in StartFrame /\ ret \in Val /\ insert' = h
      /\ ret' = Pending /\ current' = current
      /\ Len(bs) = n + 1 /\ Jumped({h}, {})
      /\ \A b \in 1 .. n : bs[b].attached = blocks[b].attached /\ bs[b].phi = blocks[b].phi
      /\ bs[h].phi = {q} /\ bs[h].ends = <<>> /\ bs[h].uses = {}
  BY <1>1, <1>2, <1>a, ForStartEffect DEF Others
<1>4. PICK frame \in LoopFrame : frame.loop = h /\ work' = Become(frame)
  BY <1>1, <1>a, ForStartEffect
<1>5. /\ insert \in 1 .. n /\ Sound(current, blocks, ret, insert)
      /\ Len(work) \in 1 .. Len(work) /\ Top = work[Len(work)] /\ work \in Seq(Frame)
  BY <1>1, <1>3, TopHolds, TopBlocks, Values DEF TypeInv
<1>6. /\ \A b \in 1 .. n + 1 : b \in 1 .. n \/ b = h
      /\ h \in 1 .. n + 1 /\ h \notin 1 .. n /\ n <= n + 1 /\ n + 1 \in Nat
      /\ \A b \in 1 .. n : b \in 1 .. n + 1
  BY <1>a
<1>7. \A b \in 1 .. n : /\ bs[b].ends = IF b = insert THEN Append(blocks[b].ends, {h})
                                                      ELSE blocks[b].ends
                        /\ bs[b].uses = IF b = insert THEN blocks[b].uses \cup {}
                                                      ELSE blocks[b].uses
  BY <1>1, <1>2, <1>3 DEF Jumped
<1>8. Ends(bs, {h})
  <2>1. {h} \in SUBSET Nat
    OBVIOUS
  <2> QED
    BY <1>1, <1>3, <1>6, <1>7, <2>1 DEF Ends
<1>9. Carries(bs)
  <2>1. Lands(bs, {h}, insert)
    BY <1>1, <1>3, <1>6 DEF Lands
  <2>2. \A b \in 1 .. Len(blocks) : blocks[b].attached => bs[b].attached
    BY <1>1, <1>3
  <2> QED
    BY <1>8, <2>1, <2>2, CarriesJump
<1>10. PICK m \in Nat : m = Len(work) /\ m - 1 \in Nat /\ m - 1 + 1 = m
  BY <1>5
<1>11. frame \in Frame /\ Awaited(frame) = {} /\ ~IsElse(frame) /\ Remembered(frame) = {}
  BY <1>4, HeldBy DEF Frame, Remembered, LoopFrame
<1>12. PICK w : w = Become(frame)
  OBVIOUS
<1>13. Len(w) = m /\ w[m] = frame /\ \A k \in 1 .. m - 1 : w[k] = work[k]
  BY <1>3, <1>5, <1>10, <1>11, <1>12, Replaced
<1>14. Replaces(w, m - 1, h, bs)
  <2>1. LastAwaits(w, m - 1) = {} /\ h \in Fresh(bs)
    BY <1>1, <1>3, <1>6, <1>10, <1>11, <1>13 DEF LastAwaits, Fresh
  <2> QED
    BY <1>10, <1>13, <2>1 DEF Replaces
<1>15. Cuts(bs, h, {h})
  <2>1. \A b \in 1 .. n : TargetsIn(blocks, b) \subseteq 1 .. n
    BY <1>1 DEF GraphInv, WellBuilt
  <2>2. \A b \in 1 .. n : TargetsIn(bs, b) \subseteq (1 .. n) \cup {h}
    BY <1>1, <1>8, <2>1, EdgesAdded
  <2>3. 1 \in 1 .. n /\ 1 .. n \in SUBSET (1 .. n + 1)
    BY <1>5, <1>6
  <2> QED
    BY <1>3, <1>6, <2>2, <2>3, CutsItself
<1>16. FrameHolds(current, bs, w[m], {h})
  BY <1>4, <1>11, <1>13, <1>15 DEF FrameHolds
<1>17. RetHolds(current, bs, h, ret')
  BY <1>3 DEF RetHolds
<1>18. \A b \in 1 .. Len(bs) :
         /\ \A v \in bs[b].uses : \/ b \in 1 .. Len(blocks) /\ v \in blocks[b].uses
                                  \/ Sound(current, blocks, v, b)
         /\ \A r \in bs[b].phi : \/ b \in 1 .. Len(blocks) /\ r \in blocks[b].phi
                                 \/ Sound(current, blocks, r.val, r.from)
  <2>1. q.val = ret /\ q.from = insert
    BY <1>2
  <2> QED
    BY <1>1, <1>3, <1>5, <1>6, <1>7, <2>1
<1> QED
  BY <1>2, <1>3, <1>4, <1>9, <1>10, <1>12, <1>14, <1>16, <1>17, <1>18, ReachStep

LEMMA ForEndReach ==
  ASSUME TypeInv, GraphInv, ReachInv, ForEnd
  PROVE  ReachInv'
<1>1. PICK n \in Nat : n = Len(blocks)
  BY DEF TypeInv
<1>2. PICK bs, l, q : /\ bs = blocks' /\ l = Top.loop
                      /\ q = [val |-> Top.step, from |-> insert]
  OBVIOUS
<1>a. PICK h \in Nat : h = n + 1
  OBVIOUS
<1>3. /\ work # <<>> /\ Top \in LastFrame /\ ret \in Val /\ insert' = h /\ l \in 1 .. n
      /\ ret' = Const /\ current' = current /\ work' = Pop
      /\ Len(bs) = n + 1 /\ Jumped({l, h}, {ret})
      /\ \A b \in 1 .. n : /\ bs[b].attached = blocks[b].attached
                           /\ bs[b].phi = IF b = l THEN blocks[b].phi \cup {q}
                                                   ELSE blocks[b].phi
      /\ bs[h] = NewBlock(TRUE)
  BY <1>1, <1>2, <1>a, ForEndEffect DEF Others
<1>4. bs[h].phi = {} /\ bs[h].ends = <<>> /\ bs[h].uses = {}
  BY <1>3, NewBlockUses
<1>5. /\ insert \in 1 .. n /\ Sound(current, blocks, ret, insert)
      /\ FrameHolds(current, blocks, Top, {insert})
      /\ \A v : Known(current, blocks, v, {insert}) <=> Sound(current, blocks, v, insert)
      /\ Len(work) \in 1 .. Len(work) /\ Top = work[Len(work)] /\ work \in Seq(Frame)
  BY <1>1, <1>3, TopHolds, TopBlocks, Values DEF TypeInv
<1>6. /\ \A b \in 1 .. n + 1 : b \in 1 .. n \/ b = h
      /\ h \in 1 .. n + 1 /\ h \notin 1 .. n /\ n <= n + 1 /\ n + 1 \in Nat
      /\ \A b \in 1 .. n : b \in 1 .. n + 1
  BY <1>a
<1>7. \A b \in 1 .. n : /\ bs[b].ends = IF b = insert THEN Append(blocks[b].ends, {l, h})
                                                      ELSE blocks[b].ends
                        /\ bs[b].uses = IF b = insert THEN blocks[b].uses \cup {ret}
                                                      ELSE blocks[b].uses
  BY <1>1, <1>2, <1>3 DEF Jumped
<1>8. Ends(bs, {l, h})
  <2>1. {l, h} \in SUBSET Nat
    BY <1>3
  <2> QED
    BY <1>1, <1>3, <1>4, <1>6, <1>7, <2>1 DEF Ends
<1>9. /\ IsLoop(Top) /\ Awaited(Top) = {} /\ Top.step \in Remembered(Top)
  BY <1>3, HeldBy DEF Remembered, LastFrame
<1>10. Cuts(blocks, l, {insert}) /\ Sound(current, blocks, Top.step, insert)
  BY <1>2, <1>5, <1>9 DEF FrameHolds
<1>11. Carries(bs)
  <2>1. h \in 1 .. Len(bs) /\ h \notin 1 .. n /\ bs[h].ends = <<>> /\ l \in 1 .. Len(bs)
    BY <1>3, <1>4, <1>6
  <2>2. \A b \in 1 .. Len(blocks) : blocks[b].attached => bs[b].attached
    BY <1>1, <1>3
  <2>3. Lands(bs, {l, h}, l)
    BY <1>1, <1>3, <1>10, <2>1 DEF Lands
  <2> QED
    BY <1>8, <2>2, <2>3, CarriesJump
<1>12. PICK m \in Nat : m = Len(work) /\ m - 1 \in Nat /\ m - 1 + 1 = m
  BY <1>5
<1>13. PICK w : w = Pop
  OBVIOUS
<1>14. Len(w) = m - 1 /\ Len(w) # m - 1 + 1 /\ \A k \in 1 .. m - 1 : w[k] = work[k]
  BY <1>3, <1>5, <1>12, <1>13, StackSteps DEF Frame, BodyFrame
<1>15. Replaces(w, m - 1, h, bs)
  <2>1. LastAwaits(w, m - 1) = {} /\ h \in Fresh(bs)
    BY <1>1, <1>3, <1>6, <1>12, <1>14 DEF LastAwaits, Fresh
  <2> QED
    BY <1>12, <1>14, <2>1 DEF Replaces
<1>16. RetHolds(current, bs, h, ret')
  BY <1>3 DEF RetHolds, Known, Const
<1>17. \A b \in 1 .. Len(bs) :
         /\ \A v \in bs[b].uses : \/ b \in 1 .. Len(blocks) /\ v \in blocks[b].uses
                                  \/ Sound(current, blocks, v, b)
         /\ \A r \in bs[b].phi : \/ b \in 1 .. Len(blocks) /\ r \in blocks[b].phi
                                 \/ Sound(current, blocks, r.val, r.from)
  <2>1. q.val = Top.step /\ q.from = insert
    BY <1>2
  <2>2. \A b \in 1 .. n : /\ \A v \in bs[b].uses : v \in blocks[b].uses \/ (b = insert /\ v = ret)
                          /\ \A r \in bs[b].phi : r \in blocks[b].phi \/ r = q
    BY <1>3, <1>7
  <2>3. \A b \in 1 .. Len(bs) : b \in 1 .. n \/ (bs[b].uses = {} /\ bs[b].phi = {})
    BY <1>3, <1>4, <1>6
  <2> QED
    BY <1>1, <1>5, <1>10, <2>1, <2>2, <2>3
<1> QED
  BY <1>2, <1>3, <1>11, <1>13, <1>14, <1>15, <1>16, <1>17, ReachStep

(* The return value is one more use, in the block the body ends in.          *)
LEMMA EndFunctionUses ==
  ASSUME TypeInv, NullInv, EndFunction, ret = Null \/ (GraphInv /\ ReachInv)
  PROVE  UsesSound(current, blocks)'
<1>1. CASE ret = Null
  <2>1. blocks' = <<>>
    BY <1>1, EndFunctionEffect, Values
  <2>2. \A f : UsesSound(f, <<>>)
    BY DEF UsesSound
  <2> QED
    BY <2>1, <2>2
<1>2. CASE ret # Null /\ GraphInv /\ ReachInv
  <2>1. PICK n \in Nat : n = Len(blocks)
    BY DEF TypeInv
  <2>2. PICK bs : bs = blocks'
    OBVIOUS
  <2>3. /\ work # <<>> /\ ret \in Val /\ bs = Jump(Use(blocks, {ret}), {}) /\ current' = current
    BY <1>2, <2>2, EndFunctionEffect
  <2>4. /\ Len(bs) = n
        /\ \A b \in 1 .. n :
             /\ bs[b].attached = blocks[b].attached /\ bs[b].phi = blocks[b].phi
             /\ bs[b].ends = IF b = insert THEN Append(blocks[b].ends, {}) ELSE blocks[b].ends
             /\ bs[b].uses = IF b = insert THEN blocks[b].uses \cup {ret} ELSE blocks[b].uses
    <3>1. {} \in SUBSET Nat /\ {ret} \in SUBSET Val
      BY <2>3
    <3> QED
      BY <2>1, <2>3, <3>1, JumpUse
  <2>5. Ends(bs, {})
    <3>1. {} \in SUBSET Nat /\ n <= n
      OBVIOUS
    <3>2. \A b \in 1 .. n : bs[b].ends = IF b = insert THEN Append(blocks[b].ends, {})
                                                       ELSE blocks[b].ends
      BY <2>4
    <3>3. Len(bs) = n
      BY <2>4
    <3> QED
      BY <2>1, <3>1, <3>2, <3>3 DEF Ends
  <2>6. Carries(bs)
    <3>1. \A b \in 1 .. Len(blocks) : blocks[b].attached => bs[b].attached
      BY <2>1, <2>4
    <3>2. Lands(bs, {}, insert)
      BY DEF Lands
    <3> QED
      BY <1>2, <2>5, <3>1, <3>2, CarriesJump
  <2>7. Sound(current, blocks, ret, insert)
    BY <1>2, <2>3, TopHolds, Values
  <2>8. \A b \in 1 .. Len(bs) :
          /\ \A v \in bs[b].uses : v \in blocks[b].uses \/ Sound(current, blocks, v, b)
          /\ bs[b].phi = blocks[b].phi /\ b \in 1 .. Len(blocks)
    BY <2>1, <2>4, <2>7
  <2>9. \A f : f = current => UsesSound(f, bs)
    BY <1>2, <2>6, <2>8, UsesHeld DEF ReachInv
  <2> QED
    BY <2>2, <2>3, <2>9
<1> QED
  BY <1>1, <1>2

(* The first block of a body: nothing is used yet.                           *)
LEMMA BodyReach ==
  ASSUME NamesInv, TypeInv, NullInv, NEW n \in Name, NEW args \in Seq(Var),
         BeginFunction(n, args), work' # <<>>
  PROVE  ReachInv'
<1>1. /\ blocks' = <<NewBlock(TRUE)>> /\ insert' = 1 /\ work' = <<[kind |-> "body"]>>
      /\ ret' = Pending
  BY BeginFunctionEffect DEF NullInv
<1> DEFINE F == [kind |-> "body"]
           B == NewBlock(TRUE)
<1>2. B.uses = {} /\ B.phi = {}
  BY NewBlockUses
<1>3. Remembered(F) = {} /\ ~IsLoop(F) /\ ~IsElse(F)
  BY DEF Remembered, IsLoop, IsElse
<1> HIDE DEF B, F
<1>4. PICK bs, w : bs = <<B>> /\ w = <<F>>
  OBVIOUS
<1>5. Len(bs) = 1 /\ bs[1] = B /\ Len(w) = 1 /\ w[1] = F /\ \A k \in 1 .. 1 : k = 1
  BY <1>4
<1>6. \A f : UsesSound(f, bs) /\ StackHolds(f, bs, 1, w) /\ RetHolds(f, bs, 1, Pending)
  BY <1>2, <1>3, <1>5 DEF UsesSound, StackHolds, FrameHolds, RetHolds
<1> QED
  BY <1>1, <1>4, <1>6 DEF ReachInv, F, B

(* While nothing has failed, and in the function generated last.             *)
DomInv == /\ work # <<>> /\ ~failed => ReachInv
          /\ work = <<>> => UsesSound(current, blocks)

(* Every step keeps it.                                                      *)
LEMMA DomInvNext ==
  ASSUME NamesInv, TypeInv, NullInv, work # <<>> /\ ~failed => EnvInv /\ GraphInv,
         DomInv, [Next]_vars
  PROVE  DomInv'
<1>1. ASSUME work # <<>>, work' # <<>>, ~failed => ReachInv' \/ failed' PROVE DomInv'
  <2>1. CASE failed
    <3>1. failed' = failed
      BY <1>1, <2>1 DEF Next, Handler, HandleExtern, HandleDefinition, HandleTopLevelExpression,
                BeginFunction, AtTop, MainLoopReturns, Visit, Stopped, vars, Number, While,
                BeginBinary, BeginIf, Variable, BeginCall, BeginFor, Begin, Node, Resume, GiveUp,
                BinaryLeft, BinaryRight, CallArgument, EndCall, IfCondition, IfThen, IfElse,
                ForStart, ForBody, ForStep, ForEnd, EndFunction, Phase, Returned
    <3> QED
      BY <1>1, <2>1, <3>1 DEF DomInv
  <2>2. CASE ~failed
    BY <1>1, <2>2 DEF DomInv
  <2> QED
    BY <2>1, <2>2
<1>2. ASSUME work # <<>>, ~failed PROVE ReachInv /\ GraphInv /\ EnvInv
  BY <1>2 DEF DomInv
<1>3. CASE Visit
  <2>1. work # <<>> /\ work' # <<>>
    <3>1. \/ work' = work /\ work # <<>>
          \/ work # <<>> /\ \E frame \in Frame : work' = Append(work, frame)
      BY <1>3, VisitEffect DEF Frame
    <3> QED
      BY <3>1, StackSteps DEF TypeInv
  <2> QED
    BY <1>1, <1>2, <1>3, <2>1, VisitReach
<1>4. CASE Resume /\ ~EndFunction
  <2>1. work # <<>> /\ Top.kind # "body"
    BY <1>4 DEF Resume, GiveUp, BinaryLeft, BinaryRight, CallArgument, EndCall,
                IfCondition, IfThen, IfElse, ForStart, ForBody, ForStep, ForEnd, Phase,
                Returned
  <2>2. work' # <<>>
    <3>1. Pop # <<>> /\ Pop \in Seq(Frame)
      BY <2>1, AtTheTop, StackSteps DEF TypeInv, Frame, BodyFrame
    <3>2. \A frame : Become(frame) # <<>>
      BY <3>1 DEF Become
    <3>3. work' = Pop \/ \E frame : work' = Become(frame)
      BY <1>4 DEF Resume, GiveUp, BinaryLeft, BinaryRight, CallArgument, EndCall,
                  IfCondition, IfThen, IfElse, ForStart, ForBody, ForStep, ForEnd, ToEnd
    <3> QED
      BY <3>1, <3>2, <3>3
  <2>3. ~failed => ret # Null
    BY <2>1 DEF NullInv
  <2> QED
    BY <1>1, <1>2, <1>4, <2>1, <2>2, <2>3, QuietReach, IfConditionReach, IfThenReach,
       IfElseReach, ForStartReach, ForEndReach DEF Resume, Quiet
<1>5. CASE EndFunction
  <2>1. work' = <<>>
    BY <1>5, EndFunctionEffect
  <2>2. UsesSound(current, blocks)'
    BY <1>2, <1>5, KeptUnspoilt, EndFunctionUses
  <2> QED
    BY <2>1, <2>2 DEF DomInv
<1>6. ASSUME UNCHANGED <<current, blocks, insert, work, ret, failed>> PROVE DomInv'
  BY <1>6 DEF DomInv, ReachInv
<1>7. ASSUME NEW n \in Name, NEW args \in Seq(Var), BeginFunction(n, args) PROVE DomInv'
  <2>1. \/ work' = <<[kind |-> "body"]>> /\ work' # <<>>
        \/ UNCHANGED <<current, blocks, insert, work, ret, failed>>
    <3>1. ret' = ret
      BY <1>7, BeginFunctionEffect
    <3>2. \/ work' = <<[kind |-> "body"]>>
          \/ UNCHANGED <<current, blocks, insert, work, failed>>
      BY <1>7, BeginFunctionEffect
    <3>3. <<[kind |-> "body"]>> # <<>>
      OBVIOUS
    <3>4. CASE work' = <<[kind |-> "body"]>>
      BY <3>3, <3>4
    <3>5. CASE UNCHANGED <<current, blocks, insert, work, failed>>
      BY <3>1, <3>5
    <3> QED
      BY <3>2, <3>4, <3>5
  <2> QED
    BY <1>6, <1>7, <2>1, BodyReach DEF DomInv
<1>8. CASE Handler \/ Stopped \/ UNCHANGED vars
  <2>0. Anonymous \in Name /\ FnName \subseteq Name /\ <<>> \in Seq(Var)
        /\ \A args \in ArgLists : args \in Seq(Var)
    BY KaleidoscopeAssumption DEF Name
  <2>1. ASSUME NEW n \in FnName, NEW args \in ArgLists, HandleExtern(n, args) PROVE DomInv'
    BY <1>6, <2>1 DEF HandleExtern
  <2>2. MainLoopReturns \/ Stopped \/ UNCHANGED vars => DomInv'
    BY <1>6 DEF MainLoopReturns, Stopped, vars
  <2> QED
    BY <1>7, <1>8, <2>0, <2>1, <2>2 DEF Handler, HandleDefinition, HandleTopLevelExpression
<1> QED
  BY <1>3, <1>4, <1>5, <1>8 DEF Next

(* What a cut says of the blocks that can be reached.                        *)
LEMMA CutDominates ==
  ASSUME blocks \in Seq(BlockType), NEW d, NEW b, Cuts(blocks, d, {b})
  PROVE  Dominates(d, b)
<1> DEFINE Step(R) == R \cup ((UNION {Targets(a) : a \in R}) \ {d})
           Body(g) == [n \in Nat |-> IF n = 0 THEN {1} \ {d} ELSE Step(g[n - 1])]
           W == CHOOSE g : g = Body(g)
<1>1. PICK C \in SUBSET (1 .. Len(blocks)) :
        /\ 1 \in C \cup {d} /\ d \notin C /\ C \cap {b} = {}
        /\ \A a \in C : TargetsIn(blocks, a) \subseteq C \cup {d}
  BY DEF Cuts
<1>2. \A a : Targets(a) = TargetsIn(blocks, a)
  BY DEF Targets, TargetsIn
<1>3. {1} \ {d} \in SUBSET C
  BY <1>1
<1>4. \A R \in SUBSET C : Step(R) \in SUBSET C
  <2>1. ASSUME NEW R \in SUBSET C, NEW t \in Step(R) PROVE t \in C
    <3>1. CASE t \notin R
      <4>1. t \in UNION {Targets(a) : a \in R} /\ t # d
        BY <2>1, <3>1
      <4>2. PICK a \in R : t \in Targets(a)
        BY <4>1
      <4> QED
        BY <1>1, <1>2, <4>1, <4>2
    <3> QED
      BY <3>1
  <2> HIDE DEF Step
  <2> QED
    BY <2>1
<1> HIDE DEF Step
<1> DEFINE T == [n \in Nat |-> [R \in SUBSET C |-> Step(R)]]
<1>5. T \in [Nat -> [SUBSET C -> SUBSET C]] /\ \A n \in Nat, R \in SUBSET C : T[n][R] = Step(R)
  BY <1>4
<1> HIDE DEF T
<1>6. PICK F \in [Nat -> SUBSET C] : F[0] = {1} \ {d} /\ \A n \in Nat \ {0} : F[n] = T[n][F[n - 1]]
  <2> DEFINE P(S, s, f) == \E g \in [Nat -> S] :
               g[0] = s /\ \A i \in Nat \ {0} : g[i] = f[i][g[i - 1]]
  <2>1. \A S : \A s \in S : \A f \in [Nat -> [S -> S]] : P(S, s, f)
    BY RecursionExists
  <2> HIDE DEF P
  <2>2. P(SUBSET C, {1} \ {d}, T)
    BY <1>3, <1>5, <2>1
  <2> QED
    BY <2>2 DEF P
<1>7. F = Body(F)
  <2>1. \A n \in Nat : F[n] = IF n = 0 THEN {1} \ {d} ELSE Step(F[n - 1])
    BY <1>5, <1>6
  <2> QED
    BY <1>6, <2>1
<1> HIDE DEF Body
<1>8. W = Body(W)
  BY <1>7
<1>9. ReachableWithout(d) = W[Len(blocks)]
  BY DEF ReachableWithout, W, Body, Step
<1> HIDE DEF W
<1>10. \A n \in Nat : W[n] = IF n = 0 THEN {1} \ {d} ELSE Step(W[n - 1])
  BY <1>8 DEF Body
<1>11. \A n \in Nat : W[n] \in SUBSET C
  <2> DEFINE Bad == {n \in Nat : W[n] \notin SUBSET C}
  <2>1. SUFFICES ASSUME Bad # {} PROVE FALSE
    OBVIOUS
  <2>2. PICK n \in Bad : \A k \in Bad : n <= k
    BY <2>1, SmallestExists
  <2>3. n \in Nat /\ n # 0 /\ n - 1 \in Nat /\ ~(n <= n - 1)
    BY <1>3, <1>10, <2>2
  <2>4. W[n - 1] \in SUBSET C
    BY <2>2, <2>3
  <2> QED
    BY <1>4, <1>10, <2>2, <2>3, <2>4
<1>12. b \notin ReachableWithout(d)
  <2>1. Len(blocks) \in Nat
    OBVIOUS
  <2> QED
    BY <1>1, <1>9, <1>11, <2>1
<1> QED
  BY <1>12 DEF Dominates

(* No function the code generator hands over uses a value where it may not   *)
(* have been computed, nor one of another function: not the loop variable    *)
(* behind its loop, not one branch's value in the other, whatever was        *)
(* defined under the same names before.                                      *)
THEOREM ValuesAreInReach == Spec => []UsesDominated
<1> DEFINE Inv == /\ NamesInv /\ TypeInv /\ NullInv /\ DomInv
                  /\ work # <<>> /\ ~failed => EnvInv
                  /\ work # <<>> /\ ~failed => GraphInv
<1>1. Init => Inv
  <2>1. Init => work = <<>> /\ blocks = <<>>
    BY DEF Init
  <2>2. \A f : UsesSound(f, <<>>)
    BY DEF UsesSound
  <2> QED
    BY <2>1, <2>2, NamesInvInit, TypeInvInit, NullInvInit DEF DomInv
<1>2. Inv /\ [Next]_vars => Inv'
  <2> SUFFICES ASSUME Inv, [Next]_vars PROVE Inv'
    OBVIOUS
  <2>1. NamesInv' /\ TypeInv' /\ NullInv'
    BY NamesInvNext, TypeInvNext, NullInvNext
  <2>2. (work # <<>> /\ ~failed => EnvInv)' /\ (work # <<>> /\ ~failed => GraphInv)'
    BY EnvInvNext, GraphInvNext
  <2>3. DomInv'
    BY DomInvNext
  <2> QED
    BY <2>1, <2>2, <2>3
<1>3. Inv => UsesDominated
  <2> SUFFICES ASSUME Inv, Finished PROVE UsesDominated
    BY DEF UsesDominated
  <2>1. UsesSound(current, blocks) /\ blocks \in Seq(BlockType) /\ Block = 1 .. Len(blocks)
    BY DEF DomInv, Finished, TypeInv, Block
  <2>2. \A v, b : Sound(current, blocks, v, b) => UsableAt(v, b)
    BY <2>1, CutDominates DEF Sound, Known, UsableAt
  <2>3. ASSUME NEW b \in Block, NEW v \in blocks[b].uses PROVE v # Null
    <3>1. blocks[b] \in BlockType
      BY <2>1
    <3>2. v \in Val
      BY <3>1 DEF BlockType
    <3> QED
      BY <3>2, Values
  <2> QED
    BY <2>1, <2>2, <2>3 DEF UsesSound, UsesDominated
<1> QED
  BY <1>1, <1>2, <1>3, PTL DEF Spec
=============================================================================
